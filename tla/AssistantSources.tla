-------------------------- MODULE AssistantSources --------------------------
(***************************************************************************)
(* What the assistant is told of the vehicle and of the tracks             *)
(* (meshsa.llm.sources and tools): what a server answers is read from any  *)
(* of the fields it may be under, and put into words.                      *)
(*                                                                         *)
(* A value in an answer is missing, null, a boolean, a number, a blank or  *)
(* a text that is no number.  Words are named for what they say; scales    *)
(* are left out.                                                           *)
(***************************************************************************)
EXTENDS Integers, Sequences, FiniteSets, SequencesExt

CONSTANT MaxRows   \* bound on the rows of an answer

ConstantsOK == MaxRows \in Nat

VARIABLE saQuery   \* a tool that is called, and what the server answers

Missing == [kind |-> "missing"]
Null == [kind |-> "null"]
Number(n) == [kind |-> "number", n |-> n]
Blank == [kind |-> "blank"]
Text == [kind |-> "text"]
Values == {Missing, Null, [kind |-> "bool"], Number(0), Number(7), Blank, Text}

\* 65535 in hdg says that the heading is not known.
Headings == {Missing, Null, Number(0), Number(9000), Number(65535)}

\* A row that is an object has an identifier, perhaps under another name, and a position, the
\* latitude perhaps under another name.
Rows ==
    [object : {TRUE}, uid : {Missing, Blank, Number(0)}, id : {Missing, Text},
     lat : {Missing, Null, Number(0)}, latitude : {Missing, Number(7)}, lon : {Missing, Number(0)}]
    \cup [object : {FALSE}]

Servers == {"ok", "unreachable", "broken"}
Queries ==
    [tool : {"get_drone_state"}, server : Servers, lat : Values, lon : {Missing, Number(0)},
     hdg : Headings]
    \cup [tool : {"list_tracks"}, server : {"ok"}, rows : SeqOf(Rows, MaxRows),
          shape : {"list", "wrapped", "neither"}]
    \cup [tool : {"list_tracks"}, server : {"unreachable", "broken"}, rows : {<<>>},
          shape : {"list"}]
    \cup [tool : {"arm"}]

Init == saQuery \in Queries

-----------------------------------------------------------------------------
(* sources.py *)

\* _as_float: what is read of a value; nothing of what is no number, a boolean included.
AsFloat(v) == IF v.kind = "number" THEN {v.n} ELSE {}

\* _first_present: the first of the aliases that is there, be it zero.
Present(v) == v.kind \notin {"missing", "null"}
FirstPresent(aliases) ==
    LET there == SelectSeq(aliases, Present) IN IF there = <<>> THEN Null ELSE Head(there)

\* parse_global_position_int
DroneState(q) ==
    [link |-> TRUE, lat |-> AsFloat(q.lat), lon |-> AsFloat(q.lon),
     heading |-> AsFloat(q.hdg) \ {65535}]

\* parse_fts_tracks: the rows that have an identifier.
Uid(row) == FirstPresent(<<row.uid, row.id>>)
Identified(row) == row.object /\ Present(Uid(row)) /\ Uid(row) # Blank
Track(row) ==
    [uid |-> Uid(row), lat |-> AsFloat(FirstPresent(<<row.lat, row.latitude>>)),
     lon |-> AsFloat(row.lon)]
Tracks(q) ==
    IF q.shape = "neither" THEN <<>>
    ELSE LET rows == SelectSeq(q.rows, Identified)
         IN  [i \in DOMAIN rows |-> Track(rows[i])]

\* Mavlink2RestSource and FtsTrackSource: a server that cannot be reached has no data, what
\* else goes wrong is raised.
ReadState(q) ==
    IF q.server = "unreachable" THEN [link |-> FALSE, lat |-> {}, lon |-> {}, heading |-> {}]
    ELSE DroneState(q)
ReadTracks(q) == IF q.server = "unreachable" THEN <<>> ELSE Tracks(q)

-----------------------------------------------------------------------------
(* tools.py *)

\* format_drone_state: what it speaks of.
DroneWords(state) ==
    IF ~state.link THEN {"link_down"}
    ELSE LET parts == {p \in {"position", "heading"} :
                          CASE p = "position" -> state.lat # {} /\ state.lon # {}
                            [] p = "heading" -> state.heading # {}}
         IN  IF parts = {} THEN {"nothing_yet"} ELSE parts

\* format_tracks: a line for each, with its position if it has one.
TrackWords(tracks) ==
    IF tracks = <<>> THEN <<"no_tracks">>
    ELSE [i \in DOMAIN tracks |->
            [of |-> tracks[i].uid, at |-> IF tracks[i].lon = {} THEN {} ELSE tracks[i].lat]]

\* ToolDispatcher.dispatch: what it says and whether it is an error, or "raises".
Dispatch(q) ==
    CASE q.tool \notin {"get_drone_state", "list_tracks"} -> [words |-> {}, error |-> TRUE]
      [] q.tool = "get_drone_state" /\ q.server # "broken" ->
            [words |-> DroneWords(ReadState(q)), error |-> FALSE]
      [] q.tool = "list_tracks" /\ q.server # "broken" ->
            [words |-> TrackWords(ReadTracks(q)), error |-> FALSE]
      [] OTHER -> [words |-> "raises", error |-> FALSE]

-----------------------------------------------------------------------------
(* Properties *)

\* The assistant is not told what nobody measured: of a vehicle whose link is down nothing,
\* of a vehicle without a fix no position, and of a heading that is not known no heading; and
\* nothing that was measured is kept from it, though it be zero.
TelemetryToldAsMeasured ==
    saQuery.tool = "get_drone_state" /\ saQuery.server # "broken" =>
        LET words == Dispatch(saQuery).words
            ok == saQuery.server = "ok"
        IN  /\ "position" \in words
                   <=> ok /\ saQuery.lat.kind = "number" /\ saQuery.lon.kind = "number"
            /\ "heading" \in words
                   <=> ok /\ saQuery.hdg.kind = "number" /\ saQuery.hdg # Number(65535)
            /\ ("link_down" \in words <=> ~ok)

\* One row that is out of shape hides no other, tracks are told in order, and each is where
\* its own row says: a zero is no reason to look under another name.
TracksToldAsHeard ==
    saQuery.tool = "list_tracks" /\ saQuery.server = "ok" /\ saQuery.shape # "neither" =>
        LET words == Dispatch(saQuery).words
            named == {i \in DOMAIN saQuery.rows :
                         /\ saQuery.rows[i].object
                         /\ \/ saQuery.rows[i].uid = Number(0)
                            \/ saQuery.rows[i].uid = Missing /\ saQuery.rows[i].id = Text}
        IN  \/ named = {} /\ words = <<"no_tracks">>
            \/ /\ Len(words) = Cardinality(named)
               /\ \A i \in named :
                      LET row == saQuery.rows[i]
                          at == words[Cardinality({j \in named : j <= i})].at
                      IN  at = IF row.lon = Missing THEN {}
                               ELSE IF row.lat = Number(0) THEN {0} ELSE AsFloat(row.latitude)

\* The assistant can read only: whatever else it asks for is an error.
ReadOnly == saQuery.tool \notin {"get_drone_state", "list_tracks"} => Dispatch(saQuery).error
=============================================================================
