------------------------------- MODULE Contents -------------------------------
(***************************************************************************)
(* What the codecs of meshsa make of the contents of a message: a frame of *)
(* a telemetry source or of the detector is read into an envelope, which   *)
(* then goes over links that speak JSON, CoT or the compact format.  Its   *)
(* identity on such a way is Router's subject.                             *)
(*                                                                         *)
(* A field of a frame is absent, good, or bad: out of the bounds its model *)
(* sets, not finite, or no number; a position that is absent is as bad.    *)
(* "battery" stands for the telemetry block.  A callsign is named for      *)
(* where it is from.                                                       *)
(***************************************************************************)
EXTENDS Naturals, Sequences, SequencesExt

CONSTANT MaxHops   \* bound on the links of a way

ConstantsOK == MaxHops \in Nat

VARIABLE cnQuery   \* a frame, the CoT types in use, and the links

Raws == {"absent", "good", "bad"}
Needed == {"good", "bad"}
Codecs == {"json", "cot", "compact"}

\* The types configured for PLI and for detections: friendly or unknown tracks, or a marker.
Types == {"a-f", "a-u", "b-m"}

Names == [pli : Types, marker : Types]
Queries ==
    [kind : {"PLI"}, lat : Needed, course : Raws, speed : Raws, battery : Raws,
     callsign : {"absent", "given"}, names : Names, links : SeqOf(Codecs, MaxHops)]
    \cup [kind : {"MARKER"}, lat : Needed, confidence : Raws, track : Raws, bearing : Raws,
          callsign : {"absent", "given"}, names : Names, links : SeqOf(Codecs, MaxHops)]

Init == cnQuery \in Queries

-----------------------------------------------------------------------------
(* telemetry.py and detection_codec.py: each gives no envelope if it raises. *)

\* The validators of Position, Telemetry and Detection.
Refused(q, fields) == \E f \in fields : q[f] = "bad"

\* exclude_none: which of the fields are there.
Present(q, fields) == {f \in fields : q[f] = "good"}

\* TelemetryCodec.decode: the callsign of a frame without one is its source.
FromTelemetry(q) ==
    LET fields == {"course", "speed", "battery"}
    IN  IF q.lat = "bad" \/ Refused(q, fields) THEN {}
        ELSE {[kind |-> "PLI", callsign |-> IF q.callsign = "given" THEN "given" ELSE "source",
               has |-> Present(q, fields)]}

\* DetectionCodec.decode: a confidence is required, and a callsign defaults to the label.
FromDetection(q) ==
    LET fields == {"track", "bearing"}
    IN  IF q.lat = "bad" \/ q.confidence # "good" \/ Refused(q, fields) THEN {}
        ELSE {[kind |-> "MARKER", callsign |-> IF q.callsign = "given" THEN "given" ELSE "label",
               has |-> {"confidence"} \cup Present(q, fields)]}

Envelope(q) == IF q.kind = "PLI" THEN FromTelemetry(q) ELSE FromDetection(q)

-----------------------------------------------------------------------------
(* cot.py *)

\* encode_pli: course and speed have one element, which needs both.
CotPli(e, names) ==
    [type |-> names.pli, contact |-> e.callsign,
     detail |-> (e.has \cap {"battery"})
                    \cup (IF {"course", "speed"} \subseteq e.has THEN {"course", "speed"} ELSE {})]

\* encode_marker: the vendor's element needs a confidence.
CotMarker(e, names) ==
    [type |-> names.marker, contact |-> e.callsign,
     detail |-> IF "confidence" \in e.has THEN e.has ELSE {}]

\* kind_for: the marker's type decides before the rule for tracks.
KindFor(type, names) ==
    IF type = names.marker THEN "MARKER"
    ELSE IF type = names.pli \/ type \in {"a-f", "a-u"} THEN "PLI" ELSE "MARKER"

\* decode_event: the vendor's element is read of a marker only, the others of either.
FromCot(event, names) ==
    LET kind == KindFor(event.type, names)
        vendor == {"confidence", "track", "bearing"}
    IN  [kind |-> kind, callsign |-> event.contact,
         has |-> IF kind = "MARKER" THEN event.detail ELSE event.detail \ vendor]

-----------------------------------------------------------------------------
(* compact.py and the way of an envelope *)

\* A track or marker in the compact format is its position and its callsign.
Compact(e) == [e EXCEPT !.has = {}]

\* JsonCodec keeps the payload.
Over(link, e, names) ==
    CASE link = "json"    -> e
      [] link = "compact" -> Compact(e)
      [] link = "cot"     ->
            FromCot(IF e.kind = "MARKER" THEN CotMarker(e, names) ELSE CotPli(e, names), names)

Arrives(q) ==
    {FoldLeft(LAMBDA e, link : Over(link, e, q.names), sent, q.links) : sent \in Envelope(q)}

-----------------------------------------------------------------------------
(* Properties *)

\* Whatever the links, a node is told what was measured or nothing: a frame with a value its
\* model refuses never becomes an envelope, no field is made up on the way, and the label or
\* callsign on the map stays.
NothingMadeUp ==
    LET q == cnQuery
        fields == DOMAIN q \ {"kind", "lat", "callsign", "names", "links"}
    IN  /\ Refused(q, {"lat"} \cup fields) => Arrives(q) = {}
        /\ \A e \in Arrives(q) :
               /\ e.has \subseteq Present(q, fields)
               /\ e.callsign = "given" <=> q.callsign = "given"

\* A detection is never taken for a friendly track nor a track for a detection, provided that
\* the two have types of their own; with one type for both, every track becomes a marker.
KindKept ==
    \A e \in Arrives(cnQuery) :
        IF cnQuery.names.pli # cnQuery.names.marker THEN e.kind = cnQuery.kind
        ELSE e.kind = "PLI" => cnQuery.kind = "PLI"

\* What is lost on the way: nothing over JSON; over CoT only a course without a speed, or a
\* speed without a course; over a compact link all but the position, for good.
LossesKnown ==
    LET q == cnQuery
        over == {q.links[i] : i \in DOMAIN q.links}
    IN  \A e \in Arrives(q), sent \in Envelope(q) :
            /\ "compact" \notin over /\ e.kind = q.kind =>
                   \A f \in sent.has \ e.has :
                       "cot" \in over /\ sent.has \cap {"course", "speed"} = {f}
            /\ "compact" \in over => e.has = {}
=============================================================================
