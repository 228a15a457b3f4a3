------------------------------ MODULE Dataset ------------------------------
(***************************************************************************)
(* A stream file of a flight session, from the writer of FlightLogger to   *)
(* read_jsonl of the tools.  start() writes and flushes a header, each     *)
(* record is a line, and Python's buffer reaches the file when it is full, *)
(* at any byte, and at every flush.  The process may die at any point, and *)
(* the machine may lose what is not yet on the disk.                       *)
(*                                                                         *)
(* A line is three cells: two halves, neither of which is JSON, and the    *)
(* newline.  Line 0 is the header.                                         *)
(***************************************************************************)
EXTENDS Integers, Sequences

CONSTANTS
    MaxRecords,   \* bound on records
    Schemas,      \* schema versions of the builds that write
    Window        \* those that this build reads

ConstantsOK == MaxRecords \in Nat /\ Window \subseteq Schemas /\ Schemas \subseteq Nat

VARIABLES
    dsSchema,    \* schema_version of the header
    dsState,     \* "open", "closed" or "dead"
    dsBuffer,    \* cells in the buffer of the file object
    dsFile,      \* cells in the file
    dsLines,     \* history: lines written
    dsFlushed,   \* history: lines that were flushed
    dsKept,      \* history: no cell of the file was lost
    dsReader,    \* "idle", "reading" or how the last read_jsonl ended
    dsAt,        \* cells it has read
    dsTorn,      \* its pending_exc is set
    dsGot,       \* its header and records, by the number of their line
    dsRaced      \* history: the file grew after it had met a torn end

writerVars == <<dsSchema, dsState, dsBuffer, dsFile, dsLines, dsFlushed, dsKept>>
readerVars == <<dsReader, dsAt, dsTorn, dsGot, dsRaced>>
vars == <<writerVars, readerVars>>

Line(n) == <<[line |-> n, part |-> "half"], [line |-> n, part |-> "rest"],
             [line |-> n, part |-> "nl"]>>

\* start() returns with the header on file.
Init ==
    /\ dsSchema \in Schemas
    /\ dsState = "open"
    /\ dsBuffer = <<>> /\ dsFile = Line(0)
    /\ dsLines = 1 /\ dsFlushed = 1 /\ dsKept = TRUE
    /\ dsReader = "idle" /\ dsAt = 0 /\ dsTorn = FALSE /\ dsGot = <<>> /\ dsRaced = FALSE

-----------------------------------------------------------------------------
(* The writer *)

\* A record is written to the file object.
Write ==
    /\ dsState = "open"
    /\ dsLines <= MaxRecords
    /\ dsLines' = dsLines + 1
    /\ dsBuffer' = dsBuffer \o Line(dsLines)
    /\ UNCHANGED <<dsSchema, dsState, dsFile, dsFlushed, dsKept, readerVars>>

\* The file grows under a reader.
Grown ==
    /\ dsRaced' = (dsRaced \/ (dsReader = "reading" /\ dsTorn))
    /\ UNCHANGED <<dsReader, dsAt, dsTorn, dsGot>>

\* The buffer is full: a part of it goes to the file.
Spill ==
    /\ dsState = "open"
    /\ \E k \in 1 .. Len(dsBuffer) - 1 :
           /\ dsFile' = dsFile \o SubSeq(dsBuffer, 1, k)
           /\ dsBuffer' = SubSeq(dsBuffer, k + 1, Len(dsBuffer))
    /\ Grown
    /\ UNCHANGED <<dsSchema, dsState, dsLines, dsFlushed, dsKept>>

\* _flush, every flush_every_s and at the end, and close().
Flush ==
    /\ dsState = "open"
    /\ dsState' \in {"open", "closed"}
    /\ dsFile' = dsFile \o dsBuffer
    /\ dsBuffer' = <<>>
    /\ dsFlushed' = dsLines
    /\ IF dsBuffer = <<>> THEN UNCHANGED readerVars ELSE Grown
    /\ UNCHANGED <<dsSchema, dsLines, dsKept>>

\* The process dies, and its buffer with it.
Dies ==
    /\ dsState = "open"
    /\ dsState' = "dead"
    /\ dsBuffer' = <<>>
    /\ UNCHANGED <<dsSchema, dsFile, dsLines, dsFlushed, dsKept, readerVars>>

\* The reader has read nothing: it starts, or ended with its process.
Afresh(result) ==
    dsReader' = result /\ dsAt' = 0 /\ dsTorn' = FALSE /\ dsGot' = <<>> /\ dsRaced' = FALSE

\* The machine stops, its reader too: nothing was synced, and the file keeps as much as it
\* happens to.
PowerLoss ==
    /\ dsState = "open"
    /\ dsState' = "dead"
    /\ dsBuffer' = <<>>
    /\ \E k \in 0..Len(dsFile) : dsFile' = SubSeq(dsFile, 1, k)
    /\ dsKept' = (dsFile' = dsFile)
    /\ Afresh("idle")
    /\ UNCHANGED <<dsSchema, dsLines, dsFlushed>>

-----------------------------------------------------------------------------
(* read_jsonl, in another process, line by line from the file as it is *)

\* json.loads accepts it.
Parses(line) == Len(line) = 2 /\ line[1].part = "half" /\ line[2].part = "rest"
                /\ line[1].line = line[2].line

\* is_dataset_compatible
Compatible(schema) == schema \in Window

Open ==
    /\ dsReader # "reading"
    /\ Afresh("reading")
    /\ UNCHANGED writerVars

\* The cell up to which readline() gets: the next newline, or the end of the file as it is.
EndsLine(e) ==
    /\ \A i \in dsAt + 1 .. e - 1 : dsFile[i].part # "nl"
    /\ dsFile[e].part = "nl" \/ e = Len(dsFile)

\* The line, without its newline.
Stripped(e) == SubSeq(dsFile, dsAt + 1, IF dsFile[e].part = "nl" THEN e - 1 ELSE e)

ConsumeStrict(line) ==
    \/ line = <<>> /\ UNCHANGED <<dsReader, dsTorn, dsGot>>
    \/ line # <<>> /\ ~Parses(line) /\ dsReader' = "JSONDecodeError" /\ UNCHANGED <<dsTorn, dsGot>>
    \/ Parses(line) /\ dsGot' = Append(dsGot, line[1].line) /\ UNCHANGED <<dsReader, dsTorn>>

\* A line that does not parse is dropped, unless another one follows: then it is damage.
Consume(line) ==
    \/ line = <<>> /\ UNCHANGED <<dsReader, dsTorn, dsGot>>
    \/ line # <<>> /\ dsTorn /\ dsReader' = "JSONDecodeError" /\ UNCHANGED <<dsTorn, dsGot>>
    \/ line # <<>> /\ ~dsTorn /\ ~Parses(line) /\ dsTorn' = TRUE /\ UNCHANGED <<dsReader, dsGot>>
    \/ /\ ~dsTorn /\ Parses(line)
       /\ dsGot' = Append(dsGot, line[1].line)
       /\ UNCHANGED <<dsReader, dsTorn>>

ReadLine ==
    /\ dsReader = "reading"
    /\ \E e \in dsAt + 1 .. Len(dsFile) : EndsLine(e) /\ dsAt' = e /\ Consume(Stripped(e))
    /\ UNCHANGED <<writerVars, dsRaced>>

\* Nothing is left to read: without a header, or with one of another schema, the file is refused.
Finish ==
    /\ dsReader = "reading"
    /\ dsAt = Len(dsFile)
    /\ dsReader' = IF dsGot = <<>> \/ ~Compatible(dsSchema) THEN "IncompatibleDatasetError"
                   ELSE "read"
    /\ UNCHANGED <<writerVars, dsAt, dsTorn, dsGot, dsRaced>>

Next == Write \/ Spill \/ Flush \/ Dies \/ PowerLoss \/ Open \/ ReadLine \/ Finish

Spec == Init /\ [][Next]_vars

-----------------------------------------------------------------------------
(* Properties *)

TypeOK ==
    /\ dsSchema \in Schemas /\ dsState \in {"open", "closed", "dead"}
    /\ \A cells \in {dsBuffer, dsFile} : \A i \in DOMAIN cells :
           cells[i] \in [line : 0..MaxRecords, part : {"half", "rest", "nl"}]
    /\ dsLines \in 1 .. MaxRecords + 1 /\ dsFlushed \in 1..dsLines
    /\ dsReader \in {"idle", "reading", "read", "JSONDecodeError", "IncompatibleDatasetError"}
    /\ dsAt \in 0..Len(dsFile)
    /\ dsTorn \in BOOLEAN /\ dsRaced \in BOOLEAN
    /\ \A i \in DOMAIN dsGot : dsGot[i] \in 0..MaxRecords

\* A read of a session that goes on or broke off anywhere: it yields the first records in
\* order and without a gap, all that were flushed among them unless the disk lost them, and
\* of a closed session all; a file of a supported schema is refused only if it lost its
\* header.  A torn last line is taken for damage only if the writer went on with it after
\* the reader had met it, which the code does not tell from damage.
RecordsKept ==
    [][dsReader = "reading" /\ dsReader' \notin {"reading", "idle"} =>
           /\ dsReader' = "JSONDecodeError" => dsRaced
           /\ Compatible(dsSchema) /\ dsKept /\ dsReader' # "JSONDecodeError" =>
                  dsReader' = "read" /\ Len(dsGot) >= dsFlushed
           /\ dsReader' = "read" =>
                  /\ dsGot = [i \in 1..Len(dsGot) |-> i - 1]
                  /\ dsState = "closed" => Len(dsGot) = dsLines]_vars
=============================================================================
