------------------------------ MODULE CrsfLink ------------------------------
(***************************************************************************)
(* CrsfLink of meshsa.fpv: one serial wire carries the RC frames that the  *)
(* link sends, their echoes and the telemetry of the module.  Bytes are    *)
(* damaged or lost on the way and arrive in chunks of any size.            *)
(* poll_inbound collects them, cuts frames out of them and drops echoes.   *)
(*                                                                         *)
(* A frame is FrameLen cells, the first of which stands for its address    *)
(* and length; a damaged cell may look like the first of a frame of any    *)
(* length.  The CRC is taken to tell exactly the frames that are intact.   *)
(***************************************************************************)
EXTENDS Naturals, Sequences, FiniteSets, SequencesExt

CONSTANTS
    FrameLen,      \* cells of a frame
    MaxFrameLen,   \* crsf_max_frame_len
    ReadChunk,     \* crsf_read_chunk
    DedupeLen,     \* echo_dedupe_len
    MaxSent,       \* bound on telemetry frames
    MaxRc,         \* bound on RC frames
    MaxDamage,     \* bound on cells damaged or lost
    MaxReopens     \* bound on close() and open()

ConstantsOK ==
    /\ FrameLen \in 2..MaxFrameLen
    /\ {MaxFrameLen, ReadChunk, DedupeLen} \subseteq Nat \ {0}
    /\ {MaxSent, MaxRc, MaxDamage, MaxReopens} \subseteq Nat

VARIABLES
    crWire,        \* cells on their way, or in the receive buffer of the port
    crBuffer,      \* _buffer
    crRecent,      \* _recent_tx
    crDelivered,   \* telemetry frames that poll_inbound has returned
    crSent,        \* telemetry frames sent
    crRc,          \* RC frames sent
    crDamage,      \* cells damaged or lost
    crReopens,     \* times the link was opened again
    crIntact       \* history: the telemetry frames that came through whole

vars == <<crWire, crBuffer, crRecent, crDelivered, crSent, crRc, crDamage, crReopens, crIntact>>

Init ==
    /\ crWire = <<>> /\ crBuffer = <<>> /\ crRecent = <<>> /\ crDelivered = <<>>
    /\ crSent = 0 /\ crRc = 0 /\ crDamage = 0 /\ crReopens = 0 /\ crIntact = <<>>

\* Frames: telemetry is numbered, and RC frames carry the address of the link.
Telemetry(n) == [rc |-> FALSE, n |-> n]
Rc(n) == [rc |-> TRUE, n |-> n]

Cell(frame, at) == [frame |-> frame, at |-> at, len |-> IF at = 1 THEN FrameLen ELSE 0]

\* CrsfFrame.to_bytes
Cells(frame) == [at \in 1..FrameLen |-> Cell(frame, at)]

\* A byte that is no part of a frame; it starts one of "len" cells if len > 0.
Noise(len) == [frame |-> Rc(0), at |-> 0, len |-> len]

-----------------------------------------------------------------------------
(* extract_frames *)

\* A frame may start here: an address, and a plausible length.
Plausible(cell) == cell.len \in 2..MaxFrameLen

\* CrsfFrame.from_bytes takes the cells from i on, as many as their length says.
WholeAt(cells, i) ==
    LET last == i + cells[i].len - 1
    IN  /\ Plausible(cells[i]) /\ last <= Len(cells)
        /\ cells[i].frame.n > 0 /\ SubSeq(cells, i, last) = Cells(cells[i].frame)

\* The rest of the frame has not come.
Waits(cells, i) == Plausible(cells[i]) /\ i + cells[i].len - 1 > Len(cells)

AdvanceSkips(cells, i) == IF Plausible(cells[i]) THEN cells[i].len ELSE 1

\* A whole frame is taken.  What cannot start a frame is dropped, and so is the first cell of
\* a frame that is not whole.
Advance(cells, i) == IF WholeAt(cells, i) THEN cells[i].len ELSE 1

\* Where the loop comes to: it goes on from each cell at which it does not wait.
Comes(cells) ==
    CHOOSE S \in SUBSET (1 .. Len(cells) + 1) :
        S = {1} \cup {i + Advance(cells, i) : i \in {j \in S : j <= Len(cells) /\ ~Waits(cells, j)}}

\* Where it ends: the cells from there on stay in the buffer.
Stop(cells) == CHOOSE i \in Comes(cells) : i <= Len(cells) => Waits(cells, i)

\* Where it takes a frame.
Taken(cells) == {i \in Comes(cells) : i <= Len(cells) /\ WholeAt(cells, i)}

\* The frames that start at these cells, in order.
Nth(S, n) == CHOOSE i \in S : Cardinality({j \in S : j <= i}) = n
FramesAt(cells, S) == [n \in 1..Cardinality(S) |-> cells[Nth(S, n)].frame]

-----------------------------------------------------------------------------

\* The frames that are on their way unharmed.
IntactAt(cells) == {i \in 1..Len(cells) : WholeAt(cells, i) /\ ~cells[i].frame.rc}
IntactIn(cells) == FramesAt(cells, IntactAt(cells))

\* A frame reaches the wire whole, or with a cell damaged or lost.
Transmit(frame) ==
    \/ crWire' = crWire \o Cells(frame) /\ UNCHANGED crDamage
    \/ /\ crDamage < MaxDamage
       /\ crDamage' = crDamage + 1
       /\ \E at \in 1..FrameLen, len \in 0 .. MaxFrameLen + 1 :
              crWire' = crWire \o [Cells(frame) EXCEPT ![at] = Noise(len)]
    \/ /\ crDamage < MaxDamage
       /\ crDamage' = crDamage + 1
       /\ \E at \in 1..FrameLen : crWire' = crWire \o RemoveAt(Cells(frame), at)

\* The module sends telemetry.
Module ==
    /\ crSent < MaxSent
    /\ crSent' = crSent + 1
    /\ Transmit(Telemetry(crSent'))
    /\ crIntact' = crDelivered \o IntactIn(crBuffer \o crWire')
    /\ UNCHANGED <<crBuffer, crRecent, crDelivered, crRc, crReopens>>

\* deque(maxlen)
Latest(queue, max) == IF Len(queue) > max THEN Tail(queue) ELSE queue

\* send_rc: the wire brings the frame back.
SendRc ==
    /\ crRc < MaxRc
    /\ crRc' = crRc + 1
    /\ crRecent' = Latest(Append(crRecent, Rc(crRc')), DedupeLen)
    /\ Transmit(Rc(crRc'))
    /\ UNCHANGED <<crBuffer, crDelivered, crSent, crReopens, crIntact>>

\* _is_echo: by its address, or else by its bytes.
IsEcho(frame) == frame.rc \/ frame \in Range(crRecent)

\* poll_inbound, which reads what has arrived by then.
PollInbound ==
    /\ crWire # <<>>
    /\ \E k \in 1..ReadChunk :
           /\ k <= Len(crWire)
           /\ crWire' = SubSeq(crWire, k + 1, Len(crWire))
           /\ LET cells == crBuffer \o SubSeq(crWire, 1, k)
              IN  /\ crBuffer' = SubSeq(cells, Stop(cells), Len(cells))
                  /\ crDelivered' = crDelivered
                         \o FramesAt(cells, {i \in Taken(cells) : ~IsEcho(cells[i].frame)})
    /\ UNCHANGED <<crRecent, crSent, crRc, crDamage, crReopens, crIntact>>

\* close() and open(): what the port had is gone, what _buffer had is not.
Reopen ==
    /\ crReopens < MaxReopens
    /\ crReopens' = crReopens + 1
    /\ crWire' = <<>>
    /\ crIntact' = crDelivered \o IntactIn(crBuffer)
    /\ UNCHANGED <<crBuffer, crRecent, crDelivered, crSent, crRc, crDamage>>

Next == Module \/ SendRc \/ PollInbound \/ Reopen

Spec == Init /\ [][Next]_vars

-----------------------------------------------------------------------------
(* Properties *)

Frames == [rc : BOOLEAN, n : Nat]

TypeOK ==
    /\ {crWire, crBuffer} \subseteq
           Seq([frame : Frames, at : 0..FrameLen, len : 0 .. MaxFrameLen + 1])
    /\ {crRecent, crDelivered, crIntact} \subseteq Seq(Frames)
    /\ crSent \in 0..MaxSent /\ crRc \in 0..MaxRc
    /\ crDamage \in 0..MaxDamage /\ crReopens \in 0..MaxReopens

\* However the bytes are chunked and whatever is damaged between them, the telemetry that
\* came through whole is delivered in order, once, and no echo with it.
TelemetryKept == crDelivered \o IntactIn(crBuffer \o crWire) = crIntact

\* A damaged length cannot make the link collect without end: it waits for less than the
\* longest frame.
BufferBounded == Len(crBuffer) < MaxFrameLen
=============================================================================
