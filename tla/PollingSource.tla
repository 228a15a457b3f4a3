--------------------------- MODULE PollingSource ---------------------------
(***************************************************************************)
(* PollingSourceTransport of meshsa.transports and the flight sources      *)
(* built on it (MAVLink, MSP, CRSF): each start() runs a reader thread     *)
(* that polls a device, numbers the position fixes and hands them to the   *)
(* event loop, which puts them into the inbox of the transport; the router *)
(* takes them from there, and what finds the inbox full is dropped and     *)
(* counted.  stop() waits for the thread, but only so long: a reader    *)
(* blocked in a poll outlives it, and shares the stop event and the fix    *)
(* counter with the reader of the next start().                            *)
(*                                                                         *)
(* A process that starts again counts from 1 again, while its peers still  *)
(* remember the ids of the fixes they got.                                 *)
(***************************************************************************)
EXTENDS Naturals, SequencesExt

CONSTANTS
    MaxStarts,    \* bound on start() calls of one process
    MaxFixes,     \* bound on fixes of one process
    InboxLen,     \* queue_maxsize
    MaxErrors,    \* bound on polls that raise
    MaxRestarts   \* bound on restarts of the process

ConstantsOK ==
    /\ MaxStarts \in Nat /\ MaxFixes \in Nat /\ InboxLen \in Nat \ {0}
    /\ MaxErrors \in Nat /\ MaxRestarts \in Nat

VARIABLES
    psKind,       \* the flight source: "mavlink", "msp" or "crsf"
    psOwner,      \* the task that calls start() and stop()
    psStop,       \* _stop_event
    psDevice,     \* _resource: "none", "open" or "closed"
    psReader,     \* each reader thread, the last is this session's: its state and the
                  \* fixes of its poll that it has yet to hand over
    psSeq,        \* _seq
    psQueue,      \* fixes handed to the event loop
    psIngested,   \* fixes that were put into the inbox
    psTaken,      \* how many of them the router has taken out
    psDropped,    \* dropped_inbox_full
    psErrors,     \* polls that have raised
    psRestarts,   \* restarts of the process
    psZombie,     \* history: a join has timed out in this process
    psPeers       \* history: fixes peers got from earlier processes

inbox == <<psIngested, psTaken, psDropped>>
process == <<psOwner, psStop, psDevice, psReader, psSeq, psQueue, inbox, psZombie>>
vars == <<psKind, process, psErrors, psRestarts, psPeers>>

Init ==
    /\ psKind \in {"mavlink", "msp", "crsf"}
    /\ psOwner = "down"
    /\ psStop = FALSE
    /\ psDevice = "none"
    /\ psReader = <<>>
    /\ psSeq = 0
    /\ psQueue = <<>>
    /\ psIngested = <<>> /\ psTaken = 0 /\ psDropped = 0
    /\ psErrors = 0
    /\ psRestarts = 0
    /\ psZombie = FALSE
    /\ psPeers = {}

\* Only CRSF opens a device again that stop() has closed.
OnOpen == psDevice' = IF psDevice = "none" \/ psKind = "crsf" THEN "open" ELSE psDevice

Start ==
    /\ psOwner = "down"
    /\ Len(psReader) < MaxStarts
    /\ psOwner' = "up"
    /\ psStop' = FALSE
    /\ OnOpen
    /\ psReader' = Append(psReader, [state |-> "check", batch |-> <<>>])
    /\ UNCHANGED <<psKind, psSeq, psQueue, inbox, psErrors, psRestarts, psZombie, psPeers>>

\* stop() sets the event and closes the device ...
Stop ==
    /\ psOwner = "up"
    /\ psOwner' = "joining"
    /\ psStop' = TRUE
    /\ psDevice' = "closed"
    /\ UNCHANGED <<psKind, psReader, psSeq, psQueue, inbox, psErrors, psRestarts,
                   psZombie, psPeers>>

Ended(r) == psReader[r].state = "ended"

\* ... and joins the thread, or gives up on it.
Join ==
    /\ psOwner = "joining"
    /\ psOwner' = "down"
    /\ psZombie' = (psZombie \/ ~Ended(Len(psReader)))
    /\ UNCHANGED <<psKind, psStop, psDevice, psReader, psSeq, psQueue, inbox, psErrors,
                   psRestarts, psPeers>>

-----------------------------------------------------------------------------
(* _reader(), on the thread of reader r *)

Goes(r, state) == psReader' = [psReader EXCEPT ![r].state = state]

Check(r) ==
    /\ psReader[r].state = "check"
    /\ Goes(r, IF psStop THEN "ended" ELSE "poll")
    /\ UNCHANGED <<psKind, psOwner, psStop, psDevice, psSeq, psQueue, inbox, psErrors,
                   psRestarts, psZombie, psPeers>>

\* How many fixes a poll may yield.  MAVLink: none if no message arrived in time, or it has
\* no position.
MavlinkFixes == 0..1

\* MSP: none if the board has no fix.
MspFixes == 0..1

\* CRSF: one for each frame that has arrived, but for those that cannot be parsed and those
\* that are not about the position.
CrsfFixes == 0..MaxFixes

Yield == [mavlink |-> MavlinkFixes, msp |-> MspFixes, crsf |-> CrsfFixes]

\* _position_frame for each of n fixes.  (The increment of _seq is not atomic, which shows
\* only when two readers run.)
Number(r, n) ==
    /\ psSeq + n <= MaxFixes
    /\ psSeq' = psSeq + n
    /\ psReader' = [psReader EXCEPT ![r] = [state |-> IF n = 0 THEN "check" ELSE "hand_over",
                                           batch |-> [i \in 1..n |-> psSeq + i]]]

\* _poll of an open device yields fixes.  A device that is broken makes it raise, which
\* ends the thread; one that was closed yields nothing or raises.
Poll(r) ==
    /\ psReader[r].state = "poll"
    /\ \/ \E n \in Yield[psKind] : (psDevice = "open" \/ n = 0) /\ Number(r, n) /\ UNCHANGED psErrors
       \/ psDevice = "closed" /\ Goes(r, "ended") /\ UNCHANGED <<psSeq, psErrors>>
       \/ /\ psErrors < MaxErrors
          /\ psErrors' = psErrors + 1
          /\ Goes(r, "ended")
          /\ UNCHANGED psSeq
    /\ UNCHANGED <<psKind, psOwner, psStop, psDevice, psQueue, inbox, psRestarts,
                   psZombie, psPeers>>

HandOverLifo(r) ==
    /\ psReader[r].state = "hand_over"
    /\ psQueue' = psQueue \o Reverse(psReader[r].batch)
    /\ psReader' = [psReader EXCEPT ![r] = [state |-> "check", batch |-> <<>>]]
    /\ UNCHANGED <<psKind, psOwner, psStop, psDevice, psSeq, inbox, psErrors,
                   psRestarts, psZombie, psPeers>>

\* call_soon_threadsafe hands the fixes to the event loop, one after the other.
HandOver(r) ==
    /\ psReader[r].state = "hand_over"
    /\ LET batch == psReader[r].batch
       IN  /\ psQueue' = Append(psQueue, Head(batch))
           /\ psReader' = [psReader EXCEPT
                  ![r] = [state |-> IF Len(batch) = 1 THEN "check" ELSE "hand_over",
                          batch |-> Tail(batch)]]
    /\ UNCHANGED <<psKind, psOwner, psStop, psDevice, psSeq, inbox, psErrors,
                   psRestarts, psZombie, psPeers>>

-----------------------------------------------------------------------------

\* The event loop puts the next fix into the inbox, or drops and counts it if that is full.
Ingest ==
    /\ psQueue # <<>>
    /\ psQueue' = Tail(psQueue)
    /\ \/ /\ Len(psIngested) < psTaken + InboxLen
          /\ psIngested' = Append(psIngested, Head(psQueue))
          /\ UNCHANGED psDropped
       \/ /\ Len(psIngested) >= psTaken + InboxLen
          /\ psDropped' = psDropped + 1
          /\ UNCHANGED psIngested
    /\ UNCHANGED <<psKind, psOwner, psStop, psDevice, psReader, psSeq, psTaken, psErrors,
                   psRestarts, psZombie, psPeers>>

\* stream(): the router takes the next fix, and sends it on.
Take ==
    /\ psTaken < Len(psIngested)
    /\ psTaken' = psTaken + 1
    /\ UNCHANGED <<psKind, psOwner, psStop, psDevice, psReader, psSeq, psQueue, psIngested,
                   psDropped, psErrors, psRestarts, psZombie, psPeers>>

\* The process ends at any point and is started again.
Restart ==
    /\ psRestarts < MaxRestarts
    /\ psRestarts' = psRestarts + 1
    /\ psPeers' = psPeers \cup {psIngested[i] : i \in 1..psTaken}
    /\ psOwner' = "down" /\ psStop' = FALSE /\ psDevice' = "none"
    /\ psReader' = <<>> /\ psSeq' = 0 /\ psQueue' = <<>>
    /\ psIngested' = <<>> /\ psTaken' = 0 /\ psDropped' = 0
    /\ psZombie' = FALSE
    /\ UNCHANGED <<psKind, psErrors>>

Reader(r) == Check(r) \/ Poll(r) \/ HandOver(r)

Next ==
    \/ Start \/ Stop \/ Join \/ Ingest \/ Take \/ Restart
    \/ \E r \in DOMAIN psReader : Reader(r)

Spec == Init /\ [][Next]_vars

\* Threads run and polls return, by their timeout if need be.
Fairness == \A r \in 1..MaxStarts : WF_vars(r \in DOMAIN psReader /\ Reader(r))

FairSpec == Spec /\ Fairness

-----------------------------------------------------------------------------
(* Properties *)

TypeOK ==
    /\ psKind \in {"mavlink", "msp", "crsf"}
    /\ psOwner \in {"down", "up", "joining"}
    /\ psStop \in BOOLEAN
    /\ psDevice \in {"none", "open", "closed"}
    /\ psReader \in Seq([state : {"check", "poll", "hand_over", "ended"},
                         batch : Seq(1..MaxFixes)])
    /\ psSeq \in 0..MaxFixes
    /\ psQueue \in Seq(1..MaxFixes)
    /\ psIngested \in Seq(1..MaxFixes)
    /\ psTaken \in 0..Len(psIngested) /\ psDropped \in Nat
    /\ psZombie \in BOOLEAN

\* One source, one reader, and fixes in the order of their numbers: unless a join has timed
\* out, a stopped source has no reader, no fix is repeated or overtaken on its way from the
\* device to the router, and none is missing but those that found the inbox full and were
\* counted.
FixesInOrder ==
    ~psZombie =>
        /\ \A r \in DOMAIN psReader : Ended(r) \/ (r = Len(psReader) /\ psOwner # "down")
        /\ \A i, j \in DOMAIN psIngested : i < j => psIngested[i] < psIngested[j]
        /\ \A i \in DOMAIN psIngested : psIngested[i] <= Len(psIngested) + psDropped
        /\ \A i \in DOMAIN psQueue : psQueue[i] = Len(psIngested) + psDropped + i

\* Neither idle polls nor malformed messages stop a source that is started: its reader
\* ends by itself only by an error of the device.
KeepsPolling ==
    psOwner = "up" /\ psErrors = 0 /\ psDevice = "open" => ~Ended(Len(psReader))

\* A reader that outlived stop() ends, provided that nobody starts the source again.
ReadersEnd ==
    <>[](psOwner = "down") => <>[](\A r \in DOMAIN psReader : Ended(r))

\* Each fix has a msg_id of its own, so that no router takes it for a duplicate.
FreshIds == Range(psIngested) \cap psPeers = {}
=============================================================================
