---------------------------- MODULE FlightLogger ----------------------------
(***************************************************************************)
(* The session logger of meshsa.fpv.flight_logger: any thread records, one *)
(* writer thread owns the files, and close() drains the queue and          *)
(* finalises the manifest under timeouts.                                  *)
(*                                                                         *)
(* Every record r is one call of record_* on a thread of its own; Stream   *)
(* says which.  A call tests the closed flag and then puts on the queue:   *)
(* other threads run in between.  The disk may fail a write or a flush.    *)
(***************************************************************************)
EXTENDS Naturals, Sequences, FiniteSets

CONSTANTS
    Records,
    Stream,       \* "events" (durable) or a lossy stream, for each record
    QueueLen,     \* LoggerSettings.logger_queue_len
    Sentinel,     \* the shutdown marker
    MaxFaults     \* bound on disk errors

Streams == {"rc", "telemetry", "events", "frames"}

ConstantsOK ==
    /\ Stream \in [Records -> Streams]
    /\ QueueLen \in Nat \ {0}
    /\ Sentinel \notin Records
    /\ MaxFaults \in Nat

VARIABLES
    started,    \* FlightLogger._started
    call,       \* control state of each record call
    closer,     \* control state of close(); _closed is set unless it is "idle"
    queue,      \* FlightLogger._queue
    writer,     \* control state of the writer thread
    hand,       \* the record it is writing
    filesOpen,  \* the stream files accept writes
    written,    \* records written to the files
    dropped,    \* dropped_records of each stream
    manifest,   \* the drop counts in manifest.json
    faults,     \* disk errors so far
    early       \* history: calls that had returned when close() was called

vars == <<started, call, closer, queue, writer, hand, filesOpen, written, dropped,
          manifest, faults, early>>

NoDrops == [s \in Streams |-> 0]

Init ==
    /\ started = FALSE
    /\ call = [r \in Records |-> "idle"]
    /\ closer = "idle"
    /\ queue = <<>>
    /\ writer = "none"
    /\ hand = Sentinel
    /\ filesOpen = FALSE
    /\ written = {}
    /\ dropped = NoDrops
    /\ manifest = NoDrops
    /\ faults = 0
    /\ early = {}

Closed == closer # "idle"
Full == Len(queue) >= QueueLen
Count(s) == dropped' = [dropped EXCEPT ![s] = @ + 1]

\* start() opens the files and writes the manifest, or fails as a whole.
Start ==
    /\ ~started
    /\ started' = TRUE
    /\ filesOpen' = TRUE
    /\ writer' = "get"
    /\ UNCHANGED <<call, closer, queue, hand, written, dropped, manifest, faults, early>>

-----------------------------------------------------------------------------
(* record_rc, record_telemetry, record_frame and record_event *)

\* _check_writable raises before start() and after close().
Check(r) ==
    /\ call[r] = "idle"
    /\ call' = [call EXCEPT ![r] = IF ~started \/ Closed THEN "refused" ELSE "put"]
    /\ UNCHANGED <<started, closer, queue, writer, hand, filesOpen, written, dropped,
                   manifest, faults, early>>

\* put() on the queue that has room.
Enqueue(r) ==
    /\ call[r] = "put"
    /\ ~Full
    /\ queue' = Append(queue, r)
    /\ call' = [call EXCEPT ![r] = "returned"]
    /\ UNCHANGED <<started, closer, writer, hand, filesOpen, written, dropped, manifest,
                   faults, early>>

DropSilently(r) ==
    /\ call[r] = "put"
    /\ Stream[r] # "events"
    /\ Full
    /\ call' = [call EXCEPT ![r] = "returned"]
    /\ UNCHANGED <<started, closer, queue, writer, hand, filesOpen, written, dropped, manifest,
                   faults, early>>

\* A lossy record is dropped and counted when the queue is full.
Drop(r) ==
    /\ call[r] = "put"
    /\ Stream[r] # "events"
    /\ Full
    /\ Count(Stream[r])
    /\ call' = [call EXCEPT ![r] = "returned"]
    /\ UNCHANGED <<started, closer, queue, writer, hand, filesOpen, written, manifest,
                   faults, early>>

\* An event waits for room, up to its timeout, and then raises.
Overflow(r) ==
    /\ call[r] = "put"
    /\ Stream[r] = "events"
    /\ Full
    /\ call' = [call EXCEPT ![r] = "overflow"]
    /\ UNCHANGED <<started, closer, queue, writer, hand, filesOpen, written, dropped,
                   manifest, faults, early>>

-----------------------------------------------------------------------------
(* The writer thread *)

\* It takes the next item; the sentinel leads to the final flush.
Get ==
    /\ writer = "get"
    /\ queue # <<>>
    /\ queue' = Tail(queue)
    /\ hand' = Head(queue)
    /\ writer' = IF Head(queue) = Sentinel THEN "final_flush" ELSE "write"
    /\ UNCHANGED <<started, call, closer, filesOpen, written, dropped, manifest, faults, early>>

\* get() times out on an empty queue: the files are flushed.
GetTimeout ==
    /\ writer = "get"
    /\ queue = <<>>
    /\ writer' = "flush"
    /\ UNCHANGED <<started, call, closer, queue, hand, filesOpen, written, dropped,
                   manifest, faults, early>>

\* A record that cannot be written (a disk error, or close() gave up on this thread and
\* closed the file) is counted as dropped.  A flush follows when one is due.
Write ==
    /\ writer = "write"
    /\ \/ /\ filesOpen
          /\ written' = written \cup {hand}
          /\ UNCHANGED <<dropped, faults>>
       \/ /\ ~filesOpen \/ faults < MaxFaults
          /\ faults' = IF filesOpen THEN faults + 1 ELSE faults
          /\ Count(Stream[hand])
          /\ UNCHANGED written
    /\ hand' = Sentinel
    /\ writer' \in {"get", "flush"}
    /\ UNCHANGED <<started, call, closer, queue, filesOpen, manifest, early>>

\* A flush that raises ends the thread.
Flush ==
    /\ writer \in {"flush", "final_flush"}
    /\ \/ /\ filesOpen
          /\ writer' = IF writer = "flush" THEN "get" ELSE "exited"
          /\ UNCHANGED faults
       \/ /\ ~filesOpen \/ faults < MaxFaults
          /\ faults' = IF filesOpen THEN faults + 1 ELSE faults
          /\ writer' = "dead"
    /\ UNCHANGED <<started, call, closer, queue, hand, filesOpen, written, dropped,
                   manifest, early>>

-----------------------------------------------------------------------------
(* close() *)

Close ==
    /\ started
    /\ closer = "idle"
    /\ closer' = "sentinel"
    /\ early' = {r \in Records : call[r] = "returned"}
    /\ UNCHANGED <<started, call, queue, writer, hand, filesOpen, written, dropped,
                   manifest, faults>>

PutSentinelBlocking ==
    /\ closer = "sentinel"
    /\ ~Full
    /\ queue' = Append(queue, Sentinel)
    /\ closer' = "join"
    /\ UNCHANGED <<started, call, writer, hand, filesOpen, written, dropped, manifest,
                   faults, early>>

\* The sentinel is put behind the backlog, or the put times out on a full queue.
PutSentinel ==
    /\ closer = "sentinel"
    /\ \/ ~Full /\ queue' = Append(queue, Sentinel)
       \/ Full /\ UNCHANGED queue
    /\ closer' = "join"
    /\ UNCHANGED <<started, call, writer, hand, filesOpen, written, dropped, manifest,
                   faults, early>>

\* join() returns, because the writer has ended or by its timeout.
Join ==
    /\ closer = "join"
    /\ closer' = IF writer \in {"exited", "dead"} THEN "files" ELSE "files_timeout"
    /\ UNCHANGED <<started, call, queue, writer, hand, filesOpen, written, dropped,
                   manifest, faults, early>>

\* The files are closed; a close that raises leaves the manifest as start() wrote it.
CloseFiles ==
    /\ closer \in {"files", "files_timeout"}
    /\ filesOpen' = FALSE
    /\ \/ /\ closer' = IF closer = "files" THEN "manifest" ELSE "manifest_timeout"
          /\ UNCHANGED faults
       \/ /\ faults < MaxFaults
          /\ faults' = faults + 1
          /\ closer' = "raised"
    /\ UNCHANGED <<started, call, queue, writer, hand, written, dropped, manifest, early>>

WriteManifest ==
    /\ closer \in {"manifest", "manifest_timeout"}
    /\ \/ /\ manifest' = dropped
          /\ closer' = IF closer = "manifest" THEN "done" ELSE "done_timeout"
          /\ UNCHANGED faults
       \/ /\ faults < MaxFaults
          /\ faults' = faults + 1
          /\ closer' = "raised"
          /\ UNCHANGED manifest
    /\ UNCHANGED <<started, call, queue, writer, hand, filesOpen, written, dropped, early>>

-----------------------------------------------------------------------------

Writer == Get \/ GetTimeout \/ Write \/ Flush
Closer == PutSentinel \/ Join \/ CloseFiles \/ WriteManifest
Record(r) == Enqueue(r) \/ Drop(r) \/ Overflow(r)

Next ==
    \/ Start \/ Close \/ Writer \/ Closer
    \/ \E r \in Records : Check(r) \/ Record(r)

Spec == Init /\ [][Next]_vars

\* A call that has begun and close() keep running, the latter by its timeouts; nothing is
\* assumed of the writer, whose disk may hang.
Fairness == WF_vars(Closer) /\ \A r \in Records : WF_vars(Record(r))

FairSpec == Spec /\ Fairness

-----------------------------------------------------------------------------
(* Properties *)

TypeOK ==
    /\ started \in BOOLEAN
    /\ call \in [Records -> {"idle", "put", "refused", "returned", "overflow"}]
    /\ closer \in {"idle", "sentinel", "join", "files", "files_timeout", "manifest",
                   "manifest_timeout", "done", "done_timeout", "raised"}
    /\ queue \in Seq(Records \cup {Sentinel}) /\ Len(queue) <= QueueLen
    /\ writer \in {"none", "get", "write", "flush", "final_flush", "exited", "dead"}
    /\ hand \in Records \cup {Sentinel}
    /\ filesOpen \in BOOLEAN
    /\ written \subseteq Records
    /\ dropped \in [Streams -> Nat]
    /\ manifest \in [Streams -> Nat]
    /\ faults \in 0..MaxFaults
    /\ early \subseteq Records

Of(s, calls) == Cardinality({r \in calls : Stream[r] = s})

\* A session that was closed cleanly (the writer reached the sentinel before the join
\* timed out) accounts for every record: of the calls that had returned when close() was
\* called, each is a line of its file or counted in the manifest, and the manifest counts
\* nothing that was not dropped.
SessionAccounted ==
    closer = "done" /\ writer = "exited" =>
        \A s \in Streams :
            /\ Of(s, early) <= Of(s, written) + manifest[s]
            /\ Of(s, written) + manifest[s] <= Of(s, {r \in Records : call[r] = "returned"})

\* Shutdown is bounded: close() ends although the writer is dead, hangs, or the queue
\* stays full.
CloseEnds == Closed ~> closer \in {"done", "done_timeout", "raised"}

\* record_event returns or raises, whatever the writer and close() do.
CallsEnd == \A r \in Records : call[r] = "put" ~> call[r] # "put"

\* Events are never silently lost: after close(), an event whose call returned is in
\* the file or counted.
EventsKept ==
    closer = "done" /\ writer = "exited" =>
        \A r \in Records : Stream[r] = "events" /\ call[r] = "returned" =>
            r \in written \/ manifest["events"] > 0
=============================================================================
