---------------------------- MODULE TakTransport ----------------------------
(***************************************************************************)
(* TakTcpTransport of meshsa.transports.tak: a supervisor task keeps one   *)
(* TCP connection to a TAK server up, sleeping between attempts, while     *)
(* send() calls of other tasks write to whatever connection they found     *)
(* when they were called.                                                  *)
(*                                                                         *)
(* All tasks run on one event loop; a step is the code between two awaits  *)
(* that can suspend a task.  Connections are numbered as they are opened.  *)
(* The peer or the network may drop one, or refuse one, MaxFaults times.   *)
(***************************************************************************)
EXTENDS Naturals, Sequences

CONSTANTS
    Sends,      \* send() calls, one frame each
    MaxStarts,  \* bound on start() calls
    MaxFaults   \* bound on connections lost or refused

ConstantsOK == MaxStarts \in Nat /\ MaxFaults \in Nat

VARIABLES
    takReconnect,  \* _reconnect
    takOwner,      \* the task that calls start() and stop()
    takTask,       \* control state of the supervisor task
    takConn,       \* the connections opened so far: "open", "lost" or "closed"
    takReader,     \* _reader: a connection, or 0 for None
    takWriter,     \* _writer
    takStarts,     \* start() calls so far
    takFaults,     \* faults so far
    takSend        \* each send() call: its state, the writer it read, and as history the
                   \* start() whose session it was called in and the connection used

connVars == <<takConn, takReader, takWriter>>
vars == <<takReconnect, takOwner, takTask, connVars, takStarts, takFaults, takSend>>

Init ==
    /\ takReconnect \in BOOLEAN
    /\ takOwner = "down"
    /\ takTask = "none"
    /\ takConn = <<>>
    /\ takReader = 0
    /\ takWriter = 0
    /\ takStarts = 0
    /\ takFaults = 0
    /\ takSend = [s \in Sends |-> [state |-> "idle", held |-> 0, session |-> 0, sent |-> 0]]

Started == takOwner # "down"
IsOpen(c) == c # 0 /\ takConn[c] = "open"

Fault == takFaults < MaxFaults /\ takFaults' = takFaults + 1

\* The connector returns a new connection, or raises.
ConnectorReturns ==
    /\ takConn' = Append(takConn, "open")
    /\ takReader' = Len(takConn) + 1
    /\ takWriter' = Len(takConn) + 1
    /\ UNCHANGED takFaults

ConnectorRaises == Fault /\ UNCHANGED takConn

\* The peer closes the connection or the network loses it.
Lose(c) ==
    /\ IsOpen(c)
    /\ Fault
    /\ takConn' = [takConn EXCEPT ![c] = "lost"]
    /\ UNCHANGED <<takReconnect, takOwner, takTask, takReader, takWriter, takStarts, takSend>>

CloseWriterForgets == takWriter' = 0 /\ UNCHANGED takConn

\* _aclose_writer up to its await: the writer is forgotten and closed.
CloseWriter ==
    /\ takWriter' = 0
    /\ takConn' = IF takWriter = 0 THEN takConn ELSE [takConn EXCEPT ![takWriter] = "closed"]

-----------------------------------------------------------------------------
(* start() and stop() *)

Start ==
    /\ takOwner = "down"
    /\ takStarts < MaxStarts
    /\ takOwner' = "starting"
    /\ takStarts' = takStarts + 1
    /\ UNCHANGED <<takReconnect, takTask, connVars, takFaults, takSend>>

\* What the loop of _supervise does next.
NextTurn == takTask' = IF takReader' = 0 THEN "connecting" ELSE "reading"

\* The first connection; without it start() raises, or leaves it to the supervisor.
StartReturns ==
    /\ takOwner = "starting"
    /\ \/ ConnectorReturns /\ takOwner' = "up" /\ NextTurn
       \/ /\ ConnectorRaises
          /\ takReconnect
          /\ takReader' = 0 /\ takWriter' = 0
          /\ takOwner' = "up" /\ NextTurn
       \/ /\ ConnectorRaises
          /\ ~takReconnect
          /\ takOwner' = "down"
          /\ UNCHANGED <<takTask, takReader, takWriter>>
    /\ UNCHANGED <<takReconnect, takStarts, takSend>>

\* The task is cancelled where it is suspended.  In a read the writer is closed on the way
\* out, which suspends it once more; in wait_closed() it ends without forgetting the reader.
Stop ==
    /\ takOwner = "up"
    /\ takOwner' = "stopping"
    /\ \/ takTask = "reading" /\ CloseWriter /\ takTask' = "cancelled"
       \/ takTask # "reading" /\ takTask' = "done" /\ UNCHANGED <<takConn, takWriter>>
    /\ UNCHANGED <<takReconnect, takReader, takStarts, takFaults, takSend>>

\* The awaited task is done; what writer is left is closed.
Stopped ==
    /\ takOwner = "stopping"
    /\ takTask = "done"
    /\ CloseWriter
    /\ takOwner' = "down"
    /\ takTask' = "none"
    /\ UNCHANGED <<takReconnect, takReader, takStarts, takFaults, takSend>>

-----------------------------------------------------------------------------
(* _supervise() *)

Connect ==
    /\ takTask = "connecting"
    /\ \/ ConnectorReturns /\ takTask' = "reading"
       \/ ConnectorRaises /\ takTask' = "sleeping" /\ UNCHANGED <<takReader, takWriter>>
    /\ UNCHANGED <<takReconnect, takOwner, takStarts, takSend>>

\* _read_loop ends (end of file or an error) and the writer is closed.
ReadEnds ==
    /\ takTask = "reading"
    /\ ~IsOpen(takReader)
    /\ CloseWriter
    /\ takTask' = "closing"
    /\ UNCHANGED <<takReconnect, takOwner, takReader, takStarts, takFaults, takSend>>

ClosedEnds ==
    /\ takTask \in {"closing", "cancelled"}
    /\ takReader' = 0
    /\ takTask' = "done"
    /\ UNCHANGED <<takReconnect, takOwner, takConn, takWriter, takStarts, takFaults, takSend>>

\* wait_closed() returns: the supervisor sleeps, or ends if it is cancelled or is not to
\* reconnect.
Closed ==
    /\ takTask \in {"closing", "cancelled"}
    /\ takReader' = 0
    /\ takTask' = IF takReconnect /\ takTask = "closing" THEN "sleeping" ELSE "done"
    /\ UNCHANGED <<takReconnect, takOwner, takConn, takWriter, takStarts, takFaults, takSend>>

\* Backoff.sleep_and_advance returns.
Wake ==
    /\ takTask = "sleeping"
    /\ UNCHANGED <<takReconnect, takOwner, connVars, takStarts, takFaults, takSend>>
    /\ NextTurn

-----------------------------------------------------------------------------
(* send() *)

Sending(s, call) ==
    /\ takSend' = [takSend EXCEPT ![s] = call]
    /\ UNCHANGED <<takReconnect, takOwner, takTask, connVars, takStarts, takFaults>>

\* Refused if not started, dropped while disconnected, else the pacer is awaited with the
\* writer in hand (a transport without a pacer does not wait).
Send(s) ==
    /\ takSend[s].state = "idle"
    /\ Sending(s, [state |-> IF ~Started THEN "refused"
                             ELSE IF takWriter = 0 THEN "dropped" ELSE "pacing",
                   held |-> takWriter, session |-> takStarts, sent |-> 0])

WriteLatest(s) ==
    /\ takSend[s].state = "pacing"
    /\ Sending(s, [takSend[s] EXCEPT !.state = "written",
                                     !.sent = IF IsOpen(takWriter) THEN takWriter ELSE 0])

\* The frame is written to that writer; on a connection that is lost or was closed
\* meanwhile it is dropped.
Write(s) ==
    /\ takSend[s].state = "pacing"
    /\ Sending(s, [takSend[s] EXCEPT !.state = "written",
                                     !.sent = IF IsOpen(takSend[s].held) THEN takSend[s].held
                                              ELSE 0])

-----------------------------------------------------------------------------

Supervisor == Connect \/ ReadEnds \/ Closed \/ Wake

Next ==
    \/ Supervisor \/ Start \/ StartReturns \/ Stop \/ Stopped
    \/ \E c \in DOMAIN takConn : Lose(c)
    \/ \E s \in Sends : Send(s) \/ Write(s)

Spec == Init /\ [][Next]_vars

\* The event loop runs every task that can run; a connection attempt ends, by its timeout
\* if need be.
Fairness == WF_vars(Supervisor) /\ WF_vars(StartReturns) /\ WF_vars(Stopped)

FairSpec == Spec /\ Fairness

-----------------------------------------------------------------------------
(* Properties *)

TypeOK ==
    /\ takReconnect \in BOOLEAN
    /\ takOwner \in {"down", "starting", "up", "stopping"}
    /\ takTask \in {"none", "connecting", "reading", "closing", "sleeping", "cancelled", "done"}
    /\ takConn \in Seq({"open", "lost", "closed"})
    /\ takReader \in 0..Len(takConn)
    /\ takWriter \in 0..Len(takConn)
    /\ takStarts \in 0..MaxStarts
    /\ takFaults \in 0..MaxFaults
    /\ takSend \in [Sends -> [state : {"idle", "refused", "dropped", "pacing", "written"},
                              held : 0..Len(takConn), session : 0..MaxStarts,
                              sent : 0..Len(takConn)]]

\* Reconnecting leaks nothing: every connection that was opened and not closed is the one
\* send() writes to, and when the transport is down there is none.
OneConnection ==
    /\ \A c \in DOMAIN takConn : takConn[c] # "closed" => c = takWriter
    /\ takOwner = "down" => takWriter = 0

\* What a step that uses a connection for a frame keeps to.
SendsAsMeant ==
    \A s \in Sends : takSend'[s].sent # takSend[s].sent =>
        /\ takSend'[s].sent = takWriter
        /\ takSend[s].session = takStarts
        /\ Started

\* A frame never goes out on a connection its caller did not mean: send() that waited for
\* the pacer across a reconnect or a restart drops the frame, and none goes out when the
\* transport is down.
NoStraySends == [][SendsAsMeant]_vars

\* A transport that is to reconnect, and is not stopped, is connected in the end, whatever
\* was lost or refused before.
ComesBack == takReconnect /\ <>[](takOwner = "up") => <>[]IsOpen(takWriter)

\* stop() returns, wherever the supervisor is suspended.
StopReturns == takOwner = "stopping" ~> takOwner = "down"
=============================================================================
