----------------------------- MODULE LinksProofs -----------------------------
(***************************************************************************)
(* Proofs about the links, for any number of sessions, faults, sends,      *)
(* fixes and callers: TakTransport, TakMulticast and Meshtastic leak       *)
(* nothing, PollingSource keeps its fixes in order, and Pacer the rate.    *)
(* Each has an inductive invariant of its own, Tak, Cast, Radio, Source    *)
(* and PaceInv; the lemmas ...Invariant say that a component that starts   *)
(* and steps as it should keeps it.                                        *)
(***************************************************************************)
EXTENDS Links, SequenceTheorems, TLAPS

-----------------------------------------------------------------------------
(* TakTransport: every connection but the one in use is closed, and a waiting send() holds *)
(* the one in use only in the session it was called in.                                    *)

TakStates == {"open", "lost", "closed"}

\* What a call holds and has used are connections that were opened.
TakCalls(n) == [Sends -> [state : {"idle", "refused", "dropped", "pacing", "written"},
                       held : 0..n, session : Nat, sent : 0..n]]

\* The types, without the bounds of a model-checking run.
TakTypeInv ==
    /\ takConn \in Seq(TakStates)
    /\ takReader \in 0..Len(takConn)
    /\ takWriter \in 0..Len(takConn)
    /\ takStarts \in Nat
    /\ takOwner \in {"down", "starting", "up", "stopping"}
    /\ takTask \in {"none", "connecting", "reading", "closing", "sleeping", "cancelled", "done"}
    /\ takSend \in TakCalls(Len(takConn))

\* Whoever is about to connect, or has given the connection up, holds no writer.
TakWriterInv ==
    /\ takOwner \in {"down", "starting"} => takTask = "none" /\ takWriter = 0
    /\ takTask \in {"connecting", "sleeping", "closing", "cancelled"} => takWriter = 0

\* Only the writer in use may be open.
TakClosedInv == \A c \in 1..Len(takConn) : takConn[c] # "closed" => c = takWriter

\* The writer a waiting send() holds is the one in use only while the session it was called
\* in lasts; and a call uses no connection before it has written.
TakHeldInv ==
    \A s \in Sends :
        /\ takSend[s].state # "written" => takSend[s].sent = 0
        /\ takSend[s].state = "pacing" => takSend[s].held # 0
        /\ takSend[s].state = "pacing" /\ takSend[s].held = takWriter =>
               takSend[s].session = takStarts /\ Started

\* The inductive invariant.
TakInv == TakTypeInv /\ TakWriterInv /\ TakClosedInv /\ TakHeldInv


\* As the transport is constructed.
LEMMA TakInitInv == Init => TakInv
<1> SUFFICES ASSUME Init PROVE TakInv
  OBVIOUS
<1>1. Len(takConn) = 0 /\ takConn \in Seq(TakStates)
  BY DEF Init
<1> QED
  BY <1>1 DEF Init, TakInv, TakTypeInv, TakCalls, TakWriterInv, TakClosedInv, TakHeldInv

\* A new connection while no writer is held: all older ones are closed, and nobody holds it.
LEMMA TakConnectorKeeps ==
  ASSUME TakInv, ConnectorReturns, takWriter = 0, UNCHANGED <<takStarts, takSend>>
  PROVE  /\ takConn' \in Seq(TakStates)
         /\ takReader' \in 1..Len(takConn') /\ takWriter' \in 1..Len(takConn')
         /\ takSend' \in TakCalls(Len(takConn'))
         /\ TakClosedInv'
         /\ \A s \in Sends : takSend[s].held # takWriter'
<1>1. /\ takConn' \in Seq(TakStates) /\ Len(takConn') = Len(takConn) + 1
      /\ \A c \in 1..Len(takConn) : takConn'[c] = takConn[c]
  BY DEF TakInv, TakTypeInv, ConnectorReturns, TakStates
<1>2. takReader' = Len(takConn') /\ takWriter' = Len(takConn') /\ Len(takConn) \in Nat
  BY <1>1 DEF ConnectorReturns, TakInv, TakTypeInv
<1>3. takSend' \in TakCalls(Len(takConn'))
  BY <1>1, <1>2 DEF TakInv, TakTypeInv, TakCalls
<1>4. TakClosedInv'
  BY <1>1, <1>2 DEF TakInv, TakClosedInv
<1>5. \A s \in Sends : takSend[s].held # takWriter'
  BY <1>1, <1>2 DEF TakInv, TakTypeInv, TakCalls
<1> QED
  BY <1>1, <1>2, <1>3, <1>4, <1>5

\* Closing the writer in use leaves none open.
LEMMA TakCloseWriterKeeps ==
  ASSUME TakInv, CloseWriter, UNCHANGED <<takReader, takSend>>
  PROVE  /\ takConn' \in Seq(TakStates) /\ Len(takConn') = Len(takConn)
         /\ takReader' \in 0..Len(takConn') /\ takWriter' = 0
         /\ takSend' \in TakCalls(Len(takConn'))
         /\ TakClosedInv'
<1>1. /\ takConn' \in Seq(TakStates) /\ Len(takConn') = Len(takConn) /\ Len(takConn) \in Nat
      /\ \A c \in 1..Len(takConn) :
             takConn'[c] = IF c = takWriter THEN "closed" ELSE takConn[c]
  <2>1. CASE takWriter = 0
    BY <2>1 DEF TakInv, TakTypeInv, CloseWriter
  <2>2. CASE takWriter \in 1..Len(takConn)
    BY <2>2, ExceptSeq DEF TakInv, TakTypeInv, CloseWriter, TakStates
  <2> QED
    BY <2>1, <2>2 DEF TakInv, TakTypeInv
<1>2. TakClosedInv'
  BY <1>1 DEF TakInv, TakClosedInv
<1> QED
  BY <1>1, <1>2 DEF TakInv, TakTypeInv, CloseWriter

\* Without a writer no call can be about to use one.
LEMMA TakNoWriterHeld ==
  ASSUME TakInv, takWriter' = 0, UNCHANGED takSend
  PROVE  TakHeldInv'
<1> SUFFICES ASSUME NEW s \in Sends
             PROVE  /\ takSend[s].state # "written" => takSend[s].sent = 0
                    /\ takSend[s].state = "pacing" => takSend[s].held # 0
  BY DEF TakHeldInv
<1> QED
  BY DEF TakInv, TakHeldInv

-----------------------------------------------------------------------------

\* start(): of a transport that is down, its first connection, or the failure to get one.
LEMMA TakStartKeeps ==
  ASSUME TakInv, Start \/ StartReturns
  PROVE  TakInv'
<1>1. CASE Start
  <2>1. takWriter' = 0 /\ UNCHANGED <<takSend, takConn, takReader, takWriter, takTask>>
    BY <1>1 DEF Start, connVars, TakInv, TakWriterInv
  <2>2. TakHeldInv'
    BY <2>1, TakNoWriterHeld
  <2> QED
    BY <1>1, <2>1, <2>2 DEF Start, TakInv, TakTypeInv, TakWriterInv, TakClosedInv
<1>2. CASE StartReturns
  <2>1. takOwner = "starting" /\ takTask = "none" /\ takWriter = 0
        /\ UNCHANGED <<takStarts, takSend>>
    BY <1>2 DEF StartReturns, TakInv, TakWriterInv
  <2>2. CASE ConnectorReturns /\ takOwner' = "up" /\ NextTurn
    <3>1. takTask' = "reading" /\ takOwner' = "up" /\ Started
      BY <2>1, <2>2, TakConnectorKeeps DEF NextTurn, Started
    <3>2. TakHeldInv'
      BY <2>1, <2>2, <3>1, TakConnectorKeeps DEF TakInv, TakHeldInv
    <3> QED
      BY <2>1, <2>2, <3>1, <3>2, TakConnectorKeeps DEF TakInv, TakTypeInv, TakWriterInv
  <2>3. CASE ConnectorRaises /\ takReader' = 0 /\ takWriter' = 0 /\ takOwner' = "up" /\ NextTurn
    <3>1. takTask' = "connecting" /\ UNCHANGED takConn
      BY <2>3 DEF NextTurn, ConnectorRaises
    <3>2. TakHeldInv'
      BY <2>1, <2>3, TakNoWriterHeld
    <3> QED
      BY <2>1, <2>3, <3>1, <3>2 DEF TakInv, TakTypeInv, TakWriterInv, TakClosedInv
  <2>4. CASE ConnectorRaises /\ takOwner' = "down" /\ UNCHANGED <<takTask, takReader, takWriter>>
    <3>1. UNCHANGED takConn
      BY <2>4 DEF ConnectorRaises
    <3>2. TakHeldInv'
      BY <2>1, <2>4, TakNoWriterHeld
    <3> QED
      BY <2>1, <2>4, <3>1, <3>2 DEF TakInv, TakTypeInv, TakWriterInv, TakClosedInv
  <2> QED
    BY <1>2, <2>2, <2>3, <2>4 DEF StartReturns
<1> QED
  BY <1>1, <1>2

\* stop(), wherever the supervisor is suspended, and what is left to close after it.
LEMMA TakStopKeeps ==
  ASSUME TakInv, Stop \/ Stopped
  PROVE  TakInv'
<1>1. CASE Stop
  <2>1. CASE takTask = "reading" /\ CloseWriter /\ takTask' = "cancelled"
    <3>1. UNCHANGED <<takReader, takSend, takStarts>> /\ takOwner' = "stopping" /\ takWriter' = 0
      BY <1>1, <2>1 DEF Stop, CloseWriter
    <3>2. TakHeldInv'
      BY <3>1, TakNoWriterHeld
    <3> QED
      BY <2>1, <3>1, <3>2, TakCloseWriterKeeps DEF TakInv, TakTypeInv, TakWriterInv
  <2>2. CASE takTask' = "done" /\ UNCHANGED <<takConn, takWriter>>
    <3>1. UNCHANGED <<takReader, takSend, takStarts>> /\ takOwner' = "stopping" /\ takOwner = "up"
      BY <1>1 DEF Stop
    <3>2. TakHeldInv'
      BY <2>2, <3>1 DEF TakInv, TakHeldInv, Started
    <3> QED
      BY <2>2, <3>1, <3>2 DEF TakInv, TakTypeInv, TakWriterInv, TakClosedInv
  <2> QED
    BY <1>1, <2>1, <2>2 DEF Stop
<1>2. CASE Stopped
  <2>1. UNCHANGED <<takReader, takSend, takStarts>> /\ CloseWriter /\ takWriter' = 0
        /\ takOwner' = "down" /\ takTask' = "none"
    BY <1>2 DEF Stopped, CloseWriter
  <2>2. TakHeldInv'
    BY <2>1, TakNoWriterHeld
  <2> QED
    BY <2>1, <2>2, TakCloseWriterKeeps DEF TakInv, TakTypeInv, TakWriterInv
<1> QED
  BY <1>1, <1>2

\* The supervisor: it connects when it holds no writer, and closes the one it lost.
LEMMA TakSupervisorKeeps ==
  ASSUME TakInv, Supervisor
  PROVE  TakInv'
<1>1. CASE Connect
  <2>1. takWriter = 0 /\ takOwner \in {"up", "stopping"}
        /\ UNCHANGED <<takStarts, takSend, takOwner>>
    BY <1>1 DEF Connect, TakInv, TakWriterInv, TakTypeInv
  <2>2. CASE ConnectorReturns /\ takTask' = "reading"
    <3>1. TakHeldInv'
      BY <2>1, <2>2, TakConnectorKeeps DEF TakInv, TakHeldInv
    <3> QED
      BY <2>1, <2>2, <3>1, TakConnectorKeeps DEF TakInv, TakTypeInv, TakWriterInv
  <2>3. CASE ConnectorRaises /\ takTask' = "sleeping" /\ UNCHANGED <<takReader, takWriter>>
    <3>1. UNCHANGED takConn /\ takWriter' = 0
      BY <2>1, <2>3 DEF ConnectorRaises
    <3>2. TakHeldInv'
      BY <2>1, <3>1, TakNoWriterHeld
    <3> QED
      BY <2>1, <2>3, <3>1, <3>2 DEF TakInv, TakTypeInv, TakWriterInv, TakClosedInv
  <2> QED
    BY <1>1, <2>2, <2>3 DEF Connect
<1>2. CASE ReadEnds
  <2>1. UNCHANGED <<takReader, takSend, takStarts, takOwner>> /\ CloseWriter /\ takWriter' = 0
        /\ takTask = "reading" /\ takTask' = "closing"
    BY <1>2 DEF ReadEnds, CloseWriter
  <2>2. TakHeldInv'
    BY <2>1, TakNoWriterHeld
  <2> QED
    BY <2>1, <2>2, TakCloseWriterKeeps DEF TakInv, TakTypeInv, TakWriterInv
<1>3. CASE Closed
  <2>1. UNCHANGED <<takConn, takWriter, takSend, takStarts, takOwner>> /\ takReader' = 0
        /\ takTask' \in {"sleeping", "done"} /\ takTask \in {"closing", "cancelled"}
    BY <1>3 DEF Closed
  <2>2. takWriter' = 0 /\ TakHeldInv'
    BY <2>1, TakNoWriterHeld DEF TakInv, TakWriterInv
  <2> QED
    BY <2>1, <2>2 DEF TakInv, TakTypeInv, TakWriterInv, TakClosedInv
<1>4. CASE Wake
  <2>1. UNCHANGED <<takReader, takConn, takWriter, takSend, takStarts, takOwner>>
        /\ takTask' \in {"connecting", "reading"} /\ takTask = "sleeping"
    BY <1>4 DEF Wake, NextTurn, connVars
  <2>2. takWriter' = 0 /\ TakHeldInv'
    BY <2>1, TakNoWriterHeld DEF TakInv, TakWriterInv
  <2> QED
    BY <2>1, <2>2 DEF TakInv, TakTypeInv, TakWriterInv, TakClosedInv
<1> QED
  BY <1>1, <1>2, <1>3, <1>4 DEF Supervisor

\* A connection that is lost was the one in use.
LEMMA TakLoseKeeps ==
  ASSUME TakInv, NEW c \in DOMAIN takConn, Lose(c)
  PROVE  TakInv'
<1>1. c \in 1..Len(takConn) /\ takConn[c] = "open"
  BY DEF TakInv, TakTypeInv, Lose, IsOpen
<1>2. /\ takConn' \in Seq(TakStates) /\ Len(takConn') = Len(takConn)
      /\ \A d \in 1..Len(takConn) : takConn'[d] = IF d = c THEN "lost" ELSE takConn[d]
  BY <1>1, ExceptSeq DEF TakInv, TakTypeInv, Lose, TakStates
<1>3. UNCHANGED <<takOwner, takTask, takReader, takWriter, takStarts, takSend>>
  BY DEF Lose
<1>4. TakClosedInv'
  BY <1>1, <1>2, <1>3 DEF TakInv, TakClosedInv
<1>5. TakHeldInv'
  BY <1>3 DEF TakInv, TakHeldInv, Started
<1> QED
  BY <1>2, <1>3, <1>4, <1>5 DEF TakInv, TakTypeInv, TakWriterInv

\* What send() makes of its call when it begins.
LEMMA TakSendFacts ==
  ASSUME TakInv, NEW s \in Sends, Send(s)
  PROVE  /\ takSend' \in TakCalls(Len(takConn))
         /\ \A t \in Sends : t # s => takSend'[t] = takSend[t]
         /\ takSend[s].sent = 0 /\ takSend'[s].sent = 0
         /\ takSend'[s].held = takWriter /\ takSend'[s].session = takStarts
         /\ takSend'[s].state = "pacing" => Started /\ takWriter # 0
<1> DEFINE state == IF ~Started THEN "refused" ELSE IF takWriter = 0 THEN "dropped" ELSE "pacing"
<1>1. state \in {"refused", "dropped", "pacing"} /\ (state = "pacing" => Started /\ takWriter # 0)
  OBVIOUS
<1>2. takSend' = [takSend EXCEPT ![s] = [state |-> state, held |-> takWriter,
                                         session |-> takStarts, sent |-> 0]]
  BY DEF Send, Sending
<1>3. takSend[s].sent = 0
  BY DEF Send, TakInv, TakHeldInv
<1> HIDE DEF state
<1> QED
  BY <1>1, <1>2, <1>3 DEF TakInv, TakTypeInv, TakCalls

\* And when it writes: the connection it holds is used if it is open.
LEMMA TakWriteFacts ==
  ASSUME TakInv, NEW s \in Sends, Write(s)
  PROVE  /\ takSend' \in TakCalls(Len(takConn))
         /\ \A t \in Sends : t # s => takSend'[t] = takSend[t]
         /\ takSend'[s].state = "written"
         /\ takSend[s].state = "pacing" /\ takSend[s].sent = 0
         /\ takSend'[s].sent # 0 => /\ takSend'[s].sent = takSend[s].held
                                   /\ IsOpen(takSend[s].held)
<1> DEFINE used == IF IsOpen(takSend[s].held) THEN takSend[s].held ELSE 0
<1>1. used \in 0..Len(takConn)
      /\ (used # 0 => used = takSend[s].held /\ IsOpen(takSend[s].held))
  BY DEF TakInv, TakTypeInv, TakCalls
<1>2. takSend' = [takSend EXCEPT ![s] = [takSend[s] EXCEPT !.state = "written", !.sent = used]]
  BY DEF Write, Sending
<1>3. takSend[s].state = "pacing" /\ takSend[s].sent = 0
  BY DEF Write, TakInv, TakHeldInv
<1> HIDE DEF used
<1> QED
  BY <1>1, <1>2, <1>3 DEF TakInv, TakTypeInv, TakCalls

\* send() takes hold of the writer in use, of the session that runs.
LEMMA TakSendKeeps ==
  ASSUME TakInv, NEW s \in Sends, Send(s) \/ Write(s)
  PROVE  TakInv'
<1>1. UNCHANGED <<takReconnect, takOwner, takTask, takConn, takReader, takWriter, takStarts>>
  BY DEF Send, Write, Sending, connVars
<1>2. takSend' \in TakCalls(Len(takConn))
  BY TakSendFacts, TakWriteFacts
<1>3. TakHeldInv'
  BY <1>1, TakSendFacts, TakWriteFacts DEF TakInv, TakHeldInv, Started
<1> QED
  BY <1>1, <1>2, <1>3 DEF TakInv, TakTypeInv, TakWriterInv, TakClosedInv

\* Every step keeps the invariant.
LEMMA TakKeeps == TakInv /\ [Next]_vars => TakInv'
<1> SUFFICES ASSUME TakInv, [Next]_vars PROVE TakInv'
  OBVIOUS
<1>1. CASE UNCHANGED vars
  BY <1>1 DEF vars, connVars, TakInv, TakTypeInv, TakWriterInv, TakClosedInv, TakHeldInv, Started
<1>2. CASE Next
  BY <1>2, TakStartKeeps, TakStopKeeps, TakSupervisorKeeps, TakLoseKeeps, TakSendKeeps DEF Next
<1> QED
  BY <1>1, <1>2

\* The invariant holds of every run.
LEMMA TakInvariant == Init /\ [][Next]_vars => []TakInv
  BY TakInitInv, TakKeeps, PTL

-----------------------------------------------------------------------------

\* Whatever is lost or refused, and whenever the transport is stopped and started: the only
\* connection that is not closed is the one send() writes to, and a transport that is down
\* has none.
THEOREM OneConnectionTheorem == Spec => []OneConnection
<1>1. TakInv => OneConnection
  BY DEF TakInv, TakTypeInv, TakWriterInv, TakClosedInv, OneConnection
<1> QED
  BY <1>1, TakInvariant, PTL DEF Spec

\* A frame goes out on the connection in use, in the session send() was called in, or not at
\* all.
THEOREM NoStraySendsTheorem == Spec => NoStraySends
<1>1. TakInv /\ [Next]_vars => [SendsAsMeant]_vars
  <2> SUFFICES ASSUME TakInv, Next, NEW s \in Sends, takSend'[s].sent # takSend[s].sent
               PROVE  /\ takSend'[s].sent = takWriter
                      /\ takSend[s].session = takStarts
                      /\ Started
    BY DEF SendsAsMeant
  <2>1. \E t \in Sends : Send(t) \/ Write(t)
    BY DEF Next, Supervisor, Connect, ReadEnds, Closed, Wake, Start, StartReturns, Stop, Stopped,
           Lose
  <2>2. PICK t \in Sends : Send(t) \/ Write(t)
    BY <2>1
  <2>3. Write(s)
    BY <2>2, TakSendFacts, TakWriteFacts
  <2>4. takSend'[s].sent = takSend[s].held /\ IsOpen(takSend[s].held)
    BY <2>3, TakWriteFacts
  <2>5. takSend[s].held = takWriter
    <3>1. takSend[s].held \in 0..Len(takConn)
      BY DEF TakInv, TakTypeInv, TakCalls
    <3> QED
      BY <2>4, <3>1 DEF IsOpen, TakInv, TakClosedInv
  <2> QED
    BY <2>3, <2>4, <2>5, TakWriteFacts DEF TakInv, TakHeldInv
<1> QED
  BY <1>1, TakInvariant, PTL DEF Spec, NoStraySends

\* The bounds of a model-checking run are kept, and so are the types.
TakBoundsInv ==
    /\ takReconnect \in BOOLEAN
    /\ takStarts \in 0..MaxStarts
    /\ takFaults \in 0..MaxFaults
    /\ \A s \in Sends : takSend[s].session \in 0..MaxStarts

LEMMA TakBoundsKeeps ==
  ASSUME ConstantsOK, TakInv, TakBoundsInv, [Next]_vars
  PROVE  TakBoundsInv'
<1>1. takReconnect' \in BOOLEAN
  <2>1. takReconnect' = takReconnect
    BY DEF Next, vars, Supervisor, Connect, ReadEnds, Closed, Wake, Start, StartReturns, Stop,
           Stopped, Lose, Send, Write, Sending
  <2> QED
    BY <2>1 DEF TakBoundsInv
<1>2. takFaults' \in 0..MaxFaults
  <2>1. Fault \/ takFaults' = takFaults
    BY DEF Next, vars, Supervisor, Connect, ReadEnds, Closed, Wake, Start, StartReturns, Stop,
           Stopped, Lose, Send, Write, Sending, ConnectorReturns, ConnectorRaises
  <2> QED
    BY <2>1 DEF Fault, TakBoundsInv, ConstantsOK
<1>3. takStarts' \in 0..MaxStarts
  <2>1. Start \/ takStarts' = takStarts
    BY DEF Next, vars, Supervisor, Connect, ReadEnds, Closed, Wake, StartReturns, Stop, Stopped,
           Lose, Send, Write, Sending
  <2> QED
    BY <2>1 DEF Start, TakBoundsInv, ConstantsOK
<1>4. ASSUME NEW s \in Sends PROVE takSend'[s].session \in 0..MaxStarts
  <2>1. \/ takSend' = takSend
        \/ \E t \in Sends : Send(t) \/ Write(t)
    BY DEF Next, vars, Supervisor, Connect, ReadEnds, Closed, Wake, Start, StartReturns, Stop,
           Stopped, Lose
  <2>2. ASSUME NEW t \in Sends, Send(t) PROVE takSend'[s].session \in 0..MaxStarts
    BY <2>2, TakSendFacts DEF TakBoundsInv
  <2>3. ASSUME NEW t \in Sends, Write(t) PROVE takSend'[s].session \in 0..MaxStarts
    <3>1. takSend'[t].session = takSend[t].session
      BY <2>3 DEF Write, Sending, TakInv, TakTypeInv, TakCalls
    <3> QED
      BY <2>3, <3>1, TakWriteFacts DEF TakBoundsInv
  <2> QED
    BY <2>1, <2>2, <2>3 DEF TakBoundsInv
<1> QED
  BY <1>1, <1>2, <1>3, <1>4 DEF TakBoundsInv

LEMMA TakTypesInvariant == ASSUME ConstantsOK PROVE Init /\ [][Next]_vars => []TypeOK
<1>1. Init => TakBoundsInv
  BY DEF Init, TakBoundsInv, ConstantsOK
<1>2. TakInv /\ TakBoundsInv /\ [Next]_vars => TakBoundsInv'
  BY TakBoundsKeeps
<1>3. TakInv /\ TakBoundsInv => TypeOK
  BY DEF TakInv, TakBoundsInv, TypeOK, TakTypeInv, TakStates, TakCalls
<1> QED
  BY <1>1, <1>2, <1>3, TakInvariant, PTL

-----------------------------------------------------------------------------
(* TakMulticast: the loop holds a socket only while it receives, and the socket it holds is *)
(* the only one that is open.                                                               *)

\* Every socket in use was built; a loop that sleeps or rebuilds holds none, nor does a
\* transport that is down.
CastInv ==
    /\ Cast!TypeOK
    /\ Cast!OneSocket
    /\ mcOwner = "down" => mcTask = "none"
    /\ mcTask \in {"none", "sleeping", "rebuild"} => mcIo = 0

\* A socket is built where there was none, or its factory raises; the others were closed.
LEMMA CastBuilds ==
  ASSUME Cast!ConstantsOK, CastInv, mcIo = 0
  PROVE  /\ Cast!Build => /\ mcIo' \in 1..mcBuilt' /\ mcOpen' = {mcIo'} \ {0}
                          /\ mcOpen' \subseteq 1..mcBuilt' /\ mcBuilt' \in Nat
                          /\ mcFaults' \in 0..MaxRebuilds
         /\ Cast!BuildRaises => /\ mcIo' = 0 /\ mcOpen' = {} /\ mcBuilt' = mcBuilt
                                /\ mcFaults' \in 0..MaxRebuilds
<1>1. mcBuilt \in Nat /\ mcOpen = {} /\ mcFaults \in 0..MaxRebuilds /\ MaxRebuilds \in Nat
  BY DEF CastInv, Cast!TypeOK, Cast!OneSocket, Cast!ConstantsOK
<1> QED
  BY <1>1 DEF Cast!Build, Cast!BuildRaises, Cast!Fault

\* Every step keeps it.
LEMMA CastKeeps == ASSUME Cast!ConstantsOK, CastInv, [Cast!Next]_Cast!vars PROVE CastInv'
<1>t. /\ mcOwner \in {"down", "up", "stopping"}
      /\ mcTask \in {"none", "recv", "sleeping", "rebuild", "done"}
      /\ mcIo \in 0..mcBuilt /\ mcOpen = {mcIo} \ {0} /\ mcBuilt \in Nat
      /\ mcStarts \in 0..MaxStarts /\ mcFaults \in 0..MaxRebuilds
      /\ MaxStarts \in Nat /\ MaxRebuilds \in Nat
  BY DEF CastInv, Cast!TypeOK, Cast!OneSocket, Cast!ConstantsOK
<1>1. CASE Cast!Start
  <2>1. mcIo = 0 /\ mcOwner = "down" /\ mcTask = "none"
    BY <1>1 DEF Cast!Start, CastInv, Cast!OneSocket
  <2>2. mcStarts' \in 0..MaxStarts
    BY <1>1, <1>t DEF Cast!Start
  <2>3. CASE Cast!Build /\ mcOwner' = "up" /\ mcTask' = "recv"
    BY <2>1, <2>2, <2>3, CastBuilds DEF CastInv, Cast!TypeOK, Cast!OneSocket
  <2>4. CASE Cast!BuildRaises /\ UNCHANGED <<mcOwner, mcTask>>
    BY <1>t, <2>1, <2>2, <2>4, CastBuilds DEF CastInv, Cast!TypeOK, Cast!OneSocket
  <2> QED
    BY <1>1, <2>3, <2>4 DEF Cast!Start
<1>2. CASE Cast!Rebuild
  <2>1. mcIo = 0 /\ mcTask = "rebuild" /\ mcOwner' = mcOwner /\ mcStarts' = mcStarts
    BY <1>2 DEF Cast!Rebuild, CastInv
  <2>2. mcOwner # "down"
    BY <2>1 DEF CastInv
  <2>3. CASE Cast!Build /\ mcTask' = "recv"
    BY <1>t, <2>1, <2>2, <2>3, CastBuilds DEF CastInv, Cast!TypeOK, Cast!OneSocket
  <2>4. CASE Cast!BuildRaises /\ mcTask' = "sleeping"
    BY <1>t, <2>1, <2>2, <2>4, CastBuilds DEF CastInv, Cast!TypeOK, Cast!OneSocket
  <2> QED
    BY <1>2, <2>3, <2>4 DEF Cast!Rebuild
<1>3. CASE Cast!Wake
  BY <1>3, <1>t DEF Cast!Wake, CastInv, Cast!TypeOK, Cast!OneSocket
<1>4. CASE Cast!RecvRaises
  BY <1>4, <1>t DEF Cast!RecvRaises, Cast!Fault, Cast!CloseIo, CastInv, Cast!TypeOK,
                    Cast!OneSocket
<1>5. CASE Cast!Stop
  BY <1>5, <1>t DEF Cast!Stop, CastInv, Cast!TypeOK, Cast!OneSocket
<1>6. CASE Cast!Stopped
  BY <1>6, <1>t DEF Cast!Stopped, Cast!CloseIo, CastInv, Cast!TypeOK, Cast!OneSocket
<1>7. CASE UNCHANGED Cast!vars
  BY <1>7 DEF Cast!vars, CastInv, Cast!TypeOK, Cast!OneSocket
<1> QED
  BY <1>1, <1>2, <1>3, <1>4, <1>5, <1>6, <1>7 DEF Cast!Next, Cast!Loop

\* The invariant holds of every run.
LEMMA CastInvariant ==
  ASSUME Cast!ConstantsOK
  PROVE  Cast!Init /\ [][Cast!Next]_Cast!vars => []CastInv
<1>1. Cast!Init => CastInv
  BY DEF Cast!Init, CastInv, Cast!TypeOK, Cast!OneSocket, Cast!ConstantsOK
<1>2. CastInv /\ [Cast!Next]_Cast!vars => CastInv'
  BY CastKeeps
<1> QED
  BY <1>1, <1>2, PTL

\* TakMulticastTransport: however often recv() and the factory raise and whenever it is
\* stopped, the one socket that is open is the one send() uses.
THEOREM OneSocketTheorem ==
  ASSUME Cast!ConstantsOK
  PROVE  Cast!Spec => []Cast!OneSocket
<1>1. CastInv => Cast!OneSocket
  BY DEF CastInv
<1> QED
  BY <1>1, CastInvariant, PTL DEF Cast!Spec

-----------------------------------------------------------------------------
(* Meshtastic: whoever opens the interface holds none, and the supervisor runs only while *)
(* the transport is up.                                                                   *)

\* The supervisor holds no interface when it is about to open one; a transport that is not
\* up has no supervisor, and one that is down has let go of everything; signals are of
\* sessions that have begun.
RadioInv ==
    /\ Radio!TypeOK
    /\ Radio!OneInterface
    /\ Radio!StopReleases
    /\ mtTask \in {"opening", "sleeping"} => mtIface = 0
    /\ mtOwner \in {"down", "failed"} => mtTask = "none"
    /\ mtStarts \in 0..MaxStarts
    /\ mtSubscribed => mtStarts # 0

\* The interface is opened while there is none.
LEMMA RadioOpens ==
  ASSUME RadioInv, mtIface = 0
  PROVE  /\ Radio!Opens => /\ mtIface' \in 0..mtOpened' /\ mtIface' # 0
                           /\ mtOpen' = {mtIface'} \ {0} /\ mtOpen' \subseteq 1..mtOpened'
                           /\ mtBroken \subseteq 1..mtOpened' /\ mtOpened' \in Nat
         /\ Radio!OpenRaises => mtIface' = 0 /\ mtOpen' = {} /\ mtOpened' = mtOpened
<1>1. mtOpened \in Nat /\ mtOpen = {} /\ mtBroken \subseteq 1..mtOpened
  BY DEF RadioInv, Radio!TypeOK, Radio!OneInterface
<1> QED
  BY <1>1 DEF Radio!Opens, Radio!OpenRaises

\* A signal bears the number of the session that lasts.
LEMMA RadioSignals ==
  ASSUME Radio!ConstantsOK, RadioInv, Radio!Signalled
  PROVE  mtSignals' \in Seq(1..MaxStarts)
<1>1. mtSignals \in Seq(1..MaxStarts) /\ mtStarts \in 0..MaxStarts /\ MaxStarts \in Nat
  BY DEF RadioInv, Radio!TypeOK, Radio!ConstantsOK
<1>2. CASE mtSubscribed
  <2>1. mtStarts \in 1..MaxStarts
    BY <1>1, <1>2 DEF RadioInv
  <2> QED
    BY <1>1, <1>2, <2>1, AppendProperties DEF Radio!Signalled
<1>3. CASE ~mtSubscribed
  BY <1>1, <1>3 DEF Radio!Signalled
<1> QED
  BY <1>2, <1>3

\* Every step keeps it.
LEMMA RadioKeeps == ASSUME Radio!ConstantsOK, RadioInv, [Radio!Next]_Radio!vars PROVE RadioInv'
<1>t. /\ Radio!TypeOK
      /\ mtOpen = {mtIface} \ {0} /\ mtStarts \in 0..MaxStarts /\ MaxStarts \in Nat
  BY DEF RadioInv, Radio!OneInterface, Radio!ConstantsOK
<1>c. mtOpen \ {mtIface} = {}
  BY <1>t
<1>z. ASSUME mtOpen' = {}, mtIface' = 0 PROVE Radio!OneInterface'
  BY <1>z DEF Radio!OneInterface
<1>1. CASE Radio!Start
  <2>1. /\ mtIface = 0 /\ mtOwner = "down" /\ mtTask = "none"
        /\ mtStarts' \in 0..MaxStarts /\ mtStarts' # 0
    BY <1>1, <1>t DEF Radio!Start, RadioInv, Radio!OneInterface, Radio!StopReleases, Radio!TypeOK
  <2>2. /\ UNCHANGED <<mtReconnect, mtBroken, mtSignals>> /\ mtLost' = FALSE
    BY <1>1 DEF Radio!Start
  <2>3. CASE Radio!Opens /\ mtOwner' = "up" /\ mtTask' = "wait" /\ mtSubscribed' = TRUE
    BY <1>t, <2>1, <2>2, <2>3, RadioOpens
    DEF RadioInv, Radio!TypeOK, Radio!OneInterface, Radio!StopReleases
  <2>4. CASE Radio!Opens /\ mtOwner' = "failed" /\ mtSubscribed' = TRUE /\ UNCHANGED mtTask
    BY <1>t, <2>1, <2>2, <2>4, RadioOpens
    DEF RadioInv, Radio!TypeOK, Radio!OneInterface, Radio!StopReleases
  <2>5. CASE Radio!OpenRaises /\ mtOwner' = "up" /\ mtTask' = "opening" /\ mtSubscribed' = TRUE
    BY <1>t, <2>1, <2>2, <2>5, RadioOpens
    DEF RadioInv, Radio!TypeOK, Radio!OneInterface, Radio!StopReleases
  <2>6. CASE Radio!OpenRaises /\ mtSubscribed' = FALSE /\ UNCHANGED <<mtOwner, mtTask>>
    BY <1>t, <2>1, <2>2, <2>6, RadioOpens
    DEF RadioInv, Radio!TypeOK, Radio!OneInterface, Radio!StopReleases
  <2> QED
    BY <1>1, <2>3, <2>4, <2>5, <2>6 DEF Radio!Start
<1>2. CASE Radio!Stop
  BY <1>2, <1>t DEF Radio!Stop, Radio!ifaceVars, Radio!counters, RadioInv, Radio!TypeOK,
                    Radio!OneInterface, Radio!StopReleases
<1>3. CASE Radio!Stopped
  <2>b. mtSubscribed' \in BOOLEAN
    BY <1>3, <1>t, Zenon DEF Radio!Stopped, Radio!TypeOK
  <2>1. CASE /\ mtTask = "done" /\ mtSubscribed' = FALSE /\ mtOwner' = "down"
             /\ mtIface' = 0 /\ mtOpen' = {} /\ mtTask' = "none"
    BY <1>3, <1>t, <1>z, <2>1, <2>b DEF Radio!Stopped, Radio!counters, RadioInv, Radio!TypeOK,
       Radio!StopReleases
  <2>2. CASE /\ mtTask = "raised" /\ mtOwner' = "stop_raised"
             /\ UNCHANGED <<mtTask, mtSubscribed, mtIface, mtOpen>>
    BY <1>3, <1>t, <2>2 DEF Radio!Stopped, Radio!counters, RadioInv, Radio!TypeOK,
       Radio!OneInterface, Radio!StopReleases
  <2> QED
    BY <1>3, <1>c, <2>1, <2>2 DEF Radio!Stopped, Radio!CloseIface
<1>4. CASE Radio!Open
  <2>1. /\ mtIface = 0 /\ mtOwner \notin {"down", "failed"}
        /\ UNCHANGED <<mtReconnect, mtOwner, mtBroken, mtSubscribed, mtLost, mtSignals, mtStarts>>
    BY <1>4 DEF Radio!Open, RadioInv
  <2>2. CASE Radio!Opens /\ mtTask' \in {"wait", "raised"}
    BY <1>t, <2>1, <2>2, RadioOpens
    DEF RadioInv, Radio!TypeOK, Radio!OneInterface, Radio!StopReleases
  <2>3. CASE Radio!OpenRaises /\ mtTask' = "sleeping"
    BY <1>t, <2>1, <2>3, RadioOpens
    DEF RadioInv, Radio!TypeOK, Radio!OneInterface, Radio!StopReleases
  <2> QED
    BY <1>4, <2>2, <2>3 DEF Radio!Open
<1>5. CASE Radio!LostSeen
  <2>1. mtIface' = 0 /\ mtOpen' = {} /\ mtTask' \in {"sleeping", "done"} /\ mtTask = "wait"
    BY <1>5, <1>c DEF Radio!LostSeen, Radio!CloseIface
  <2>b. mtLost' \in BOOLEAN
    BY <1>5 DEF Radio!LostSeen
  <2> QED
    BY <1>5, <1>t, <1>z, <2>1, <2>b DEF Radio!LostSeen, Radio!counters, RadioInv, Radio!TypeOK,
       Radio!StopReleases
<1>6. CASE Radio!Wake
  BY <1>6, <1>t DEF Radio!Wake, Radio!ifaceVars, Radio!counters, RadioInv, Radio!TypeOK,
                    Radio!OneInterface, Radio!StopReleases
<1>7. CASE Radio!Deliver
  <2>1. mtSignals # <<>> /\ mtSignals' = Tail(mtSignals) /\ mtSignals \in Seq(1..MaxStarts)
    BY <1>7, <1>t DEF Radio!Deliver, Radio!TypeOK
  <2>2. mtSignals' \in Seq(1..MaxStarts)
    BY <2>1, HeadTailProperties
  <2>3. mtLost' \in BOOLEAN
    BY <1>7, <1>t DEF Radio!Deliver, Radio!TypeOK
  <2> QED
    BY <1>7, <1>t, <2>2, <2>3 DEF Radio!Deliver, Radio!ifaceVars, Radio!counters, RadioInv,
       Radio!TypeOK, Radio!OneInterface, Radio!StopReleases
<1>8. CASE Radio!Echo
  <2>1. mtSignals' \in Seq(1..MaxStarts)
    BY <1>8, RadioSignals DEF Radio!Echo
  <2> QED
    BY <1>8, <1>t, <2>1 DEF Radio!Echo, Radio!ifaceVars, RadioInv, Radio!TypeOK,
       Radio!OneInterface, Radio!StopReleases
<1>9. ASSUME NEW i \in mtOpen, Radio!Break(i) PROVE RadioInv'
  <2>1. mtSignals' \in Seq(1..MaxStarts)
    BY <1>9, RadioSignals DEF Radio!Break
  <2>2. mtBroken' \subseteq 1..mtOpened
    BY <1>9, <1>t DEF Radio!Break, Radio!TypeOK
  <2> QED
    BY <1>9, <1>t, <2>1, <2>2 DEF Radio!Break, Radio!ifaceVars, RadioInv, Radio!TypeOK,
       Radio!OneInterface, Radio!StopReleases
<1>10. CASE UNCHANGED Radio!vars
  BY <1>10 DEF Radio!vars, Radio!ifaceVars, Radio!counters, RadioInv, Radio!TypeOK,
               Radio!OneInterface, Radio!StopReleases
<1> QED
  BY <1>1, <1>2, <1>3, <1>4, <1>5, <1>6, <1>7, <1>8, <1>9, <1>10 DEF Radio!Next, Radio!Supervisor

\* The invariant holds of every run.
LEMMA RadioInvariant ==
  ASSUME Radio!ConstantsOK
  PROVE  Radio!Init /\ [][Radio!Next]_Radio!vars => []RadioInv
<1>1. Radio!Init => RadioInv
  <2> SUFFICES ASSUME Radio!Init PROVE RadioInv
    OBVIOUS
  <2>1. mtSignals \in Seq(1..MaxStarts)
    BY EmptySeq DEF Radio!Init
  <2>2. Radio!OneInterface
    BY DEF Radio!Init, Radio!OneInterface
  <2> QED
    <3>1. mtSubscribed \in BOOLEAN /\ mtLost \in BOOLEAN /\ mtReconnect \in BOOLEAN
      BY DEF Radio!Init
    <3>2. Radio!TypeOK
      BY <2>1, <3>1 DEF Radio!Init, Radio!TypeOK
    <3>3. Radio!StopReleases
      BY DEF Radio!Init, Radio!StopReleases
    <3>4. mtStarts \in 0..MaxStarts
      BY DEF Radio!Init, Radio!ConstantsOK
    <3> QED
     BY <2>1, <2>2,<3>2,<3>3,<3>4 DEF Radio!Init, RadioInv
<1>2. RadioInv /\ [Radio!Next]_Radio!vars => RadioInv'
  BY RadioKeeps
<1> QED
  BY <1>1, <1>2, PTL

\* MeshtasticTransport: whatever fails to open or to be provisioned, is lost or signalled
\* late, the only interface that is open is the one in use, and stop() leaves neither an
\* interface nor a subscription.
THEOREM OneInterfaceTheorem ==
  ASSUME Radio!ConstantsOK
  PROVE  Radio!Spec => [](Radio!OneInterface /\ Radio!StopReleases)
<1>1. RadioInv => Radio!OneInterface /\ Radio!StopReleases
  BY DEF RadioInv
<1> QED
  BY <1>1, RadioInvariant, PTL DEF Radio!Spec

-----------------------------------------------------------------------------
(* PollingSource: what was ingested or dropped, what the event loop has yet to ingest and  *)
(* what the reader has yet to hand over are one sequence, in the order in which the fixes  *)
(* were numbered.                                                                          *)

SourceReaders == [state : {"check", "poll", "hand_over", "ended"}, batch : Seq(1..MaxFixes)]

\* The fixes that a session's reader has polled and not handed over.
Pending == IF psReader = <<>> THEN <<>> ELSE psReader[Len(psReader)].batch

SourceTypeInv == Source!TypeOK /\ psErrors \in Nat

\* A session has a reader and is not told to stop; who hands over has something to hand over.
SourceReaderInv ==
    /\ psOwner # "down" => psReader # <<>>
    /\ psOwner = "up" => ~psStop
    /\ \A r \in DOMAIN psReader :
           psReader[r].state = "hand_over" <=> psReader[r].batch # <<>>

\* Unless a join has timed out, only the reader of a session that lasts may still run.
SourceAloneInv ==
    ~psZombie => \A r \in DOMAIN psReader :
                     Source!Ended(r) \/ (r = Len(psReader) /\ psOwner # "down")

\* How many fixes have come before the inbox, to be put into it or dropped.
Met == Len(psIngested) + psDropped

\* Unless a join has timed out, the fixes on their way are the next ones, none is missing,
\* and those in the inbox came before them, in order.
SourceOrderInv ==
    ~psZombie =>
        /\ psSeq = Met + Len(psQueue) + Len(Pending)
        /\ \A i \in 1..Len(psQueue) : psQueue[i] = Met + i
        /\ \A i \in 1..Len(Pending) : Pending[i] = Met + Len(psQueue) + i
        /\ \A i, j \in 1..Len(psIngested) : i < j => psIngested[i] < psIngested[j]
        /\ \A i \in 1..Len(psIngested) : psIngested[i] <= Met

SourceInv ==
    SourceTypeInv /\ SourceReaderInv /\ SourceAloneInv /\ SourceOrderInv /\ Source!KeepsPolling

\* The types, as the proofs use them.
LEMMA SourceTypes ==
  ASSUME SourceInv
  PROVE  /\ psReader \in Seq(SourceReaders) /\ DOMAIN psReader = 1..Len(psReader)
         /\ Len(psReader) \in Nat
         /\ psQueue \in Seq(1..MaxFixes) /\ psIngested \in Seq(1..MaxFixes)
         /\ psSeq \in 0..MaxFixes /\ psErrors \in Nat
         /\ psTaken \in 0..Len(psIngested) /\ psDropped \in Nat
         /\ Len(psIngested) \in Nat /\ Len(psQueue) \in Nat /\ Met \in Nat
         /\ Pending \in Seq(1..MaxFixes) /\ Len(Pending) \in Nat
<1>1. /\ psReader \in Seq(SourceReaders)
      /\ psQueue \in Seq(1..MaxFixes) /\ psIngested \in Seq(1..MaxFixes)
      /\ psSeq \in 0..MaxFixes /\ psErrors \in Nat
      /\ psTaken \in 0..Len(psIngested) /\ psDropped \in Nat
  BY DEF SourceInv, SourceTypeInv, Source!TypeOK, SourceReaders
<1>2. DOMAIN psReader = 1..Len(psReader) /\ Len(psReader) \in Nat
  BY <1>1, LenProperties
<1>2a. Len(psIngested) \in Nat /\ Len(psQueue) \in Nat /\ Met \in Nat
  BY <1>1, LenProperties DEF Met
<1>3. ASSUME psReader = <<>> PROVE Pending \in Seq(1..MaxFixes)
  BY <1>3, EmptySeq DEF Pending
<1>4. ASSUME psReader # <<>> PROVE Pending \in Seq(1..MaxFixes)
  <2>1. Len(psReader) \in 1..Len(psReader)
    BY <1>1, <1>2, <1>4, EmptySeq
  <2>2. psReader[Len(psReader)] \in SourceReaders
    BY <1>1, <2>1, ElementOfSeq
  <2> QED
    BY <1>4, <2>2 DEF Pending, SourceReaders
<1>5. Pending \in Seq(1..MaxFixes)
  BY <1>3, <1>4
<1> QED
  BY <1>1, <1>2, <1>2a, <1>5, LenProperties

\* What is left when one reader moves on.
LEMMA SourceMoves ==
  ASSUME psReader \in Seq(SourceReaders), NEW r \in 1..Len(psReader),
         NEW state \in {"check", "poll", "hand_over", "ended"}, NEW batch \in Seq(1..MaxFixes),
         psReader' = [psReader EXCEPT ![r] = [state |-> state, batch |-> batch]]
  PROVE  /\ psReader' \in Seq(SourceReaders) /\ Len(psReader') = Len(psReader)
         /\ DOMAIN psReader' = 1..Len(psReader)
         /\ psReader'[r].state = state /\ psReader'[r].batch = batch
         /\ \A k \in 1..Len(psReader) : k # r => psReader'[k] = psReader[k]
<1>1. [state |-> state, batch |-> batch] \in SourceReaders
  BY DEF SourceReaders
<1>2. /\ psReader' \in Seq(SourceReaders) /\ Len(psReader') = Len(psReader)
      /\ \A k \in 1..Len(psReader) :
             psReader'[k] = IF k = r THEN [state |-> state, batch |-> batch] ELSE psReader[k]
  BY <1>1, ExceptSeq
<1>3. DOMAIN psReader' = 1..Len(psReader)
  BY <1>2, LenProperties
<1> QED
  BY <1>2, <1>3

\* A reader that goes on leaves the others alone; what is pending is what it has polled.
LEMMA SourceReaderSteps ==
  ASSUME SourceInv, NEW r \in DOMAIN psReader, psReader[r].state # "ended",
         NEW state \in {"check", "poll", "hand_over", "ended"}, NEW batch \in Seq(1..MaxFixes),
         psReader' = [psReader EXCEPT ![r] = [state |-> state, batch |-> batch]],
         state = "hand_over" <=> batch # <<>>,
         psErrors' = 0 => psErrors = 0,
         psOwner = "up" /\ psErrors' = 0 /\ psDevice = "open" => state # "ended",
         UNCHANGED <<psOwner, psStop, psDevice, psZombie>>
  PROVE  /\ psReader' \in Seq(SourceReaders)
         /\ SourceReaderInv' /\ SourceAloneInv' /\ Source!KeepsPolling'
         /\ ~psZombie => Pending = psReader[r].batch /\ Pending' = batch
<1>1. /\ psReader' \in Seq(SourceReaders) /\ Len(psReader') = Len(psReader)
      /\ DOMAIN psReader' = 1..Len(psReader) /\ DOMAIN psReader = 1..Len(psReader)
      /\ psReader'[r].state = state /\ psReader'[r].batch = batch
      /\ \A k \in 1..Len(psReader) : k # r => psReader'[k] = psReader[k]
      /\ Len(psReader) \in Nat /\ r \in 1..Len(psReader)
  <2>1. /\ psReader \in Seq(SourceReaders) /\ DOMAIN psReader = 1..Len(psReader)
        /\ Len(psReader) \in Nat
    BY SourceTypes
  <2>2. r \in 1..Len(psReader)
    BY <2>1
  <2> QED
    BY <2>1, <2>2, SourceMoves
<1>2. psReader # <<>> /\ psReader' # <<>>
  BY <1>1, EmptySeq
<1>3. SourceReaderInv'
  BY <1>1, <1>2 DEF SourceInv, SourceReaderInv
<1>4. ~psZombie => r = Len(psReader) /\ psOwner # "down"
  BY <1>1 DEF SourceInv, SourceAloneInv, Source!Ended
<1>5. SourceAloneInv'
  BY <1>1, <1>4 DEF SourceInv, SourceAloneInv, Source!Ended
<1>6. Source!KeepsPolling'
  <2>1. Len(psReader) \in 1..Len(psReader)
    BY <1>1
  <2> QED
    BY <1>1, <2>1 DEF SourceInv, Source!KeepsPolling, Source!Ended
<1>7. ~psZombie => Pending = psReader[r].batch /\ Pending' = batch
  BY <1>1, <1>2, <1>4 DEF Pending
<1> QED
  BY <1>1, <1>3, <1>5, <1>6, <1>7

\* Only the state of a reader changes.
LEMMA SourceGoes ==
  ASSUME NEW r, NEW state, psReader[r] \in SourceReaders
  PROVE  [psReader EXCEPT ![r].state = state]
             = [psReader EXCEPT ![r] = [state |-> state, batch |-> psReader[r].batch]]
<1>1. psReader[r] = [state |-> psReader[r].state, batch |-> psReader[r].batch]
  BY DEF SourceReaders
<1>2. [psReader[r] EXCEPT !.state = state] = [state |-> state, batch |-> psReader[r].batch]
  BY <1>1
<1> QED
  BY <1>2

LEMMA SourceCheckKeeps ==
  ASSUME SourceInv, NEW r \in DOMAIN psReader, Source!Check(r)
  PROVE  SourceInv'
<1> DEFINE state == IF psStop THEN "ended" ELSE "poll"
           batch == psReader[r].batch
<1>1. psReader[r] \in SourceReaders
  BY SourceTypes, ElementOfSeq
<1>2. batch \in Seq(1..MaxFixes) /\ batch = <<>> /\ psReader[r].state = "check"
  BY <1>1 DEF SourceReaders, SourceInv, SourceReaderInv, Source!Check
<1>3. psReader' = [psReader EXCEPT ![r] = [state |-> state, batch |-> batch]]
  BY <1>1, SourceGoes DEF Source!Check, Source!Goes
<1>4. /\ UNCHANGED <<psKind, psOwner, psStop, psDevice, psSeq, psQueue, psIngested, psTaken,
                     psDropped, psErrors, psZombie>>
      /\ psOwner = "up" => state = "poll"
  BY DEF Source!Check, Source!inbox, SourceInv, SourceReaderInv
<1>4a. psReader[r].state # "ended" /\ state # "hand_over" /\ (psOwner = "up" => state # "ended")
  BY <1>2, <1>4
<1>5. /\ psReader' \in Seq(SourceReaders)
      /\ SourceReaderInv' /\ SourceAloneInv' /\ Source!KeepsPolling'
      /\ ~psZombie => Pending = batch /\ Pending' = batch
  <2>1. state \in {"check", "poll", "hand_over", "ended"}
    OBVIOUS
  <2> HIDE DEF state
  <2> QED
    BY <1>2, <1>3, <1>4, <1>4a, <2>1, SourceReaderSteps
<1>6. SourceTypeInv'
  BY <1>4, <1>5 DEF SourceInv, SourceTypeInv, Source!TypeOK, SourceReaders
<1>7. SourceOrderInv'
  BY <1>4, <1>5 DEF SourceInv, SourceOrderInv, Met
<1> QED
  BY <1>5, <1>6, <1>7 DEF SourceInv

\* Fixes are numbered from where the last poll ended, when all before them are handed over.
LEMMA SourcePollKeeps ==
  ASSUME Source!ConstantsOK, SourceInv, NEW r \in DOMAIN psReader, Source!Poll(r)
  PROVE  SourceInv'
<1>1. psReader[r] \in SourceReaders
  BY SourceTypes, ElementOfSeq
<1>2. psReader[r].batch = <<>> /\ psReader[r].state = "poll"
  BY <1>1 DEF SourceReaders, SourceInv, SourceReaderInv, Source!Poll
<1>3. UNCHANGED <<psKind, psOwner, psStop, psDevice, psQueue, psIngested, psTaken, psDropped,
                  psZombie, Met>>
  BY DEF Source!Poll, Source!inbox, Met
<1>t. /\ psSeq \in 0..MaxFixes /\ psErrors \in Nat /\ MaxFixes \in Nat
      /\ Len(psQueue) \in Nat /\ Met \in Nat
  BY SourceTypes DEF Source!ConstantsOK
<1>4. CASE \E n \in Source!Yield[psKind] : Source!Number(r, n) /\ UNCHANGED psErrors
  <2>1. \A n \in Source!Yield[psKind] : n \in Nat
    <3>1. psKind \in {"mavlink", "msp", "crsf"}
      BY DEF SourceInv, SourceTypeInv, Source!TypeOK
    <3> QED
      BY <1>t, <3>1 DEF Source!Yield, Source!MavlinkFixes, Source!MspFixes, Source!CrsfFixes
  <2>2. PICK n \in Nat : Source!Number(r, n) /\ UNCHANGED psErrors
    BY <1>4, <2>1
  <2> DEFINE state == IF n = 0 THEN "check" ELSE "hand_over"
             batch == [i \in 1..n |-> psSeq + i]
  <2>3. psSeq' = psSeq + n /\ psSeq' \in 0..MaxFixes
    BY <1>t, <2>2 DEF Source!Number
  <2>4. psReader' = [psReader EXCEPT ![r] = [state |-> state, batch |-> batch]]
    BY <2>2 DEF Source!Number
  <2>5. /\ batch \in Seq(1..MaxFixes) /\ Len(batch) = n
        /\ \A i \in 1..n : batch[i] = psSeq + i
    <3>1. \A i \in 1..n : psSeq + i \in 1..MaxFixes
      BY <1>t, <2>2, <2>3
    <3> QED
      BY <3>1, IsASeq
  <2>6. state = "hand_over" <=> batch # <<>>
    BY <2>5, EmptySeq
  <2>7. state \in {"check", "hand_over"}
    OBVIOUS
  <2> HIDE DEF state, batch
  <2>8. /\ psReader' \in Seq(SourceReaders)
        /\ SourceReaderInv' /\ SourceAloneInv' /\ Source!KeepsPolling'
        /\ ~psZombie => Pending = <<>> /\ Pending' = batch
    BY <1>2, <1>3, <2>2, <2>4, <2>5, <2>6, <2>7, SourceReaderSteps
  <2>9. SourceTypeInv'
    BY <1>3, <1>t, <2>2, <2>3, <2>8 DEF SourceInv, SourceTypeInv, Source!TypeOK, SourceReaders
  <2>10. SourceOrderInv'
    <3> SUFFICES ASSUME ~psZombie
                 PROVE  /\ psSeq' = Met + Len(psQueue) + Len(Pending')
                        /\ \A i \in 1..Len(Pending') : Pending'[i] = Met + Len(psQueue) + i
      BY <1>3 DEF SourceInv, SourceOrderInv
    <3>1. Len(Pending) = 0 /\ Len(Pending') = n /\ \A i \in 1..n : Pending'[i] = psSeq + i
      BY <2>5, <2>8
    <3>2. psSeq = Met + Len(psQueue)
      BY <1>t, <3>1 DEF SourceInv, SourceOrderInv
    <3> QED
      BY <1>t, <2>3, <3>1, <3>2
  <2> QED
    BY <2>8, <2>9, <2>10 DEF SourceInv
<1>5. CASE /\ Source!Goes(r, "ended") /\ UNCHANGED psSeq
           /\ \/ psDevice = "closed" /\ UNCHANGED psErrors
              \/ psErrors' = psErrors + 1
  <2> DEFINE state == "ended"
             batch == psReader[r].batch
  <2>1. psReader' = [psReader EXCEPT ![r] = [state |-> state, batch |-> batch]]
    BY <1>1, <1>5, SourceGoes DEF Source!Goes
  <2>2. batch \in Seq(1..MaxFixes) /\ batch = <<>> /\ state = "ended"
    BY <1>2, EmptySeq
  <2> HIDE DEF state, batch
  <2>3. psErrors' \in Nat /\ (psErrors' = 0 => psErrors = 0 /\ psDevice # "open")
    BY <1>t, <1>5
  <2>4. /\ psReader' \in Seq(SourceReaders)
        /\ SourceReaderInv' /\ SourceAloneInv' /\ Source!KeepsPolling'
        /\ ~psZombie => Pending = batch /\ Pending' = batch
    <3>1. /\ psReader[r].state # "ended" /\ state \in {"check", "poll", "hand_over", "ended"}
          /\ psReader[r].batch = batch /\ (state = "hand_over" <=> batch # <<>>)
      BY <1>2, <2>2
    <3> QED
      BY <1>3, <2>1, <2>2, <2>3, <3>1, SourceReaderSteps
  <2>5. SourceTypeInv'
    BY <1>3, <1>5, <2>3, <2>4 DEF SourceInv, SourceTypeInv, Source!TypeOK, SourceReaders
  <2>6. SourceOrderInv'
    BY <1>3, <1>5, <2>4 DEF SourceInv, SourceOrderInv
  <2> QED
    BY <2>4, <2>5, <2>6 DEF SourceInv
<1> QED
  BY <1>4, <1>5 DEF Source!Poll

\* The next fix to be handed over is the next of the sequence.
LEMMA SourceHandOverKeeps ==
  ASSUME SourceInv, NEW r \in DOMAIN psReader, Source!HandOver(r)
  PROVE  SourceInv'
<1> DEFINE old == psReader[r].batch
           batch == Tail(old)
           state == IF Len(old) = 1 THEN "check" ELSE "hand_over"
<1>1. psReader[r] \in SourceReaders
  BY SourceTypes, ElementOfSeq
<1>2. old \in Seq(1..MaxFixes) /\ old # <<>> /\ psReader[r].state = "hand_over"
  BY <1>1 DEF SourceReaders, SourceInv, SourceReaderInv, Source!HandOver
<1>3. /\ UNCHANGED <<psKind, psOwner, psStop, psDevice, psIngested, psTaken, psDropped,
                     psErrors, psSeq, psZombie, Met>>
      /\ psQueue' = Append(psQueue, Head(old))
      /\ psReader' = [psReader EXCEPT ![r] = [state |-> state, batch |-> batch]]
  BY DEF Source!HandOver, Source!inbox, Met
<1>4. /\ Head(old) \in 1..MaxFixes /\ batch \in Seq(1..MaxFixes) /\ Len(batch) = Len(old) - 1
      /\ \A i \in 1..Len(batch) : batch[i] = old[i + 1]
      /\ Len(old) \in Nat /\ Len(old) > 0 /\ Head(old) = old[1]
  <2>1. /\ Head(old) \in 1..MaxFixes /\ batch \in Seq(1..MaxFixes)
        /\ Len(batch) = Len(old) - 1 /\ \A i \in 1..Len(batch) : batch[i] = old[i + 1]
    BY <1>2, HeadTailProperties
  <2>2. Len(old) \in Nat /\ Len(old) > 0 /\ Head(old) = old[1]
    BY <1>2, LenProperties, EmptySeq
  <2> QED
    BY <2>1, <2>2
<1>5. /\ state \in {"check", "poll", "hand_over", "ended"} /\ state # "ended"
      /\ state = "hand_over" <=> batch # <<>>
  <2>1. state \in {"check", "hand_over"} /\ (state = "hand_over" <=> Len(old) # 1)
    OBVIOUS
  <2> HIDE DEF old, batch, state
  <2>2. Len(batch) # 0 <=> batch # <<>>
    BY <1>4, EmptySeq
  <2> QED
    BY <1>4, <2>1, <2>2
<1>6. /\ psReader' \in Seq(SourceReaders)
      /\ SourceReaderInv' /\ SourceAloneInv' /\ Source!KeepsPolling'
      /\ ~psZombie => Pending = old /\ Pending' = batch
  <2> HIDE DEF state, batch
  <2> QED
    BY <1>2, <1>3, <1>4, <1>5, SourceReaderSteps
<1>7. /\ psQueue' \in Seq(1..MaxFixes) /\ Len(psQueue') = Len(psQueue) + 1
      /\ \A i \in 1..Len(psQueue) : psQueue'[i] = psQueue[i]
      /\ psQueue'[Len(psQueue) + 1] = Head(old)
      /\ Len(psQueue) \in Nat /\ Met \in Nat
  BY <1>3, <1>4, SourceTypes, AppendProperties
<1>8. SourceTypeInv'
  BY <1>3, <1>6, <1>7 DEF SourceInv, SourceTypeInv, Source!TypeOK, SourceReaders
<1>9. SourceOrderInv'
  <2> HIDE DEF batch
  <2> SUFFICES ASSUME ~psZombie
               PROVE  /\ psSeq = Met + Len(psQueue') + Len(Pending')
                      /\ \A i \in 1..Len(psQueue') : psQueue'[i] = Met + i
                      /\ \A i \in 1..Len(Pending') : Pending'[i] = Met + Len(psQueue') + i
    BY <1>3 DEF SourceInv, SourceOrderInv
  <2>1. Pending = old /\ Pending' = batch
    BY <1>6
  <2>2. /\ psSeq = Met + Len(psQueue) + Len(old)
        /\ \A i \in 1..Len(psQueue) : psQueue[i] = Met + i
        /\ \A i \in 1..Len(old) : old[i] = Met + Len(psQueue) + i
    BY <2>1 DEF SourceInv, SourceOrderInv
  <2> HIDE DEF old
  <2>3. psSeq = Met + Len(psQueue') + Len(Pending')
    BY <1>4, <1>7, <2>1, <2>2
  <2>4. ASSUME NEW i \in 1..Len(psQueue') PROVE psQueue'[i] = Met + i
    <3>1. CASE i = Len(psQueue) + 1
      <4>1. 1 \in 1..Len(old)
        BY <1>4
      <4> QED
        BY <3>1, <4>1, <1>4, <1>7, <2>2
    <3>2. CASE i # Len(psQueue) + 1
      <4>1. i \in 1..Len(psQueue)
        BY <3>2, <1>7
      <4> QED
        BY <4>1, <1>7, <2>2
    <3> QED
      BY <3>1, <3>2
  <2>5. ASSUME NEW i \in 1..Len(Pending') PROVE Pending'[i] = Met + Len(psQueue') + i
    <3>1. i + 1 \in 1..Len(old) /\ i \in 1..Len(batch)
      BY <2>1, <1>4
    <3>2. Pending'[i] = old[i + 1] /\ old[i + 1] = Met + Len(psQueue) + (i + 1)
      BY <2>1, <2>2, <3>1, <1>4
    <3> QED
      BY <3>1, <3>2, <1>7
  <2> QED
    BY <2>3, <2>4, <2>5
<1> QED
  BY <1>6, <1>8, <1>9 DEF SourceInv

\* Ingesting takes the next fix from the queue: it is the last in the inbox, or dropped.
LEMMA SourceIngestKeeps == ASSUME SourceInv, Source!Ingest PROVE SourceInv'
<1>1. /\ psQueue # <<>> /\ psIngested \in Seq(1..MaxFixes) /\ psQueue \in Seq(1..MaxFixes)
      /\ UNCHANGED <<psKind, psOwner, psStop, psDevice, psReader, psTaken, psErrors, psSeq,
                     psZombie, Pending>>
      /\ psQueue' = Tail(psQueue) /\ psDropped \in Nat /\ Met \in Nat
      /\ psTaken \in 0..Len(psIngested) /\ Len(psIngested) \in Nat /\ Len(psQueue) \in Nat
      /\ Len(Pending) \in Nat
  BY SourceTypes DEF Source!Ingest, Pending
<1>2. /\ Head(psQueue) \in 1..MaxFixes /\ Head(psQueue) = psQueue[1] /\ Len(psQueue) >= 1
      /\ psQueue' \in Seq(1..MaxFixes) /\ Len(psQueue') = Len(psQueue) - 1
      /\ \A i \in 1..Len(psQueue') : psQueue'[i] = psQueue[i + 1]
  <2>1. /\ Head(psQueue) \in 1..MaxFixes /\ Tail(psQueue) \in Seq(1..MaxFixes)
        /\ Len(Tail(psQueue)) = Len(psQueue) - 1
        /\ \A i \in 1..Len(Tail(psQueue)) : Tail(psQueue)[i] = psQueue[i + 1]
    BY <1>1, HeadTailProperties
  <2>2. Head(psQueue) = psQueue[1] /\ Len(psQueue) >= 1
    BY <1>1, EmptySeq
  <2> QED
    BY <1>1, <2>1, <2>2
<1>3. /\ psIngested' \in Seq(1..MaxFixes) /\ psDropped' \in Nat /\ Met' = Met + 1
      /\ Len(psIngested') \in Nat /\ Len(psIngested) <= Len(psIngested')
      /\ \A i \in 1..Len(psIngested') :
             \/ i \in 1..Len(psIngested) /\ psIngested'[i] = psIngested[i]
             \/ i = Len(psIngested) + 1 /\ psIngested'[i] = Head(psQueue)
  <2>1. CASE psIngested' = Append(psIngested, Head(psQueue)) /\ UNCHANGED psDropped
    <3>1. /\ psIngested' \in Seq(1..MaxFixes) /\ Len(psIngested') = Len(psIngested) + 1
          /\ psIngested'[Len(psIngested) + 1] = Head(psQueue)
          /\ \A i \in 1..Len(psIngested) : psIngested'[i] = psIngested[i]
      BY <1>1, <1>2, <2>1, AppendProperties
    <3> QED
      BY <1>1, <2>1, <3>1 DEF Met
  <2>2. CASE psDropped' = psDropped + 1 /\ UNCHANGED psIngested
    BY <1>1, <2>2 DEF Met
  <2> QED
    BY <2>1, <2>2 DEF Source!Ingest
<1>4. SourceTypeInv'
  BY <1>1, <1>2, <1>3 DEF SourceInv, SourceTypeInv, Source!TypeOK
<1>5. SourceReaderInv' /\ SourceAloneInv' /\ Source!KeepsPolling'
  BY <1>1 DEF SourceInv, SourceReaderInv, SourceAloneInv, Source!KeepsPolling, Source!Ended
<1>6. SourceOrderInv'
  <2> SUFFICES ASSUME ~psZombie
               PROVE  /\ psSeq = Met' + Len(psQueue') + Len(Pending)
                      /\ \A i \in 1..Len(psQueue') : psQueue'[i] = Met' + i
                      /\ \A i \in 1..Len(Pending) : Pending[i] = Met' + Len(psQueue') + i
                      /\ \A i, j \in 1..Len(psIngested') :
                             i < j => psIngested'[i] < psIngested'[j]
                      /\ \A i \in 1..Len(psIngested') : psIngested'[i] <= Met'
    BY <1>1 DEF SourceOrderInv
  <2>1. /\ psSeq = Met + Len(psQueue) + Len(Pending)
        /\ \A i \in 1..Len(psQueue) : psQueue[i] = Met + i
        /\ \A i \in 1..Len(Pending) : Pending[i] = Met + Len(psQueue) + i
        /\ \A i, j \in 1..Len(psIngested) : i < j => psIngested[i] < psIngested[j]
        /\ \A i \in 1..Len(psIngested) : psIngested[i] <= Met
    BY DEF SourceInv, SourceOrderInv
  <2>2. Head(psQueue) = Met + 1
    BY <1>1, <1>2, <2>1
  <2>3. psSeq = Met' + Len(psQueue') + Len(Pending)
    BY <1>1, <1>2, <1>3, <2>1
  <2>4. \A i \in 1..Len(psQueue') : psQueue'[i] = Met' + i
    <3> TAKE i \in 1..Len(psQueue')
    <3>1. i + 1 \in 1..Len(psQueue)
      BY <1>1, <1>2
    <3> QED
      BY <1>1, <1>2, <1>3, <2>1, <3>1
  <2>5. \A i \in 1..Len(Pending) : Pending[i] = Met' + Len(psQueue') + i
    BY <1>1, <1>2, <1>3, <2>1
  <2>6. \A i \in 1..Len(psIngested') : psIngested'[i] \in Int /\ psIngested'[i] <= Met'
    <3> TAKE i \in 1..Len(psIngested')
    <3>1. CASE i \in 1..Len(psIngested) /\ psIngested'[i] = psIngested[i]
      <4>1. psIngested[i] \in 1..MaxFixes
        BY <1>1, <3>1, ElementOfSeq
      <4> QED
        BY <1>1, <1>3, <2>1, <3>1, <4>1
    <3>2. CASE psIngested'[i] = Head(psQueue)
      BY <1>1, <1>2, <1>3, <2>2, <3>2
    <3> QED
      BY <1>3, <3>1, <3>2
  <2>7. ASSUME NEW i \in 1..Len(psIngested'), NEW j \in 1..Len(psIngested'), i < j
        PROVE  psIngested'[i] < psIngested'[j]
    <3>1. i \in 1..Len(psIngested) /\ psIngested'[i] = psIngested[i]
      BY <1>1, <1>3, <2>7
    <3>2. psIngested[i] \in 1..MaxFixes /\ psIngested[i] <= Met
      BY <1>1, <2>1, <3>1, ElementOfSeq
    <3>3. CASE j \in 1..Len(psIngested) /\ psIngested'[j] = psIngested[j]
      BY <2>1, <2>7, <3>1, <3>3
    <3>4. CASE psIngested'[j] = Head(psQueue)
      BY <1>1, <2>2, <3>1, <3>2, <3>4
    <3> QED
      BY <1>3, <3>3, <3>4
  <2> QED
    BY <2>3, <2>4, <2>5, <2>6, <2>7
<1> QED
  BY <1>4, <1>5, <1>6 DEF SourceInv

\* The router takes what is in the inbox, and no more.
LEMMA SourceTakeKeeps == ASSUME SourceInv, Source!Take PROVE SourceInv'
<1>1. /\ UNCHANGED <<psKind, psOwner, psStop, psDevice, psReader, psSeq, psQueue, psIngested,
                     psDropped, psErrors, psZombie, Met, Pending>>
      /\ psTaken' \in 0..Len(psIngested)
  BY SourceTypes DEF Source!Take, Met, Pending
<1>2. SourceTypeInv'
  BY <1>1 DEF SourceInv, SourceTypeInv, Source!TypeOK
<1>3. SourceReaderInv' /\ SourceAloneInv' /\ SourceOrderInv' /\ Source!KeepsPolling'
  BY <1>1 DEF SourceInv, SourceReaderInv, SourceAloneInv, SourceOrderInv,
     Source!KeepsPolling, Source!Ended
<1> QED
  BY <1>2, <1>3 DEF SourceInv

\* A session starts with nothing pending, for the reader of the last one has ended.
LEMMA SourceStartKeeps == ASSUME SourceInv, Source!Start PROVE SourceInv'
<1> DEFINE reader == [state |-> "check", batch |-> <<>>]
<1>1. /\ psOwner = "down" /\ psOwner' = "up" /\ psStop' = FALSE /\ Source!OnOpen
      /\ psReader' = Append(psReader, reader)
      /\ UNCHANGED <<psKind, psSeq, psQueue, psIngested, psTaken, psDropped, psErrors, psZombie,
                     Met>>
  BY DEF Source!Start, Source!inbox, Met
<1>2. psReader \in Seq(SourceReaders) /\ DOMAIN psReader = 1..Len(psReader)
      /\ Len(psReader) \in Nat
  BY SourceTypes
<1>3. reader \in SourceReaders
  BY EmptySeq DEF SourceReaders
<1>4. /\ psReader' \in Seq(SourceReaders) /\ psReader' # <<>>
      /\ Len(psReader') = Len(psReader) + 1 /\ psReader'[Len(psReader')] = reader
      /\ \A k \in 1..Len(psReader) : psReader'[k] = psReader[k]
  BY <1>1, <1>2, <1>3, AppendProperties
<1>5. DOMAIN psReader' = 1 .. Len(psReader) + 1
  BY <1>4, LenProperties
<1>6. \A k \in DOMAIN psReader' : k = Len(psReader') \/ k \in DOMAIN psReader
  BY <1>2, <1>4, <1>5
<1>7. SourceTypeInv'
  <2>1. psDevice' \in {"none", "open", "closed"}
    BY <1>1 DEF SourceInv, SourceTypeInv, Source!TypeOK, Source!OnOpen
  <2>2. psStop' \in BOOLEAN
    BY <1>1
  <2> QED
    BY <1>1, <1>4, <2>1, <2>2 DEF SourceInv, SourceTypeInv, Source!TypeOK, SourceReaders
<1>8. SourceReaderInv'
  BY <1>1, <1>2, <1>4, <1>6 DEF SourceInv, SourceReaderInv
<1>9. SourceAloneInv'
  BY <1>1, <1>2, <1>4, <1>6 DEF SourceInv, SourceAloneInv, Source!Ended
<1>10. Source!KeepsPolling'
  BY <1>4 DEF Source!KeepsPolling, Source!Ended
<1>11. SourceOrderInv'
  <2> SUFFICES ASSUME ~psZombie PROVE Pending' = Pending
    BY <1>1 DEF SourceInv, SourceOrderInv
  <2>1. Pending' = <<>>
    BY <1>4 DEF Pending
  <2>2. ASSUME psReader # <<>> PROVE psReader[Len(psReader)].batch = <<>>
    <3>1. Len(psReader) \in DOMAIN psReader
      BY <1>2, <2>2, EmptySeq
    <3> QED
      BY <1>1, <3>1 DEF SourceInv, SourceReaderInv, SourceAloneInv, Source!Ended
  <2> QED
    BY <2>1, <2>2 DEF Pending
<1> QED
  BY <1>7, <1>8, <1>9, <1>10, <1>11 DEF SourceInv

\* A join that does not time out leaves no reader.
LEMMA SourceStopKeeps == ASSUME SourceInv, Source!Stop \/ Source!Join PROVE SourceInv'
<1>1. /\ psOwner \in {"up", "joining"} /\ psOwner' \in {"joining", "down"}
      /\ UNCHANGED <<psKind, psReader, psSeq, psQueue, psIngested, psTaken, psDropped, psErrors,
                     Met, Pending>>
  BY DEF Source!Stop, Source!Join, Source!inbox, Met, Pending
<1>2. /\ psReader \in Seq(SourceReaders) /\ DOMAIN psReader = 1..Len(psReader)
      /\ Len(psReader) \in Nat /\ psReader # <<>>
  BY <1>1, SourceTypes DEF SourceInv, SourceReaderInv
<1>3. SourceTypeInv'
  <2>1. psStop' \in BOOLEAN
    BY DEF Source!Stop, Source!Join, SourceInv, SourceTypeInv, Source!TypeOK
  <2>2. psZombie' \in BOOLEAN
    BY Zenon DEF Source!Stop, Source!Join, SourceInv, SourceTypeInv, Source!TypeOK, Source!Ended
  <2>3. psDevice' \in {"none", "open", "closed"}
    BY DEF Source!Stop, Source!Join, SourceInv, SourceTypeInv, Source!TypeOK
  <2> QED
    BY <1>1, <2>1, <2>2, <2>3 DEF SourceInv, SourceTypeInv, Source!TypeOK
<1>4. SourceReaderInv'
  BY <1>1, <1>2 DEF SourceInv, SourceReaderInv
<1>5. ~psZombie' => ~psZombie /\ (psOwner' = "down" => Source!Ended(Len(psReader)))
  BY <1>1 DEF Source!Stop, Source!Join
<1>6. SourceAloneInv'
  BY <1>1, <1>2, <1>5 DEF SourceInv, SourceAloneInv, Source!Ended
<1>7. Source!KeepsPolling'
  BY <1>1 DEF Source!KeepsPolling
<1>8. SourceOrderInv'
  BY <1>1, <1>5 DEF SourceInv, SourceOrderInv
<1> QED
  BY <1>3, <1>4, <1>6, <1>7, <1>8 DEF SourceInv

\* A process that starts has no reader and no fixes.
SourceFresh ==
    /\ psKind \in {"mavlink", "msp", "crsf"} /\ psErrors \in Nat
    /\ psOwner = "down" /\ psStop = FALSE /\ psDevice = "none" /\ psReader = <<>>
    /\ psSeq = 0 /\ psQueue = <<>> /\ psIngested = <<>> /\ psTaken = 0 /\ psDropped = 0
    /\ psZombie = FALSE

LEMMA SourceFreshInv == ASSUME Source!ConstantsOK PROVE SourceFresh => SourceInv
<1> SUFFICES ASSUME SourceFresh PROVE SourceInv
  OBVIOUS
<1>1. /\ <<>> \in Seq(SourceReaders) /\ <<>> \in Seq(1..MaxFixes)
      /\ Len(<<>>) = 0
  BY EmptySeq
<1>2. psStop \in BOOLEAN /\ psZombie \in BOOLEAN /\ MaxFixes \in Nat
  BY DEF Source!ConstantsOK, SourceFresh
<1>3. SourceTypeInv
  BY <1>1, <1>2 DEF SourceFresh, SourceTypeInv, Source!TypeOK, SourceReaders
<1>4. SourceReaderInv /\ SourceAloneInv /\ Source!KeepsPolling
  BY DEF SourceFresh, SourceReaderInv, SourceAloneInv, Source!KeepsPolling
<1>5. SourceOrderInv
  BY <1>1 DEF SourceFresh, SourceOrderInv, Pending, Met
<1> QED
  BY <1>3, <1>4, <1>5 DEF SourceInv

\* Every step keeps it.
LEMMA SourceKeeps ==
  ASSUME Source!ConstantsOK, SourceFresh' => SourceInv', SourceInv, [Source!Next]_Source!vars
  PROVE  SourceInv'
<1>1. CASE Source!Start
  BY <1>1, SourceStartKeeps
<1>2. CASE Source!Stop \/ Source!Join
  BY <1>2, SourceStopKeeps
<1>3. CASE Source!Ingest \/ Source!Take
  BY <1>3, SourceIngestKeeps, SourceTakeKeeps
<1>4. CASE Source!Restart
  <2>1. SourceFresh'
    BY <1>4 DEF Source!Restart, SourceFresh, SourceInv, SourceTypeInv, Source!TypeOK
  <2> QED
    BY <2>1
<1>5. ASSUME NEW r \in DOMAIN psReader, Source!Reader(r) PROVE SourceInv'
  BY <1>5, SourceCheckKeeps, SourcePollKeeps, SourceHandOverKeeps DEF Source!Reader
<1>6. CASE UNCHANGED Source!vars
  BY <1>6 DEF Source!vars, Source!process, Source!inbox, SourceInv, SourceTypeInv,
     Source!TypeOK, SourceReaderInv, SourceAloneInv, SourceOrderInv, Met, Pending,
     Source!KeepsPolling, Source!Ended
<1> QED
  BY <1>1, <1>2, <1>3, <1>4, <1>5, <1>6 DEF Source!Next

\* The invariant holds of every run.
LEMMA SourceInvariant ==
  ASSUME Source!ConstantsOK
  PROVE  Source!Init /\ [][Source!Next]_Source!vars => []SourceInv
<1>1. SourceFresh => SourceInv
  BY SourceFreshInv
<1>2. Source!Init => SourceInv
  BY <1>1 DEF Source!Init, SourceFresh
<1>3. SourceFresh' => SourceInv'
  BY <1>1, PTL
<1>4. SourceInv /\ [Source!Next]_Source!vars => SourceInv'
  BY <1>3, SourceKeeps
<1> QED
  BY <1>2, <1>4, PTL

\* PollingSourceTransport: however polls, hand-overs and the event loop interleave, and
\* whenever the source is stopped, started or its process restarted, unless a join has timed
\* out no fix is repeated or overtaken on its way to the router, and none is missing but those
\* counted as dropped from a full inbox; and the reader of a session ends by itself only when
\* the device fails.
THEOREM SourcesInOrderTheorem ==
  ASSUME Source!ConstantsOK
  PROVE  Source!Spec => []SourcesInOrder
<1>1. SourceInv => SourcesInOrder
  <2> SUFFICES ASSUME SourceInv PROVE SourcesInOrder
    OBVIOUS
  <2>1. DOMAIN psIngested = 1..Len(psIngested) /\ DOMAIN psQueue = 1..Len(psQueue)
    BY SourceTypes, LenProperties
  <2>2. Source!FixesInOrder
    BY <2>1 DEF SourceInv, SourceAloneInv, SourceOrderInv, Met, Source!FixesInOrder, Source!Ended
  <2> QED
    BY <2>2 DEF SourceInv, SourcesInOrder
<1> QED
  BY <1>1, SourceInvariant, PTL DEF Source!Spec

-----------------------------------------------------------------------------
(* Pacer: a caller that sleeps has been promised a token that is not in the bucket yet, so *)
(* what it may have sent is bounded by its sleep; one that is awake is bounded by what     *)
(* others and the clock have left in the bucket.                                           *)

\* The bucket as the next acquire() will find it.
PaceRefilled == Pace!Least(Pace!Capacity, pcTokens + pcElapsed)

\* What an awake caller has in its own bucket fits beside the tokens it could take.
PaceAwakeInv ==
    \A p \in Callers : pcLeft[p] = Pace!Awake => pcLevel[p] + PaceRefilled <= Pace!Capacity

\* What a sleeping caller has will have drained by a token's worth when it wakes.
PaceAsleepInv ==
    \A p \in Callers : pcLeft[p] # Pace!Awake => pcLevel[p] + Interval <= Pace!Capacity + pcLeft[p]

\* The inductive invariant.
PaceInv == Pace!TypeOK /\ PaceAwakeInv /\ PaceAsleepInv


\* A bucket holds at least one token.
LEMMA PaceCapacity ==
  ASSUME Pace!ConstantsOK
  PROVE  /\ Interval \in Nat /\ Interval >= 1
         /\ Pace!Capacity \in Nat /\ Pace!Capacity >= Interval
         /\ Pace!Awake = Interval + 1
<1>1. Interval \in Nat /\ Interval >= 1 /\ Burst \in Nat /\ Burst >= 1
  BY DEF Pace!ConstantsOK
<1>2. /\ Burst * Interval \in Nat
      /\ Burst * Interval >= Interval
  BY <1>1, Z3
<1> QED
  BY <1>1, <1>2 DEF Pace!Capacity, Pace!Awake

\* A full bucket and callers that have sent nothing.
LEMMA PaceInitInv == ASSUME Pace!ConstantsOK PROVE Pace!Init => PaceInv
<1> SUFFICES ASSUME Pace!Init PROVE PaceInv
  OBVIOUS
<1>1. Pace!TypeOK
  BY PaceCapacity DEF Pace!Init, Pace!TypeOK
<1>2. PaceAwakeInv
  <2>1. PaceRefilled <= Pace!Capacity
    BY PaceCapacity DEF Pace!Init, PaceRefilled, Pace!Least
  <2>2. PaceRefilled \in Nat
    BY PaceCapacity DEF Pace!Init, PaceRefilled, Pace!Least
  <2> QED
    BY <2>1, <2>2, PaceCapacity DEF Pace!Init, PaceAwakeInv
<1>3. PaceAsleepInv
  BY DEF Pace!Init, PaceAsleepInv
<1> QED
  BY <1>1, <1>2, <1>3 DEF PaceInv

\* The clock fills the bucket no faster than it drains each caller's.
LEMMA PaceTickKeeps == ASSUME Pace!ConstantsOK, PaceInv, Pace!Tick PROVE PaceInv'
<1>t. Pace!TypeOK
  BY DEF PaceInv
<1>1. Pace!TypeOK'
  <2>1. Pace!Least(pcElapsed + 1, Pace!Capacity) \in 0..Pace!Capacity
    BY <1>t, PaceCapacity DEF Pace!TypeOK, Pace!Least
  <2> QED
    BY <1>t, <2>1, PaceCapacity DEF Pace!Tick, Pace!TypeOK
<1>2. PaceAwakeInv'
  <2> SUFFICES ASSUME NEW p \in Callers, pcLeft'[p] = Pace!Awake
               PROVE  pcLevel'[p] + PaceRefilled' <= Pace!Capacity
    BY DEF PaceAwakeInv
  <2>1. pcLeft[p] = Pace!Awake
    BY <1>t, PaceCapacity DEF Pace!Tick, Pace!TypeOK
  <2>2. pcLevel[p] + PaceRefilled <= Pace!Capacity
    BY <2>1 DEF PaceInv, PaceAwakeInv
  <2>3. PaceRefilled' <= Pace!Capacity /\ PaceRefilled' \in Nat /\ PaceRefilled' <= PaceRefilled + 1
    BY <1>t, PaceCapacity DEF Pace!Tick, Pace!TypeOK, PaceRefilled, Pace!Least
  <2>4. pcLevel'[p] = IF pcLevel[p] = 0 THEN 0 ELSE pcLevel[p] - 1
    BY DEF Pace!Tick
  <2>5. PaceRefilled \in Nat /\ pcLevel[p] \in Nat
    BY <1>t, PaceCapacity DEF Pace!TypeOK, PaceRefilled, Pace!Least
  <2> QED
    BY <2>2, <2>3, <2>4, <2>5, PaceCapacity
<1>3. PaceAsleepInv'
  <2> SUFFICES ASSUME NEW p \in Callers, pcLeft'[p] # Pace!Awake
               PROVE  pcLevel'[p] + Interval <= Pace!Capacity + pcLeft'[p]
    BY DEF PaceAsleepInv
  <2>1. pcLeft[p] # Pace!Awake
    BY DEF Pace!Tick
  <2>2. pcLevel[p] + Interval <= Pace!Capacity + pcLeft[p]
    BY <2>1 DEF PaceInv, PaceAsleepInv
  <2>3. pcLevel[p] \in Nat /\ pcLeft[p] \in 0..Pace!Awake
    BY <1>t DEF Pace!TypeOK
  <2>4. /\ pcLevel'[p] = IF pcLevel[p] = 0 THEN 0 ELSE pcLevel[p] - 1
        /\ pcLeft'[p] = IF pcLeft[p] = 0 THEN 0 ELSE pcLeft[p] - 1
    BY <2>1 DEF Pace!Tick
  <2> QED
    BY <2>2, <2>3, <2>4, PaceCapacity
<1> QED
  BY <1>1, <1>2, <1>3 DEF PaceInv

\* A caller that finds a token takes it; one that does not sleeps for what is missing.
LEMMA PaceAcquireKeeps ==
  ASSUME Pace!ConstantsOK, PaceInv, NEW c \in Callers, Pace!Acquire(c)
  PROVE  PaceInv'
<1> DEFINE tokens == PaceRefilled
<1>t. Pace!TypeOK
  BY DEF PaceInv
<1>a. tokens \in Nat /\ tokens <= Pace!Capacity /\ pcLevel[c] \in Nat
  BY <1>t, PaceCapacity DEF Pace!TypeOK, PaceRefilled, Pace!Least
<1>b. pcLeft[c] = Pace!Awake /\ pcElapsed' = 0
  BY DEF Pace!Acquire
<1>c. pcLevel[c] + tokens <= Pace!Capacity
  BY <1>b DEF PaceInv, PaceAwakeInv
<1>1. CASE tokens < Interval
  <2>1. /\ pcTokens' = tokens
        /\ pcLeft' = [pcLeft EXCEPT ![c] = Interval - tokens]
        /\ pcLevel' = pcLevel
    BY <1>1 DEF Pace!Acquire, PaceRefilled
  <2>2. Interval - tokens \in 0..Pace!Awake /\ Interval - tokens # Pace!Awake
    BY <1>1, <1>a, PaceCapacity
  <2>3. PaceRefilled' = tokens
    BY <1>a, <1>b, <2>1, PaceCapacity DEF PaceRefilled, Pace!Least
  <2>4. Pace!TypeOK'
    BY <1>t, <1>a, <1>b, <2>1, <2>2, PaceCapacity DEF Pace!TypeOK
  <2>5. PaceAwakeInv'
    BY <1>t, <2>1, <2>2, <2>3 DEF PaceInv, PaceAwakeInv, Pace!TypeOK
  <2>6. PaceAsleepInv'
    <3> SUFFICES ASSUME NEW p \in Callers, pcLeft'[p] # Pace!Awake
                 PROVE  pcLevel'[p] + Interval <= Pace!Capacity + pcLeft'[p]
      BY DEF PaceAsleepInv
    <3>1. CASE p = c
      <4>1. pcLeft'[c] = Interval - tokens
        BY <1>t, <2>1 DEF Pace!TypeOK
      <4> QED
        BY <3>1, <4>1, <1>a, <1>c, <2>1, PaceCapacity
    <3>2. CASE p # c
      <4>1. pcLeft'[p] = pcLeft[p]
        BY <3>2, <2>1, <1>t DEF Pace!TypeOK
      <4> QED
        BY <4>1, <2>1 DEF PaceInv, PaceAsleepInv
    <3> QED
      BY <3>1, <3>2
  <2> QED
    BY <2>4, <2>5, <2>6 DEF PaceInv
<1>2. CASE ~(tokens < Interval)
  <2>1. /\ pcTokens' = tokens - Interval
        /\ pcLevel' = [pcLevel EXCEPT ![c] = @ + Interval]
        /\ pcLeft' = pcLeft
    BY <1>2 DEF Pace!Acquire, Pace!Sent, PaceRefilled
  <2>2. PaceRefilled' = tokens - Interval
    BY <1>2, <1>a, <1>b, <2>1, PaceCapacity DEF PaceRefilled, Pace!Least
  <2>3. Pace!TypeOK'
    BY <1>2, <1>t, <1>a, <1>b, <2>1, PaceCapacity DEF Pace!TypeOK
  <2>4. PaceAwakeInv'
    <3> SUFFICES ASSUME NEW p \in Callers, pcLeft'[p] = Pace!Awake
                 PROVE  pcLevel'[p] + PaceRefilled' <= Pace!Capacity
      BY DEF PaceAwakeInv
    <3>1. pcLevel[p] + tokens <= Pace!Capacity /\ pcLevel[p] \in Nat
      BY <1>t, <2>1 DEF PaceInv, PaceAwakeInv, Pace!TypeOK
    <3>2. pcLevel'[p] = IF p = c THEN pcLevel[p] + Interval ELSE pcLevel[p]
      BY <1>t, <2>1 DEF Pace!TypeOK
    <3> QED
      BY <3>1, <3>2, <2>2, <1>2, <1>a, PaceCapacity
  <2>5. PaceAsleepInv'
    <3> SUFFICES ASSUME NEW p \in Callers, pcLeft'[p] # Pace!Awake
                 PROVE  pcLevel'[p] + Interval <= Pace!Capacity + pcLeft'[p]
      BY DEF PaceAsleepInv
    <3>1. p # c
      BY <1>b, <2>1
    <3>2. pcLevel'[p] = pcLevel[p]
      BY <3>1, <2>1, <1>t DEF Pace!TypeOK
    <3> QED
      BY <3>2, <2>1 DEF PaceInv, PaceAsleepInv
  <2> QED
    BY <2>3, <2>4, <2>5 DEF PaceInv
<1> QED
  BY <1>1, <1>2

\* A caller that wakes takes the token it waited for, and all that had gathered meanwhile.
LEMMA PaceWakeKeeps ==
  ASSUME Pace!ConstantsOK, PaceInv, NEW c \in Callers, Pace!Wake(c)
  PROVE  PaceInv'
<1>t. Pace!TypeOK
  BY DEF PaceInv
<1>a. /\ pcLeft[c] = 0 /\ pcTokens' = 0 /\ pcElapsed' = 0
      /\ pcLeft' = [pcLeft EXCEPT ![c] = Pace!Awake]
      /\ pcLevel' = [pcLevel EXCEPT ![c] = @ + Interval]
  BY DEF Pace!Wake, Pace!Sent
<1>b. pcLevel[c] + Interval <= Pace!Capacity /\ pcLevel[c] \in Nat
  BY <1>a, <1>t, PaceCapacity DEF PaceInv, PaceAsleepInv, Pace!TypeOK
<1>c. PaceRefilled' = 0
  BY <1>a, PaceCapacity DEF PaceRefilled, Pace!Least
<1>1. Pace!TypeOK'
  BY <1>a, <1>b, <1>t, PaceCapacity DEF Pace!TypeOK
<1>2. PaceAwakeInv'
  <2> SUFFICES ASSUME NEW p \in Callers, pcLeft'[p] = Pace!Awake
               PROVE  pcLevel'[p] + 0 <= Pace!Capacity
    BY <1>c DEF PaceAwakeInv
  <2>1. CASE p = c
    BY <2>1, <1>a, <1>b, <1>t, PaceCapacity DEF Pace!TypeOK
  <2>2. CASE p # c
    <3>1. pcLeft[p] = Pace!Awake /\ pcLevel'[p] = pcLevel[p]
      BY <2>2, <1>a, <1>t DEF Pace!TypeOK
    <3>2. pcLevel[p] + PaceRefilled <= Pace!Capacity
      BY <3>1 DEF PaceInv, PaceAwakeInv
    <3>3. PaceRefilled \in Nat /\ pcLevel[p] \in Nat
      BY <1>t, PaceCapacity DEF Pace!TypeOK, PaceRefilled, Pace!Least
    <3> QED
      BY <3>1, <3>2, <3>3, PaceCapacity
  <2> QED
    BY <2>1, <2>2
<1>3. PaceAsleepInv'
  <2> SUFFICES ASSUME NEW p \in Callers, pcLeft'[p] # Pace!Awake
               PROVE  pcLevel'[p] + Interval <= Pace!Capacity + pcLeft'[p]
    BY DEF PaceAsleepInv
  <2>1. p # c
    BY <1>a, <1>t DEF Pace!TypeOK
  <2>2. pcLeft'[p] = pcLeft[p] /\ pcLevel'[p] = pcLevel[p]
    BY <2>1, <1>a, <1>t DEF Pace!TypeOK
  <2> QED
    BY <2>2 DEF PaceInv, PaceAsleepInv
<1> QED
  BY <1>1, <1>2, <1>3 DEF PaceInv

\* The invariant is inductive.
LEMMA PaceInvariant ==
  ASSUME Pace!ConstantsOK
  PROVE  Pace!Init /\ [][Pace!Next]_Pace!vars => []PaceInv
<1>1. Pace!Init => PaceInv
  BY PaceInitInv
<1>2. PaceInv /\ [Pace!Next]_Pace!vars => PaceInv'
  <2> SUFFICES ASSUME PaceInv, [Pace!Next]_Pace!vars PROVE PaceInv'
    OBVIOUS
  <2>1. CASE Pace!Tick
    BY <2>1, PaceTickKeeps
  <2>2. ASSUME NEW c \in Callers, Pace!Acquire(c) PROVE PaceInv'
    BY <2>2, PaceAcquireKeeps
  <2>3. ASSUME NEW c \in Callers, Pace!Wake(c) PROVE PaceInv'
    BY <2>3, PaceWakeKeeps
  <2>4. CASE UNCHANGED Pace!vars
    BY <2>4 DEF Pace!vars, PaceInv, Pace!TypeOK, PaceAwakeInv, PaceAsleepInv, PaceRefilled
  <2> QED
    BY <2>1, <2>2, <2>3, <2>4 DEF Pace!Next
<1> QED
  BY <1>1, <1>2, PTL

\* TokenBucket.acquire: however many tasks share the bucket, interleave and oversleep, one
\* caller's frames in any period are at most the burst and what the rate allows for it.
THEOREM CallerPacedTheorem == ASSUME Pace!ConstantsOK PROVE Pace!Spec => []CallerPaced
<1>1. PaceInv => CallerPaced
  <2> SUFFICES ASSUME PaceInv, NEW p \in Callers PROVE pcLevel[p] <= Pace!Capacity
    BY DEF CallerPaced, Pace!CallerPaced
  <2>t. /\ pcLevel[p] \in Nat /\ pcLeft[p] \in 0..Pace!Awake
        /\ PaceRefilled \in Nat
    BY PaceCapacity DEF PaceInv, Pace!TypeOK, PaceRefilled, Pace!Least
  <2>1. CASE pcLeft[p] = Pace!Awake
    <3>1. pcLevel[p] + PaceRefilled <= Pace!Capacity
      BY <2>1 DEF PaceInv, PaceAwakeInv
    <3> QED
      BY <3>1, <2>t, PaceCapacity
  <2>2. CASE pcLeft[p] # Pace!Awake
    <3>1. pcLevel[p] + Interval <= Pace!Capacity + pcLeft[p]
      BY <2>2 DEF PaceInv, PaceAsleepInv
    <3>2. pcLeft[p] <= Interval
      BY <2>2, <2>t, PaceCapacity
    <3> QED
      BY <3>1, <3>2, <2>t, PaceCapacity
  <2> QED
    BY <2>1, <2>2
<1> QED
  BY <1>1, PaceInvariant, PTL DEF Pace!Spec
=============================================================================
