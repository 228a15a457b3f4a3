--------------------------- MODULE CommanderProofs ---------------------------
(***************************************************************************)
(* Safety of the commanding service for any number of executor threads,    *)
(* tokens, attempts and ticks: the invariants CommanderRace and            *)
(* CommanderNoise check on small instances.                                *)
(***************************************************************************)
EXTENDS Commander, TLAPS

-----------------------------------------------------------------------------
(* The inductive invariant *)

\* The gate has released its token to a worker in one of these states.
Holders == {"audit_confirmed"} \cup ArmStates \cup SendStates

\* A token behind the gate has met no fate yet; one never issued has none.
GateInv ==
    /\ \A t \in Tokens : pending[t] # NoSpec =>
           t \in issued /\ released[t] = 0 /\ t \notin withdrawn
    /\ \A t \in Tokens : t \notin issued => released[t] = 0 /\ t \notin withdrawn
    /\ OneFate

\* A client learns a token only after its command_staged record is durable.
StageInv ==
    /\ \A w \in Workers : pc[w] \in {"audit_staged", "staged"} => tok[w] \in issued
    /\ \A w \in Workers : pc[w] = "staged" => <<"command_staged", tok[w], 0>> \in log
    /\ \A t \in known : <<"command_staged", t, 0>> \in log

\* At most one worker holds a released token.
HolderInv ==
    /\ \A w \in Workers : pc[w] \in GateStates => tok[w] \in known \cup {NoToken}
    /\ \A w \in Workers : pc[w] \in {"gate_del"} \cup Holders =>
           tok[w] \in known /\ spec[w] \in Builders
    /\ \A w \in Workers : pc[w] \in Holders => released[tok[w]] = 1
    /\ \A w, v \in Workers :
           pc[w] \in Holders /\ pc[v] \in Holders /\ tok[w] = tok[v] => w = v

\* What a holder has sent and audited so far.
TrailInv ==
    /\ \A t \in Tokens : released[t] = 0 => sends[t] = 0 /\ <<"arm_blocked", t, 0>> \notin log
    /\ \A w \in Workers : pc[w] \in Holders => <<"arm_blocked", tok[w], 0>> \notin log
    /\ \A w \in Workers : pc[w] \notin SendStates \cup ReplyStates => attempt[w] = 0
    /\ \A w \in Workers : pc[w] \in Holders \ SendStates => sends[tok[w]] = 0
    /\ \A w \in Workers : pc[w] \in SendStates =>
           /\ <<"command_confirmed", tok[w], 0>> \in log
           /\ attempt[w] <= MaxAttempts
           /\ pc[w] = "audit_attempt" => attempt[w] < MaxAttempts
    /\ \A w \in Workers : pc[w] \in SendStates \ {"drain", "send"} =>
           sends[tok[w]] = attempt[w]
    /\ \A w \in Workers : pc[w] \in {"drain", "send"} =>
           /\ sends[tok[w]] + 1 = attempt[w]
           /\ <<"command_attempt", tok[w], attempt[w]>> \in log
    /\ AuditedBeforeSent
    /\ SendsBounded

\* force_disarm gets past the gate only with force_ack.
ForceInv ==
    /\ \A t \in Tokens : pending[t] = "force_disarm" => AllowForceDisarm
    /\ \A w \in Workers : pc[w] = "gate_del" /\ spec[w] = "force_disarm" =>
           force[w] /\ AllowForceDisarm
    /\ \A w \in Workers : pc[w] \in Holders /\ spec[w] = "force_disarm" =>
           tok[w] \in acked /\ AllowForceDisarm
    /\ ForceOnlyWithForceAck

\* One of the commands in acc, the ones the vehicle accepted, has this MAV_CMD number.
AcceptedIn(command, acc) == \E n \in acc : CommandId(n) = command

\* An acceptance that names the target as its sender is the target's.
Genuine(a, acc) == a.sys = "target" /\ a.result = ACCEPTED => AcceptedIn(a.command, acc)

\* Every acceptance on its way to a worker, or taken by one, is genuine.
AckInv ==
    /\ \A a \in net : Genuine(a, accepted)
    /\ \A i \in DOMAIN acks : Genuine(acks[i], accepted)
    /\ \A w \in Workers : pc[w] = "audit_result" /\ result[w] = ACCEPTED =>
           AcceptedIn(CommandId(spec[w]), accepted)
    /\ AcceptedIsGenuine

\* The inductive invariant.
IInv == TypeOK /\ GateInv /\ StageInv /\ HolderInv /\ TrailInv /\ ForceInv /\ AckInv

-----------------------------------------------------------------------------
(* Type correctness *)

\* The MAV_CMD numbers of the builders.
LEMMA CommandIdType == \A name \in Builders : CommandId(name) \in {20, 176, 192, 400}
  BY DEF Builders, CommandId

\* After an attempt the sender tries again or gives up.
LEMMA NextAttemptType == \A n \in Nat : NextAttempt(n) \in {"audit_attempt", "audit_failed"}
  BY DEF NextAttempt

\* Ageing saturates just above the interlock's limit.
LEMMA OlderType == \A n \in 0..ArmMaxAge + 1 : Older(n) \in 0..ArmMaxAge + 1
  BY CommanderAssumption DEF Older

\* An audit write moves the worker on or fails the request.
LEMMA RecordMoves ==
    ASSUME NEW w \in Workers, NEW event, NEW n, NEW next \in States,
           pc \in [Workers -> States], Record(w, event, n, next)
    PROVE  pc' \in [Workers -> States]
  BY DEF Record, Goto, States, ReplyStates

\* A step that goes to one of some states leaves the worker in one of its states.
LEMMA GotoMoves ==
    ASSUME NEW w \in Workers, NEW S \in SUBSET States, pc \in [Workers -> States],
           pc' = pc \/ \E s \in S : Goto(w, s)
    PROVE  pc' \in [Workers -> States]
  BY DEF Goto

\* A step that records an outcome leaves the worker in one of its states.
LEMMA RecordOutcomeMoves ==
    ASSUME NEW w \in Workers, NEW next \in States,
           pc \in [Workers -> States], RecordOutcome(w, next)
    PROVE  pc' \in [Workers -> States]
  BY DEF RecordOutcome, Goto, States, ReplyStates

\* Init establishes the types.
LEMMA TypeInit == Init => TypeOK
  BY CommanderAssumption DEF Init, TypeOK, States, Phases, AckMsgs

\* Every step keeps the types.
LEMMA TypeStep == IInv /\ [Next]_vars => TypeOK'
<1> SUFFICES ASSUME IInv, [Next]_vars PROVE TypeOK'
  OBVIOUS
<1>t. TypeOK
  BY DEF IInv
<1> USE CommanderAssumption, <1>t DEF gateVars, localVars, busVars, histVars
<1>s. /\ {"idle", "audit_staged", "audit_cancelled", "audit_confirmed"} \subseteq States
      /\ GateStates \subseteq States /\ ArmStates \subseteq States
      /\ SendStates \subseteq States /\ ReplyStates \subseteq States
  BY DEF States
<1>1. ASSUME NEW w \in Workers, NEW name \in Names, Stage(w, name) PROVE TypeOK'
  <2>1. pc' \in [Workers -> States]
    <3>1. {"audit_staged", "refused"} \subseteq States
      BY <1>s DEF ReplyStates
    <3>2. pc' = pc \/ \E s \in {"audit_staged", "refused"} : Goto(w, s)
      BY <1>1 DEF Stage
    <3> QED BY <3>1, <3>2, GotoMoves DEF TypeOK
  <2>2. pending' \in [Tokens -> Builders \cup {NoSpec}]
    <3>1. pending \in [Tokens -> Builders \cup {NoSpec}]
      BY DEF TypeOK
    <3>2. pending' = pending \/ \E t \in Tokens : name \in Builders /\ pending' = [pending EXCEPT ![t] = name]
      BY <1>1 DEF Stage, BuildCommand
    <3> QED BY <3>1, <3>2
  <2>4. tok' \in [Workers -> Tokens \cup {NoToken}]
    <3>1. tok \in [Workers -> Tokens \cup {NoToken}]
      BY DEF TypeOK
    <3>2. tok' = tok \/ \E t \in Tokens : tok' = [tok EXCEPT ![w] = t]
      BY <1>1 DEF Stage
    <3> QED BY <3>1, <3>2
  <2>3. known' \subseteq issued' /\ issued' \subseteq Tokens
    BY <1>1 DEF TypeOK, Stage
  <2> QED BY <1>1, <2>1, <2>2, <2>3, <2>4 DEF TypeOK, Stage
<1>2. ASSUME NEW w \in Workers, NEW t \in known \cup {NoToken}, Cancel(w, t) PROVE TypeOK'
  BY <1>2, <1>s DEF TypeOK, Cancel, Goto
<1>3. ASSUME NEW w \in Workers, NEW t \in known \cup {NoToken}, NEW ack \in BOOLEAN,
             Confirm(w, t, ack)
      PROVE  TypeOK'
  BY <1>3, <1>s DEF TypeOK, Confirm, Goto, GateStates
<1>4. ASSUME NEW w \in Workers, AuditStaged(w) PROVE TypeOK'
  BY <1>4, <1>s, RecordMoves DEF TypeOK, AuditStaged, ReplyStates
<1>5. ASSUME NEW w \in Workers, AuditCancelled(w) PROVE TypeOK'
  BY <1>5, <1>s, RecordMoves DEF TypeOK, AuditCancelled, ReplyStates
<1>6. ASSUME NEW w \in Workers, GateCheck(w) PROVE TypeOK'
  BY <1>6, <1>s DEF TypeOK, GateCheck, Goto, GateStates, ReplyStates
<1>7. ASSUME NEW w \in Workers, GateRead(w) PROVE TypeOK'
  <2>1. pc' \in [Workers -> States]
    <3>1. {"key_error", "force_required", "gate_del"} \subseteq States
      BY <1>s DEF GateStates, ReplyStates
    <3>2. \E s \in {"key_error", "force_required", "gate_del"} : Goto(w, s)
      BY <1>7 DEF GateRead
    <3> QED BY <3>1, <3>2, GotoMoves DEF TypeOK
  <2>2. spec' \in [Workers -> Builders \cup {NoSpec}]
    BY <1>7 DEF TypeOK, GateRead, InGate
  <2> QED BY <1>7, <2>1, <2>2 DEF TypeOK, GateRead
<1>8. ASSUME NEW w \in Workers, GateDel(w) PROVE TypeOK'
  <2>1. pc' \in [Workers -> States]
    <3>1. {"key_error", "health", "audit_confirmed"} \subseteq States
      BY <1>s DEF ArmStates, ReplyStates
    <3>2. pc' = pc \/ \E s \in {"key_error", "health", "audit_confirmed"} : Goto(w, s)
      BY <1>8 DEF GateDel
    <3> QED BY <3>1, <3>2, GotoMoves DEF TypeOK
  <2>2. pending' \in [Tokens -> Builders \cup {NoSpec}]
    BY <1>8 DEF TypeOK, GateDel
  <2>3. released' \in [Tokens -> Nat]
    <3>1. released \in [Tokens -> Nat]
      BY DEF TypeOK
    <3>2. released' = released \/ (tok[w] \in Tokens /\ released' = [released EXCEPT ![tok[w]] = @ + 1])
      BY <1>8 DEF GateDel, InGate
    <3> QED BY <3>1, <3>2
  <2>4. acked' \subseteq Tokens
    BY <1>8 DEF TypeOK, GateDel, InGate
  <2> QED BY <1>8, <2>1, <2>2, <2>3, <2>4 DEF TypeOK, GateDel
<1>9. ASSUME NEW w \in Workers, ReadHealth(w) PROVE TypeOK'
  BY <1>9, <1>s DEF TypeOK, ReadHealth, Goto, ArmStates
<1>10. ASSUME NEW w \in Workers, ArmCheck(w) PROVE TypeOK'
  BY <1>10, <1>s DEF TypeOK, ArmCheck, Goto, ArmStates
<1>11. ASSUME NEW w \in Workers, AuditBlocked(w) PROVE TypeOK'
  BY <1>11, <1>s, RecordMoves DEF TypeOK, AuditBlocked, ReplyStates
<1>12. ASSUME NEW w \in Workers, AuditConfirmed(w) PROVE TypeOK'
  BY <1>12, <1>s, RecordMoves, NextAttemptType DEF TypeOK, AuditConfirmed, SendStates
<1>13. ASSUME NEW w \in Workers, AuditAttempt(w) PROVE TypeOK'
  <2>1. pc' \in [Workers -> States]
    BY <1>13, <1>s, RecordMoves DEF TypeOK, AuditAttempt, SendStates
  <2>2. attempt' \in [Workers -> Nat]
    BY <1>13 DEF TypeOK, AuditAttempt
  <2> QED BY <1>13, <2>1, <2>2 DEF TypeOK, AuditAttempt
<1>14. ASSUME NEW w \in Workers, Drain(w) PROVE TypeOK'
  <2>1. acks' \in Seq(AckMsgs)
    <3>1. acks \in Seq(AckMsgs) /\ (acks' = acks \/ (acks # <<>> /\ acks' = Tail(acks)))
      BY <1>14 DEF TypeOK, Drain
    <3> QED BY <3>1
  <2>2. pc' \in [Workers -> States]
    <3>1. {"send"} \subseteq States
      BY <1>s DEF SendStates
    <3>2. pc' = pc \/ \E s \in {"send"} : Goto(w, s)
      BY <1>14 DEF Drain
    <3> QED BY <3>1, <3>2, GotoMoves DEF TypeOK
  <2> QED BY <1>14, <2>1, <2>2 DEF TypeOK, Drain
<1>15. ASSUME NEW w \in Workers, Send(w) PROVE TypeOK'
  <2>1. pc' \in [Workers -> States]
    <3>1. {"await", "error"} \subseteq States
      BY <1>s DEF SendStates, ReplyStates
    <3>2. pc' = pc \/ \E s \in {"await", "error"} : Goto(w, s)
      BY <1>15 DEF Send
    <3> QED BY <3>1, <3>2, GotoMoves DEF TypeOK
  <2>2. timer' \in [Workers -> 0..AckTimeout]
    <3>1. /\ timer \in [Workers -> 0..AckTimeout]
          /\ timer' = timer \/ timer' = [timer EXCEPT ![w] = AckTimeout]
      BY <1>15 DEF TypeOK, Send
    <3> QED BY <3>1
  <2>h. tok[w] \in Tokens /\ spec[w] \in Builders
    BY <1>15 DEF IInv, HolderInv, Holders, SendStates, TypeOK, Send
  <2>3. sends' \in [Tokens -> Nat]
    <3>1. /\ sends \in [Tokens -> Nat]
          /\ sends' = sends \/ sends' = [sends EXCEPT ![tok[w]] = @ + 1]
      BY <1>15 DEF TypeOK, Send
    <3> QED BY <2>h, <3>1
  <2>4. uplink' \subseteq Tokens \X Nat \X Builders
    BY <1>15, <2>h DEF TypeOK, Send
  <2> QED BY <1>15, <2>1, <2>2, <2>3, <2>4 DEF TypeOK, Send
<1>16. ASSUME NEW w \in Workers, RecvAck(w) PROVE TypeOK'
  <2>1. acks \in Seq(AckMsgs) /\ acks # <<>> /\ acks' = Tail(acks)
    BY <1>16 DEF TypeOK, RecvAck
  <2>2. acks' \in Seq(AckMsgs) /\ Head(acks) \in AckMsgs
    BY <2>1
  <2>3. Head(acks).result \in Results
    BY <2>2 DEF AckMsgs
  <2>4. result' \in [Workers -> Results \cup {0}]
    BY <1>16, <2>3 DEF TypeOK, RecvAck
  <2>5. pc' \in [Workers -> States]
    <3>1. {"audit_result"} \subseteq States
      BY <1>s DEF SendStates
    <3>2. pc' = pc \/ \E s \in {"audit_result"} : Goto(w, s)
      BY <1>16 DEF RecvAck
    <3> QED BY <3>1, <3>2, GotoMoves DEF TypeOK
  <2> QED BY <1>16, <2>2, <2>4, <2>5 DEF TypeOK, RecvAck
<1>17. ASSUME NEW w \in Workers, NoAck(w) PROVE TypeOK'
  BY <1>17, <1>s DEF TypeOK, NoAck, Goto, SendStates
<1>18. ASSUME NEW w \in Workers, AuditNoAck(w) PROVE TypeOK'
  BY <1>18, <1>s, RecordOutcomeMoves, NextAttemptType DEF TypeOK, AuditNoAck, SendStates
<1>19. ASSUME NEW w \in Workers, AuditResult(w) PROVE TypeOK'
  <2>1. NextAttempt(attempt[w]) \in States
    BY <1>s, NextAttemptType DEF TypeOK, SendStates
  <2>2. pc' \in [Workers -> States]
    <3>1. pc \in [Workers -> States] /\ "accepted" \in States /\ "rejected" \in States
      BY <1>s DEF TypeOK, ReplyStates
    <3> QED BY <1>19, <2>1, <3>1, RecordOutcomeMoves DEF AuditResult
  <2> QED BY <1>19, <2>2 DEF TypeOK, AuditResult, RecordOutcome
<1>20. ASSUME NEW w \in Workers, AuditFailed(w) PROVE TypeOK'
  BY <1>20, <1>s, RecordOutcomeMoves DEF TypeOK, AuditFailed, ReplyStates
<1>21. ASSUME NEW w \in Workers, Reply(w) PROVE TypeOK'
  <2>1. pc' \in [Workers -> States]
    BY <1>21, <1>s DEF TypeOK, Reply, Goto
  <2>2. known' \subseteq issued' /\ issued' \subseteq Tokens
    BY <1>21 DEF IInv, StageInv, TypeOK, Reply
  <2>3. /\ tok' \in [Workers -> Tokens \cup {NoToken}]
        /\ spec' \in [Workers -> Builders \cup {NoSpec}]
        /\ force' \in [Workers -> BOOLEAN]
    BY <1>21 DEF TypeOK, Reply
  <2>4. /\ attempt' \in [Workers -> Nat]
        /\ timer' \in [Workers -> 0..AckTimeout]
        /\ report' \in [Workers -> 0..ArmMaxAge + 1]
        /\ result' \in [Workers -> Results \cup {0}]
    BY <1>21 DEF TypeOK, Reply
  <2> QED BY <1>21, <2>1, <2>2, <2>3, <2>4 DEF TypeOK, Reply
<1>22. CASE ReadHeartbeat
  BY <1>22 DEF TypeOK, ReadHeartbeat
<1>23. CASE ReadAck
  <2>1. acks' \in Seq(AckMsgs)
    BY <1>23 DEF TypeOK, ReadAck
  <2> QED BY <1>23, <2>1 DEF TypeOK, ReadAck
<1>24. CASE VehicleAnswers
  <2>1. PICK u \in uplink, r \in Results :
          /\ uplink' = uplink \ {u}
          /\ net' = net \cup {[command |-> CommandId(u[3]), result |-> r,
                               sys |-> "target", of |-> u[1], no |-> u[2]]}
          /\ accepted' = IF r = ACCEPTED THEN accepted \cup {u[3]} ELSE accepted
    BY <1>24 DEF VehicleAnswers
  <2>2. u[1] \in Tokens /\ u[2] \in Nat /\ u[3] \in Builders
    BY DEF TypeOK
  <2>3. net' \subseteq AckMsgs
    BY <2>1, <2>2, CommandIdType DEF TypeOK, AckMsgs
  <2>4. accepted' \subseteq Builders
    BY <2>1, <2>2 DEF TypeOK
  <2> QED BY <1>24, <2>1, <2>3, <2>4 DEF TypeOK, VehicleAnswers
<1>25. CASE LoseMessage
  BY <1>25 DEF TypeOK, LoseMessage
<1>26. CASE ForeignAck
  <2>1. PICK n \in Names \cap Builders, r \in Results :
            net' = net \cup {[command |-> CommandId(n), result |-> r, sys |-> "other",
                              of |-> NoToken, no |-> noise]}
    BY <1>26 DEF ForeignAck
  <2>2. noise \in Nat /\ noise' \in 0..MaxNoise
    BY <1>26 DEF TypeOK, ForeignAck
  <2>3. net' \subseteq AckMsgs
    BY <2>1, <2>2, CommandIdType DEF TypeOK, AckMsgs
  <2> QED BY <1>26, <2>2, <2>3 DEF TypeOK, ForeignAck
<1>27. CASE Tick
  <2>1. hbAge' \in 0..ArmMaxAge + 1 /\ report' \in [Workers -> 0..ArmMaxAge + 1]
    BY <1>27, OlderType DEF TypeOK, Tick
  <2>2. timer' \in [Workers -> 0..AckTimeout]
    BY <1>27 DEF TypeOK, Tick
  <2> QED BY <1>27, <2>1, <2>2 DEF TypeOK, Tick
<1>28. CASE Shutdown
  BY <1>28 DEF TypeOK, Shutdown, Phases
<1>29. CASE UNCHANGED vars
  BY <1>29 DEF TypeOK, vars
<1> QED
  BY <1>1, <1>2, <1>3, <1>4, <1>5, <1>6, <1>7, <1>8, <1>9, <1>10, <1>11, <1>12, <1>13,
     <1>14, <1>15, <1>16, <1>17, <1>18, <1>19, <1>20, <1>21, <1>22, <1>23, <1>24, <1>25,
     <1>26, <1>27, <1>28, <1>29 DEF Next, Request, Work, Bus

-----------------------------------------------------------------------------
(* What a step leaves alone *)

\* The steps that are not a worker's.
Environment == ReadHeartbeat \/ ReadAck \/ Bus \/ Tick \/ Shutdown

\* The reader, the bus, the clock and the shutdown touch no request and no audit
\* record, and transmissions only leave the uplink.
LEMMA EnvironmentFrame ==
    ASSUME Environment \/ UNCHANGED vars
    PROVE  /\ UNCHANGED <<pending, issued, known, pc, tok, spec, force, attempt, result,
                          log, released, withdrawn, acked, sends>>
           /\ uplink' \subseteq uplink
<1> USE DEF gateVars, localVars, busVars, histVars
<1>1. CASE ReadHeartbeat BY <1>1 DEF ReadHeartbeat
<1>2. CASE ReadAck BY <1>2 DEF ReadAck
<1>3. CASE VehicleAnswers BY <1>3 DEF VehicleAnswers
<1>4. CASE LoseMessage BY <1>4 DEF LoseMessage
<1>5. CASE ForeignAck BY <1>5 DEF ForeignAck
<1>6. CASE Tick BY <1>6 DEF Tick
<1>7. CASE Shutdown BY <1>7 DEF Shutdown
<1>8. CASE UNCHANGED vars BY <1>8 DEF vars
<1> QED BY <1>1, <1>2, <1>3, <1>4, <1>5, <1>6, <1>7, <1>8 DEF Environment, Bus

\* Every step is a worker's or the environment's.
LEMMA StepCases ==
    ASSUME [Next]_vars
    PROVE  (\E w \in Workers : Request(w) \/ Work(w)) \/ Environment \/ UNCHANGED vars
  BY DEF Next, Environment

\* An audit write adds its own record at most, and the worker moves on only when
\* the record is there.
LEMMA RecordEffect ==
    ASSUME NEW w \in Workers, NEW event, NEW n, NEW next, pc \in [Workers -> States],
           Record(w, event, n, next)
    PROVE  /\ log \subseteq log' /\ log' \subseteq log \cup {<<event, tok[w], n>>}
           /\ \/ pc'[w] = next /\ <<event, tok[w], n>> \in log'
              \/ pc'[w] = "error"
           /\ \A v \in Workers : v # w => pc'[v] = pc[v]
  BY DEF Record, Goto

\* Recording an outcome writes nothing the properties read, and moves its worker alone,
\* to the next state or to the error reply.
LEMMA RecordOutcomeEffect ==
    ASSUME NEW w \in Workers, NEW next, pc \in [Workers -> States], RecordOutcome(w, next)
    PROVE  /\ log' = log
           /\ pc'[w] = next \/ pc'[w] = "error"
           /\ \A v \in Workers : v # w => pc'[v] = pc[v]
  BY DEF RecordOutcome, Goto

\* A worker's step leaves the other workers' requests alone, and takes nothing
\* back: tokens stay issued and known, records durable, force_acks given.
LEMMA WorkerFrame ==
    ASSUME IInv, NEW w \in Workers, Request(w) \/ Work(w)
    PROVE  /\ \A v \in Workers : v # w =>
                /\ pc'[v] = pc[v] /\ tok'[v] = tok[v] /\ spec'[v] = spec[v]
                /\ force'[v] = force[v] /\ attempt'[v] = attempt[v] /\ result'[v] = result[v]
           /\ issued \subseteq issued' /\ known \subseteq known'
           /\ log \subseteq log' /\ acked \subseteq acked'
<1> DEFINE Framed ==
       /\ \A v \in Workers : v # w =>
            /\ pc'[v] = pc[v] /\ tok'[v] = tok[v] /\ spec'[v] = spec[v]
            /\ force'[v] = force[v] /\ attempt'[v] = attempt[v] /\ result'[v] = result[v]
       /\ issued \subseteq issued' /\ known \subseteq known'
       /\ log \subseteq log' /\ acked \subseteq acked'
<1>t. /\ pc \in [Workers -> States] /\ tok \in [Workers -> Tokens \cup {NoToken}]
      /\ spec \in [Workers -> Builders \cup {NoSpec}] /\ force \in [Workers -> BOOLEAN]
      /\ attempt \in [Workers -> Nat] /\ result \in [Workers -> Results \cup {0}]
  BY DEF IInv, TypeOK
<1> USE <1>t DEF gateVars, localVars, busVars, histVars
<1>1. ASSUME NEW name \in Names, Stage(w, name) PROVE Framed
  <2>1. PICK t, s : (tok' = tok \/ tok' = [tok EXCEPT ![w] = t]) /\ pc' = [pc EXCEPT ![w] = s]
    BY <1>1 DEF Stage, Goto
  <2>2. issued \subseteq issued'
    BY <1>1 DEF Stage
  <2> QED BY <1>1, <2>1, <2>2 DEF Stage
<1>2. ASSUME NEW t \in known \cup {NoToken}, Cancel(w, t) PROVE Framed
  BY <1>2 DEF Cancel, Goto
<1>3. ASSUME NEW t \in known \cup {NoToken}, NEW ack \in BOOLEAN, Confirm(w, t, ack)
      PROVE  Framed
  BY <1>3 DEF Confirm, Goto
<1>4. CASE AuditStaged(w) BY <1>4, RecordEffect DEF AuditStaged
<1>5. CASE AuditCancelled(w) BY <1>5, RecordEffect DEF AuditCancelled
<1>6. CASE GateCheck(w) BY <1>6 DEF GateCheck, Goto
<1>7. CASE GateRead(w) BY <1>7 DEF GateRead, Goto
<1>8. CASE GateDel(w) BY <1>8 DEF GateDel, Goto
<1>9. CASE ReadHealth(w) BY <1>9 DEF ReadHealth, Goto
<1>10. CASE ArmCheck(w) BY <1>10 DEF ArmCheck, Goto
<1>11. CASE AuditBlocked(w) BY <1>11, RecordEffect DEF AuditBlocked
<1>12. CASE AuditConfirmed(w) BY <1>12, RecordEffect DEF AuditConfirmed
<1>13. CASE AuditAttempt(w) BY <1>13, RecordEffect DEF AuditAttempt
<1>14. CASE Drain(w) BY <1>14 DEF Drain, Goto
<1>15. CASE Send(w) BY <1>15 DEF Send, Goto
<1>16. CASE RecvAck(w) BY <1>16 DEF RecvAck, Goto
<1>17. CASE NoAck(w) BY <1>17 DEF NoAck, Goto
<1>18. CASE AuditNoAck(w) BY <1>18, RecordOutcomeEffect DEF AuditNoAck
<1>19. CASE AuditResult(w) BY <1>19, RecordOutcomeEffect DEF AuditResult
<1>20. CASE AuditFailed(w) BY <1>20, RecordOutcomeEffect DEF AuditFailed
<1>21. CASE Reply(w) BY <1>21 DEF Reply, Goto
<1> QED
  BY <1>1, <1>2, <1>3, <1>4, <1>5, <1>6, <1>7, <1>8, <1>9, <1>10, <1>11, <1>12, <1>13,
     <1>14, <1>15, <1>16, <1>17, <1>18, <1>19, <1>20, <1>21 DEF Request, Work

-----------------------------------------------------------------------------
(* The gate *)

\* Every step keeps the gate's bookkeeping: _pending only ever holds fateless tokens.
LEMMA GateStep == IInv /\ [Next]_vars => GateInv'
<1> SUFFICES ASSUME IInv, [Next]_vars PROVE GateInv'
  OBVIOUS
<1> USE DEF gateVars, localVars, busVars, histVars
<1>q. CASE UNCHANGED <<pending, issued, released, withdrawn>>
  BY <1>q DEF IInv, GateInv, OneFate
<1>1. ASSUME NEW w \in Workers, NEW name \in Names, Stage(w, name) PROVE GateInv'
  <2>1. CASE UNCHANGED <<pending, issued>>
    BY <1>1, <1>q, <2>1 DEF Stage
  <2>2. CASE ~UNCHANGED <<pending, issued>>
    <3>1. PICK t \in Tokens \ issued : /\ pending' = [pending EXCEPT ![t] = name]
                                       /\ issued' = issued \cup {t}
      BY <1>1, <2>2 DEF Stage
    <3>2. UNCHANGED <<released, withdrawn>>
      BY <1>1 DEF Stage
    <3> QED BY <3>1, <3>2 DEF IInv, TypeOK, GateInv, OneFate
  <2> QED BY <2>1, <2>2
<1>2. ASSUME NEW w \in Workers, NEW t \in known \cup {NoToken}, Cancel(w, t) PROVE GateInv'
  <2>1. CASE UNCHANGED <<pending, withdrawn>>
    BY <1>2, <1>q, <2>1 DEF Cancel
  <2>2. CASE ~UNCHANGED <<pending, withdrawn>>
    <3>1. /\ t \in Tokens /\ pending[t] # NoSpec
          /\ pending' = [pending EXCEPT ![t] = NoSpec]
          /\ withdrawn' = withdrawn \cup {t}
          /\ UNCHANGED <<issued, released>>
      BY <1>2, <2>2 DEF Cancel
    <3> QED BY <3>1 DEF IInv, TypeOK, GateInv, OneFate
  <2> QED BY <2>1, <2>2
<1>3. ASSUME NEW w \in Workers, GateDel(w) PROVE GateInv'
  <2>1. CASE ~InGate(w)
    BY <1>3, <1>q, <2>1 DEF GateDel
  <2>2. CASE InGate(w)
    <3>1. /\ tok[w] \in Tokens /\ pending[tok[w]] # NoSpec
          /\ pending' = [pending EXCEPT ![tok[w]] = NoSpec]
          /\ released' = [released EXCEPT ![tok[w]] = @ + 1]
          /\ UNCHANGED <<issued, withdrawn>>
      BY <1>3, <2>2 DEF GateDel, InGate
    <3> QED BY <3>1 DEF IInv, TypeOK, GateInv, OneFate
  <2> QED BY <2>1, <2>2
<1>4. ASSUME NEW w \in Workers, Work(w), ~GateDel(w)
      PROVE  UNCHANGED <<pending, issued, released, withdrawn>>
  BY <1>4 DEF Work, AuditStaged, AuditCancelled, GateCheck, GateRead, ReadHealth, ArmCheck,
     AuditBlocked, AuditConfirmed, AuditAttempt, Drain, Send, RecvAck, NoAck, AuditNoAck,
     AuditResult, AuditFailed, Reply
<1>5. ASSUME NEW w \in Workers, Request(w) PROVE GateInv'
  <2>1. ASSUME NEW t \in known \cup {NoToken}, NEW ack \in BOOLEAN, Confirm(w, t, ack)
        PROVE  GateInv'
    BY <2>1, <1>q DEF Confirm
  <2> QED BY <1>1, <1>2, <1>5, <2>1 DEF Request
<1> QED BY <1>q, <1>3, <1>4, <1>5, StepCases, EnvironmentFrame

-----------------------------------------------------------------------------
(* Who holds a token *)

\* How a worker comes to be in a state that the invariants speak of.
LEMMA OwnMove ==
    ASSUME IInv, NEW w \in Workers, Request(w) \/ Work(w)
    PROVE  /\ pc'[w] \in {"audit_staged"} =>
                tok'[w] \in issued'
           /\ pc'[w] = "staged" =>
                pc[w] = "audit_staged" /\ tok' = tok /\ <<"command_staged", tok[w], 0>> \in log'
           /\ \A t \in known' : t \in known \/ (pc[w] = "staged" /\ t = tok[w])
           /\ pc'[w] \in GateStates =>
                \/ pc[w] \in GateStates /\ tok' = tok
                \/ tok'[w] \in known \cup {NoToken}
           /\ pc'[w] = "gate_del" => GateRead(w) /\ InGate(w)
           /\ pc'[w] \in Holders =>
                \/ GateDel(w) /\ InGate(w)
                \/ /\ pc[w] \in Holders /\ tok' = tok /\ spec' = spec
                   /\ UNCHANGED <<released, acked>>
           /\ pc'[w] \notin Holders /\ ~GateDel(w) => UNCHANGED <<released, acked>>
<1> DEFINE Moves ==
           /\ pc'[w] \in {"audit_staged"} =>
                tok'[w] \in issued'
           /\ pc'[w] = "staged" =>
                pc[w] = "audit_staged" /\ tok' = tok /\ <<"command_staged", tok[w], 0>> \in log'
           /\ \A t \in known' : t \in known \/ (pc[w] = "staged" /\ t = tok[w])
           /\ pc'[w] \in GateStates =>
                \/ pc[w] \in GateStates /\ tok' = tok
                \/ tok'[w] \in known \cup {NoToken}
           /\ pc'[w] = "gate_del" => GateRead(w) /\ InGate(w)
           /\ pc'[w] \in Holders =>
                \/ GateDel(w) /\ InGate(w)
                \/ /\ pc[w] \in Holders /\ tok' = tok /\ spec' = spec
                   /\ UNCHANGED <<released, acked>>
           /\ pc'[w] \notin Holders /\ ~GateDel(w) => UNCHANGED <<released, acked>>
<1>t. /\ pc \in [Workers -> States] /\ tok \in [Workers -> Tokens \cup {NoToken}]
      /\ attempt \in [Workers -> Nat]
  BY DEF IInv, TypeOK
<1> USE <1>t DEF gateVars, localVars, busVars, histVars,
                 Holders, GateStates, ArmStates, SendStates, ReplyStates
<1>1. ASSUME NEW name \in Names, Stage(w, name) PROVE Moves
  <2>1. /\ UNCHANGED <<known, released, acked>>
        /\ \/ pc' = [pc EXCEPT ![w] = "refused"]
           \/ pc' = [pc EXCEPT ![w] = "audit_staged"] /\ tok'[w] \in issued'
    BY <1>1 DEF Stage, Goto
  <2> QED BY <2>1
<1>2. ASSUME NEW t \in known \cup {NoToken}, Cancel(w, t) PROVE Moves
  BY <1>2 DEF Cancel, Goto
<1>3. ASSUME NEW t \in known \cup {NoToken}, NEW ack \in BOOLEAN, Confirm(w, t, ack)
      PROVE  Moves
  BY <1>3 DEF Confirm, Goto
<1>4. CASE AuditStaged(w) BY <1>4, RecordEffect DEF AuditStaged
<1>5. CASE AuditCancelled(w)
  <2>1. pc'[w] \in {"cancelled", "error"}
    BY <1>5, RecordEffect DEF AuditCancelled
  <2> QED BY <1>5, <2>1 DEF AuditCancelled
<1>6. CASE GateCheck(w) BY <1>6 DEF GateCheck, Goto
<1>7. CASE GateRead(w) BY <1>7 DEF GateRead, Goto
<1>8. CASE GateDel(w) BY <1>8 DEF GateDel, Goto
<1>9. CASE ReadHealth(w) BY <1>9 DEF ReadHealth, Goto
<1>10. CASE ArmCheck(w) BY <1>10 DEF ArmCheck, Goto
<1>11. CASE AuditBlocked(w)
  <2>1. pc'[w] \in {"blocked", "error"}
    BY <1>11, RecordEffect DEF AuditBlocked
  <2> QED BY <1>11, <2>1 DEF AuditBlocked
<1>12. CASE AuditConfirmed(w)
  <2>1. NextAttempt(0) \in {"audit_attempt", "audit_failed"}
    BY NextAttemptType
  <2>2. pc'[w] \in {NextAttempt(0), "error"}
    BY <1>12, RecordEffect DEF AuditConfirmed
  <2> QED BY <1>12, <2>1, <2>2 DEF AuditConfirmed
<1>13. CASE AuditAttempt(w)
  <2>1. pc'[w] \in {"drain", "send", "error"}
    BY <1>13, RecordEffect DEF AuditAttempt
  <2> QED BY <1>13, <2>1 DEF AuditAttempt
<1>14. CASE Drain(w) BY <1>14 DEF Drain, Goto
<1>15. CASE Send(w) BY <1>15 DEF Send, Goto
<1>16. CASE RecvAck(w) BY <1>16 DEF RecvAck, Goto
<1>17. CASE NoAck(w) BY <1>17 DEF NoAck, Goto
<1>n. NextAttempt(attempt[w]) \in {"audit_attempt", "audit_failed"}
  BY NextAttemptType
<1>18. CASE AuditNoAck(w)
  <2>1. pc'[w] \in {NextAttempt(attempt[w]), "error"}
    BY <1>18, RecordOutcomeEffect DEF AuditNoAck
  <2> QED BY <1>18, <1>n, <2>1 DEF AuditNoAck
<1>19. CASE AuditResult(w)
  <2>1. pc'[w] \in {NextAttempt(attempt[w]), "accepted", "rejected", "error"}
    BY <1>19, RecordOutcomeEffect DEF AuditResult
  <2> QED BY <1>19, <1>n, <2>1 DEF AuditResult
<1>20. CASE AuditFailed(w) BY <1>20, RecordOutcomeEffect DEF AuditFailed
<1>21. CASE Reply(w) BY <1>21 DEF Reply, Goto
<1> QED
  BY <1>1, <1>2, <1>3, <1>4, <1>5, <1>6, <1>7, <1>8, <1>9, <1>10, <1>11, <1>12, <1>13,
     <1>14, <1>15, <1>16, <1>17, <1>18, <1>19, <1>20, <1>21 DEF Request, Work

\* Every step keeps the order of staging: audited first, then told to the client.
LEMMA StageStep == IInv /\ [Next]_vars => StageInv'
<1> SUFFICES ASSUME IInv, [Next]_vars PROVE StageInv'
  OBVIOUS
<1>e. CASE Environment \/ UNCHANGED vars
  BY <1>e, EnvironmentFrame DEF IInv, StageInv
<1>w. ASSUME NEW w \in Workers, Request(w) \/ Work(w) PROVE StageInv'
  <2>1. \A v \in Workers : pc'[v] = "audit_staged" => tok'[v] \in issued'
    BY <1>w, WorkerFrame, OwnMove DEF IInv, StageInv
  <2>2. \A v \in Workers : pc'[v] = "staged" =>
            tok'[v] \in issued' /\ <<"command_staged", tok'[v], 0>> \in log'
    BY <1>w, WorkerFrame, OwnMove DEF IInv, StageInv
  <2>3. \A t \in known' : <<"command_staged", t, 0>> \in log'
    <3> SUFFICES ASSUME NEW t \in known' PROVE <<"command_staged", t, 0>> \in log'
      OBVIOUS
    <3>1. t \in known \/ (pc[w] = "staged" /\ t = tok[w])
      BY <1>w, OwnMove
    <3> QED BY <1>w, <3>1, WorkerFrame DEF IInv, StageInv
  <2> QED BY <2>1, <2>2, <2>3 DEF StageInv
<1> QED BY <1>e, <1>w, StepCases

\* No step gives a released token to a second worker.
LEMMA HolderStep == IInv /\ [Next]_vars => HolderInv'
<1> SUFFICES ASSUME IInv, [Next]_vars PROVE HolderInv'
  OBVIOUS
<1>e. CASE Environment \/ UNCHANGED vars
  BY <1>e, EnvironmentFrame DEF IInv, HolderInv
<1>w. ASSUME NEW w \in Workers, Request(w) \/ Work(w) PROVE HolderInv'
  <2>1. \A v \in Workers : pc'[v] \in GateStates => tok'[v] \in known' \cup {NoToken}
    <3>1. /\ known \subseteq known'
          /\ \A v \in Workers : v # w => pc'[v] = pc[v] /\ tok'[v] = tok[v]
      BY <1>w, WorkerFrame
    <3>2. pc'[w] \in GateStates =>
              \/ pc[w] \in GateStates /\ tok' = tok
              \/ tok'[w] \in known \cup {NoToken}
      BY <1>w, OwnMove
    <3>3. \A v \in Workers : pc[v] \in GateStates => tok[v] \in known \cup {NoToken}
      BY DEF IInv, HolderInv
    <3> HIDE <1>w
    <3> QED BY <3>1, <3>2, <3>3
  <2>2. CASE pc'[w] = "gate_del"
    <3>1. /\ tok' = tok /\ tok[w] \in Tokens /\ pc[w] \in GateStates
          /\ spec'[w] = pending[tok[w]] /\ spec'[w] \in Builders
          /\ UNCHANGED released
      BY <1>w, <2>2, OwnMove DEF GateRead, InGate, GateStates, histVars, IInv, TypeOK
    <3>2. tok[w] \in known
      BY <3>1, CommanderAssumption DEF IInv, HolderInv
    <3>3. pc'[w] \notin Holders
      BY <2>2 DEF Holders, ArmStates, SendStates
    <3> QED BY <1>w, <2>1, <3>1, <3>2, <3>3, WorkerFrame DEF IInv, HolderInv
  <2>3. CASE GateDel(w) /\ InGate(w)
    <3>1. /\ pc[w] = "gate_del" /\ tok' = tok /\ spec' = spec /\ tok[w] \in Tokens
          /\ pending[tok[w]] # NoSpec
          /\ released' = [released EXCEPT ![tok[w]] = @ + 1]
      BY <2>3 DEF GateDel, InGate, localVars
    <3>2. released[tok[w]] = 0 /\ released \in [Tokens -> Nat]
      BY <3>1 DEF IInv, GateInv, TypeOK
    <3>3. released'[tok[w]] = 1 /\ \A t \in Tokens : t # tok[w] => released'[t] = released[t]
      BY <3>1, <3>2
    <3>4. \A v \in Workers : v # w /\ pc[v] \in Holders => tok[v] # tok[w]
      BY <3>2 DEF IInv, HolderInv
    <3>5. known \subseteq Tokens
      BY DEF IInv, TypeOK
    <3> QED BY <1>w, <2>1, <3>1, <3>3, <3>4, <3>5, WorkerFrame DEF IInv, HolderInv
  <2>4. CASE pc'[w] # "gate_del" /\ ~(GateDel(w) /\ InGate(w))
    <3>1. UNCHANGED released
      BY <1>w, <2>4, OwnMove DEF GateDel
    <3>2. pc'[w] \in Holders => pc[w] \in Holders /\ tok'[w] = tok[w] /\ spec'[w] = spec[w]
      BY <1>w, <2>4, OwnMove
    <3>3. known \subseteq known'
      BY <1>w, WorkerFrame
    <3>4. \A v \in Workers : v # w =>
            pc'[v] = pc[v] /\ tok'[v] = tok[v] /\ spec'[v] = spec[v]
      BY <1>w, WorkerFrame
    <3> HIDE <1>w
    <3>5. \A v \in Workers : pc'[v] \in {"gate_del"} \cup Holders =>
            tok'[v] \in known' /\ spec'[v] \in Builders
      BY <2>4, <3>2, <3>3, <3>4 DEF IInv, HolderInv
    <3>6. \A v \in Workers : pc'[v] \in Holders => released'[tok'[v]] = 1
      BY <3>1, <3>2, <3>4 DEF IInv, HolderInv
    <3>7. \A u, v \in Workers :
            pc'[u] \in Holders /\ pc'[v] \in Holders /\ tok'[u] = tok'[v] => u = v
      BY <3>2, <3>4 DEF IInv, HolderInv
    <3> QED BY <2>1, <3>5, <3>6, <3>7 DEF HolderInv
  <2> QED BY <2>2, <2>3, <2>4
<1> QED BY <1>e, <1>w, StepCases

-----------------------------------------------------------------------------
(* The audit trail *)

\* The states of a worker between two transmissions.
Waiting == SendStates \ {"drain", "send"}

\* What a worker's step does to the trail.
LEMMA OwnTrail ==
    ASSUME IInv, NEW w \in Workers, Request(w) \/ Work(w)
    PROVE  /\ \A t : <<"arm_blocked", t, 0>> \in log' =>
                \/ <<"arm_blocked", t, 0>> \in log
                \/ pc[w] = "audit_blocked" /\ t = tok[w] /\ pc'[w] \notin Holders
           /\ \/ sends' = sends
              \/ /\ pc[w] = "send" /\ pc'[w] = "await" /\ tok' = tok /\ attempt' = attempt
                 /\ sends' = [sends EXCEPT ![tok[w]] = @ + 1]
           /\ pc'[w] \notin SendStates \cup ReplyStates => attempt'[w] = 0
           /\ pc'[w] \in Holders \ SendStates =>
                \/ GateDel(w) /\ InGate(w)
                \/ pc[w] \in Holders \ SendStates /\ tok' = tok
           /\ pc'[w] \in Waiting =>
                \/ /\ pc[w] = "audit_confirmed" /\ tok' = tok /\ attempt' = attempt
                   /\ <<"command_confirmed", tok[w], 0>> \in log'
                   /\ pc'[w] = "audit_attempt" => 0 < MaxAttempts
                \/ /\ pc[w] = "send" /\ pc'[w] = "await" /\ tok' = tok /\ attempt' = attempt
                   /\ sends' = [sends EXCEPT ![tok[w]] = @ + 1]
                \/ /\ pc[w] \in Waiting /\ tok' = tok /\ attempt' = attempt
                   /\ pc'[w] = "audit_attempt" => attempt[w] < MaxAttempts
           /\ pc'[w] \in {"drain", "send"} =>
                \/ /\ pc[w] = "audit_attempt" /\ tok' = tok /\ attempt'[w] = attempt[w] + 1
                   /\ <<"command_attempt", tok[w], attempt'[w]>> \in log'
                \/ pc[w] = "drain" /\ tok' = tok /\ attempt' = attempt
<1> DEFINE Trail ==
           /\ \A t : <<"arm_blocked", t, 0>> \in log' =>
                \/ <<"arm_blocked", t, 0>> \in log
                \/ pc[w] = "audit_blocked" /\ t = tok[w] /\ pc'[w] \notin Holders
           /\ \/ sends' = sends
              \/ /\ pc[w] = "send" /\ pc'[w] = "await" /\ tok' = tok /\ attempt' = attempt
                 /\ sends' = [sends EXCEPT ![tok[w]] = @ + 1]
           /\ pc'[w] \notin SendStates \cup ReplyStates => attempt'[w] = 0
           /\ pc'[w] \in Holders \ SendStates =>
                \/ GateDel(w) /\ InGate(w)
                \/ pc[w] \in Holders \ SendStates /\ tok' = tok
           /\ pc'[w] \in Waiting =>
                \/ /\ pc[w] = "audit_confirmed" /\ tok' = tok /\ attempt' = attempt
                   /\ <<"command_confirmed", tok[w], 0>> \in log'
                   /\ pc'[w] = "audit_attempt" => 0 < MaxAttempts
                \/ /\ pc[w] = "send" /\ pc'[w] = "await" /\ tok' = tok /\ attempt' = attempt
                   /\ sends' = [sends EXCEPT ![tok[w]] = @ + 1]
                \/ /\ pc[w] \in Waiting /\ tok' = tok /\ attempt' = attempt
                   /\ pc'[w] = "audit_attempt" => attempt[w] < MaxAttempts
           /\ pc'[w] \in {"drain", "send"} =>
                \/ /\ pc[w] = "audit_attempt" /\ tok' = tok /\ attempt'[w] = attempt[w] + 1
                   /\ <<"command_attempt", tok[w], attempt'[w]>> \in log'
                \/ pc[w] = "drain" /\ tok' = tok /\ attempt' = attempt
<1>t. /\ pc \in [Workers -> States] /\ attempt \in [Workers -> Nat]
      /\ pc[w] \notin SendStates \cup ReplyStates => attempt[w] = 0
  BY DEF IInv, TypeOK, TrailInv
<1> USE <1>t DEF gateVars, localVars, busVars, histVars, Holders, Waiting,
                 GateStates, ArmStates, SendStates, ReplyStates
<1>1. ASSUME NEW name \in Names, Stage(w, name) PROVE Trail
  <2>1. /\ UNCHANGED <<log, sends, attempt>> /\ pc[w] = "idle"
        /\ pc'[w] \in {"refused", "audit_staged"}
    BY <1>1 DEF Stage, Goto
  <2> QED BY <2>1
<1>2. ASSUME NEW t \in known \cup {NoToken}, Cancel(w, t) PROVE Trail
  BY <1>2 DEF Cancel, Goto
<1>3. ASSUME NEW t \in known \cup {NoToken}, NEW ack \in BOOLEAN, Confirm(w, t, ack)
      PROVE  Trail
  BY <1>3 DEF Confirm, Goto
<1>4. CASE AuditStaged(w)
  <2>1. /\ log' \subseteq log \cup {<<"command_staged", tok[w], 0>>}
        /\ pc'[w] \in {"staged", "error"}
    BY <1>4, RecordEffect DEF AuditStaged
  <2> QED BY <1>4, <2>1 DEF AuditStaged
<1>5. CASE AuditCancelled(w)
  <2>1. /\ log' \subseteq log \cup {<<"command_cancelled", tok[w], 0>>}
        /\ pc'[w] \in {"cancelled", "error"}
    BY <1>5, RecordEffect DEF AuditCancelled
  <2> QED BY <1>5, <2>1 DEF AuditCancelled
<1>6. CASE GateCheck(w) BY <1>6 DEF GateCheck, Goto
<1>7. CASE GateRead(w) BY <1>7 DEF GateRead, Goto
<1>8. CASE GateDel(w) BY <1>8 DEF GateDel, Goto
<1>9. CASE ReadHealth(w) BY <1>9 DEF ReadHealth, Goto
<1>10. CASE ArmCheck(w) BY <1>10 DEF ArmCheck, Goto
<1>11. CASE AuditBlocked(w)
  <2>1. /\ log' \subseteq log \cup {<<"arm_blocked", tok[w], 0>>}
        /\ pc'[w] \in {"blocked", "error"}
    BY <1>11, RecordEffect DEF AuditBlocked
  <2> QED BY <1>11, <2>1 DEF AuditBlocked
<1>12. CASE AuditConfirmed(w)
  <2>1. /\ log' \subseteq log \cup {<<"command_confirmed", tok[w], 0>>}
        /\ \/ pc'[w] = NextAttempt(0) /\ <<"command_confirmed", tok[w], 0>> \in log'
           \/ pc'[w] = "error"
    BY <1>12, RecordEffect DEF AuditConfirmed
  <2> QED BY <1>12, <2>1 DEF AuditConfirmed, NextAttempt
<1>13. CASE AuditAttempt(w)
  <2>1. attempt'[w] = attempt[w] + 1 /\ UNCHANGED <<tok, sends>> /\ pc[w] = "audit_attempt"
    BY <1>13 DEF AuditAttempt
  <2>2. /\ log' \subseteq log \cup {<<"command_attempt", tok[w], attempt'[w]>>}
        /\ \/ pc'[w] \in {"drain", "send"} /\ <<"command_attempt", tok[w], attempt'[w]>> \in log'
           \/ pc'[w] = "error"
    BY <1>13, RecordEffect DEF AuditAttempt
  <2> QED BY <2>1, <2>2
<1>14. CASE Drain(w) BY <1>14 DEF Drain, Goto
<1>15. CASE Send(w) BY <1>15 DEF Send, Goto
<1>16. CASE RecvAck(w) BY <1>16 DEF RecvAck, Goto
<1>17. CASE NoAck(w) BY <1>17 DEF NoAck, Goto
<1>18. CASE AuditNoAck(w)
  <2>1. log' = log /\ pc'[w] \in {NextAttempt(attempt[w]), "error"}
    BY <1>18, RecordOutcomeEffect DEF AuditNoAck
  <2> QED BY <1>18, <2>1 DEF AuditNoAck, NextAttempt
<1>19. CASE AuditResult(w)
  <2>1. log' = log /\ pc'[w] \in {NextAttempt(attempt[w]), "accepted", "rejected", "error"}
    BY <1>19, RecordOutcomeEffect DEF AuditResult
  <2> QED BY <1>19, <2>1 DEF AuditResult, NextAttempt
<1>20. CASE AuditFailed(w)
  <2>1. log' = log /\ pc'[w] \in {"exhausted", "error"}
    BY <1>20, RecordOutcomeEffect DEF AuditFailed
  <2> QED BY <1>20, <2>1 DEF AuditFailed
<1>21. CASE Reply(w) BY <1>21 DEF Reply, Goto
<1> QED
  BY <1>1, <1>2, <1>3, <1>4, <1>5, <1>6, <1>7, <1>8, <1>9, <1>10, <1>11, <1>12, <1>13,
     <1>14, <1>15, <1>16, <1>17, <1>18, <1>19, <1>20, <1>21 DEF Request, Work

\* Every step keeps transmissions, attempts and audit records in step.
LEMMA TrailStep == IInv /\ [Next]_vars => TrailInv'
<1> SUFFICES ASSUME IInv, [Next]_vars PROVE TrailInv'
  OBVIOUS
<1>e. CASE Environment \/ UNCHANGED vars
  BY <1>e, EnvironmentFrame DEF IInv, TrailInv, AuditedBeforeSent, SendsBounded
<1>w. ASSUME NEW w \in Workers, Request(w) \/ Work(w) PROVE TrailInv'
  <2>t. /\ known \subseteq Tokens /\ sends \in [Tokens -> Nat] /\ released \in [Tokens -> Nat]
        /\ attempt \in [Workers -> Nat] /\ MaxAttempts \in Nat
    BY CommanderAssumption DEF IInv, TypeOK
  <2>f. /\ \A v \in Workers : v # w => pc'[v] = pc[v] /\ tok'[v] = tok[v] /\ attempt'[v] = attempt[v]
        /\ log \subseteq log'
    BY <1>w, WorkerFrame
  <2>h. \A v \in Workers : pc[v] \in Holders => tok[v] \in known /\ released[tok[v]] = 1
    BY DEF IInv, HolderInv
  <2>u. \A v \in Workers : v # w /\ pc[v] \in Holders /\ pc[w] \in Holders => tok[v] # tok[w]
    BY DEF IInv, HolderInv
  <2>i. TrailInv
    BY DEF IInv
  <2>s. /\ SendStates \subseteq Holders /\ {"drain", "send"} \subseteq SendStates
        /\ Waiting = SendStates \ {"drain", "send"} /\ "await" \in SendStates
        /\ "audit_blocked" \in Holders /\ "audit_confirmed" \in Holders \ SendStates
    BY DEF Holders, ArmStates, SendStates, Waiting
  \* The release of a token, or of none.
  <2>r. /\ \A t \in Tokens : released'[t] = 0 => released[t] = 0
        /\ pc'[w] \in Holders /\ ~(GateDel(w) /\ InGate(w)) => pc[w] \in Holders /\ tok' = tok
    <3>1. CASE UNCHANGED released
      BY <1>w, <3>1, OwnMove
    <3>2. CASE ~UNCHANGED released
      <4>1. tok[w] \in Tokens /\ released' = [released EXCEPT ![tok[w]] = @ + 1]
        BY <1>w, <3>2, OwnMove DEF GateDel, InGate
      <4>2. \A t \in Tokens : released'[t] = 0 => released[t] = 0
        BY <2>t, <4>1
      <4> QED BY <1>w, <4>2, OwnMove
    <3> QED BY <3>1, <3>2
  \* A token released by this very step has no trail yet.
  <2>g. GateDel(w) /\ InGate(w) => /\ tok' = tok /\ tok[w] \in Tokens /\ released[tok[w]] = 0
                                   /\ sends' = sends /\ pc[w] = "gate_del"
    BY DEF GateDel, InGate, localVars, histVars, IInv, GateInv
  <2>a. \A t : <<"arm_blocked", t, 0>> \in log' =>
            \/ <<"arm_blocked", t, 0>> \in log
            \/ pc[w] = "audit_blocked" /\ t = tok[w] /\ pc'[w] \notin Holders
    BY <1>w, OwnTrail
  <2>b. \/ sends' = sends
        \/ /\ pc[w] = "send" /\ pc'[w] = "await" /\ tok' = tok /\ attempt' = attempt
           /\ sends' = [sends EXCEPT ![tok[w]] = @ + 1]
    BY <1>w, OwnTrail
  <2>c. \A v \in Workers : v # w /\ pc[v] \in Holders => sends'[tok[v]] = sends[tok[v]]
    BY <2>b, <2>t, <2>h, <2>u, <2>s
  <2>1. \A t \in Tokens : released'[t] = 0 => sends'[t] = 0 /\ <<"arm_blocked", t, 0>> \notin log'
    BY <2>t, <2>h, <2>i, <2>s, <2>r, <2>a, <2>b DEF TrailInv
  <2>2. \A v \in Workers : pc'[v] \in Holders => <<"arm_blocked", tok'[v], 0>> \notin log'
    <3>1. ASSUME NEW v \in Workers, v # w, pc[v] \in Holders
          PROVE  <<"arm_blocked", tok[v], 0>> \notin log'
      BY <3>1, <2>i, <2>a, <2>u, <2>s DEF TrailInv
    <3>2. ASSUME pc'[w] \in Holders PROVE <<"arm_blocked", tok'[w], 0>> \notin log'
      BY <3>2, <2>i, <2>a, <2>r, <2>g DEF TrailInv
    <3> QED BY <3>1, <3>2, <2>f
  <2>3. \A v \in Workers : pc'[v] \notin SendStates \cup ReplyStates => attempt'[v] = 0
    <3>1. pc'[w] \notin SendStates \cup ReplyStates => attempt'[w] = 0
      BY <1>w, OwnTrail
    <3> QED BY <2>f, <2>i, <3>1 DEF TrailInv
  <2>4. \A v \in Workers : pc'[v] \in Holders \ SendStates => sends'[tok'[v]] = 0
    <3>1. ASSUME pc'[w] \in Holders \ SendStates PROVE sends'[tok'[w]] = 0
      <4>1. \/ GateDel(w) /\ InGate(w)
            \/ pc[w] \in Holders \ SendStates /\ tok' = tok
        BY <1>w, <3>1, OwnTrail
      <4>2. sends' = sends
        BY <3>1, <2>b, <2>s
      <4> QED BY <4>1, <4>2, <2>g, <2>i DEF TrailInv
    <3> QED BY <3>1, <2>c, <2>f, <2>i DEF TrailInv
  <2>5. pc'[w] \in Waiting =>
            /\ <<"command_confirmed", tok'[w], 0>> \in log'
            /\ attempt'[w] <= MaxAttempts
            /\ pc'[w] = "audit_attempt" => attempt'[w] < MaxAttempts
            /\ sends'[tok'[w]] = attempt'[w]
    <3> SUFFICES ASSUME pc'[w] \in Waiting
                 PROVE  /\ <<"command_confirmed", tok'[w], 0>> \in log'
                        /\ attempt'[w] <= MaxAttempts
                        /\ pc'[w] = "audit_attempt" => attempt'[w] < MaxAttempts
                        /\ sends'[tok'[w]] = attempt'[w]
      OBVIOUS
    <3>1. CASE /\ pc[w] = "audit_confirmed" /\ tok' = tok /\ attempt' = attempt
               /\ <<"command_confirmed", tok[w], 0>> \in log'
               /\ pc'[w] = "audit_attempt" => 0 < MaxAttempts
      <4>1. attempt[w] = 0 /\ sends[tok[w]] = 0 /\ sends' = sends
        BY <3>1, <2>i, <2>b, <2>s DEF TrailInv, SendStates, ReplyStates
      <4> QED BY <3>1, <4>1, <2>t
    <3>2. CASE /\ pc[w] = "send" /\ pc'[w] = "await" /\ tok' = tok /\ attempt' = attempt
               /\ sends' = [sends EXCEPT ![tok[w]] = @ + 1]
      <4>1. sends[tok[w]] + 1 = attempt[w] /\ tok[w] \in Tokens
        BY <3>2, <2>i, <2>h, <2>s, <2>t DEF TrailInv
      <4> QED BY <3>2, <4>1, <2>i, <2>f, <2>s, <2>t DEF TrailInv
    <3>3. CASE /\ pc[w] \in Waiting /\ tok' = tok /\ attempt' = attempt
               /\ pc'[w] = "audit_attempt" => attempt[w] < MaxAttempts
      <4>1. sends' = sends
        BY <3>3, <2>b, <2>s
      <4> QED BY <3>3, <4>1, <2>i, <2>f, <2>s DEF TrailInv
    <3> QED BY <1>w, <3>1, <3>2, <3>3, OwnTrail
  <2>6. pc'[w] \in {"drain", "send"} =>
            /\ <<"command_confirmed", tok'[w], 0>> \in log'
            /\ attempt'[w] <= MaxAttempts
            /\ sends'[tok'[w]] + 1 = attempt'[w]
            /\ <<"command_attempt", tok'[w], attempt'[w]>> \in log'
    <3> SUFFICES ASSUME pc'[w] \in {"drain", "send"}
                 PROVE  /\ <<"command_confirmed", tok'[w], 0>> \in log'
                        /\ attempt'[w] <= MaxAttempts
                        /\ sends'[tok'[w]] + 1 = attempt'[w]
                        /\ <<"command_attempt", tok'[w], attempt'[w]>> \in log'
      OBVIOUS
    <3>1. sends' = sends
      BY <2>b
    <3>2. CASE /\ pc[w] = "audit_attempt" /\ tok' = tok /\ attempt'[w] = attempt[w] + 1
               /\ <<"command_attempt", tok[w], attempt'[w]>> \in log'
      <4>1. "audit_attempt" \in SendStates \ {"drain", "send"}
        BY DEF SendStates
      <4> QED BY <3>1, <3>2, <4>1, <2>i, <2>f, <2>t DEF TrailInv
    <3>3. CASE pc[w] = "drain" /\ tok' = tok /\ attempt' = attempt
      BY <3>1, <3>3, <2>i, <2>f, <2>s DEF TrailInv
    <3> QED BY <1>w, <3>2, <3>3, OwnTrail
  <2>7. \A v \in Workers : v # w /\ pc'[v] \in SendStates =>
            /\ <<"command_confirmed", tok'[v], 0>> \in log'
            /\ attempt'[v] <= MaxAttempts
            /\ pc'[v] = "audit_attempt" => attempt'[v] < MaxAttempts
            /\ pc'[v] \in Waiting => sends'[tok'[v]] = attempt'[v]
            /\ pc'[v] \in {"drain", "send"} =>
                 /\ sends'[tok'[v]] + 1 = attempt'[v]
                 /\ <<"command_attempt", tok'[v], attempt'[v]>> \in log'
    BY <2>c, <2>f, <2>i, <2>s DEF TrailInv
  <2>8. AuditedBeforeSent'
    <3>1. CASE sends' = sends
      BY <3>1, <2>f, <2>i DEF TrailInv, AuditedBeforeSent
    <3>2. CASE pc[w] = "send" /\ sends' = [sends EXCEPT ![tok[w]] = @ + 1]
      <4>1. /\ tok[w] \in Tokens /\ sends'[tok[w]] = sends[tok[w]] + 1
            /\ \A t \in Tokens : t # tok[w] => sends'[t] = sends[t]
        BY <3>2, <2>t, <2>h, <2>s
      <4>2. /\ <<"command_staged", tok[w], 0>> \in log
            /\ <<"command_confirmed", tok[w], 0>> \in log
            /\ <<"command_attempt", tok[w], sends[tok[w]] + 1>> \in log
        <5>1. attempt[w] = sends[tok[w]] + 1 /\ tok[w] \in known
          BY <3>2, <2>h, <2>i, <2>s DEF TrailInv
        <5>2. <<"command_staged", tok[w], 0>> \in log
          BY <5>1 DEF IInv, StageInv
        <5> QED BY <3>2, <5>1, <5>2, <2>i, <2>s DEF TrailInv
      <4>3. \A n \in 1..sends[tok[w]] : <<"command_attempt", tok[w], n>> \in log
        <5>1. AuditedBeforeSent /\ sends[tok[w]] \in Nat
          BY <4>1, <2>t, <2>i DEF TrailInv
        <5>2. CASE sends[tok[w]] = 0
          BY <5>2
        <5>3. CASE sends[tok[w]] > 0
          BY <4>1, <5>1, <5>3 DEF AuditedBeforeSent
        <5> QED BY <5>1, <5>2, <5>3
      <4>4. \A n \in 1..sends'[tok[w]] : <<"command_attempt", tok[w], n>> \in log
        BY <4>1, <4>2, <4>3, <2>t
      <4>5. \A t \in Tokens : t # tok[w] /\ sends'[t] > 0 =>
                /\ <<"command_staged", t, 0>> \in log
                /\ <<"command_confirmed", t, 0>> \in log
                /\ \A n \in 1..sends'[t] : <<"command_attempt", t, n>> \in log
        BY <4>1, <2>i DEF TrailInv, AuditedBeforeSent
      <4> QED BY <4>2, <4>4, <4>5, <2>f DEF AuditedBeforeSent
    <3> QED BY <3>1, <3>2, <2>b
  <2>9. SendsBounded'
    <3>1. \A t \in Tokens : sends'[t] <= MaxAttempts
      <4>1. CASE sends' = sends
        BY <4>1, <2>i DEF TrailInv, SendsBounded
      <4>2. CASE pc[w] = "send" /\ sends' = [sends EXCEPT ![tok[w]] = @ + 1]
        <5>1. sends[tok[w]] + 1 <= MaxAttempts
          BY <4>2, <2>i, <2>s DEF TrailInv
        <5> QED BY <4>2, <5>1, <2>t, <2>i DEF TrailInv, SendsBounded
      <4> QED BY <4>1, <4>2, <2>b
    <3>2. ASSUME NEW t \in Tokens, <<"arm_blocked", t, 0>> \in log' PROVE sends'[t] = 0
      <4>1. CASE <<"arm_blocked", t, 0>> \in log
        <5>1. sends[t] = 0 /\ (pc[w] \in Holders => t # tok[w])
          BY <4>1, <2>i DEF TrailInv, SendsBounded
        <5> QED BY <5>1, <2>b, <2>t, <2>s
      <4>2. CASE pc[w] = "audit_blocked" /\ t = tok[w]
        <5>1. "audit_blocked" \in Holders \ SendStates
          BY DEF Holders, ArmStates, SendStates
        <5> QED BY <4>2, <5>1, <2>i, <2>b DEF TrailInv
      <4> QED BY <3>2, <4>1, <4>2, <2>a
    <3> QED BY <3>1, <3>2 DEF SendsBounded
  <2>10. \A v \in Workers : pc'[v] \in SendStates =>
            /\ <<"command_confirmed", tok'[v], 0>> \in log'
            /\ attempt'[v] <= MaxAttempts
            /\ pc'[v] = "audit_attempt" => attempt'[v] < MaxAttempts
    <3>1. pc'[w] \in {"drain", "send"} => pc'[w] # "audit_attempt"
      OBVIOUS
    <3> QED BY <2>5, <2>6, <2>7, <2>s, <3>1
  <2>11. \A v \in Workers : pc'[v] \in SendStates \ {"drain", "send"} =>
            sends'[tok'[v]] = attempt'[v]
    BY <2>5, <2>7, <2>s
  <2>12. \A v \in Workers : pc'[v] \in {"drain", "send"} =>
            /\ sends'[tok'[v]] + 1 = attempt'[v]
            /\ <<"command_attempt", tok'[v], attempt'[v]>> \in log'
    BY <2>6, <2>7, <2>s
  <2> QED BY <2>1, <2>2, <2>3, <2>4, <2>8, <2>9, <2>10, <2>11, <2>12 DEF TrailInv
<1> QED BY <1>e, <1>w, StepCases

-----------------------------------------------------------------------------
(* force_disarm *)

\* No step lets force_disarm past the gate without force_ack.
LEMMA ForceStep == IInv /\ [Next]_vars => ForceInv'
<1> SUFFICES ASSUME IInv, [Next]_vars PROVE ForceInv'
  OBVIOUS
<1>i. ForceInv /\ TypeOK
  BY DEF IInv
<1>e. CASE Environment \/ UNCHANGED vars
  BY <1>e, <1>i, EnvironmentFrame DEF ForceInv, ForceOnlyWithForceAck
<1>w. ASSUME NEW w \in Workers, Request(w) \/ Work(w) PROVE ForceInv'
  <2> USE DEF gateVars, localVars, busVars, histVars
  <2>f. /\ \A v \in Workers : v # w => /\ pc'[v] = pc[v] /\ tok'[v] = tok[v]
                                       /\ spec'[v] = spec[v] /\ force'[v] = force[v]
        /\ acked \subseteq acked'
    BY <1>w, WorkerFrame
  <2>1. \A t \in Tokens : pending'[t] = "force_disarm" => AllowForceDisarm
    <3>1. ASSUME NEW name \in Names, Stage(w, name)
          PROVE  \A t \in Tokens : pending'[t] = "force_disarm" => AllowForceDisarm
      <4>1. pending' = pending \/ \E t \in Tokens : /\ pending' = [pending EXCEPT ![t] = name]
                                                    /\ name = "force_disarm" => AllowForceDisarm
        BY <3>1 DEF Stage, BuildCommand
      <4>2. pending \in [Tokens -> Builders \cup {NoSpec}]
        BY <1>i DEF TypeOK
      <4> QED BY <4>1, <4>2, <1>i DEF ForceInv
    <3>2. ASSUME \A name \in Names : ~Stage(w, name)
          PROVE  pending' = pending \/ \E t \in Tokens : pending' = [pending EXCEPT ![t] = NoSpec]
      BY <3>2, <1>w DEF Request, Cancel, Confirm, Work, AuditStaged, AuditCancelled, GateCheck,
         GateRead, GateDel, InGate, ReadHealth, ArmCheck, AuditBlocked, AuditConfirmed,
         AuditAttempt, Drain, Send, RecvAck, NoAck, AuditNoAck, AuditResult, AuditFailed, Reply
    <3>3. ASSUME pending' = pending \/ \E t \in Tokens : pending' = [pending EXCEPT ![t] = NoSpec]
          PROVE  \A t \in Tokens : pending'[t] = "force_disarm" => AllowForceDisarm
      BY <3>3, <1>i DEF ForceInv, TypeOK, NoSpec
    <3> QED BY <3>1, <3>2, <3>3
  <2>2. \A v \in Workers : pc'[v] = "gate_del" /\ spec'[v] = "force_disarm" =>
            force'[v] /\ AllowForceDisarm
    <3>1. ASSUME pc'[w] = "gate_del", spec'[w] = "force_disarm" PROVE force'[w] /\ AllowForceDisarm
      <4>1. GateRead(w) /\ InGate(w)
        BY <1>w, <3>1, OwnMove
      <4>2. /\ tok[w] \in Tokens /\ force' = force
            /\ spec' = [spec EXCEPT ![w] = pending[tok[w]]]
            /\ pc' = [pc EXCEPT ![w] = IF RequiresForceConfirm(spec'[w]) /\ ~force[w]
                                       THEN "force_required" ELSE "gate_del"]
        BY <4>1 DEF GateRead, InGate, Goto
      <4>3. pending[tok[w]] = "force_disarm"
        BY <3>1, <4>2, <1>i DEF TypeOK
      <4>4. force[w]
        BY <3>1, <4>2, <1>i DEF TypeOK, RequiresForceConfirm
      <4> QED BY <4>2, <4>3, <4>4, <1>i DEF ForceInv
    <3> QED BY <3>1, <2>f, <1>i DEF ForceInv
  <2>3. \A v \in Workers : pc'[v] \in Holders /\ spec'[v] = "force_disarm" =>
            tok'[v] \in acked' /\ AllowForceDisarm
    <3>1. ASSUME pc'[w] \in Holders, spec'[w] = "force_disarm"
          PROVE  tok'[w] \in acked' /\ AllowForceDisarm
      <4>1. CASE GateDel(w) /\ InGate(w)
        BY <3>1, <4>1, <1>i DEF GateDel, ForceInv
      <4>2. CASE pc[w] \in Holders /\ tok' = tok /\ spec' = spec
        BY <3>1, <4>2, <1>i, <2>f DEF ForceInv
      <4> QED BY <1>w, <3>1, <4>1, <4>2, OwnMove
    <3> QED BY <3>1, <2>f, <1>i DEF ForceInv
  <2>4. ForceOnlyWithForceAck'
    <3>1. CASE Send(w)
      <4>1. pc[w] = "send" /\ uplink' \subseteq uplink \cup {<<tok[w], attempt[w], spec[w]>>}
        BY <3>1 DEF Send
      <4>2. spec[w] = "force_disarm" => tok[w] \in acked /\ AllowForceDisarm
        BY <4>1, <1>i DEF ForceInv, Holders, SendStates
      <4> QED BY <4>1, <4>2, <2>f, <1>i DEF ForceInv, ForceOnlyWithForceAck
    <3>2. CASE ~Send(w)
      <4>1. UNCHANGED uplink
        BY <3>2, <1>w DEF Request, Stage, Cancel, Confirm, Work, AuditStaged, AuditCancelled,
           GateCheck, GateRead, GateDel, ReadHealth, ArmCheck, AuditBlocked, AuditConfirmed,
           AuditAttempt, Drain, RecvAck, NoAck, AuditNoAck, AuditResult, AuditFailed, Reply
      <4> QED BY <4>1, <2>f, <1>i DEF ForceInv, ForceOnlyWithForceAck
    <3> QED BY <3>1, <3>2
  <2> QED BY <2>1, <2>2, <2>3, <2>4 DEF ForceInv
<1> QED BY <1>e, <1>w, StepCases

-----------------------------------------------------------------------------
(* Acknowledgements *)

\* A worker gets to a result only by matching an ACK, to "accepted" only from a
\* result of ACCEPTED, and drains the queue only before its first transmission.
LEMMA ToResult ==
    ASSUME IInv, NEW w \in Workers, Request(w) \/ Work(w)
    PROVE  /\ pc'[w] = "audit_result" => RecvAck(w) /\ MatchesAck(Head(acks), spec[w])
           /\ pc'[w] = "accepted" => /\ pc[w] = "audit_result" /\ result[w] = ACCEPTED
                                     /\ spec' = spec
           /\ pc'[w] = "drain" => (AuditAttempt(w) /\ attempt[w] = 0) \/ Drain(w)
<1> DEFINE P == /\ pc'[w] = "audit_result" => RecvAck(w) /\ MatchesAck(Head(acks), spec[w])
                /\ pc'[w] = "accepted" => /\ pc[w] = "audit_result" /\ result[w] = ACCEPTED
                                          /\ spec' = spec
                /\ pc'[w] = "drain" => (AuditAttempt(w) /\ attempt[w] = 0) \/ Drain(w)
<1>t. pc \in [Workers -> States] /\ attempt \in [Workers -> Nat]
  BY DEF IInv, TypeOK
<1> USE <1>t DEF localVars
<1>1. ASSUME NEW name \in Names, Stage(w, name) PROVE P
  <2>1. pc'[w] \in {"refused", "audit_staged"}
    BY <1>1 DEF Stage, Goto
  <2> QED BY <2>1
<1>2. ASSUME NEW t \in known \cup {NoToken}, Cancel(w, t) PROVE P
  BY <1>2 DEF Cancel, Goto
<1>3. ASSUME NEW t \in known \cup {NoToken}, NEW ack \in BOOLEAN, Confirm(w, t, ack) PROVE P
  BY <1>3 DEF Confirm, Goto
<1>4. CASE AuditStaged(w)
  <2>1. pc'[w] \in {"staged", "error"}
    BY <1>4, RecordEffect DEF AuditStaged
  <2> QED BY <2>1
<1>5. CASE AuditCancelled(w)
  <2>1. pc'[w] \in {"cancelled", "error"}
    BY <1>5, RecordEffect DEF AuditCancelled
  <2> QED BY <2>1
<1>6. CASE GateCheck(w) BY <1>6 DEF GateCheck, Goto
<1>7. CASE GateRead(w) BY <1>7 DEF GateRead, Goto
<1>8. CASE GateDel(w) BY <1>8 DEF GateDel, Goto
<1>9. CASE ReadHealth(w) BY <1>9 DEF ReadHealth, Goto
<1>10. CASE ArmCheck(w) BY <1>10 DEF ArmCheck, Goto
<1>11. CASE AuditBlocked(w)
  <2>1. pc'[w] \in {"blocked", "error"}
    BY <1>11, RecordEffect DEF AuditBlocked
  <2> QED BY <2>1
<1>12. CASE AuditConfirmed(w)
  <2>1. pc'[w] \in {NextAttempt(0), "error"}
    BY <1>12, RecordEffect DEF AuditConfirmed
  <2> QED BY <2>1 DEF NextAttempt
<1>13. CASE AuditAttempt(w)
  <2>1. pc'[w] \in {IF attempt[w] = 0 THEN "drain" ELSE "send", "error"}
    BY <1>13, RecordEffect DEF AuditAttempt
  <2> QED BY <1>13, <2>1
<1>14. CASE Drain(w) BY <1>14 DEF Drain, Goto
<1>15. CASE Send(w) BY <1>15 DEF Send, Goto
<1>16. CASE RecvAck(w) BY <1>16 DEF RecvAck, Goto
<1>17. CASE NoAck(w) BY <1>17 DEF NoAck, Goto
<1>18. CASE AuditNoAck(w) BY <1>18, RecordOutcomeEffect DEF AuditNoAck, NextAttempt
<1>19. CASE AuditResult(w) BY <1>19, RecordOutcomeEffect DEF AuditResult, NextAttempt
<1>20. CASE AuditFailed(w) BY <1>20, RecordOutcomeEffect DEF AuditFailed
<1>21. CASE Reply(w) BY <1>21 DEF Reply, Goto
<1> QED
  BY <1>1, <1>2, <1>3, <1>4, <1>5, <1>6, <1>7, <1>8, <1>9, <1>10, <1>11, <1>12, <1>13,
     <1>14, <1>15, <1>16, <1>17, <1>18, <1>19, <1>20, <1>21 DEF Request, Work

\* No step puts a false acceptance of the target on its way to a worker.
LEMMA AckStep == IInv /\ [Next]_vars => AckInv'
<1> SUFFICES ASSUME IInv, [Next]_vars PROVE AckInv'
  OBVIOUS
<1> USE DEF gateVars, localVars, busVars, histVars
<1>i. AckInv /\ TypeOK
  BY DEF IInv
<1>e. CASE Environment \/ UNCHANGED vars
  <2>p. UNCHANGED <<pc, spec, result>>
    BY <1>e, EnvironmentFrame
  <2>m. accepted \subseteq accepted'
    BY <1>e DEF Environment, Bus, ReadHeartbeat, ReadAck, VehicleAnswers, LoseMessage,
       ForeignAck, Tick, Shutdown, vars
  <2>g. \A a : Genuine(a, accepted) => Genuine(a, accepted')
    BY <2>m DEF Genuine, AcceptedIn
  <2>1. \A w \in Workers : pc'[w] = "audit_result" /\ result'[w] = ACCEPTED =>
           AcceptedIn(CommandId(spec'[w]), accepted')
    BY <2>p, <2>m, <1>i DEF AckInv, AcceptedIn
  <2>2. AcceptedIsGenuine'
    BY <2>p, <2>m, <1>i DEF AckInv, AcceptedIsGenuine
  <2>3. \A a \in net' : Genuine(a, accepted')
    <3>1. CASE VehicleAnswers
      <4>1. PICK u \in uplink, r \in Results :
              /\ net' = net \cup {[command |-> CommandId(u[3]), result |-> r,
                                   sys |-> "target", of |-> u[1], no |-> u[2]]}
              /\ accepted' = IF r = ACCEPTED THEN accepted \cup {u[3]} ELSE accepted
        BY <3>1 DEF VehicleAnswers
      <4>2. Genuine([command |-> CommandId(u[3]), result |-> r,
                     sys |-> "target", of |-> u[1], no |-> u[2]], accepted')
        BY <4>1 DEF Genuine, AcceptedIn
      <4> QED BY <4>1, <4>2, <2>g, <1>i DEF AckInv
    <3>2. CASE ForeignAck
      <4>1. PICK c, r : net' = net \cup {[command |-> c, result |-> r, sys |-> "other",
                                          of |-> NoToken, no |-> noise]}
        BY <3>2 DEF ForeignAck
      <4>2. Genuine([command |-> c, result |-> r, sys |-> "other",
                     of |-> NoToken, no |-> noise], accepted')
        BY DEF Genuine
      <4> QED BY <4>1, <4>2, <2>g, <1>i DEF AckInv
    <3>3. CASE ~VehicleAnswers /\ ~ForeignAck
      <4>1. net' \subseteq net
        BY <1>e, <3>3 DEF Environment, Bus, ReadHeartbeat, ReadAck, LoseMessage, Tick, Shutdown, vars
      <4> QED BY <4>1, <2>g, <1>i DEF AckInv
    <3> QED BY <3>1, <3>2, <3>3
  <2>4. \A i \in DOMAIN acks' : Genuine(acks'[i], accepted')
    <3>1. CASE ReadAck
      <4>1. PICK a \in net : acks' = Append(acks, a)
        BY <3>1 DEF ReadAck
      <4>2. acks \in Seq(AckMsgs) /\ a \in AckMsgs
        BY <1>i DEF TypeOK
      <4>3. \A i \in DOMAIN acks' : acks'[i] = a \/ \E j \in DOMAIN acks : acks'[i] = acks[j]
        BY <4>1, <4>2
      <4>4. Genuine(a, accepted) /\ \A j \in DOMAIN acks : Genuine(acks[j], accepted)
        BY <1>i DEF AckInv
      <4> QED BY <4>3, <4>4, <2>g
    <3>2. CASE ~ReadAck
      <4>1. acks' = acks
        BY <1>e, <3>2 DEF Environment, Bus, ReadHeartbeat, VehicleAnswers, LoseMessage,
           ForeignAck, Tick, Shutdown, vars
      <4> QED BY <4>1, <2>g, <1>i DEF AckInv
    <3> QED BY <3>1, <3>2
  <2> QED BY <2>p, <2>1, <2>2, <2>3, <2>4 DEF AckInv
<1>w. ASSUME NEW w \in Workers, Request(w) \/ Work(w) PROVE AckInv'
  <2>f. \A v \in Workers : v # w => pc'[v] = pc[v] /\ spec'[v] = spec[v] /\ result'[v] = result[v]
    BY <1>w, WorkerFrame
  <2>n. UNCHANGED <<net, accepted>>
    BY <1>w DEF Request, Stage, Cancel, Confirm, Work, AuditStaged, AuditCancelled,
       GateCheck, GateRead, GateDel, ReadHealth, ArmCheck, AuditBlocked, AuditConfirmed,
       AuditAttempt, Drain, Send, RecvAck, NoAck, AuditNoAck, AuditResult, AuditFailed, Reply
  <2>g. \A a : Genuine(a, accepted) => Genuine(a, accepted')
    BY <2>n DEF Genuine, AcceptedIn
  <2>1. \A i \in DOMAIN acks' : \E j \in DOMAIN acks : acks'[i] = acks[j]
    <3>1. acks' = acks \/ (acks # <<>> /\ acks' = Tail(acks))
      BY <1>w DEF Request, Stage, Cancel, Confirm, Work, AuditStaged, AuditCancelled,
         GateCheck, GateRead, GateDel, ReadHealth, ArmCheck, AuditBlocked, AuditConfirmed,
         AuditAttempt, Drain, Send, RecvAck, NoAck, AuditNoAck, AuditResult, AuditFailed, Reply
    <3>2. acks \in Seq(AckMsgs)
      BY <1>i DEF TypeOK
    <3> QED BY <3>1, <3>2
  <2>2. ASSUME pc'[w] = "audit_result", result'[w] = ACCEPTED
        PROVE  AcceptedIn(CommandId(spec'[w]), accepted')
    <3>1. RecvAck(w) /\ MatchesAck(Head(acks), spec[w])
      BY <2>2, <1>w, ToResult
    <3>2. /\ acks # <<>> /\ spec' = spec
          /\ result' = [result EXCEPT ![w] = Head(acks).result]
      BY <3>1 DEF RecvAck
    <3>3. acks \in Seq(AckMsgs) /\ result \in [Workers -> Results \cup {0}]
      BY <1>i DEF TypeOK
    <3>4. Genuine(Head(acks), accepted)
      BY <3>2, <3>3, <1>i DEF AckInv
    <3> QED BY <2>2, <2>n, <3>1, <3>2, <3>3, <3>4 DEF Genuine, MatchesAck
  <2>3. ASSUME pc'[w] = "accepted"
        PROVE  AcceptedIn(CommandId(spec'[w]), accepted')
    <3>1. pc[w] = "audit_result" /\ result[w] = ACCEPTED /\ spec' = spec
      BY <2>3, <1>w, ToResult
    <3> QED BY <3>1, <2>n, <1>i DEF AckInv
  <2>4. \A v \in Workers : pc'[v] = "audit_result" /\ result'[v] = ACCEPTED =>
           AcceptedIn(CommandId(spec'[v]), accepted')
    BY <2>f, <2>n, <2>2, <1>i DEF AckInv
  <2>5. AcceptedIsGenuine'
    BY <2>f, <2>n, <2>3, <1>i DEF AckInv, AcceptedIsGenuine, AcceptedIn
  <2>6. \A i \in DOMAIN acks' : Genuine(acks'[i], accepted')
    BY <2>n, <2>1, <1>i DEF AckInv
  <2> QED BY <2>n, <2>4, <2>5, <2>6, <1>i DEF AckInv
<1> QED BY <1>e, <1>w, StepCases

-----------------------------------------------------------------------------
(* The theorems *)

\* The inductive invariant holds throughout.
LEMMA Inductive == Spec => []IInv
<1>1. Init => IInv
  <2> SUFFICES ASSUME Init PROVE IInv
    OBVIOUS
  <2>1. TypeOK BY TypeInit
  <2>2. GateInv BY DEF Init, GateInv, OneFate
  <2>3. StageInv BY DEF Init, StageInv
  <2>4. HolderInv BY DEF Init, HolderInv, Holders, GateStates, ArmStates, SendStates
  <2>5. TrailInv
    BY CommanderAssumption DEF Init, TrailInv, Holders, ArmStates, SendStates,
       AuditedBeforeSent, SendsBounded
  <2>6. ForceInv
    BY DEF Init, ForceInv, ForceOnlyWithForceAck, NoSpec, Holders, ArmStates, SendStates
  <2>7. AckInv BY DEF Init, AckInv, AcceptedIsGenuine
  <2> QED BY <2>1, <2>2, <2>3, <2>4, <2>5, <2>6, <2>7 DEF IInv
<1>2. IInv /\ [Next]_vars => IInv'
  <2> SUFFICES ASSUME IInv, [Next]_vars PROVE IInv'
    OBVIOUS
  <2> QED BY TypeStep, GateStep, StageStep, HolderStep, TrailStep, ForceStep, AckStep DEF IInv
<1> QED BY <1>1, <1>2, PTL DEF Spec

\* Every state component keeps its type for all values of the constants: no
\* request, audit failure, message or timer takes a worker out of its control
\* states or puts anything but a built command behind a token.
THEOREM TypeCorrect == Spec => []TypeOK
<1>1. IInv => TypeOK BY DEF IInv
<1> QED BY <1>1, Inductive, PTL

\* For any number of threads racing on the unsynchronised gate, a staged command
\* is released at most once and never after it was withdrawn.
THEOREM OneFateTheorem == Spec => []OneFate
<1>1. IInv => OneFate BY DEF IInv, GateInv
<1> QED BY <1>1, Inductive, PTL

\* Whatever audit writes fail and whenever the service shuts down, no
\* transmission precedes its durable staged, confirmed and attempt records.
THEOREM AuditTheorem == Spec => []AuditedBeforeSent
<1>1. IInv => AuditedBeforeSent BY DEF IInv, TrailInv
<1> QED BY <1>1, Inductive, PTL

\* One confirmation never transmits more than max_attempts times, and not at all
\* when the interlock refused it, for every max_attempts.
THEOREM SendsTheorem == Spec => []SendsBounded
<1>1. IInv => SendsBounded BY DEF IInv, TrailInv
<1> QED BY <1>1, Inductive, PTL

\* force_disarm is never on the uplink without the force_ack of its own
\* confirmation and the configuration that allows it.
THEOREM ForceTheorem == Spec => []ForceOnlyWithForceAck
<1>1. IInv => ForceOnlyWithForceAck BY DEF IInv, ForceInv
<1> QED BY <1>1, Inductive, PTL

\* However many foreign ACKs share the bus and however ACKs are lost, reordered
\* or late, "accepted" is reported only if the target accepted that MAV_CMD.
THEOREM GenuineTheorem == Spec => []AcceptedIsGenuine
<1>1. IInv => AcceptedIsGenuine BY DEF IInv, AckInv
<1> QED BY <1>1, Inductive, PTL

-----------------------------------------------------------------------------
(* What the service promises *)

\* A token has no verdict on record before its worker comes to write one.
VerdictInv ==
    /\ \A t \in Tokens : released[t] = 0 => <<"command_confirmed", t, 0>> \notin log
    /\ \A w \in Workers : pc[w] \in Holders \ SendStates =>
           <<"command_confirmed", tok[w], 0>> \notin log

\* The state that Supervision sees.
Seen == <<issued, withdrawn, released, log, sends>>

\* A worker's step writes one record at most, in a state that says which, and a step that
\* writes does nothing else that Supervision sees.
LEMMA OwnRecord ==
    ASSUME IInv, NEW w \in Workers, Request(w) \/ Work(w), log' # log
    PROVE  /\ UNCHANGED <<tok, issued, withdrawn, released, sends>>
           /\ \/ pc[w] = "audit_staged" /\ log' = log \cup {<<"command_staged", tok[w], 0>>}
              \/ pc[w] = "audit_cancelled" /\ log' = log \cup {<<"command_cancelled", tok[w], 0>>}
              \/ /\ pc[w] = "audit_blocked" /\ log' = log \cup {<<"arm_blocked", tok[w], 0>>}
                 /\ pc'[w] \in ReplyStates
              \/ /\ pc[w] = "audit_confirmed"
                 /\ log' = log \cup {<<"command_confirmed", tok[w], 0>>}
                 /\ pc'[w] \in SendStates \cup ReplyStates
              \/ /\ pc[w] = "audit_attempt"
                 /\ log' = log \cup {<<"command_attempt", tok[w], attempt[w] + 1>>}
                 /\ pc'[w] \in SendStates \cup ReplyStates
<1>t. pc \in [Workers -> States] /\ attempt \in [Workers -> Nat]
  BY DEF IInv, TypeOK
<1> USE <1>t DEF gateVars, localVars, busVars, histVars
<1>r. ASSUME NEW event, NEW n, NEW next, Record(w, event, n, next)
      PROVE  log' = log \cup {<<event, tok[w], n>>} /\ pc'[w] \in {next, "error"}
  BY <1>r DEF Record, Goto
<1>1. CASE AuditStaged(w)
  BY <1>1, <1>r DEF AuditStaged
<1>2. CASE AuditCancelled(w)
  BY <1>2, <1>r DEF AuditCancelled
<1>3. CASE AuditBlocked(w)
  BY <1>3, <1>r DEF AuditBlocked, ReplyStates
<1>4. CASE AuditConfirmed(w)
  <2>1. NextAttempt(0) \in SendStates
    BY NextAttemptType DEF SendStates
  <2> QED BY <1>4, <1>r, <2>1 DEF AuditConfirmed, ReplyStates
<1>5. CASE AuditAttempt(w)
  <2>1. /\ Record(w, "command_attempt", attempt'[w], IF attempt[w] = 0 THEN "drain" ELSE "send")
        /\ attempt'[w] = attempt[w] + 1 /\ pc[w] = "audit_attempt"
        /\ UNCHANGED <<tok, issued, withdrawn, released, sends>>
    BY <1>5 DEF AuditAttempt
  <2>2. /\ log' = log \cup {<<"command_attempt", tok[w], attempt[w] + 1>>}
        /\ pc'[w] \in {"drain", "send", "error"}
    BY <2>1, <1>r
  <2> QED BY <2>1, <2>2 DEF SendStates, ReplyStates
<1>6. ASSUME Work(w), ~AuditStaged(w), ~AuditCancelled(w), ~AuditBlocked(w),
             ~AuditConfirmed(w), ~AuditAttempt(w)
      PROVE  log' = log
  BY <1>6 DEF Work, RecordOutcome, GateCheck, GateRead, GateDel, ReadHealth, ArmCheck, Drain,
     Send, RecvAck, NoAck, AuditNoAck, AuditResult, AuditFailed, Reply
<1>7. Request(w) => log' = log
  BY DEF Request, Stage, Cancel, Confirm
<1> QED BY <1>1, <1>2, <1>3, <1>4, <1>5, <1>6, <1>7

\* No step puts a verdict on record for a token that is not released, or a second one for
\* a token that is.
LEMMA VerdictStep == IInv /\ VerdictInv /\ [Next]_vars => VerdictInv'
<1> SUFFICES ASSUME IInv, VerdictInv, [Next]_vars PROVE VerdictInv'
  OBVIOUS
<1>e. CASE Environment \/ UNCHANGED vars
  BY <1>e, EnvironmentFrame DEF VerdictInv
<1>w. ASSUME NEW w \in Workers, Request(w) \/ Work(w) PROVE VerdictInv'
  <2>f. \A v \in Workers : v # w => pc'[v] = pc[v] /\ tok'[v] = tok[v]
    BY <1>w, WorkerFrame
  <2>h. \A v \in Workers : pc[v] \in Holders => tok[v] \in Tokens /\ released[tok[v]] = 1
    BY DEF IInv, TypeOK, HolderInv
  <2>u. \A v \in Workers : v # w /\ pc[v] \in Holders /\ pc[w] \in Holders => tok[v] # tok[w]
    BY DEF IInv, HolderInv
  <2>s. /\ {"audit_blocked", "audit_confirmed", "audit_attempt"} \subseteq Holders
        /\ SendStates \cup ReplyStates \subseteq States
        /\ (SendStates \cup ReplyStates) \cap (Holders \ SendStates) = {}
    BY DEF Holders, ArmStates, SendStates, ReplyStates, States
  <2>r. \A t \in Tokens : released'[t] = 0 => released[t] = 0
    <3>1. CASE UNCHANGED released
      BY <3>1
    <3>2. CASE ~UNCHANGED released
      <4>1. tok[w] \in Tokens /\ released' = [released EXCEPT ![tok[w]] = @ + 1]
        BY <1>w, <3>2, OwnMove DEF GateDel, InGate
      <4>2. released \in [Tokens -> Nat]
        BY DEF IInv, TypeOK
      <4> QED BY <4>1, <4>2
    <3> QED BY <3>1, <3>2
  <2>o. pc'[w] \in Holders \ SendStates =>
            \/ /\ tok' = tok /\ tok[w] \in Tokens /\ released[tok[w]] = 0
            \/ pc[w] \in Holders \ SendStates /\ tok' = tok
    <3>1. GateDel(w) /\ InGate(w) => tok' = tok /\ tok[w] \in Tokens /\ released[tok[w]] = 0
      BY DEF GateDel, InGate, localVars, IInv, GateInv
    <3> QED BY <1>w, <3>1, OwnTrail
  <2>1. CASE \A t \in Tokens : <<"command_confirmed", t, 0>> \in log' =>
                 <<"command_confirmed", t, 0>> \in log
    <3>1. \A t \in Tokens : released'[t] = 0 => <<"command_confirmed", t, 0>> \notin log'
      BY <2>1, <2>r DEF VerdictInv
    <3>2. \A v \in Workers : pc'[v] \in Holders \ SendStates =>
              <<"command_confirmed", tok'[v], 0>> \notin log'
      <4>1. ASSUME NEW v \in Workers, v # w, pc[v] \in Holders \ SendStates
            PROVE  <<"command_confirmed", tok[v], 0>> \notin log'
        BY <4>1, <2>1, <2>h DEF VerdictInv
      <4>2. ASSUME pc'[w] \in Holders \ SendStates
            PROVE  <<"command_confirmed", tok'[w], 0>> \notin log'
        BY <4>2, <2>1, <2>o, <2>h DEF VerdictInv
      <4> QED BY <4>1, <4>2, <2>f
    <3> QED BY <3>1, <3>2 DEF VerdictInv
  <2>2. CASE \E t \in Tokens : <<"command_confirmed", t, 0>> \in log' \ log
    <3>1. /\ pc[w] = "audit_confirmed" /\ log' = log \cup {<<"command_confirmed", tok[w], 0>>}
          /\ pc'[w] \in SendStates \cup ReplyStates
          /\ UNCHANGED <<tok, released>>
      <4>1. log' # log
        BY <2>2
      <4> QED BY <1>w, <2>2, <4>1, OwnRecord
    <3>2. released[tok[w]] = 1 /\ pc[w] \in Holders
      BY <3>1, <2>h, <2>s
    <3>3. \A t \in Tokens : released'[t] = 0 => <<"command_confirmed", t, 0>> \notin log'
      BY <3>1, <3>2 DEF VerdictInv
    <3>4. \A v \in Workers : pc'[v] \in Holders \ SendStates =>
              v # w /\ pc[v] \in Holders \ SendStates /\ tok'[v] = tok[v]
      BY <3>1, <2>f, <2>s
    <3>5. \A v \in Workers : pc'[v] \in Holders \ SendStates =>
              <<"command_confirmed", tok'[v], 0>> \notin log'
      BY <3>1, <3>2, <3>4, <2>u DEF VerdictInv
    <3> QED BY <3>3, <3>5 DEF VerdictInv
  <2> QED BY <2>1, <2>2
<1> QED BY <1>e, <1>w, StepCases

\* One token's fate changed and the others' did not.
LEMMA FateChange ==
    ASSUME NEW c \in Tokens, NEW decision, Fate(c)' = decision,
           \A t \in Tokens : t # c => Fate(t)' = Fate(t)
    PROVE  [t \in Tokens |-> Fate(t)]' = [[t \in Tokens |-> Fate(t)] EXCEPT ![c] = decision]
  OBVIOUS

\* What Supervision does not see leaves it where it is.
LEMMA Unseen ==
    ASSUME UNCHANGED Seen
    PROVE  UNCHANGED <<[t \in Tokens |-> Fate(t)], {r \in log : r[1] # "command_cancelled"}, sends>>
  BY DEF Seen, Fate

\* A step that writes is Supervision's Record, or nothing to it.
LEMMA RecordImplements ==
    ASSUME IInv, VerdictInv, NEW w \in Workers, Request(w) \/ Work(w), log' # log
    PROVE  [Promise!Next]_<<[t \in Tokens |-> Fate(t)],
                            {r \in log : r[1] # "command_cancelled"}, sends>>
<1> DEFINE trail == {r \in log : r[1] # "command_cancelled"}
           fates == [t \in Tokens |-> Fate(t)]
<1>1. UNCHANGED <<tok, issued, withdrawn, released, sends>>
  BY OwnRecord
<1>2. UNCHANGED <<fates, sends>>
  BY <1>1 DEF Fate
<1>h. pc[w] \in Holders => tok[w] \in Tokens /\ fates[tok[w]] = "confirmed"
  BY DEF IInv, TypeOK, HolderInv, GateInv, OneFate, Fate
<1>a. ASSUME NEW event, NEW n, event # "command_cancelled",
             log' = log \cup {<<event, tok[w], n>>}
      PROVE  trail' = trail \cup {<<event, tok[w], n>>}
  BY <1>a
<1>3. CASE pc[w] = "audit_staged" /\ log' = log \cup {<<"command_staged", tok[w], 0>>}
  <2>1. tok[w] \in Tokens /\ fates[tok[w]] # "none"
    BY <1>3 DEF IInv, TypeOK, StageInv, Fate
  <2>2. trail' = trail \cup {<<"command_staged", tok[w], 0>>}
    BY <1>3, <1>a
  <2>3. PICK c \in Tokens : c = tok[w]
    BY <2>1
  <2>4. Promise!Record(c)
    BY <1>2, <2>1, <2>2, <2>3 DEF Promise!Record
  <2> QED BY <2>4 DEF Promise!Next
<1>4. CASE log' = log \cup {<<"command_cancelled", tok[w], 0>>}
  <2>1. trail' = trail
    BY <1>4
  <2> QED BY <1>2, <2>1
<1>5. ASSUME NEW verdict \in {"arm_blocked", "command_confirmed"},
             pc[w] \in {"audit_blocked", "audit_confirmed"},
             log' = log \cup {<<verdict, tok[w], 0>>}
      PROVE  Promise!Next
  <2>s. pc[w] \in Holders \ SendStates
    BY <1>5 DEF Holders, ArmStates, SendStates
  <2>1. tok[w] \in Tokens /\ fates[tok[w]] = "confirmed"
    BY <2>s, <1>h
  <2>2. /\ <<"command_confirmed", tok[w], 0>> \notin trail
        /\ <<"arm_blocked", tok[w], 0>> \notin trail
    BY <2>s DEF IInv, TrailInv, VerdictInv
  <2>3. trail' = trail \cup {<<verdict, tok[w], 0>>}
    BY <1>5, <1>a
  <2>4. PICK c \in Tokens : c = tok[w]
    BY <2>1
  <2>5. Promise!Record(c)
    BY <1>2, <2>1, <2>2, <2>3, <2>4 DEF Promise!Record, Promise!Passed, Promise!Refused
  <2> QED BY <2>5 DEF Promise!Next
<1>6. CASE /\ pc[w] = "audit_attempt"
           /\ log' = log \cup {<<"command_attempt", tok[w], attempt[w] + 1>>}
  <2>s. pc[w] \in SendStates \ {"drain", "send"} /\ pc[w] \in Holders
    BY <1>6 DEF Holders, SendStates
  <2>1. tok[w] \in Tokens
    BY <2>s, <1>h
  <2>2. /\ <<"command_confirmed", tok[w], 0>> \in log
        /\ sends[tok[w]] = attempt[w] /\ attempt[w] < MaxAttempts
    BY <1>6, <2>s DEF IInv, TrailInv
  <2>3. <<"command_confirmed", tok[w], 0>> \in trail
    BY <2>2
  <2>4. trail' = trail \cup {<<"command_attempt", tok[w], sends[tok[w]] + 1>>}
    BY <1>6, <1>a, <2>2
  <2>5. PICK c \in Tokens : c = tok[w]
    BY <2>1
  <2>6. Promise!Record(c)
    BY <1>2, <2>2, <2>3, <2>4, <2>5 DEF Promise!Record, Promise!Passed
  <2> QED BY <2>6 DEF Promise!Next
<1> QED BY <1>3, <1>4, <1>5, <1>6, OwnRecord

\* A step that writes nothing decides a token's fate, transmits, or is nothing to Supervision.
LEMMA DeedImplements ==
    ASSUME IInv, NEW w \in Workers, Request(w) \/ Work(w), log' = log
    PROVE  [Promise!Next]_<<[t \in Tokens |-> Fate(t)],
                            {r \in log : r[1] # "command_cancelled"}, sends>>
<1> DEFINE trail == {r \in log : r[1] # "command_cancelled"}
           fates == [t \in Tokens |-> Fate(t)]
<1>0. UNCHANGED trail
  OBVIOUS
<1>t. /\ released \in [Tokens -> Nat] /\ sends \in [Tokens -> Nat]
      /\ known \subseteq issued /\ issued \subseteq Tokens
  BY DEF IInv, TypeOK
<1>k. \A t \in known : <<"command_staged", t, 0>> \in trail
  BY DEF IInv, StageInv
<1>p. \A t \in Tokens : pending[t] # NoSpec => fates[t] = "staged"
  BY DEF IInv, GateInv, Fate
<1> USE DEF gateVars, localVars, busVars, histVars
<1>1. ASSUME NEW name \in Names, Stage(w, name)
      PROVE  [Promise!Next]_<<fates, trail, sends>>
  <2>1. UNCHANGED <<withdrawn, released, sends>>
    BY <1>1 DEF Stage
  <2>2. CASE UNCHANGED issued
    BY <1>0, <2>1, <2>2, Unseen DEF Seen
  <2>3. CASE ~UNCHANGED issued
    <3>1. PICK t \in Tokens \ issued : issued' = issued \cup {t}
      BY <1>1, <2>3 DEF Stage
    <3>2. released[t] = 0 /\ t \notin withdrawn
      BY <3>1 DEF IInv, GateInv
    <3>3. Fate(t) = "none" /\ Fate(t)' = "staged"
      BY <2>1, <3>1, <3>2 DEF Fate
    <3>4. \A s \in Tokens : s # t => Fate(s)' = Fate(s)
      BY <2>1, <3>1 DEF Fate
    <3>5. fates' = [fates EXCEPT ![t] = "staged"]
      BY <3>3, <3>4, FateChange
    <3>6. Promise!Stage(t)
      BY <1>0, <2>1, <3>3, <3>5 DEF Promise!Stage
    <3> QED BY <3>6 DEF Promise!Next
  <2> QED BY <2>2, <2>3
<1>2. ASSUME NEW t \in known \cup {NoToken}, Cancel(w, t)
      PROVE  [Promise!Next]_<<fates, trail, sends>>
  <2>1. UNCHANGED <<issued, released, sends>>
    BY <1>2 DEF Cancel
  <2>2. CASE UNCHANGED withdrawn
    BY <1>0, <2>1, <2>2, Unseen DEF Seen
  <2>3. CASE ~UNCHANGED withdrawn
    <3>1. t \in Tokens /\ pending[t] # NoSpec /\ withdrawn' = withdrawn \cup {t}
      BY <1>2, <2>3 DEF Cancel
    <3>2. t \in known
      BY <3>1, CommanderAssumption
    <3>3. fates[t] = "staged" /\ <<"command_staged", t, 0>> \in trail
      BY <3>1, <3>2, <1>k, <1>p
    <3>4. Fate(t)' = "withdrawn"
      BY <2>1, <3>1, <3>2, <1>t DEF Fate
    <3>5. \A s \in Tokens : s # t => Fate(s)' = Fate(s)
      BY <2>1, <3>1 DEF Fate
    <3>6. fates' = [fates EXCEPT ![t] = "withdrawn"]
      BY <3>1, <3>4, <3>5, FateChange
    <3>7. Promise!Decide(t)
      BY <1>0, <2>1, <3>3, <3>6 DEF Promise!Decide
    <3> QED BY <3>1, <3>7 DEF Promise!Next
  <2> QED BY <2>2, <2>3
<1>3. CASE GateDel(w)
  <2>1. UNCHANGED <<issued, withdrawn, sends>>
    BY <1>3 DEF GateDel
  <2>2. CASE UNCHANGED released
    BY <1>0, <2>1, <2>2, Unseen DEF Seen
  <2>3. CASE ~UNCHANGED released
    <3> DEFINE t == tok[w]
    <3>1. t \in Tokens /\ pending[t] # NoSpec /\ released' = [released EXCEPT ![t] = @ + 1]
      BY <1>3, <2>3 DEF GateDel, InGate
    <3>2. t \in known
      BY <1>3 DEF GateDel, IInv, HolderInv
    <3>3. fates[t] = "staged" /\ <<"command_staged", t, 0>> \in trail
      BY <3>1, <3>2, <1>k, <1>p
    <3> HIDE DEF t
    <3>4. /\ released'[t] > 0 /\ t \notin withdrawn
          /\ \A s \in Tokens : s # t => released'[s] = released[s]
      BY <3>1, <1>t DEF IInv, GateInv
    <3>5. PICK c \in Tokens : c = t
      BY <3>1
    <3>6. Fate(c)' = "confirmed"
      BY <2>1, <3>2, <3>4, <3>5, <1>t DEF Fate
    <3>7. \A s \in Tokens : s # c => Fate(s)' = Fate(s)
      BY <2>1, <3>4, <3>5 DEF Fate
    <3>8. fates' = [fates EXCEPT ![c] = "confirmed"]
      BY <3>6, <3>7, FateChange
    <3>9. Promise!Decide(c)
      BY <1>0, <2>1, <3>3, <3>5, <3>8 DEF Promise!Decide
    <3> QED BY <3>9 DEF Promise!Next
  <2> QED BY <2>2, <2>3
<1>4. CASE Send(w)
  <2>1. UNCHANGED <<issued, withdrawn, released>>
    BY <1>4 DEF Send
  <2>2. CASE UNCHANGED sends
    BY <1>0, <2>1, <2>2, Unseen DEF Seen
  <2>3. CASE ~UNCHANGED sends
    <3>1. pc[w] = "send" /\ sends' = [sends EXCEPT ![tok[w]] = @ + 1]
      BY <1>4, <2>3 DEF Send
    <3>2. pc[w] \in SendStates /\ pc[w] \in Holders
      BY <3>1 DEF Holders, SendStates
    <3>3. tok[w] \in known /\ released[tok[w]] = 1
      BY <3>2 DEF IInv, HolderInv
    <3>4. fates[tok[w]] = "confirmed"
      BY <3>3, <1>t DEF IInv, GateInv, OneFate, Fate
    <3>5. /\ <<"command_confirmed", tok[w], 0>> \in log
          /\ <<"arm_blocked", tok[w], 0>> \notin log
          /\ <<"command_attempt", tok[w], sends[tok[w]] + 1>> \in log
      BY <3>1, <3>2 DEF IInv, TrailInv
    <3>6. UNCHANGED fates
      BY <2>1 DEF Fate
    <3>7. Promise!Transmit(tok[w])
      BY <1>0, <3>1, <3>4, <3>5, <3>6 DEF Promise!Transmit, Promise!Passed, Promise!Refused
    <3> QED BY <3>3, <3>7, <1>t DEF Promise!Next
  <2> QED BY <2>2, <2>3
<1>5. ASSUME Work(w), ~GateDel(w), ~Send(w) PROVE UNCHANGED Seen
  BY <1>5 DEF Work, Seen, AuditStaged, AuditCancelled, GateCheck, GateRead, ReadHealth, ArmCheck,
     AuditBlocked, AuditConfirmed, AuditAttempt, Drain, RecvAck, NoAck, AuditNoAck,
     AuditResult, AuditFailed, Reply
<1>6. ASSUME NEW t \in known \cup {NoToken}, NEW ack \in BOOLEAN, Confirm(w, t, ack)
      PROVE  UNCHANGED Seen
  BY <1>6 DEF Confirm, Seen
<1>7. UNCHANGED Seen => [Promise!Next]_<<fates, trail, sends>>
  BY Unseen
<1> QED BY <1>1, <1>2, <1>3, <1>4, <1>5, <1>6, <1>7 DEF Request

\* The commanding service implements Supervision, for any number of threads, tokens and
\* attempts: each of its steps is a step of Supervision or changes nothing that it sees.
THEOREM SupervisedTheorem == Spec => Supervised
<1>1. Init => Promise!Init /\ VerdictInv
  BY DEF Init, Promise!Init, Fate, VerdictInv
<1>2. IInv /\ VerdictInv /\ [Next]_vars =>
          [Promise!Next]_<<[t \in Tokens |-> Fate(t)],
                           {r \in log : r[1] # "command_cancelled"}, sends>>
  <2> SUFFICES ASSUME IInv, VerdictInv, [Next]_vars
               PROVE  [Promise!Next]_<<[t \in Tokens |-> Fate(t)],
                                       {r \in log : r[1] # "command_cancelled"}, sends>>
    OBVIOUS
  <2>1. CASE Environment \/ UNCHANGED vars
    <3>1. UNCHANGED Seen
      BY <2>1, EnvironmentFrame DEF Seen
    <3> QED BY <3>1, Unseen
  <2>2. ASSUME NEW w \in Workers, Request(w) \/ Work(w)
        PROVE  [Promise!Next]_<<[t \in Tokens |-> Fate(t)],
                                {r \in log : r[1] # "command_cancelled"}, sends>>
    BY <2>2, RecordImplements, DeedImplements
  <2> QED BY <2>1, <2>2, StepCases
<1> QED BY <1>1, <1>2, Inductive, VerdictStep, PTL DEF Spec, Supervised, Promise!Spec

-----------------------------------------------------------------------------
(* The awaited ACK *)

\* Token t has been transmitted, and whoever holds it holds a command with this MAV_CMD
\* number.
Traced(t, command) ==
    /\ sends[t] > 0
    /\ \A w \in Workers : pc[w] \in Holders /\ tok[w] = t => CommandId(spec[w]) = command

\* An ACK of one of our transmissions is the target's and carries its MAV_CMD number.
Answering(a) == a.of \in Tokens => a.sys = "target" /\ Traced(a.of, a.command)

\* Every transmission and every ACK under way is traced to the token it was sent for, and
\* the queue is drained only before the first transmission.
TracedInv ==
    /\ \A u \in uplink : Traced(u[1], CommandId(u[3]))
    /\ \A a \in net : Answering(a)
    /\ \A i \in DOMAIN acks : Answering(acks[i])
    /\ \A w \in Workers : pc[w] = "drain" => attempt[w] = 1

\* What has been traced to a token stays so: a token once transmitted is never taken
\* from the gate again, and its holder keeps its command.
LEMMA TracedStays ==
    ASSUME IInv, [Next]_vars, NEW t \in Tokens, NEW command, Traced(t, command)
    PROVE  Traced(t, command)'
<1>e. CASE Environment \/ UNCHANGED vars
  BY <1>e, EnvironmentFrame DEF Traced
<1>w. ASSUME NEW w \in Workers, Request(w) \/ Work(w) PROVE Traced(t, command)'
  <2>1. sends \in [Tokens -> Nat] /\ tok \in [Workers -> Tokens \cup {NoToken}]
    BY DEF IInv, TypeOK
  <2>2. sends' = sends \/ sends' = [sends EXCEPT ![tok[w]] = @ + 1]
    BY <1>w, OwnTrail
  <2>3. sends'[t] > 0
    BY <2>1, <2>2 DEF Traced
  <2>4. ASSUME NEW v \in Workers, pc'[v] \in Holders, tok'[v] = t
        PROVE  CommandId(spec'[v]) = command
    <3>1. CASE v # w
      BY <3>1, <2>4, <1>w, WorkerFrame DEF Traced
    <3>2. CASE v = w /\ GateDel(w) /\ InGate(w)
      <4>1. tok' = tok /\ pending[t] # NoSpec
        BY <3>2, <2>4 DEF GateDel, InGate, localVars
      <4>2. sends[t] = 0
        BY <4>1 DEF IInv, GateInv, TrailInv
      <4> QED BY <4>2 DEF Traced
    <3>3. CASE v = w /\ ~(GateDel(w) /\ InGate(w))
      <4>1. pc[w] \in Holders /\ tok' = tok /\ spec' = spec
        BY <3>3, <2>4, <1>w, OwnMove
      <4> QED BY <4>1, <3>3, <2>4 DEF Traced
    <3> QED BY <3>1, <3>2, <3>3
  <2> QED BY <2>3, <2>4 DEF Traced
<1> QED BY <1>e, <1>w, StepCases

\* A worker's step puts on the uplink at most its own transmission, which is traced.
LEMMA SentTraced ==
    ASSUME IInv, TracedInv, [Next]_vars, NEW w \in Workers, Request(w) \/ Work(w)
    PROVE  \A u \in uplink' : Traced(u[1], CommandId(u[3]))'
<1>1. SUFFICES ASSUME NEW u \in uplink' PROVE Traced(u[1], CommandId(u[3]))'
  OBVIOUS
<1> DEFINE own == <<tok[w], attempt[w], spec[w]>>
<1>2. u \in uplink \/ (Send(w) /\ u = own /\ pc'[w] = "await"
                        /\ sends' = [sends EXCEPT ![tok[w]] = @ + 1])
  <2>1. CASE Send(w)
    BY <2>1 DEF Send, Goto, IInv, TypeOK
  <2>2. CASE ~Send(w)
    <3>1. uplink' = uplink
      BY <2>2 DEF Request, Stage, Cancel, Confirm, Work, AuditStaged, AuditCancelled,
         GateCheck, GateRead, GateDel, ReadHealth, ArmCheck, AuditBlocked, AuditConfirmed,
         AuditAttempt, Drain, RecvAck, NoAck, AuditNoAck, AuditResult, AuditFailed, Reply, busVars
    <3> QED BY <3>1
  <2> QED BY <2>1, <2>2
<1>3. CASE u \in uplink
  <2>1. u[1] \in Tokens /\ Traced(u[1], CommandId(u[3]))
    BY <1>3 DEF IInv, TypeOK, TracedInv
  <2> QED BY <2>1, TracedStays
<1>4. CASE Send(w) /\ u = own /\ pc'[w] = "await" /\ sends' = [sends EXCEPT ![tok[w]] = @ + 1]
  <2>1. tok[w] \in Tokens /\ sends \in [Tokens -> Nat] /\ tok' = tok /\ spec' = spec
    BY <1>4 DEF Send, IInv, HolderInv, Holders, SendStates, TypeOK
  <2>2. u[1] = tok[w] /\ u[3] = spec[w] /\ pc'[w] \in Holders
    BY <1>4 DEF Holders, SendStates
  <2>3. \A v \in Workers : pc'[v] \in Holders /\ tok'[v] = tok'[w] => v = w
    BY <2>2, HolderStep DEF HolderInv
  <2>4. sends'[tok[w]] > 0
    BY <1>4, <2>1
  <2> QED BY <2>1, <2>2, <2>3, <2>4 DEF Traced
<1> QED BY <1>2, <1>3, <1>4

\* An ACK traced before the step is traced after it.
LEMMA AnsweringStays ==
    ASSUME IInv, [Next]_vars, NEW a, Answering(a)
    PROVE  Answering(a)'
  BY TracedStays DEF Answering

\* A worker's step takes the head of the queue or leaves the queue alone.
LEMMA OwnQueue ==
    ASSUME IInv, NEW w \in Workers, Request(w) \/ Work(w)
    PROVE  /\ acks' = acks \/ ((Drain(w) \/ RecvAck(w)) /\ acks # <<>> /\ acks' = Tail(acks))
           /\ UNCHANGED net
  BY DEF Request, Stage, Cancel, Confirm, Work, AuditStaged, AuditCancelled,
     GateCheck, GateRead, GateDel, ReadHealth, ArmCheck, AuditBlocked, AuditConfirmed,
     AuditAttempt, Drain, Send, RecvAck, NoAck, AuditNoAck, AuditResult, AuditFailed, Reply,
     busVars

\* Every step keeps what is under way traced to the command it was sent for.
LEMMA TracedStep == IInv /\ TracedInv /\ [Next]_vars => TracedInv'
<1> SUFFICES ASSUME IInv, TracedInv, [Next]_vars PROVE TracedInv'
  OBVIOUS
<1>q. acks \in Seq(AckMsgs)
  BY DEF IInv, TypeOK
<1>n. \A a \in net : Answering(a)'
  BY AnsweringStays DEF TracedInv
<1>a. PICK queued : queued = {acks[i] : i \in DOMAIN acks}
  OBVIOUS
<1>b. \A a \in queued : Answering(a)'
  BY <1>a, AnsweringStays DEF TracedInv
<1>e. CASE Environment \/ UNCHANGED vars
  <2>1. UNCHANGED <<pc, attempt>> /\ uplink' \subseteq uplink
    BY <1>e, EnvironmentFrame
  <2>2. \A u \in uplink' : Traced(u[1], CommandId(u[3]))'
    BY <2>1, TracedStays DEF IInv, TypeOK, TracedInv
  <2>3. \A a \in net' : Answering(a)'
    <3>1. CASE VehicleAnswers
      <4>1. PICK u \in uplink, r \in Results :
              net' = net \cup {[command |-> CommandId(u[3]), result |-> r,
                                sys |-> "target", of |-> u[1], no |-> u[2]]}
        BY <3>1 DEF VehicleAnswers
      <4>2. u[1] \in Tokens /\ Traced(u[1], CommandId(u[3]))
        BY DEF IInv, TypeOK, TracedInv
      <4>3. Traced(u[1], CommandId(u[3]))'
        BY <4>2, TracedStays
      <4>4. PICK a : a = [command |-> CommandId(u[3]), result |-> r,
                          sys |-> "target", of |-> u[1], no |-> u[2]]
        OBVIOUS
      <4>5. Answering(a)'
        BY <4>3, <4>4 DEF Answering
      <4> QED BY <4>1, <4>4, <4>5, <1>n
    <3>2. CASE ForeignAck
      <4>1. PICK c, r : net' = net \cup {[command |-> c, result |-> r, sys |-> "other",
                                          of |-> NoToken, no |-> noise]}
        BY <3>2 DEF ForeignAck
      <4>2. PICK a : a = [command |-> c, result |-> r, sys |-> "other",
                          of |-> NoToken, no |-> noise]
        OBVIOUS
      <4>3. Answering(a)'
        BY <4>2, CommanderAssumption DEF Answering
      <4> QED BY <4>1, <4>2, <4>3, <1>n
    <3>3. CASE ~VehicleAnswers /\ ~ForeignAck
      <4>1. net' \subseteq net
        BY <1>e, <3>3 DEF Environment, Bus, ReadHeartbeat, ReadAck, LoseMessage, Tick,
           Shutdown, vars, busVars
      <4> QED BY <4>1, <1>n
    <3> QED BY <3>1, <3>2, <3>3
  <2>4. \A i \in DOMAIN acks' : acks'[i] \in queued \/ acks'[i] \in net
    <3>1. CASE ReadAck
      <4>1. PICK a \in net : acks' = Append(acks, a)
        BY <3>1 DEF ReadAck
      <4>2. a \in AckMsgs
        BY DEF IInv, TypeOK
      <4>3. \A i \in DOMAIN acks' : acks'[i] = a \/ \E j \in DOMAIN acks : acks'[i] = acks[j]
        BY <4>1, <4>2, <1>q
      <4> QED BY <4>3, <1>a
    <3>2. CASE ~ReadAck
      <4>1. acks' = acks
        BY <1>e, <3>2 DEF Environment, Bus, ReadHeartbeat, VehicleAnswers, LoseMessage,
           ForeignAck, Tick, Shutdown, vars
      <4> QED BY <4>1, <1>a
    <3> QED BY <3>1, <3>2
  <2>5. (\A i \in DOMAIN acks : Answering(acks[i]))'
    BY <2>4, <1>n, <1>b DEF Answering, Traced
  <2> QED BY <2>1, <2>2, <2>3, <2>5 DEF TracedInv
<1>w. ASSUME NEW w \in Workers, Request(w) \/ Work(w) PROVE TracedInv'
  <2>1. \A u \in uplink' : Traced(u[1], CommandId(u[3]))'
    BY <1>w, SentTraced
  <2>2. net' = net /\ (acks' = acks \/ (acks # <<>> /\ acks' = Tail(acks)))
    BY <1>w, OwnQueue
  <2>3. \A i \in DOMAIN acks' : acks'[i] \in queued
    <3>1. \A i \in DOMAIN acks' : \E j \in DOMAIN acks : acks'[i] = acks[j]
      BY <2>2, <1>q
    <3> QED BY <3>1, <1>a
  <2>4. \A v \in Workers : pc'[v] = "drain" => attempt'[v] = 1
    <3>1. \A v \in Workers : v # w => pc'[v] = pc[v] /\ attempt'[v] = attempt[v]
      BY <1>w, WorkerFrame
    <3>2. ASSUME pc'[w] = "drain" PROVE attempt'[w] = 1
      <4>1. CASE AuditAttempt(w) /\ attempt[w] = 0
        BY <4>1 DEF AuditAttempt, IInv, TypeOK
      <4>2. CASE Drain(w)
        BY <4>2 DEF Drain, localVars, TracedInv
      <4> QED BY <1>w, <3>2, <4>1, <4>2, ToResult
    <3> QED BY <3>1, <3>2 DEF TracedInv
  <2>5. (\A i \in DOMAIN acks : Answering(acks[i]))'
    BY <2>3, <1>b DEF Answering, Traced
  <2>6. \A a \in net' : Answering(a)'
    BY <2>2, <1>n
  <2> QED BY <2>1, <2>4, <2>5, <2>6 DEF TracedInv
<1> QED BY <1>e, <1>w, StepCases

\* What is under way stays traced throughout.
LEMMA AlwaysTraced == Spec => []TracedInv
<1>1. Init => TracedInv
  BY DEF Init, TracedInv
<1>2. IInv /\ TracedInv /\ [Next]_vars => TracedInv'
  BY TracedStep
<1> QED BY <1>1, <1>2, Inductive, PTL DEF Spec

\* Kept(w, i): if the ACK at place i answers the command w is executing, it stays in the
\* queue or w takes it.
Kept(w, i) ==
    Executing(w) /\ acks[i].of = tok[w] =>
        \/ \E j \in DOMAIN acks' : acks'[j] = acks[i]
        \/ pc'[w] = "audit_result"

\* A worker that takes an ACK of its own command from the head of the queue matches it:
\* drain() is behind it, and the ACK carries the number of the command it holds.
LEMMA HeadTaken ==
    ASSUME IInv, TracedInv, NEW w \in Workers, Drain(w) \/ RecvAck(w), acks # <<>>,
           Executing(w), Head(acks).of = tok[w]
    PROVE  pc'[w] = "audit_result"
<1>1. tok[w] \in Tokens /\ sends[tok[w]] > 0 /\ pc[w] \in Holders
  BY DEF Executing, Holders, SendStates
<1>2. ~Drain(w)
  <2>1. ASSUME Drain(w) PROVE FALSE
    <3>1. attempt[w] = 1 /\ sends[tok[w]] + 1 = attempt[w]
      BY <2>1 DEF Drain, TracedInv, IInv, TrailInv
    <3>2. sends[tok[w]] \in Nat
      BY <1>1 DEF IInv, TypeOK
    <3> QED BY <1>1, <3>1, <3>2
  <2> QED BY <2>1
<1>3. acks \in Seq(AckMsgs) /\ 1 \in DOMAIN acks /\ Head(acks) = acks[1]
  BY DEF IInv, TypeOK
<1>4. Answering(acks[1])
  BY <1>3 DEF TracedInv
<1>5. MatchesAck(Head(acks), spec[w])
  BY <1>1, <1>3, <1>4 DEF Answering, Traced, MatchesAck
<1> QED BY <1>2, <1>5 DEF RecvAck, Goto, IInv, TypeOK

\* With one confirm request at a time, an ACK of the command being executed leaves the
\* pump's queue only when that command takes it: neither drain() before a retry nor a
\* correlator that passes it over drops it, whatever else is queued, for any number of
\* attempts and any noise on the bus. The hypothesis is the case the code is written for;
\* a second thread of the executor reading the same queue breaks the property.
THEOREM AckKeptTheorem ==
    ASSUME \A v, w \in Workers : v = w
    PROVE  Spec => AwaitedAckKept
<1>1. ASSUME IInv, TracedInv, [Next]_vars
      PROVE  \A i \in DOMAIN acks, w \in Workers : Kept(w, i)
  <2> SUFFICES ASSUME NEW i \in DOMAIN acks, NEW w \in Workers,
                      Executing(w), acks[i].of = tok[w]
               PROVE  \/ \E j \in DOMAIN acks' : acks'[j] = acks[i]
                      \/ pc'[w] = "audit_result"
    BY DEF Kept
  <2>q. acks \in Seq(AckMsgs)
    BY <1>1 DEF IInv, TypeOK
  <2>1. CASE Environment \/ UNCHANGED vars
    <3>1. acks' = acks \/ \E a \in AckMsgs : acks' = Append(acks, a)
      BY <2>1, <1>1 DEF Environment, Bus, ReadHeartbeat, ReadAck, VehicleAnswers, LoseMessage,
         ForeignAck, Tick, Shutdown, vars, IInv, TypeOK
    <3> QED BY <3>1, <2>q
  <2>2. CASE Request(w) \/ Work(w)
    <3>1. acks' = acks \/ ((Drain(w) \/ RecvAck(w)) /\ acks # <<>> /\ acks' = Tail(acks))
      BY <1>1, <2>2, OwnQueue
    <3>2. CASE acks' = acks
      BY <3>2
    <3>3. CASE (Drain(w) \/ RecvAck(w)) /\ acks # <<>> /\ i = 1
      BY <1>1, <3>3, <2>q, HeadTaken
    <3>4. CASE acks # <<>> /\ acks' = Tail(acks) /\ i # 1
      <4>1. i \in 2..Len(acks)
        BY <3>4, <2>q
      <4>2. i - 1 \in DOMAIN acks' /\ acks'[i - 1] = acks[i]
        BY <3>4, <4>1, <2>q
      <4> QED BY <4>2
    <3> QED BY <3>1, <3>2, <3>3, <3>4
  <2> QED BY <1>1, <2>1, <2>2, StepCases
<1>2. IInv /\ TracedInv /\ [Next]_vars =>
        [\A i \in DOMAIN acks, w \in Workers :
           Executing(w) /\ acks[i].of = tok[w] =>
              \/ \E j \in DOMAIN acks' : acks'[j] = acks[i]
              \/ pc'[w] = "audit_result"]_vars
  BY <1>1 DEF Kept
<1> QED BY <1>2, Inductive, AlwaysTraced, PTL DEF Spec, AwaitedAckKept
=============================================================================
