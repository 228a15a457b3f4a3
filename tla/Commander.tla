------------------------------ MODULE Commander ------------------------------
(***************************************************************************)
(* The supervised commanding service: the HTTP endpoint of                 *)
(* flightctl/run_commander.py and the package meshsa.command behind it.    *)
(*                                                                         *)
(* Every HTTP request (stage, confirm, cancel) is handed to the default    *)
(* thread-pool executor, so the requests run on concurrent threads, here   *)
(* Workers.  A worker's program counter pc[w] names the statement it is    *)
(* about to execute; a step of the model is a piece of Python between two  *)
(* points at which another thread can be scheduled with a visible effect.  *)
(* The pump is the one reader thread of the autopilot link.  The vehicle   *)
(* and the bus are external: they may answer late, not at all, or in any   *)
(* order.                                                                  *)
(*                                                                         *)
(* Time is relative: timer[w] is what is left of an ACK wait, hbAge is the *)
(* age of the last autopilot heartbeat.  An age beyond ArmMaxAge also      *)
(* stands for "no heartbeat seen yet": both make the interlock refuse.     *)
(***************************************************************************)
EXTENDS Naturals, Sequences, FiniteSets

CONSTANTS
    Tokens,            \* confirmation ids the UUID factory will hand out
    NoToken,           \* an id no stage() ever returned
    Workers,           \* threads of the executor that serves the requests
    Names,             \* command names the clients ask for
    Allowed,           \* CommanderSettings.allowed
    AllowForceDisarm,  \* CommanderSettings.allow_force_disarm
    MaxAttempts,       \* CommanderSettings.max_attempts
    AckTimeout,        \* CommanderSettings.ack_timeout_s, in ticks
    ArmMaxAge,         \* CommanderSettings.arm_report_max_age_s, in ticks
    Results,           \* MAV_RESULT values the vehicle uses
    MaxNoise           \* bound on ACKs from other systems on the bus

ASSUME CommanderAssumption ==
    /\ NoToken \notin Tokens
    /\ AllowForceDisarm \in BOOLEAN
    /\ MaxAttempts \in Nat
    /\ AckTimeout \in Nat
    /\ ArmMaxAge \in Nat
    /\ Results \subseteq 0..6
    /\ MaxNoise \in Nat

VARIABLES
    pending,   \* ConfirmationGate._pending: token -> command name, NoSpec if absent
    issued,    \* tokens new_id() has produced
    known,     \* tokens a stage request has returned to its client
    pc,        \* control state of each worker
    tok,       \* the request's confirmation id
    spec,      \* the command the worker holds
    force,     \* the request's force_ack flag
    attempt,   \* the attempt loop's variable in CommandSender.execute
    timer,     \* time left in _await_ack
    report,    \* age of the HealthReport the worker read
    result,    \* result of the ACK the worker matched
    acks,      \* MavlinkCommandPump._acks
    phase,     \* how far main() has come in its shutdown
    log,       \* the durable audit records that the properties read
    hbAge,     \* age of HeartbeatHealth._last
    uplink,    \* transmissions the vehicle has not dealt with
    net,       \* ACKs on their way to the pump
    noise,     \* ACKs other systems have sent so far
    released,  \* history: how often the gate released each token
    withdrawn, \* history: tokens whose command a cancel request discarded
    acked,     \* history: tokens released with force_ack
    sends,     \* history: transmissions made for each token
    accepted   \* history: commands the vehicle answered with ACCEPTED

gateVars  == <<pending, issued, known>>
localVars == <<tok, spec, force, attempt, timer, report, result>>
busVars   == <<uplink, net, noise, accepted>>
histVars  == <<released, withdrawn, acked, sends>>
vars == <<gateVars, pc, localVars, acks, phase, log, hbAge, busVars, histVars>>

-----------------------------------------------------------------------------
(* Commands and ACKs *)

NoSpec == "none"

\* The builders of commands.py; a name outside has no builder.
Builders == {"arm", "disarm", "force_disarm", "rtl", "set_mode", "goto"}

CommandId(name) ==
    CASE name \in {"arm", "disarm", "force_disarm"} -> 400
      [] name = "rtl"      -> 20
      [] name = "set_mode" -> 176
      [] name = "goto"     -> 192

RequiresForceConfirm(name) == name = "force_disarm"

BuildCommandNoLookup(name) ==
    /\ name \in Allowed
    /\ name = "force_disarm" => AllowForceDisarm

\* build_command() returns a spec rather than raising.
BuildCommand(name) ==
    /\ name \in Builders
    /\ name \in Allowed
    /\ name = "force_disarm" => AllowForceDisarm

ACCEPTED == 0
TerminalFailures == {2, 3, 4, 6}

\* The fields of an ACK the correlator looks at; of/no tell apart ACKs that are
\* equal to the code and are not read by it.
AckMsgs == [command : {20, 176, 192, 400}, result : Results,
            sys : {"target", "other"}, of : Tokens \cup {NoToken}, no : Nat]

MatchesAckAnySystem(ack, name) == ack.command = CommandId(name)

\* The correlator of _await_ack with expect_system set to the target.
MatchesAck(ack, name) == ack.command = CommandId(name) /\ ack.sys = "target"

-----------------------------------------------------------------------------
(* Control states *)

GateStates  == {"gate_check", "gate_read", "gate_del"}
ArmStates   == {"health", "arm_check", "audit_blocked"}
SendStates  == {"audit_attempt", "drain", "send", "await", "audit_no_ack",
                "audit_result", "audit_failed"}
ReplyStates == {"refused", "staged", "cancelled", "unknown", "force_required",
                "key_error", "blocked", "accepted", "rejected", "exhausted", "error"}
States == {"idle", "audit_staged", "audit_cancelled", "audit_confirmed"}
          \cup GateStates \cup ArmStates \cup SendStates \cup ReplyStates

Init ==
    /\ pending = [t \in Tokens |-> NoSpec]
    /\ issued = {}
    /\ known = {}
    /\ pc = [w \in Workers |-> "idle"]
    /\ tok = [w \in Workers |-> NoToken]
    /\ spec = [w \in Workers |-> NoSpec]
    /\ force = [w \in Workers |-> FALSE]
    /\ attempt = [w \in Workers |-> 0]
    /\ timer = [w \in Workers |-> 0]
    /\ report = [w \in Workers |-> ArmMaxAge + 1]
    /\ result = [w \in Workers |-> 0]
    /\ acks = <<>>
    /\ phase = "serving"
    /\ log = {}
    /\ hbAge = ArmMaxAge + 1
    /\ uplink = {}
    /\ net = {}
    /\ noise = 0
    /\ released = [t \in Tokens |-> 0]
    /\ withdrawn = {}
    /\ acked = {}
    /\ sends = [t \in Tokens |-> 0]
    /\ accepted = {}

\* web.run_app returns, then pump.close() joins the reader ("stopping") and closes
\* the link, then audit.close() runs.  Workers in the executor carry on meanwhile:
\* the event loop's close() does not wait for them.
Phases == {"serving", "stopping", "link_closed", "audit_closed"}
ReaderRuns == phase = "serving"
LinkOpen   == phase \in {"serving", "stopping"}
AuditOpen  == phase # "audit_closed"

Goto(w, state) == pc' = [pc EXCEPT ![w] = state]

RecordBestEffort(w, event, n, next) ==
    /\ \/ log' = log
       \/ AuditOpen /\ log' = log \cup {<<event, tok[w], n>>}
    /\ Goto(w, next)

\* JsonlAuditLog.record: one durable line, or an exception that ends the
\* request.  A write that fails in flush or fsync may still have reached the
\* disk; a closed log writes nothing.
Record(w, event, n, next) ==
    \/ /\ AuditOpen
       /\ log' = log \cup {<<event, tok[w], n>>}
       /\ Goto(w, next)
    \/ /\ \/ log' = log
          \/ AuditOpen /\ log' = log \cup {<<event, tok[w], n>>}
       /\ Goto(w, "error")

\* The same for the records of what became of an attempt (command_no_ack, _retry,
\* _accepted, _rejected, _failed): no property reads them back, so the log does
\* not keep them and only the failure of the write is left.
RecordOutcome(w, next) ==
    /\ \/ AuditOpen /\ Goto(w, next)
       \/ Goto(w, "error")
    /\ UNCHANGED log

-----------------------------------------------------------------------------
(* POST /command/stage *)

\* The command is built and parked under a fresh token, or refused: it is not
\* allowed, or the builder raises on the request's params.
Stage(w, name) ==
    /\ pc[w] = "idle"
    /\ phase = "serving"
    /\ \/ /\ BuildCommand(name)
          /\ \E t \in Tokens \ issued :
               /\ pending' = [pending EXCEPT ![t] = name]
               /\ issued' = issued \cup {t}
               /\ tok' = [tok EXCEPT ![w] = t]
          /\ Goto(w, "audit_staged")
       \/ /\ Goto(w, "refused")
          /\ UNCHANGED <<pending, issued, tok>>
    /\ UNCHANGED <<known, spec, force, attempt, timer, report, result, acks,
                   phase, log, hbAge, busVars, histVars>>

AuditStaged(w) ==
    /\ pc[w] = "audit_staged"
    /\ Record(w, "command_staged", 0, "staged")
    /\ UNCHANGED <<gateVars, localVars, acks, phase, hbAge, busVars, histVars>>

(* POST /command/cancel: the gate's pop() ignores an unknown token. *)

Cancel(w, t) ==
    /\ pc[w] = "idle"
    /\ phase = "serving"
    /\ tok' = [tok EXCEPT ![w] = t]
    /\ IF t \in Tokens /\ pending[t] # NoSpec
       THEN /\ pending' = [pending EXCEPT ![t] = NoSpec]
            /\ withdrawn' = withdrawn \cup {t}
       ELSE UNCHANGED <<pending, withdrawn>>
    /\ Goto(w, "audit_cancelled")
    /\ UNCHANGED <<issued, known, spec, force, attempt, timer, report, result,
                   acks, phase, log, hbAge, busVars, released, acked, sends>>

AuditCancelled(w) ==
    /\ pc[w] = "audit_cancelled"
    /\ Record(w, "command_cancelled", 0, "cancelled")
    /\ UNCHANGED <<gateVars, localVars, acks, phase, hbAge, busVars, histVars>>

-----------------------------------------------------------------------------
(* POST /command/confirm: ConfirmationGate.confirm *)

Confirm(w, t, ack) ==
    /\ pc[w] = "idle"
    /\ phase = "serving"
    /\ tok' = [tok EXCEPT ![w] = t]
    /\ force' = [force EXCEPT ![w] = ack]
    /\ Goto(w, "gate_check")
    /\ UNCHANGED <<gateVars, spec, attempt, timer, report, result, acks,
                   phase, log, hbAge, busVars, histVars>>

\* "token in self._pending"
InGate(w) == tok[w] \in Tokens /\ pending[tok[w]] # NoSpec

GateCheck(w) ==
    /\ pc[w] = "gate_check"
    /\ Goto(w, IF InGate(w) THEN "gate_read" ELSE "unknown")
    /\ UNCHANGED <<gateVars, localVars, acks, phase, log, hbAge, busVars, histVars>>

GateReadNoForce(w) ==
    /\ pc[w] = "gate_read"
    /\ IF ~InGate(w)
       THEN Goto(w, "key_error") /\ UNCHANGED spec
       ELSE /\ spec' = [spec EXCEPT ![w] = pending[tok[w]]]
            /\ Goto(w, "gate_del")
    /\ UNCHANGED <<gateVars, tok, force, attempt, timer, report, result, acks,
                   phase, log, hbAge, busVars, histVars>>

GateRead(w) ==
    /\ pc[w] = "gate_read"
    /\ IF ~InGate(w)
       THEN Goto(w, "key_error") /\ UNCHANGED spec
       ELSE /\ spec' = [spec EXCEPT ![w] = pending[tok[w]]]
            /\ Goto(w, IF RequiresForceConfirm(spec'[w]) /\ ~force[w]
                       THEN "force_required" ELSE "gate_del")
    /\ UNCHANGED <<gateVars, tok, force, attempt, timer, report, result, acks,
                   phase, log, hbAge, busVars, histVars>>

GateDelPop(w) ==
    /\ pc[w] = "gate_del"
    /\ pending' = [pending EXCEPT ![tok[w]] = NoSpec]
    /\ released' = [released EXCEPT ![tok[w]] = @ + 1]
    /\ acked' = IF force[w] THEN acked \cup {tok[w]} ELSE acked
    /\ Goto(w, IF spec[w] = "arm" THEN "health" ELSE "audit_confirmed")
    /\ UNCHANGED <<issued, known, localVars, acks, phase, log, hbAge, busVars,
                   withdrawn, sends>>

\* "del self._pending[token]" raises KeyError for a token another thread took.
GateDel(w) ==
    /\ pc[w] = "gate_del"
    /\ IF ~InGate(w)
       THEN Goto(w, "key_error") /\ UNCHANGED <<pending, released, acked>>
       ELSE /\ pending' = [pending EXCEPT ![tok[w]] = NoSpec]
            /\ released' = [released EXCEPT ![tok[w]] = @ + 1]
            /\ acked' = IF force[w] THEN acked \cup {tok[w]} ELSE acked
            /\ Goto(w, IF spec[w] = "arm" THEN "health" ELSE "audit_confirmed")
    /\ UNCHANGED <<issued, known, localVars, acks, phase, log, hbAge, busVars,
                   withdrawn, sends>>

-----------------------------------------------------------------------------
(* CommandService.confirm: the pre-arm interlock *)

\* HeartbeatHealth() is read first ...
ReadHealth(w) ==
    /\ pc[w] = "health"
    /\ report' = [report EXCEPT ![w] = hbAge]
    /\ Goto(w, "arm_check")
    /\ UNCHANGED <<gateVars, tok, spec, force, attempt, timer, result, acks, phase,
                   log, hbAge, busVars, histVars>>

\* ... and arm_allowed() judges the report by the time it is evaluated.
ArmAllowed(age) == age <= ArmMaxAge

ArmCheck(w) ==
    /\ pc[w] = "arm_check"
    /\ Goto(w, IF ArmAllowed(report[w]) THEN "audit_confirmed" ELSE "audit_blocked")
    /\ UNCHANGED <<gateVars, localVars, acks, phase, log, hbAge, busVars, histVars>>

AuditBlocked(w) ==
    /\ pc[w] = "audit_blocked"
    /\ Record(w, "arm_blocked", 0, "blocked")
    /\ UNCHANGED <<gateVars, localVars, acks, phase, hbAge, busVars, histVars>>

-----------------------------------------------------------------------------
(* CommandSender.execute *)

NextAttemptOffByOne(n) == IF n <= MaxAttempts THEN "audit_attempt" ELSE "audit_failed"

\* The head of the attempt loop: the next attempt, or the loop is exhausted.
NextAttempt(n) == IF n < MaxAttempts THEN "audit_attempt" ELSE "audit_failed"

AuditConfirmed(w) ==
    /\ pc[w] = "audit_confirmed"
    /\ Record(w, "command_confirmed", 0, NextAttempt(0))
    /\ UNCHANGED <<gateVars, localVars, acks, phase, hbAge, busVars, histVars>>

AuditAttemptDrainAlways(w) ==
    /\ pc[w] = "audit_attempt"
    /\ attempt' = [attempt EXCEPT ![w] = @ + 1]
    /\ Record(w, "command_attempt", attempt'[w], "drain")
    /\ UNCHANGED <<gateVars, tok, spec, force, timer, report, result, acks, phase,
                   hbAge, busVars, histVars>>

AuditAttempt(w) ==
    /\ pc[w] = "audit_attempt"
    /\ attempt' = [attempt EXCEPT ![w] = @ + 1]
    /\ Record(w, "command_attempt", attempt'[w], IF attempt[w] = 0 THEN "drain" ELSE "send")
    /\ UNCHANGED <<gateVars, tok, spec, force, timer, report, result, acks, phase,
                   hbAge, busVars, histVars>>

\* drain() pops one ACK after the other until the queue is empty; the reader
\* thread and other workers run between two pops.
Drain(w) ==
    /\ pc[w] = "drain"
    /\ \/ acks # <<>> /\ acks' = Tail(acks) /\ UNCHANGED pc
       \/ acks = <<>> /\ Goto(w, "send") /\ UNCHANGED acks
    /\ UNCHANGED <<gateVars, localVars, phase, log, hbAge, busVars, histVars>>

\* The link packs and transmits, or raises: it is closed, or the write fails.
Send(w) ==
    /\ pc[w] = "send"
    /\ \/ /\ LinkOpen
          /\ sends' = [sends EXCEPT ![tok[w]] = @ + 1]
          /\ uplink' = uplink \cup {<<tok[w], attempt[w], spec[w]>>}
          /\ timer' = [timer EXCEPT ![w] = AckTimeout]
          /\ Goto(w, "await")
       \/ /\ Goto(w, "error")
          /\ UNCHANGED <<sends, uplink, timer>>
    /\ UNCHANGED <<gateVars, tok, spec, force, attempt, report, result, acks, phase,
                   log, hbAge, net, noise, accepted, released, withdrawn, acked>>

\* _await_ack pops the next ACK and keeps waiting unless it is a match.
RecvAck(w) ==
    /\ pc[w] = "await"
    /\ timer[w] > 0
    /\ acks # <<>>
    /\ acks' = Tail(acks)
    /\ IF MatchesAck(Head(acks), spec[w])
       THEN /\ result' = [result EXCEPT ![w] = Head(acks).result]
            /\ Goto(w, "audit_result")
       ELSE UNCHANGED <<result, pc>>
    /\ UNCHANGED <<gateVars, tok, spec, force, attempt, timer, report, phase, log,
                   hbAge, busVars, histVars>>

NoAckBlocking(w) ==
    /\ pc[w] = "await"
    /\ timer[w] = 0
    /\ acks # <<>>
    /\ Goto(w, "audit_no_ack")
    /\ UNCHANGED <<gateVars, localVars, acks, phase, log, hbAge, busVars, histVars>>

NoAck(w) ==
    /\ pc[w] = "await"
    /\ timer[w] = 0
    /\ Goto(w, "audit_no_ack")
    /\ UNCHANGED <<gateVars, localVars, acks, phase, log, hbAge, busVars, histVars>>

AuditNoAck(w) ==
    /\ pc[w] = "audit_no_ack"
    /\ RecordOutcome(w, NextAttempt(attempt[w]))
    /\ UNCHANGED <<gateVars, localVars, acks, phase, hbAge, busVars, histVars>>

AuditResult(w) ==
    /\ pc[w] = "audit_result"
    /\ \/ /\ result[w] = ACCEPTED
          /\ RecordOutcome(w, "accepted")
       \/ /\ result[w] \in TerminalFailures
          /\ RecordOutcome(w, "rejected")
       \/ /\ result[w] \notin TerminalFailures \cup {ACCEPTED}
          /\ RecordOutcome(w, NextAttempt(attempt[w]))
    /\ UNCHANGED <<gateVars, localVars, acks, phase, hbAge, busVars, histVars>>

AuditFailed(w) ==
    /\ pc[w] = "audit_failed"
    /\ RecordOutcome(w, "exhausted")
    /\ UNCHANGED <<gateVars, localVars, acks, phase, hbAge, busVars, histVars>>

\* The response leaves and the thread is free again; a stage response is what
\* tells the client its token.
Reply(w) ==
    /\ pc[w] \in ReplyStates
    /\ known' = IF pc[w] = "staged" THEN known \cup {tok[w]} ELSE known
    /\ Goto(w, "idle")
    /\ tok' = [tok EXCEPT ![w] = NoToken]
    /\ spec' = [spec EXCEPT ![w] = NoSpec]
    /\ force' = [force EXCEPT ![w] = FALSE]
    /\ attempt' = [attempt EXCEPT ![w] = 0]
    /\ timer' = [timer EXCEPT ![w] = 0]
    /\ report' = [report EXCEPT ![w] = ArmMaxAge + 1]
    /\ result' = [result EXCEPT ![w] = 0]
    /\ UNCHANGED <<pending, issued, acks, phase, log, hbAge, busVars, histVars>>

-----------------------------------------------------------------------------
(* The pump's reader thread *)

\* Only the target autopilot's HEARTBEAT reaches HeartbeatHealth.beat; a beat of
\* any other system changes nothing.
ReadHeartbeat ==
    /\ ReaderRuns
    /\ hbAge # 0
    /\ hbAge' = 0
    /\ UNCHANGED <<gateVars, pc, localVars, acks, phase, log, busVars, histVars>>

ReadAck ==
    /\ ReaderRuns
    /\ \E a \in net :
         /\ acks' = Append(acks, a)
         /\ net' = net \ {a}
    /\ UNCHANGED <<gateVars, pc, localVars, phase, log, hbAge, uplink, noise, accepted, histVars>>

-----------------------------------------------------------------------------
(* External: the vehicle, the bus and the clock *)

\* The vehicle deals with one transmission: it answers with some result.
VehicleAnswers ==
    /\ \E u \in uplink, r \in Results :
         /\ uplink' = uplink \ {u}
         /\ net' = net \cup {[command |-> CommandId(u[3]), result |-> r,
                              sys |-> "target", of |-> u[1], no |-> u[2]]}
         /\ accepted' = IF r = ACCEPTED THEN accepted \cup {u[3]} ELSE accepted
    /\ UNCHANGED <<gateVars, pc, localVars, acks, phase, log, hbAge, noise, histVars>>

\* A transmission or an ACK is lost, or the ACK is malformed and dropped.
LoseMessage ==
    /\ \/ \E u \in uplink : uplink' = uplink \ {u} /\ UNCHANGED net
       \/ \E a \in net : net' = net \ {a} /\ UNCHANGED uplink
    /\ UNCHANGED <<gateVars, pc, localVars, acks, phase, log, hbAge, noise, accepted, histVars>>

\* Another system on the shared link acknowledges a command of its own GCS.
ForeignAck ==
    /\ noise < MaxNoise
    /\ noise' = noise + 1
    /\ \E c \in {CommandId(n) : n \in Names \cap Builders}, r \in Results :
         net' = net \cup {[command |-> c, result |-> r, sys |-> "other",
                          of |-> NoToken, no |-> noise]}
    /\ UNCHANGED <<gateVars, pc, localVars, acks, phase, log, hbAge, uplink, accepted, histVars>>

Older(age) == IF age <= ArmMaxAge THEN age + 1 ELSE age

Tick ==
    /\ hbAge' = Older(hbAge)
    /\ report' = [w \in Workers |-> Older(report[w])]
    /\ timer' = [w \in Workers |-> IF timer[w] > 0 THEN timer[w] - 1 ELSE 0]
    /\ <<hbAge', report', timer'>> # <<hbAge, report, timer>>
    /\ UNCHANGED <<gateVars, pc, tok, spec, force, attempt, result, acks, phase, log,
                   busVars, histVars>>

\* The finally block of main().
Shutdown ==
    /\ \/ phase = "serving" /\ phase' = "stopping"
       \/ phase = "stopping" /\ phase' = "link_closed"
       \/ phase = "link_closed" /\ phase' = "audit_closed"
    /\ UNCHANGED <<gateVars, pc, localVars, acks, log, hbAge, busVars, histVars>>

-----------------------------------------------------------------------------

\* A client asks for a token it was given, or for one that was never issued.
Request(w) ==
    \/ \E name \in Names : Stage(w, name)
    \/ \E t \in known \cup {NoToken} : Cancel(w, t)
    \/ \E t \in known \cup {NoToken}, ack \in BOOLEAN : Confirm(w, t, ack)

Work(w) ==
    \/ AuditStaged(w) \/ AuditCancelled(w)
    \/ GateCheck(w) \/ GateRead(w) \/ GateDel(w)
    \/ ReadHealth(w) \/ ArmCheck(w) \/ AuditBlocked(w) \/ AuditConfirmed(w)
    \/ AuditAttempt(w) \/ Drain(w) \/ Send(w) \/ RecvAck(w) \/ NoAck(w)
    \/ AuditNoAck(w) \/ AuditResult(w) \/ AuditFailed(w) \/ Reply(w)

Bus == VehicleAnswers \/ LoseMessage \/ ForeignAck

Next ==
    \/ \E w \in Workers : Request(w) \/ Work(w)
    \/ ReadHeartbeat \/ ReadAck \/ Bus \/ Tick \/ Shutdown

Spec == Init /\ [][Next]_vars

\* Python threads are scheduled and time passes; no request, no message and no
\* heartbeat is owed to anyone.
Fairness == (\A w \in Workers : WF_vars(Work(w))) /\ WF_vars(Tick)

FairSpec == Spec /\ Fairness

-----------------------------------------------------------------------------
(* Properties *)

TypeOK ==
    /\ pending \in [Tokens -> Builders \cup {NoSpec}]
    /\ known \subseteq issued /\ issued \subseteq Tokens
    /\ pc \in [Workers -> States]
    /\ tok \in [Workers -> Tokens \cup {NoToken}]
    /\ spec \in [Workers -> Builders \cup {NoSpec}]
    /\ force \in [Workers -> BOOLEAN]
    /\ attempt \in [Workers -> Nat]
    /\ timer \in [Workers -> 0..AckTimeout]
    /\ report \in [Workers -> 0..ArmMaxAge + 1]
    /\ result \in [Workers -> Results \cup {0}]
    /\ acks \in Seq(AckMsgs)
    /\ phase \in Phases
    /\ hbAge \in 0..ArmMaxAge + 1
    /\ uplink \subseteq Tokens \X Nat \X Builders
    /\ net \subseteq AckMsgs
    /\ noise \in 0..MaxNoise
    /\ released \in [Tokens -> Nat]
    /\ withdrawn \subseteq Tokens
    /\ acked \subseteq Tokens
    /\ sends \in [Tokens -> Nat]
    /\ accepted \subseteq Builders

\* A staged command meets one fate: however many confirm and cancel requests
\* race for its token on the executor's threads, the gate releases it at most
\* once, and never after a cancel request has discarded it.
OneFate ==
    \A t \in Tokens : released[t] <= 1 /\ (t \in withdrawn => released[t] = 0)

\* Nothing is transmitted that was not staged, confirmed and audited as such:
\* each transmission of a token has its own durable command_attempt record, and
\* the command_staged and command_confirmed records came before, even when audit
\* writes fail at arbitrary points.
AuditedBeforeSent ==
    \A t \in Tokens : sends[t] > 0 =>
        /\ <<"command_staged", t, 0>> \in log
        /\ <<"command_confirmed", t, 0>> \in log
        /\ \A n \in 1..sends[t] : <<"command_attempt", t, n>> \in log

\* One confirmation makes at most max_attempts transmissions, and a command the
\* interlock refused makes none.
SendsBounded ==
    \A t \in Tokens :
        /\ sends[t] <= MaxAttempts
        /\ <<"arm_blocked", t, 0>> \in log => sends[t] = 0

\* What has been decided about a token, as the gate and the history of it tell.
Fate(t) ==
    IF t \notin issued THEN "none"
    ELSE IF t \in withdrawn THEN "withdrawn"
    ELSE IF released[t] > 0 THEN "confirmed" ELSE "staged"

\* A cancel request is on record whether or not there was something to cancel.
Promise == INSTANCE Supervision WITH
    Commands <- Tokens, MaxSends <- MaxAttempts,
    fate <- [t \in Tokens |-> Fate(t)],
    trail <- {r \in log : r[1] # "command_cancelled"},
    sent <- sends

\* Threads, retries, failing audit writes, a lossy bus and a shutdown at any point
\* notwithstanding, the service behaves as Supervision says: whatever becomes of a token,
\* decision, records and transmissions come in the promised order, and nothing is undone.
Supervised == Promise!Spec

\* force_disarm only ever flies on a confirmation that carried force_ack, under
\* a configuration that enables it.
ForceOnlyWithForceAck ==
    \A u \in uplink : u[3] = "force_disarm" => u[1] \in acked /\ AllowForceDisarm

\* A command reported as accepted was not acknowledged by noise on the shared
\* link: the target vehicle accepted a command with that MAV_CMD number.
AcceptedIsGenuine ==
    \A w \in Workers : pc[w] = "accepted" =>
        \E n \in accepted : CommandId(n) = CommandId(spec[w])

\* Every request is answered: no audit failure, lost ACK, foreign ACK or
\* shutdown leaves an executor thread waiting for ever.
RequestsTerminate == \A w \in Workers : pc[w] # "idle" ~> pc[w] = "idle"

\* ConfirmationGate.confirm fails only with the documented exceptions: no
\* KeyError for a token that another request consumed first.
NoKeyError == \A w \in Workers : pc[w] # "key_error"

\* The worker's command has been transmitted and still wants an answer.
Executing(w) ==
    /\ pc[w] \in {"audit_attempt", "drain", "send", "await", "audit_no_ack"}
    /\ tok[w] \in Tokens
    /\ sends[tok[w]] > 0

\* An ACK of the command being executed leaves the pump's queue only when that
\* command takes it; neither drain() nor another reader of the queue drops it.
AwaitedAckKept ==
    [][\A i \in DOMAIN acks, w \in Workers :
          Executing(w) /\ acks[i].of = tok[w] =>
              \/ \E j \in DOMAIN acks' : acks'[j] = acks[i]
              \/ pc'[w] = "audit_result"]_vars
=============================================================================
