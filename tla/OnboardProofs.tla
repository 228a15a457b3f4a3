----------------------------- MODULE OnboardProofs ----------------------------
(***************************************************************************)
(* Proofs about what flies, for every choice of thresholds, tolerances,    *)
(* records and bounds: an armed hold of the arm switch was let through on  *)
(* a settled link and is never withdrawn in flight, a session of the       *)
(* logger accounts for its records, the landing loop fails loudly, and the *)
(* telemetry that comes through whole is delivered.  GuardInv, LoggerInv,  *)
(* LandingInv and LinkInv are the inductive invariants; the last section   *)
(* puts the parts together.                                                *)
(***************************************************************************)
EXTENDS MCOnboard, SequenceTheorems, FiniteSetTheorems, WellFoundedInduction, TLAPS

-----------------------------------------------------------------------------
(* Preflight: a report that permits arming stands for a settled link.  *)

\* The monitor calls the link OK, or waits to, only while the evaluations have found it
\* OK for as long as it claims.
MonitorInv ==
    /\ state = "OK" => raw = "OK" /\ okFor >= Hysteresis
    /\ pending = "OK" => raw = "OK" /\ okFor >= pendingFor

\* A report that permits arming keeps that evidence.
ReportInv == report.state = "OK" => report.okFor >= Hysteresis

\* While the operator holds the arm channel high, the guard is latched and the wire high.
HeldInv == held => latched /\ wire = "high"

\* A latched guard has sent the arm channel high, or tried to on a settled link.
LatchedInv == latched => held \/ tried

\* The inductive invariant.
GuardInv == TypeOK /\ MonitorInv /\ ReportInv /\ HeldInv /\ LatchedInv

-----------------------------------------------------------------------------

\* The four states are ranked, OK lowest.
LEMMA SeverityFacts ==
    /\ HealthStates = {"OK", "WARN", "CRITICAL", "NO_DATA"}
    /\ \A s \in HealthStates : Severity[s] \in 0..3
    /\ \A s \in HealthStates : s # "OK" => Severity[s] > Severity["OK"]
    /\ "none" \notin HealthStates
  BY DEF HealthStates, Severity

\* Ageing stays in range and respects the order of two ages.
LEMMA OlderFacts ==
  ASSUME NEW limit \in Nat, NEW a \in 0..limit
  PROVE  /\ Older(a, limit) \in 0..limit
         /\ Older(a, limit) >= a
         /\ \A b \in 0..limit : a >= b => Older(a, limit) >= Older(b, limit)
  BY DEF Older

\* What the store says about the link is one of the health states.
LEMMA RawStateType ==
  ASSUME TypeOK
  PROVE  RawState \in HealthStates
  BY SeverityFacts DEF TypeOK, RawState, Qualities

\* What ArmGuard._arm_allowed lets through is a settled link.
LEMMA AllowedSettled ==
  ASSUME ReportInv, ArmAllowed
  PROVE  Settled
  BY DEF ReportInv, ArmAllowed, Settled

\* The initial state satisfies the invariant.
LEMMA GuardInitInv == Init => GuardInv
<1> SUFFICES ASSUME Init PROVE GuardInv
  OBVIOUS
<1>0. /\ 0 \in 0..MaxFaults /\ 0 \in 0..Hysteresis /\ 0 \in 0..(Critical + 1)
      /\ "NO_DATA" \in HealthStates
  BY PreflightAssumption, SeverityFacts
<1>1. TypeOK
  BY <1>0 DEF Init, TypeOK
<1>2. MonitorInv /\ ReportInv /\ HeldInv /\ LatchedInv
  BY DEF Init, MonitorInv, ReportInv, HeldInv, LatchedInv, NoReport
<1> QED
  BY <1>1, <1>2 DEF GuardInv

\* One evaluation keeps the hysteresis bookkeeping honest.
LEMMA EvaluateMonitor ==
  ASSUME GuardInv, Evaluate
  PROVE  /\ state' \in HealthStates
         /\ pending' \in HealthStates \cup {"none"}
         /\ pending' # "none" => Severity[pending'] < Severity[state']
         /\ pendingFor' \in 0..Hysteresis
         /\ raw' \in HealthStates
         /\ okFor' \in 0..Hysteresis
         /\ MonitorInv'
<1> DEFINE r == RawState
<1>t. /\ state \in HealthStates /\ pending \in HealthStates \cup {"none"}
      /\ pending # "none" => Severity[pending] < Severity[state]
      /\ pendingFor \in 0..Hysteresis /\ okFor \in 0..Hysteresis /\ raw \in HealthStates
  BY DEF GuardInv, TypeOK
<1>r. r \in HealthStates
  BY RawStateType DEF GuardInv
<1>e. /\ ApplyHysteresis(r)
      /\ raw' = r
      /\ okFor' = IF raw = "OK" /\ r = "OK" THEN okFor ELSE 0
  BY DEF Evaluate
<1>m. /\ state = "OK" => raw = "OK" /\ okFor >= Hysteresis
      /\ pending = "OK" => raw = "OK" /\ okFor >= pendingFor
  BY DEF GuardInv, MonitorInv
<1>h. Hysteresis \in Nat
  BY PreflightAssumption
<1> HIDE DEF r
<1>1. raw' \in HealthStates /\ okFor' \in 0..Hysteresis
  BY <1>e, <1>r, <1>t, <1>h
<1> DEFINE G == /\ state' \in HealthStates
                /\ pending' \in HealthStates \cup {"none"}
                /\ pending' # "none" => Severity[pending'] < Severity[state']
                /\ pendingFor' \in 0..Hysteresis
                /\ MonitorInv'
<1>2. CASE r = state /\ ClearPending /\ UNCHANGED state
  BY <1>2, <1>e, <1>t, <1>m, <1>h, SeverityFacts DEF ClearPending, MonitorInv
<1>3. CASE Severity[r] > Severity[state] /\ state' = r /\ ClearPending
  <2>1. r # "OK"
    BY <1>3, <1>t, SeverityFacts
  <2> QED
    BY <2>1, <1>1, <1>3, <1>r, <1>h, SeverityFacts DEF ClearPending, MonitorInv
<1>4. CASE /\ Severity[r] < Severity[state]
           /\ pending # r
           /\ pending' = r /\ pendingFor' = 0
           /\ UNCHANGED state
  <2>1. state # "OK"
    BY <1>4, <1>r, SeverityFacts
  <2>2. 0 \in 0..Hysteresis /\ okFor' >= 0
    BY <1>1, <1>h
  <2> QED
    BY <2>1, <2>2, <1>1, <1>4, <1>e, <1>r, <1>t DEF MonitorInv
<1>5. CASE /\ Severity[r] < Severity[state]
           /\ pending = r
           /\ pendingFor >= Hysteresis
           /\ state' = r /\ ClearPending
  <2>1. r = "OK" => raw = "OK" /\ okFor >= Hysteresis
    BY <1>5, <1>m, <1>t, <1>h
  <2> QED
    BY <2>1, <1>1, <1>5, <1>e, <1>r, <1>h, SeverityFacts DEF ClearPending, MonitorInv
<1>6. CASE /\ Severity[r] < Severity[state]
           /\ pending = r
           /\ UNCHANGED <<state, pending, pendingFor>>
  <2>1. state # "OK"
    BY <1>6, <1>r, SeverityFacts
  <2>2. r = "OK" => raw = "OK" /\ okFor >= pendingFor
    BY <1>6, <1>m
  <2> QED
    BY <2>1, <2>2, <1>1, <1>6, <1>e, <1>r, <1>t DEF MonitorInv
<1>7. G
  BY <1>e, <1>2, <1>3, <1>4, <1>5, <1>6 DEF ApplyHysteresis
<1> QED
  BY <1>1, <1>7

\* Every step keeps the invariant.
LEMMA GuardKeeps == GuardInv /\ [Next]_vars => GuardInv'
<1> SUFFICES ASSUME GuardInv, [Next]_vars PROVE GuardInv'
  OBVIOUS
<1>t. TypeOK
  BY DEF GuardInv
<1>1. CASE Tick
  <2>1. /\ frameAge' \in 0..Critical + 1
        /\ okFor' \in 0..Hysteresis
        /\ pendingFor' \in 0..Hysteresis
        /\ raw = "OK" => okFor' >= okFor
        /\ raw = "OK" /\ okFor >= pendingFor => okFor' >= pendingFor'
    <3>1. /\ Critical + 1 \in Nat /\ Hysteresis \in Nat
          /\ frameAge \in 0..Critical + 1 /\ okFor \in 0..Hysteresis /\ pendingFor \in 0..Hysteresis
      BY <1>t, PreflightAssumption DEF TypeOK
    <3>2. Older(frameAge, Critical + 1) \in 0..Critical + 1
      BY <3>1, OlderFacts
    <3>3. /\ Older(okFor, Hysteresis) \in 0..Hysteresis
          /\ Older(okFor, Hysteresis) >= okFor
          /\ okFor >= pendingFor => Older(okFor, Hysteresis) >= Older(pendingFor, Hysteresis)
          /\ Older(pendingFor, Hysteresis) \in 0..Hysteresis
      BY <3>1, OlderFacts
    <3> QED
      BY <1>1, <3>1, <3>2, <3>3 DEF Tick
  <2>2. /\ report' \in [state : HealthStates, age : 0..MaxReportAge + 1, okFor : 0..Hysteresis]
                       \cup {NoReport}
        /\ report'.state = report.state /\ report'.okFor = report.okFor
    <3>1. CASE report = NoReport
      BY <1>1, <3>1 DEF Tick
    <3>2. CASE report # NoReport
      <4>1. report \in [state : HealthStates, age : 0..MaxReportAge + 1, okFor : 0..Hysteresis]
        BY <1>t, <3>2 DEF TypeOK
      <4>2. Older(report.age, MaxReportAge + 1) \in 0..MaxReportAge + 1
        BY <4>1, OlderFacts, PreflightAssumption
      <4>3. report' = [report EXCEPT !.age = Older(report.age, MaxReportAge + 1)]
        BY <1>1, <3>2 DEF Tick
      <4> QED
        BY <4>1, <4>2, <4>3
    <3> QED
      BY <3>1, <3>2
  <2>3. UNCHANGED <<quality, state, pending, latched, wire, faults, raw, held, tried>>
    BY <1>1 DEF Tick
  <2>4. TypeOK'
    BY <2>1, <2>2, <2>3, <1>t DEF TypeOK
  <2>5. MonitorInv'
    <3>1. okFor \in Nat /\ okFor' \in Nat /\ Hysteresis \in Nat
      BY <2>1, <1>t, PreflightAssumption DEF TypeOK
    <3> QED
      BY <3>1, <2>1, <2>3 DEF GuardInv, MonitorInv
  <2>6. ReportInv' /\ HeldInv' /\ LatchedInv'
    BY <2>2, <2>3 DEF GuardInv, ReportInv, HeldInv, LatchedInv
  <2> QED
    BY <2>4, <2>5, <2>6 DEF GuardInv
<1>2. CASE Evaluate
  <2>1. UNCHANGED <<quality, frameAge, latched, wire, faults, held, tried>>
    BY <1>2 DEF Evaluate
  <2>2. /\ state' \in HealthStates
        /\ pending' \in HealthStates \cup {"none"}
        /\ pending' # "none" => Severity[pending'] < Severity[state']
        /\ pendingFor' \in 0..Hysteresis
        /\ raw' \in HealthStates
        /\ okFor' \in 0..Hysteresis
        /\ MonitorInv'
    BY <1>2, EvaluateMonitor
  <2>3. /\ report' \in [state : HealthStates, age : 0..MaxReportAge + 1, okFor : 0..Hysteresis]
                       \cup {NoReport}
        /\ ReportInv'
    <3>1. CASE report' = report
      BY <3>1, <1>t DEF GuardInv, TypeOK, ReportInv
    <3>2. CASE report' = [state |-> state', age |-> 0, okFor |-> okFor']
      <4>1. 0 \in 0..MaxReportAge + 1
        BY PreflightAssumption
      <4>2. state' = "OK" => okFor' >= Hysteresis
        BY <2>2 DEF MonitorInv
      <4> QED
        BY <3>2, <4>1, <4>2, <2>2 DEF ReportInv
    <3> QED
      BY <1>2, <3>1, <3>2 DEF Evaluate
  <2>4. TypeOK'
    BY <2>1, <2>2, <2>3, <1>t DEF TypeOK
  <2>5. HeldInv' /\ LatchedInv'
    BY <2>1 DEF GuardInv, HeldInv, LatchedInv
  <2> QED
    BY <2>2, <2>3, <2>4, <2>5 DEF GuardInv
<1>3. ASSUME NEW q \in Qualities, Telemetry(q)
      PROVE  GuardInv'
  <2>1. TypeOK'
    BY <1>3, <1>t, PreflightAssumption DEF Telemetry, TypeOK
  <2>2. MonitorInv' /\ ReportInv' /\ HeldInv' /\ LatchedInv'
    BY <1>3 DEF Telemetry, GuardInv, MonitorInv, ReportInv, HeldInv, LatchedInv
  <2> QED
    BY <2>1, <2>2 DEF GuardInv
<1>4. ASSUME NEW arm \in {"low", "high"}, SendRc(arm)
      PROVE  GuardInv'
  <2>1. UNCHANGED <<monitorVars, report>>
    BY <1>4 DEF SendRc
  <2>2. /\ latched' \in BOOLEAN
        /\ wire' \in {"none", "low", "high"}
        /\ faults' \in 0..MaxFaults
        /\ held' \in BOOLEAN
        /\ tried' \in BOOLEAN
    <3>1. latched' \in BOOLEAN
      BY <1>4, <1>t DEF SendRc, TypeOK
    <3>2. PICK a \in {"low", "high"} : Forward(a, arm)
      BY <1>4 DEF SendRc
    <3>3. wire' \in {"none", "low", "high"} /\ held' \in BOOLEAN /\ tried' \in BOOLEAN
      BY <3>2, <1>t DEF Forward, TypeOK
    <3>4. faults' \in 0..MaxFaults
      <4>1. faults \in 0..MaxFaults /\ MaxFaults \in Nat
        BY <1>t, PreflightAssumption DEF TypeOK
      <4>2. faults' = faults \/ (faults < MaxFaults /\ faults' = faults + 1)
        BY <3>2, Zenon DEF Forward
      <4> QED
        BY <4>1, <4>2
    <3> QED
      BY <3>1, <3>3, <3>4
  <2>3. HeldInv'
    <3>1. CASE latched /\ latched' = (arm = "high") /\ Forward(arm, arm)
      <4>1. held' => arm = "high"
        BY <3>1, Zenon DEF Forward
      <4>2. held' => wire' = "high"
        <5>1. held' => wire' = arm \/ (held /\ wire' = wire)
          BY <3>1, Zenon DEF Forward
        <5> QED
          BY <5>1, <4>1 DEF GuardInv, HeldInv
      <4>3. arm = "high" => latched'
        BY <3>1, Zenon
      <4> QED
        BY <4>1, <4>2, <4>3 DEF HeldInv
    <3>2. CASE ~latched /\ arm = "low" /\ UNCHANGED latched /\ Forward(arm, arm)
      BY <3>2 DEF GuardInv, HeldInv, Forward
    <3>3. CASE ~latched /\ arm = "high" /\ ArmAllowed /\ latched' = TRUE /\ Forward(arm, arm)
      BY <3>3 DEF GuardInv, HeldInv, Forward
    <3>4. CASE ~latched /\ arm = "high" /\ ~ArmAllowed /\ UNCHANGED latched /\ Forward("low", arm)
      BY <3>4 DEF GuardInv, HeldInv, Forward
    <3> QED
      BY <1>4, <3>1, <3>2, <3>3, <3>4 DEF SendRc
  <2>4. TypeOK'
    BY <2>1, <2>2, <1>t DEF TypeOK, monitorVars
  <2>5. MonitorInv' /\ ReportInv'
    BY <2>1 DEF GuardInv, MonitorInv, ReportInv, monitorVars
  <2>6. LatchedInv'
    <3>1. CASE latched /\ latched' = (arm = "high") /\ Forward(arm, arm)
      <4>1. held \/ tried
        BY <3>1 DEF GuardInv, LatchedInv
      <4>2. arm = "high" => held' \/ tried'
        BY <4>1, <3>1, Zenon DEF Forward
      <4> QED
        BY <4>2, <3>1, Zenon DEF LatchedInv
    <3>2. CASE ~latched /\ UNCHANGED latched
      BY <3>2 DEF LatchedInv
    <3>3. CASE ~latched /\ arm = "high" /\ ArmAllowed /\ Forward(arm, arm)
      <4>1. Settled
        BY <3>3, AllowedSettled DEF GuardInv
      <4>2. held' \/ tried'
        BY <4>1, <3>3, Zenon DEF Forward
      <4> QED
        BY <4>2 DEF LatchedInv
    <3> QED
      BY <1>4, <3>1, <3>2, <3>3 DEF SendRc
  <2> QED
    BY <2>3, <2>4, <2>5, <2>6 DEF GuardInv
<1>5. CASE UNCHANGED vars
  BY <1>5 DEF GuardInv, TypeOK, MonitorInv, ReportInv, HeldInv, LatchedInv, vars, monitorVars
<1> QED
  BY <1>1, <1>2, <1>3, <1>4, <1>5 DEF Next

\* The inductive invariant holds throughout.
LEMMA GuardInvariant == Spec => []GuardInv
<1>1. Init => GuardInv
  BY GuardInitInv
<1>2. GuardInv /\ [Next]_vars => GuardInv'
  BY GuardKeeps
<1> QED
  BY <1>1, <1>2, PTL DEF Spec

-----------------------------------------------------------------------------

\* Type correctness, with the order of the state and the pending recovery: the monitor
\* only ever waits for an improvement.
THEOREM GuardTypesTheorem == Spec => []TypeOK
<1>1. GuardInv => TypeOK
  BY DEF GuardInv
<1> QED
  BY <1>1, GuardInvariant, PTL

\* ArmGuard.send_rc: the first frame of a hold of the arm switch that leaves with the arm
\* channel high does so on a settled link, or after one of the same hold that was let
\* through on a settled link and could not be sent, whatever the thresholds.
THEOREM ArmsTheorem == Spec => ArmsOnlyGranted
<1>1. ASSUME GuardInv, [Next]_vars, ~held, held' PROVE Settled \/ tried
  <2>1. held' # held
    BY <1>1
  <2>2. PICK arm \in {"low", "high"} : SendRc(arm)
    BY <1>1, <2>1 DEF Next, Tick, Evaluate, Telemetry, vars
  <2>3. CASE latched
    BY <1>1, <2>3 DEF GuardInv, LatchedInv
  <2>4. CASE ~latched
    <3>1. arm = "high" /\ ArmAllowed
      BY <1>1, <2>2, <2>4, Zenon DEF SendRc, Forward
    <3> QED
      BY <1>1, <3>1, AllowedSettled DEF GuardInv
  <2> QED
    BY <2>3, <2>4
<1>2. GuardInv /\ [Next]_vars => [~held /\ held' => Settled \/ tried]_vars
  BY <1>1
<1> QED
  BY <1>2, GuardInvariant, PTL DEF Spec, ArmsOnlyGranted

\* ArmGuard never disarms in flight, whatever frames fail to be sent.
THEOREM NeverDisarmsTheorem == Spec => NeverDisarms
<1>1. ASSUME GuardInv, [Next]_vars, held, wire' = "low" PROVE ~held'
  <2>1. latched /\ wire = "high"
    BY <1>1 DEF GuardInv, HeldInv
  <2>2. PICK arm \in {"low", "high"} : SendRc(arm)
    BY <1>1, <2>1 DEF Next, Tick, Evaluate, Telemetry, vars
  <2>3. Forward(arm, arm)
    BY <2>1, <2>2 DEF SendRc
  <2> QED
    BY <1>1, <2>1, <2>3 DEF Forward
<1>2. GuardInv /\ [Next]_vars => [held /\ wire' = "low" => ~held']_vars
  BY <1>1
<1> QED
  BY <1>2, GuardInvariant, PTL DEF Spec, NeverDisarms

-----------------------------------------------------------------------------
(* FlightLogger: each record whose call returned is in its file, counted as dropped, or on  *)
(* its way, and those that had returned before close() are ahead of the sentinel.           *)

Returned == {r \in Records : call[r] = "returned"}
Begun == {r \in Records : call[r] # "idle"}
Pending == {r \in Records : r = hand \/ \E i \in 1..Len(queue) : queue[i] = r}

\* The writer holds a record just while it writes, and the queue holds each once.
LoggerShape ==
    /\ Logger!TypeOK
    /\ writer = "write" <=> hand # Sentinel
    /\ ~started => writer = "none" /\ closer = "idle"
    /\ \A i, j \in 1..Len(queue) : i # j /\ queue[i] # Sentinel => queue[i] # queue[j]
    /\ \A i \in 1..Len(queue) : queue[i] # Sentinel => queue[i] # hand

\* The books balance, stream by stream.
LoggerCounts ==
    /\ IsFiniteSet(Begun)
    /\ Pending \subseteq Returned /\ written \subseteq Returned /\ early \subseteq Returned
    /\ written \cap Pending = {}
    /\ \A s \in Logger!Streams :
           /\ Logger!Of(s, Returned) =
                  Logger!Of(s, written) + dropped[s] + Logger!Of(s, Pending)
           /\ manifest[s] <= dropped[s]

\* A writer that has seen the sentinel has seen all that returned before close().
LoggerOrder ==
    /\ closer \in {"idle", "sentinel"} =>
           /\ \A i \in 1..Len(queue) : queue[i] # Sentinel
           /\ writer \notin {"final_flush", "exited"}
    /\ \A i, j \in 1..Len(queue) : queue[i] = Sentinel /\ i < j => queue[j] \notin early
    /\ writer \in {"final_flush", "exited"} => Pending \cap early = {}
    /\ closer \in {"files", "manifest", "done"} => writer \in {"exited", "dead"}
    /\ closer = "done" /\ writer = "exited" =>
           \A s \in Logger!Streams : Logger!Of(s, early) <= Logger!Of(s, written) + manifest[s]

LoggerInv == LoggerShape /\ LoggerCounts /\ LoggerOrder

\* A set counts the same whichever module counts it.
LEMMA OfCounts ==
  ASSUME NEW s, NEW A
  PROVE  Logger!Of(s, A) = Cardinality({r \in A : Stream[r] = s})
  BY DEF Logger!Of, Logger!Cardinality, Cardinality

LEMMA OfType ==
  ASSUME NEW s, NEW C, IsFiniteSet(C), NEW A \in SUBSET C
  PROVE  Logger!Of(s, A) \in Nat /\ IsFiniteSet(A)
<1>1. IsFiniteSet(A) /\ IsFiniteSet({r \in A : Stream[r] = s})
  BY FS_Subset
<1> QED
  BY <1>1, OfCounts, FS_CardinalityType

LEMMA OfAdd ==
  ASSUME NEW s, NEW A, IsFiniteSet(A), NEW r, r \notin A
  PROVE  Logger!Of(s, A \cup {r}) = Logger!Of(s, A) + (IF Stream[r] = s THEN 1 ELSE 0)
<1> DEFINE B == {q \in A : Stream[q] = s}
<1>1. IsFiniteSet(B) /\ r \notin B
  BY FS_Subset
<1>2. CASE Stream[r] = s
  <2>1. {q \in A \cup {r} : Stream[q] = s} = B \cup {r}
    BY <1>2
  <2>2. Cardinality(B \cup {r}) = Cardinality(B) + 1
    BY <1>1, FS_AddElement
  <2> QED
    BY <1>2, <2>1, <2>2, OfCounts
<1>3. CASE Stream[r] # s
  <2>1. {q \in A \cup {r} : Stream[q] = s} = B
    BY <1>3
  <2>2. Cardinality(B) \in Nat
    BY <1>1, FS_CardinalityType
  <2> QED
    BY <1>3, <2>1, <2>2, OfCounts
<1> QED
  BY <1>2, <1>3

LEMMA OfApart ==
  ASSUME NEW s, NEW C, IsFiniteSet(C), NEW A \in SUBSET C, NEW B \in SUBSET C, A \cap B = {}
  PROVE  Logger!Of(s, A) + Logger!Of(s, B) <= Logger!Of(s, C)
<1> DEFINE a == {r \in A : Stream[r] = s}
           b == {r \in B : Stream[r] = s}
           c == {r \in C : Stream[r] = s}
<1>1. IsFiniteSet(c) /\ a \subseteq c /\ b \subseteq c /\ a \cap b = {}
  BY FS_Subset
<1>2. IsFiniteSet(a) /\ IsFiniteSet(b)
  BY <1>1, FS_Subset
<1>3. a \cup b \subseteq c
  BY <1>1
<1> HIDE DEF a, b, c
<1>4. /\ Cardinality(a \cup b) = Cardinality(a) + Cardinality(b) - Cardinality(a \cap b)
      /\ IsFiniteSet(a \cup b)
  BY <1>2, FS_Union
<1>5. Cardinality(a \cap b) = 0
  BY <1>1, FS_EmptySet
<1>6. Cardinality(a \cup b) <= Cardinality(c)
  BY <1>1, <1>3, FS_Subset
<1>7. Cardinality(a) \in Nat /\ Cardinality(b) \in Nat
  BY <1>2, FS_CardinalityType
<1>8. Cardinality(a) + Cardinality(b) <= Cardinality(c)
  BY <1>4, <1>5, <1>6, <1>7
<1>9. /\ Logger!Of(s, A) = Cardinality(a) /\ Logger!Of(s, B) = Cardinality(b)
      /\ Logger!Of(s, C) = Cardinality(c)
  BY OfCounts DEF a, b, c
<1> QED
  BY <1>8, <1>9

\* The numbers of the books are numbers.
LEMMA BooksType ==
  ASSUME LoggerInv, NEW s \in Logger!Streams
  PROVE  /\ Logger!Of(s, Returned) \in Nat /\ Logger!Of(s, written) \in Nat
         /\ Logger!Of(s, Pending) \in Nat /\ Logger!Of(s, early) \in Nat
         /\ dropped[s] \in Nat /\ manifest[s] \in Nat
         /\ IsFiniteSet(Returned) /\ IsFiniteSet(written) /\ IsFiniteSet(Pending)
<1>1. /\ IsFiniteSet(Begun) /\ Returned \subseteq Begun /\ written \subseteq Begun
      /\ Pending \subseteq Begun /\ early \subseteq Begun
  BY DEF LoggerInv, LoggerCounts, Returned, Begun
<1>2. dropped[s] \in Nat /\ manifest[s] \in Nat
  BY DEF LoggerInv, LoggerShape, Logger!TypeOK
<1> QED
  BY <1>1, <1>2, OfType

LEMMA LoggerInitInv == ASSUME Logger!ConstantsOK PROVE Logger!Init => LoggerInv
<1> SUFFICES ASSUME Logger!Init PROVE LoggerInv
  OBVIOUS
<1>1. /\ Returned = {} /\ Begun = {} /\ written = {} /\ early = {} /\ queue = <<>>
      /\ Len(queue) = 0 /\ hand = Sentinel /\ writer = "none" /\ closer = "idle"
  BY DEF Logger!Init, Returned, Begun
<1>2. Pending = {}
  BY <1>1 DEF Pending, Logger!ConstantsOK
<1>3. IsFiniteSet({}) /\ \A s : Logger!Of(s, {}) = 0
  <2>1. \A s : {r \in {} : Stream[r] = s} = {}
    OBVIOUS
  <2> QED
    BY <2>1, OfCounts, FS_EmptySet
<1>4. \A s \in Logger!Streams : dropped[s] = 0 /\ manifest[s] = 0
  BY DEF Logger!Init, Logger!NoDrops
<1>5. Logger!TypeOK
  <2>1. <<>> \in Seq(Records \cup {Sentinel}) /\ Len(<<>>) = 0
    BY EmptySeq
  <2>2. started \in BOOLEAN /\ filesOpen \in BOOLEAN
    BY DEF Logger!Init
  <2> QED
    BY <2>1, <2>2 DEF Logger!Init, Logger!TypeOK, Logger!NoDrops, Logger!ConstantsOK
<1>6. LoggerShape
  BY <1>1, <1>5 DEF LoggerShape
<1>7. LoggerCounts
  BY <1>1, <1>2, <1>3, <1>4 DEF LoggerCounts
<1>8. LoggerOrder
  BY <1>1 DEF LoggerOrder
<1> QED
  BY <1>6, <1>7, <1>8 DEF LoggerInv

LEMMA EnqueueKeeps ==
  ASSUME Logger!ConstantsOK, LoggerInv, NEW r \in Records, Logger!Enqueue(r)
  PROVE  LoggerInv'
<1>0. /\ queue \in Seq(Records \cup {Sentinel}) /\ Len(queue) \in Nat /\ Len(queue) <= QueueLen
      /\ QueueLen \in Nat
      /\ call \in [Records -> {"idle", "put", "refused", "returned", "overflow"}]
  BY LenProperties DEF LoggerInv, LoggerShape, Logger!TypeOK, Logger!ConstantsOK
<1>1. /\ Len(queue') = Len(queue) + 1 /\ queue' \in Seq(Records \cup {Sentinel})
      /\ \A i \in 1..Len(queue) : queue'[i] = queue[i]
      /\ queue'[Len(queue) + 1] = r
  BY <1>0, AppendProperties DEF Logger!Enqueue
<1>2. /\ Returned' = Returned \cup {r} /\ r \notin Returned /\ Begun' = Begun
      /\ r # Sentinel
  BY <1>0 DEF Logger!Enqueue, Returned, Begun, Logger!ConstantsOK
<1>3. Pending' = Pending \cup {r} /\ r \notin Pending /\ r \notin written /\ r \notin early
  <2>1. \A q : (\E i \in 1..Len(queue') : queue'[i] = q)
            <=> q = r \/ \E i \in 1..Len(queue) : queue[i] = q
    BY <1>0, <1>1
  <2>2. hand' = hand
    BY DEF Logger!Enqueue
  <2>3. r \notin Pending /\ r \notin written /\ r \notin early
    BY <1>2 DEF LoggerInv, LoggerCounts
  <2> QED
    BY <2>1, <2>2, <2>3 DEF Pending
<1>4. LoggerShape'
  <2>1. Logger!TypeOK'
    BY <1>0, <1>1 DEF LoggerInv, LoggerShape, Logger!TypeOK, Logger!Enqueue, Logger!Full
  <2>2. \A i \in 1..Len(queue) : queue[i] # r
    BY <1>3 DEF Pending
  <2>3. \A i, j \in 1..Len(queue') : i # j /\ queue'[i] # Sentinel => queue'[i] # queue'[j]
    BY <1>0, <1>1, <1>2, <2>2 DEF LoggerInv, LoggerShape
  <2>4. r # hand
    BY <1>3 DEF Pending
  <2>5. \A i \in 1..Len(queue') : queue'[i] # Sentinel => queue'[i] # hand
    BY <1>0, <1>1, <2>4 DEF LoggerInv, LoggerShape
  <2> QED
    BY <2>1, <2>3, <2>5 DEF LoggerInv, LoggerShape, Logger!Enqueue
<1>5. LoggerCounts'
  <2>1. UNCHANGED <<written, dropped, manifest, early>>
    BY DEF Logger!Enqueue
  <2>2. ASSUME NEW s \in Logger!Streams
        PROVE  Logger!Of(s, Returned') =
                   Logger!Of(s, written) + dropped[s] + Logger!Of(s, Pending')
    <3>1. /\ Logger!Of(s, Returned \cup {r}) =
                 Logger!Of(s, Returned) + (IF Stream[r] = s THEN 1 ELSE 0)
      BY <1>2, BooksType, OfAdd
    <3>2. /\ Logger!Of(s, Pending \cup {r}) =
                 Logger!Of(s, Pending) + (IF Stream[r] = s THEN 1 ELSE 0)
      BY <1>3, BooksType, OfAdd
    <3>3. Logger!Of(s, Returned) = Logger!Of(s, written) + dropped[s] + Logger!Of(s, Pending)
      BY DEF LoggerInv, LoggerCounts
    <3> QED
      BY <1>2, <1>3, <3>1, <3>2, <3>3, BooksType
  <2>3. /\ Pending' \subseteq Returned' /\ written' \subseteq Returned'
        /\ early' \subseteq Returned' /\ written' \cap Pending' = {} /\ IsFiniteSet(Begun')
    BY <1>2, <1>3, <2>1 DEF LoggerInv, LoggerCounts
  <2>4. \A s \in Logger!Streams : manifest'[s] <= dropped'[s]
    BY <2>1 DEF LoggerInv, LoggerCounts
  <2>5. ASSUME NEW s \in Logger!Streams
        PROVE  Logger!Of(s, Returned)' =
                   Logger!Of(s, written)' + dropped'[s] + Logger!Of(s, Pending)'
    <3>1. /\ Logger!Of(s, Returned)' = Logger!Of(s, Returned')
          /\ Logger!Of(s, Pending)' = Logger!Of(s, Pending')
          /\ Logger!Of(s, written)' = Logger!Of(s, written')
      BY DEF Logger!Of
    <3> QED
      BY <2>1, <2>2, <3>1
  <2> QED
    BY <2>3, <2>4, <2>5 DEF LoggerCounts
<1>6. LoggerOrder'
  <2>1. UNCHANGED <<writer, closer, early, written, manifest>>
    BY DEF Logger!Enqueue
  <2>2. closer \in {"idle", "sentinel"} => \A i \in 1..Len(queue') : queue'[i] # Sentinel
    BY <1>0, <1>1, <1>2 DEF LoggerInv, LoggerOrder
  <2>3. ASSUME NEW i \in 1..Len(queue'), NEW j \in 1..Len(queue'), queue'[i] = Sentinel, i < j
        PROVE  queue'[j] \notin early
    <3>1. i \in 1..Len(queue) /\ queue[i] = Sentinel
      BY <1>0, <1>1, <1>2, <2>3
    <3>2. CASE j = Len(queue) + 1
      BY <1>1, <1>3, <3>2
    <3>3. CASE j \in 1..Len(queue)
      BY <1>1, <2>3, <3>1, <3>3 DEF LoggerInv, LoggerOrder
    <3> QED
      BY <1>0, <1>1, <3>2, <3>3
  <2>4. writer \in {"final_flush", "exited"} => Pending' \cap early = {}
    BY <1>3 DEF LoggerInv, LoggerOrder
  <2>5. \A s \in Logger!Streams : /\ Logger!Of(s, early)' = Logger!Of(s, early)
                                 /\ Logger!Of(s, written)' = Logger!Of(s, written)
    BY <2>1 DEF Logger!Of
  <2> QED
    BY <2>1, <2>2, <2>3, <2>4, <2>5 DEF LoggerInv, LoggerOrder
<1> QED
  BY <1>4, <1>5, <1>6 DEF LoggerInv

LEMMA DropKeeps ==
  ASSUME Logger!ConstantsOK, LoggerInv, NEW r \in Records, Logger!Drop(r)
  PROVE  LoggerInv'
<1>1. /\ call \in [Records -> {"idle", "put", "refused", "returned", "overflow"}]
      /\ dropped \in [Logger!Streams -> Nat] /\ Stream[r] \in Logger!Streams
  BY DEF LoggerInv, LoggerShape, Logger!TypeOK, Logger!ConstantsOK
<1>2. /\ Returned' = Returned \cup {r} /\ r \notin Returned /\ Begun' = Begun
  BY <1>1 DEF Logger!Drop, Returned, Begun
<1>3. /\ UNCHANGED <<started, closer, queue, writer, hand, filesOpen, written, manifest,
                     diskErrors, early>>
      /\ Pending' = Pending
  BY DEF Logger!Drop, Pending
<1>4. \A s \in Logger!Streams : dropped'[s] = dropped[s] + (IF Stream[r] = s THEN 1 ELSE 0)
  BY <1>1 DEF Logger!Drop, Logger!Count, LoggerInv, LoggerShape, Logger!TypeOK
<1>5. LoggerShape'
  <2>1. dropped' \in [Logger!Streams -> Nat]
    BY <1>1 DEF Logger!Drop, Logger!Count
  <2>2. Logger!TypeOK'
    BY <1>1, <1>3, <2>1 DEF LoggerInv, LoggerShape, Logger!TypeOK, Logger!Drop
  <2> QED
    BY <1>3, <2>2 DEF LoggerInv, LoggerShape
<1>6. LoggerCounts'
  <2>1. ASSUME NEW s \in Logger!Streams
        PROVE  /\ Logger!Of(s, Returned') =
                      Logger!Of(s, written') + dropped'[s] + Logger!Of(s, Pending')
               /\ manifest'[s] <= dropped'[s]
    <3>1. Logger!Of(s, Returned \cup {r}) =
              Logger!Of(s, Returned) + (IF Stream[r] = s THEN 1 ELSE 0)
      BY <1>2, BooksType, OfAdd
    <3>2. /\ Logger!Of(s, Returned) = Logger!Of(s, written) + dropped[s] + Logger!Of(s, Pending)
          /\ manifest[s] <= dropped[s]
      BY DEF LoggerInv, LoggerCounts
    <3>3. manifest'[s] = manifest[s] /\ written' = written
      BY <1>3
    <3> QED
      BY <1>2, <1>3, <1>4, <3>1, <3>2, <3>3, BooksType
  <2>2. /\ Pending' \subseteq Returned' /\ written' \subseteq Returned'
        /\ early' \subseteq Returned' /\ written' \cap Pending' = {} /\ IsFiniteSet(Begun')
    BY <1>2, <1>3 DEF LoggerInv, LoggerCounts
  <2>3. ASSUME NEW s \in Logger!Streams
        PROVE  /\ Logger!Of(s, Returned)' =
                      Logger!Of(s, written)' + dropped'[s] + Logger!Of(s, Pending)'
               /\ manifest'[s] <= dropped'[s]
    BY <2>1 DEF Logger!Of
  <2> QED
    BY <2>2, <2>3 DEF LoggerCounts
<1>7. LoggerOrder'
  <2>1. \A s \in Logger!Streams : /\ Logger!Of(s, early)' = Logger!Of(s, early)
                                 /\ Logger!Of(s, written)' = Logger!Of(s, written)
    BY <1>3 DEF Logger!Of
  <2> QED
    BY <1>3, <2>1 DEF LoggerInv, LoggerOrder
<1> QED
  BY <1>5, <1>6, <1>7 DEF LoggerInv

\* Taking a record moves it from the queue to the writer's hand.
LEMMA GetKeeps ==
  ASSUME Logger!ConstantsOK, LoggerInv, Logger!Get
  PROVE  LoggerInv'
<1>0. /\ queue \in Seq(Records \cup {Sentinel}) /\ Len(queue) \in Nat /\ Len(queue) <= QueueLen
      /\ QueueLen \in Nat /\ Len(queue) # 0
  <2>1. /\ queue \in Seq(Records \cup {Sentinel}) /\ Len(queue) <= QueueLen /\ queue # <<>>
        /\ QueueLen \in Nat
    BY DEF Logger!Get, LoggerInv, LoggerShape, Logger!TypeOK, Logger!ConstantsOK
  <2>2. Len(queue) \in Nat /\ (Len(queue) = 0 => queue = <<>>)
    BY <2>1, LenProperties, EmptySeq
  <2> QED
    BY <2>1, <2>2
<1>1. /\ Len(queue') = Len(queue) - 1 /\ queue' \in Seq(Records \cup {Sentinel})
      /\ \A i \in 1..Len(queue) - 1 : queue'[i] = queue[i + 1]
      /\ hand' = queue[1]
  <2>1. queue # <<>> /\ queue' = Tail(queue) /\ hand' = Head(queue)
    BY DEF Logger!Get
  <2> QED
    BY <1>0, <2>1, HeadTailProperties
<1>2. /\ UNCHANGED <<started, call, closer, filesOpen, written, dropped, manifest,
                     diskErrors, early>>
      /\ writer = "get" /\ hand = Sentinel
      /\ writer' = IF hand' = Sentinel THEN "final_flush" ELSE "write"
      /\ Returned' = Returned /\ Begun' = Begun
  BY DEF Logger!Get, LoggerInv, LoggerShape, Returned, Begun
<1>3. Pending' = Pending
  <2>1. \A q : (q = hand' \/ \E i \in 1..Len(queue') : queue'[i] = q)
            <=> \E i \in 1..Len(queue) : queue[i] = q
    <3> SUFFICES ASSUME NEW q
                 PROVE  (q = hand' \/ \E i \in 1..Len(queue') : queue'[i] = q)
                            <=> \E i \in 1..Len(queue) : queue[i] = q
      OBVIOUS
    <3>1. ASSUME NEW i \in 1..Len(queue), queue[i] = q
          PROVE  q = hand' \/ \E k \in 1..Len(queue') : queue'[k] = q
      <4>1. CASE i = 1
        BY <1>1, <3>1, <4>1
      <4>2. CASE i # 1
        <5>1. i - 1 \in 1..Len(queue') /\ i - 1 \in 1..Len(queue) - 1 /\ (i - 1) + 1 = i
          BY <1>0, <1>1, <4>2
        <5>2. queue'[i - 1] = q
          BY <1>1, <3>1, <5>1
        <5> QED
          BY <5>1, <5>2
      <4> QED
        BY <4>1, <4>2
    <3>2. ASSUME NEW i \in 1..Len(queue'), queue'[i] = q
          PROVE  \E k \in 1..Len(queue) : queue[k] = q
      <4>1. i + 1 \in 1..Len(queue) /\ queue[i + 1] = q
        BY <1>0, <1>1, <3>2
      <4> QED
        BY <4>1
    <3>3. 1 \in 1..Len(queue)
      BY <1>0
    <3> QED
      BY <1>1, <3>1, <3>2, <3>3
  <2>2. \A q \in Records : q # hand
    BY <1>2 DEF Logger!ConstantsOK
  <2> QED
    BY <2>1, <2>2 DEF Pending
<1>4. \A i \in 1..Len(queue') : i + 1 \in 1..Len(queue) /\ queue'[i] = queue[i + 1]
  BY <1>0, <1>1
<1>5. LoggerShape'
  <2>1. Logger!TypeOK'
    <3>1. hand' \in Records \cup {Sentinel}
      BY <1>0, <1>1, ElementOfSeq
    <3>2. Len(queue') <= QueueLen
      BY <1>0, <1>1
    <3> QED
      BY <1>1, <1>2, <3>1, <3>2 DEF LoggerInv, LoggerShape, Logger!TypeOK
  <2>2. \A i, j \in 1..Len(queue') : i # j /\ queue'[i] # Sentinel => queue'[i] # queue'[j]
    BY <1>4 DEF LoggerInv, LoggerShape
  <2>3. \A i \in 1..Len(queue') : queue'[i] # Sentinel => queue'[i] # hand'
    <3>1. \A i \in 1..Len(queue') : i + 1 # 1 /\ 1 \in 1..Len(queue)
      BY <1>0, <1>1
    <3> QED
      BY <1>1, <1>4, <3>1 DEF LoggerInv, LoggerShape
  <2> QED
    BY <1>2, <2>1, <2>2, <2>3 DEF LoggerInv, LoggerShape
<1>6. LoggerCounts'
  <2>1. \A s \in Logger!Streams : /\ Logger!Of(s, Returned)' = Logger!Of(s, Returned)
                                 /\ Logger!Of(s, Pending)' = Logger!Of(s, Pending)
                                 /\ Logger!Of(s, written)' = Logger!Of(s, written)
    BY <1>2, <1>3 DEF Logger!Of
  <2> QED
    BY <1>2, <1>3, <2>1 DEF LoggerInv, LoggerCounts
<1>7. LoggerOrder'
  <2>1. closer \in {"idle", "sentinel"} =>
            /\ \A i \in 1..Len(queue') : queue'[i] # Sentinel
            /\ writer' \notin {"final_flush", "exited"}
    <3>1. 1 \in 1..Len(queue)
      BY <1>0
    <3> QED
      BY <1>1, <1>2, <1>4, <3>1 DEF LoggerInv, LoggerOrder
  <2>2. \A i, j \in 1..Len(queue') : queue'[i] = Sentinel /\ i < j => queue'[j] \notin early
    <3>1. \A i, j \in 1..Len(queue') : i < j => i + 1 < j + 1
      BY <1>0, <1>1
    <3> QED
      BY <1>4, <3>1 DEF LoggerInv, LoggerOrder
  <2>3. hand' = Sentinel => Pending' \cap early' = {}
    <3> SUFFICES ASSUME hand' = Sentinel, NEW q \in Pending, q \in early PROVE FALSE
      BY <1>2, <1>3
    <3>1. q \in Records /\ q # Sentinel
      BY DEF Pending, Logger!ConstantsOK
    <3>2. PICK i \in 1..Len(queue) : queue[i] = q
      BY <1>2, <3>1 DEF Pending
    <3>3. i # 1 /\ 1 \in 1..Len(queue) /\ queue[1] = Sentinel /\ 1 < i
      BY <1>0, <1>1, <3>1, <3>2
    <3> QED
      BY <3>2, <3>3 DEF LoggerInv, LoggerOrder
  <2>4. closer' \notin {"files", "manifest", "done"}
    BY <1>2 DEF LoggerInv, LoggerOrder
  <2>5. closer' = closer /\ early' = early /\ writer' # "exited"
    BY <1>2
  <2> QED
    BY <1>2, <2>1, <2>2, <2>3, <2>4, <2>5 DEF LoggerOrder
<1> QED
  BY <1>5, <1>6, <1>7 DEF LoggerInv

\* A record leaves the writer's hand as a line or as a drop.
LEMMA WriteKeeps ==
  ASSUME Logger!ConstantsOK, LoggerInv, Logger!Write
  PROVE  LoggerInv'
<1>1. /\ UNCHANGED <<started, call, closer, queue, filesOpen, manifest, early>>
      /\ writer = "write" /\ writer' \in {"get", "flush"} /\ hand' = Sentinel /\ hand # Sentinel
      /\ Returned' = Returned /\ Begun' = Begun
  BY DEF Logger!Write, LoggerInv, LoggerShape, Returned, Begun
<1>2. hand \in Records /\ Stream[hand] \in Logger!Streams /\ dropped \in [Logger!Streams -> Nat]
  BY <1>1 DEF LoggerInv, LoggerShape, Logger!TypeOK, Logger!ConstantsOK
<1>3. Pending = Pending' \cup {hand} /\ hand \notin Pending'
  <2>1. \A i \in 1..Len(queue) : queue[i] # hand
    BY <1>1 DEF LoggerInv, LoggerShape
  <2>2. queue' = queue /\ \A q \in Records : q # hand'
    BY <1>1 DEF Logger!ConstantsOK
  <2> QED
    BY <1>2, <2>1, <2>2 DEF Pending
<1>4. Pending \subseteq Returned /\ hand \notin written
  BY <1>3 DEF LoggerInv, LoggerCounts
<1>5. \/ written' = written \cup {hand} /\ dropped' = dropped
      \/ written' = written /\ dropped' = [dropped EXCEPT ![Stream[hand]] = @ + 1]
  BY DEF Logger!Write, Logger!Count
<1>6. LoggerShape'
  <2>1. written' \subseteq Records /\ dropped' \in [Logger!Streams -> Nat]
    <3>1. written \subseteq Records
      BY DEF LoggerInv, LoggerShape, Logger!TypeOK
    <3>2. [dropped EXCEPT ![Stream[hand]] = @ + 1] \in [Logger!Streams -> Nat]
      BY <1>2
    <3> QED
      BY <1>2, <1>5, <3>1, <3>2
  <2>2. diskErrors' \in 0..MaxDiskErrors
    <3>1. diskErrors \in 0..MaxDiskErrors /\ MaxDiskErrors \in Nat
      BY DEF LoggerInv, LoggerShape, Logger!TypeOK, Logger!ConstantsOK
    <3> QED
      BY <3>1 DEF Logger!Write
  <2>3. Logger!TypeOK'
    BY <1>1, <2>1, <2>2 DEF LoggerInv, LoggerShape, Logger!TypeOK
  <2>4. \A i \in 1..Len(queue') : queue'[i] # Sentinel => queue'[i] # hand'
    BY <1>1
  <2> QED
    BY <1>1, <2>3, <2>4 DEF LoggerInv, LoggerShape
<1>7. LoggerCounts'
  <2>1. ASSUME NEW s \in Logger!Streams
        PROVE  /\ Logger!Of(s, Returned) =
                      Logger!Of(s, written') + dropped'[s] + Logger!Of(s, Pending')
               /\ manifest[s] <= dropped'[s]
    <3>1. Logger!Of(s, Pending) = Logger!Of(s, Pending') + (IF Stream[hand] = s THEN 1 ELSE 0)
      <4>1. IsFiniteSet(Pending)
        BY BooksType
      <4>2. IsFiniteSet(Pending')
        BY <1>3, <4>1, FS_Subset
      <4>3. Logger!Of(s, Pending' \cup {hand}) =
                Logger!Of(s, Pending') + (IF Stream[hand] = s THEN 1 ELSE 0)
        BY <1>3, <4>2, OfAdd
      <4> QED
        BY <1>3, <4>3
    <3>2. Logger!Of(s, Pending') \in Nat
      BY <1>3, BooksType, OfType
    <3>3. /\ Logger!Of(s, Returned) = Logger!Of(s, written) + dropped[s] + Logger!Of(s, Pending)
          /\ manifest[s] <= dropped[s]
      BY DEF LoggerInv, LoggerCounts
    <3>4. CASE written' = written \cup {hand} /\ dropped' = dropped
      <4>1. Logger!Of(s, written \cup {hand}) =
                Logger!Of(s, written) + (IF Stream[hand] = s THEN 1 ELSE 0)
        BY <1>4, BooksType, OfAdd
      <4> QED
        BY <3>1, <3>2, <3>3, <3>4, <4>1, BooksType
    <3>5. CASE written' = written /\ dropped' = [dropped EXCEPT ![Stream[hand]] = @ + 1]
      <4>1. dropped'[s] = dropped[s] + (IF Stream[hand] = s THEN 1 ELSE 0)
        BY <1>2, <3>5
      <4> QED
        BY <3>1, <3>2, <3>3, <3>5, <4>1, BooksType
    <3> QED
      BY <1>5, <3>4, <3>5
  <2>2. /\ Pending' \subseteq Returned' /\ written' \subseteq Returned'
        /\ early' \subseteq Returned' /\ written' \cap Pending' = {} /\ IsFiniteSet(Begun')
    BY <1>1, <1>3, <1>4, <1>5 DEF LoggerInv, LoggerCounts
  <2>3. ASSUME NEW s \in Logger!Streams
        PROVE  /\ Logger!Of(s, Returned)' =
                      Logger!Of(s, written)' + dropped'[s] + Logger!Of(s, Pending)'
               /\ manifest'[s] <= dropped'[s]
    BY <1>1, <2>1 DEF Logger!Of
  <2> QED
    BY <2>2, <2>3 DEF LoggerCounts
<1>8. LoggerOrder'
  BY <1>1 DEF LoggerInv, LoggerOrder
<1> QED
  BY <1>6, <1>7, <1>8 DEF LoggerInv

\* The sentinel goes behind all that had returned before close().
LEMMA PutSentinelKeeps ==
  ASSUME Logger!ConstantsOK, LoggerInv, Logger!PutSentinel
  PROVE  LoggerInv'
<1>0. /\ queue \in Seq(Records \cup {Sentinel}) /\ Len(queue) \in Nat /\ Len(queue) <= QueueLen
      /\ QueueLen \in Nat
  BY LenProperties DEF LoggerInv, LoggerShape, Logger!TypeOK, Logger!ConstantsOK
<1>1. /\ UNCHANGED <<started, call, writer, hand, filesOpen, written, dropped, manifest,
                     diskErrors, early>>
      /\ closer = "sentinel" /\ closer' = "join" /\ Returned' = Returned /\ Begun' = Begun
  BY DEF Logger!PutSentinel, Returned, Begun
<1>2. /\ \A i \in 1..Len(queue) : queue[i] # Sentinel
      /\ writer \notin {"final_flush", "exited"}
  BY <1>1 DEF LoggerInv, LoggerOrder
<1>3. /\ queue' \in Seq(Records \cup {Sentinel}) /\ Len(queue') <= QueueLen /\ Len(queue') \in Nat
      /\ Len(queue) <= Len(queue')
      /\ \A i \in 1..Len(queue) : queue'[i] = queue[i]
      /\ \A i \in 1..Len(queue') :
             i \notin 1..Len(queue) => i = Len(queue) + 1 /\ i = Len(queue') /\ queue'[i] = Sentinel
  <2>1. CASE Logger!Full /\ UNCHANGED queue
    BY <1>0, <2>1
  <2>2. CASE ~Logger!Full /\ queue' = Append(queue, Sentinel)
    <3>1. /\ Len(queue') = Len(queue) + 1 /\ queue' \in Seq(Records \cup {Sentinel})
          /\ \A i \in 1..Len(queue) : queue'[i] = queue[i]
          /\ queue'[Len(queue) + 1] = Sentinel
      BY <1>0, <2>2, AppendProperties
    <3> QED
      BY <1>0, <2>2, <3>1 DEF Logger!Full
  <2> QED
    BY <2>1, <2>2 DEF Logger!PutSentinel
<1>4. \A i \in 1..Len(queue) : i \in 1..Len(queue')
  BY <1>0, <1>3
<1>5. Pending' = Pending
  <2>1. \A q \in Records : (\E i \in 1..Len(queue') : queue'[i] = q)
                               <=> \E i \in 1..Len(queue) : queue[i] = q
    BY <1>3, <1>4 DEF Logger!ConstantsOK
  <2> QED
    BY <1>1, <2>1 DEF Pending
<1>6. LoggerShape'
  <2>1. Logger!TypeOK'
    BY <1>1, <1>3 DEF LoggerInv, LoggerShape, Logger!TypeOK
  <2>2. \A i \in 1..Len(queue') : queue'[i] # Sentinel =>
            i \in 1..Len(queue) /\ queue'[i] = queue[i]
    BY <1>3
  <2>3. \A i, j \in 1..Len(queue') : i # j /\ queue'[i] # Sentinel => queue'[i] # queue'[j]
    <3> SUFFICES ASSUME NEW i \in 1..Len(queue'), NEW j \in 1..Len(queue'), i # j,
                        queue'[i] # Sentinel, queue'[i] = queue'[j]
                 PROVE  FALSE
      OBVIOUS
    <3> QED
      BY <2>2 DEF LoggerInv, LoggerShape
  <2>4. \A i \in 1..Len(queue') : queue'[i] # Sentinel => queue'[i] # hand'
    BY <1>1, <2>2 DEF LoggerInv, LoggerShape
  <2>5. ~started => writer = "none" /\ closer = "idle"
    BY DEF LoggerInv, LoggerShape
  <2> QED
    BY <1>1, <2>1, <2>3, <2>4, <2>5 DEF LoggerInv, LoggerShape
<1>7. LoggerCounts'
  <2>1. \A s \in Logger!Streams : /\ Logger!Of(s, Returned)' = Logger!Of(s, Returned)
                                 /\ Logger!Of(s, Pending)' = Logger!Of(s, Pending)
                                 /\ Logger!Of(s, written)' = Logger!Of(s, written)
    BY <1>1, <1>5 DEF Logger!Of
  <2> QED
    BY <1>1, <1>5, <2>1 DEF LoggerInv, LoggerCounts
<1>8. LoggerOrder'
  <2>1. \A i, j \in 1..Len(queue') : ~(queue'[i] = Sentinel /\ i < j)
    BY <1>0, <1>2, <1>3
  <2> QED
    BY <1>1, <1>2, <2>1 DEF LoggerOrder
<1> QED
  BY <1>6, <1>7, <1>8 DEF LoggerInv

\* close() and the manifest it writes.
LEMMA CloserKeeps ==
  ASSUME Logger!ConstantsOK, LoggerInv,
         Logger!Close \/ Logger!Join \/ Logger!CloseFiles \/ Logger!WriteManifest
  PROVE  LoggerInv'
<1>1. /\ UNCHANGED <<started, call, queue, writer, hand, written, dropped>>
      /\ Returned' = Returned /\ Begun' = Begun /\ Pending' = Pending
  BY DEF Logger!Close, Logger!Join, Logger!CloseFiles, Logger!WriteManifest, Returned, Begun,
         Pending
<1>2. /\ \/ early' = early /\ closer # "idle"
         \/ early' = Returned /\ closer = "idle" /\ closer' = "sentinel" /\ started
      /\ \/ manifest' = manifest
         \/ manifest' = dropped
      /\ closer' # "idle"
  BY DEF Logger!Close, Logger!Join, Logger!CloseFiles, Logger!WriteManifest, Returned
<1>3. LoggerShape'
  <2>1. /\ early' \subseteq Records /\ manifest' \in [Logger!Streams -> Nat]
    BY <1>2 DEF LoggerInv, LoggerShape, Logger!TypeOK, Returned
  <2>2. diskErrors' \in 0..MaxDiskErrors
    <3>1. diskErrors \in 0..MaxDiskErrors /\ MaxDiskErrors \in Nat
      BY DEF LoggerInv, LoggerShape, Logger!TypeOK, Logger!ConstantsOK
    <3> QED
      BY <3>1 DEF Logger!Close, Logger!Join, Logger!CloseFiles, Logger!WriteManifest
  <2>3. filesOpen' \in BOOLEAN
    <3>1. filesOpen \in BOOLEAN
      BY DEF LoggerInv, LoggerShape, Logger!TypeOK
    <3>2. filesOpen' = filesOpen \/ filesOpen' = FALSE
      BY DEF Logger!Close, Logger!Join, Logger!CloseFiles, Logger!WriteManifest
    <3> QED
      BY <3>1, <3>2
  <2>4. closer' \in {"idle", "sentinel", "join", "files", "files_timeout", "manifest",
                     "manifest_timeout", "done", "done_timeout", "raised"}
    BY DEF Logger!Close, Logger!Join, Logger!CloseFiles, Logger!WriteManifest
  <2>5. Logger!TypeOK'
    BY <1>1, <2>1, <2>2, <2>3, <2>4 DEF LoggerInv, LoggerShape, Logger!TypeOK
  <2>6. started
    BY <1>2 DEF LoggerInv, LoggerShape
  <2> QED
    BY <1>1, <2>5, <2>6 DEF LoggerInv, LoggerShape
<1>4. \A s \in Logger!Streams : /\ Logger!Of(s, Returned)' = Logger!Of(s, Returned)
                               /\ Logger!Of(s, Pending)' = Logger!Of(s, Pending)
                               /\ Logger!Of(s, written)' = Logger!Of(s, written)
                               /\ Logger!Of(s, early)' = Logger!Of(s, early')
  BY <1>1 DEF Logger!Of
<1>5. LoggerCounts'
  <2>1. ASSUME NEW s \in Logger!Streams PROVE manifest'[s] <= dropped'[s]
    <3>1. manifest[s] <= dropped[s] /\ dropped[s] <= dropped[s]
      BY BooksType DEF LoggerInv, LoggerCounts
    <3> QED
      BY <1>1, <1>2, <3>1
  <2>2. early' \subseteq Returned
    BY <1>2 DEF LoggerInv, LoggerCounts
  <2> QED
    BY <1>1, <1>4, <2>1, <2>2 DEF LoggerInv, LoggerCounts
<1>6. LoggerOrder'
  <2>1. CASE Logger!Close
    <3>1. closer = "idle" /\ closer' = "sentinel"
      BY <2>1 DEF Logger!Close
    <3> QED
      BY <1>1, <3>1 DEF LoggerInv, LoggerOrder
  <2>2. CASE ~Logger!Close
    <3>1. /\ early' = early /\ closer' \notin {"idle", "sentinel"}
      BY <2>2 DEF Logger!Join, Logger!CloseFiles, Logger!WriteManifest
    <3>2. closer' \in {"files", "manifest", "done"} => writer \in {"exited", "dead"}
      BY <2>2 DEF Logger!Join, Logger!CloseFiles, Logger!WriteManifest, LoggerInv, LoggerOrder
    <3>3. ASSUME closer' = "done", writer = "exited", NEW s \in Logger!Streams
          PROVE  Logger!Of(s, early) <= Logger!Of(s, written) + manifest'[s]
      <4>1. manifest' = dropped
        BY <2>2, <3>3 DEF Logger!Join, Logger!CloseFiles, Logger!WriteManifest
      <4>2. Pending \cap early = {}
        BY <3>3 DEF LoggerInv, LoggerOrder
      <4>3. /\ IsFiniteSet(Returned) /\ early \in SUBSET Returned
            /\ Pending \in SUBSET Returned /\ early \cap Pending = {}
        BY <4>2, BooksType DEF LoggerInv, LoggerCounts
      <4>4. Logger!Of(s, early) + Logger!Of(s, Pending) <= Logger!Of(s, Returned)
        BY <4>3, OfApart
      <4>5. Logger!Of(s, Returned) =
                Logger!Of(s, written) + dropped[s] + Logger!Of(s, Pending)
        BY DEF LoggerInv, LoggerCounts
      <4> QED
        BY <4>1, <4>4, <4>5, BooksType
    <3> QED
      BY <1>1, <1>4, <3>1, <3>2, <3>3 DEF LoggerInv, LoggerOrder
  <2> QED
    BY <2>1, <2>2
<1> QED
  BY <1>3, <1>5, <1>6 DEF LoggerInv

\* What touches neither the queue nor the books.
LEMMA QuietKeeps ==
  ASSUME Logger!ConstantsOK, LoggerInv,
         \/ Logger!Start \/ Logger!GetTimeout \/ Logger!Flush
         \/ \E r \in Records : Logger!Check(r) \/ Logger!Overflow(r)
         \/ UNCHANGED Logger!vars
  PROVE  LoggerInv'
<1>1. UNCHANGED <<closer, queue, hand, written, dropped, manifest, early>>
  BY DEF Logger!Start, Logger!GetTimeout, Logger!Flush, Logger!Check, Logger!Overflow,
         Logger!vars
<1>2. /\ call' \in [Records -> {"idle", "put", "refused", "returned", "overflow"}]
      /\ Returned' = Returned
      /\ Begun' = Begun \/ \E r \in Records : Begun' = Begun \cup {r}
  <2>1. call \in [Records -> {"idle", "put", "refused", "returned", "overflow"}]
    BY DEF LoggerInv, LoggerShape, Logger!TypeOK
  <2>2. CASE call' = call
    BY <2>1, <2>2 DEF Returned, Begun
  <2>3. ASSUME NEW r \in Records, NEW v \in {"put", "refused", "overflow"},
               call[r] # "returned", call' = [call EXCEPT ![r] = v]
        PROVE  /\ call' \in [Records -> {"idle", "put", "refused", "returned", "overflow"}]
               /\ Returned' = Returned /\ Begun' = Begun \cup {r}
    <3>1. call' \in [Records -> {"idle", "put", "refused", "returned", "overflow"}]
      BY <2>1, <2>3
    <3>2. \A q \in Records : call'[q] = IF q = r THEN v ELSE call[q]
      BY <2>1, <2>3
    <3>3. Returned' = Returned
      BY <2>3, <3>2 DEF Returned
    <3>4. Begun' = Begun \cup {r}
      BY <2>3, <3>2 DEF Begun
    <3> QED
      BY <3>1, <3>3, <3>4
  <2>4. ASSUME NEW r \in Records, Logger!Check(r) \/ Logger!Overflow(r)
        PROVE  \E v \in {"put", "refused", "overflow"} :
                   call[r] # "returned" /\ call' = [call EXCEPT ![r] = v]
    BY <2>4 DEF Logger!Check, Logger!Overflow
  <2>5. CASE Logger!Start \/ Logger!GetTimeout \/ Logger!Flush \/ UNCHANGED Logger!vars
    BY <2>2, <2>5 DEF Logger!Start, Logger!GetTimeout, Logger!Flush, Logger!vars
  <2>6. ASSUME NEW r \in Records, Logger!Check(r) \/ Logger!Overflow(r)
        PROVE  <1>2!1 /\ <1>2!2 /\ <1>2!3
    BY <2>3, <2>4, <2>6
  <2> QED
    BY <2>5, <2>6
<1>3. Pending' = Pending
  BY <1>1 DEF Pending
<1>4. /\ \/ writer' = writer
         \/ writer = "none" /\ writer' = "get"
         \/ writer = "get" /\ writer' = "flush"
         \/ writer = "flush" /\ writer' \in {"get", "dead"}
         \/ writer = "final_flush" /\ writer' \in {"exited", "dead"}
      /\ started' = started \/ started' = TRUE
      /\ filesOpen' \in BOOLEAN /\ started' \in BOOLEAN /\ diskErrors' \in 0..MaxDiskErrors
  <2>1. /\ filesOpen \in BOOLEAN /\ started \in BOOLEAN /\ diskErrors \in 0..MaxDiskErrors
        /\ MaxDiskErrors \in Nat /\ (~started => writer = "none")
    BY DEF LoggerInv, LoggerShape, Logger!TypeOK, Logger!ConstantsOK
  <2>2. CASE UNCHANGED <<started, writer, filesOpen, diskErrors>>
    BY <2>1, <2>2
  <2>3. CASE Logger!Start
    BY <2>1, <2>3 DEF Logger!Start
  <2>4. CASE Logger!GetTimeout
    BY <2>1, <2>4 DEF Logger!GetTimeout
  <2>5. CASE Logger!Flush
    BY <2>1, <2>5 DEF Logger!Flush
  <2> QED
    BY <2>2, <2>3, <2>4, <2>5 DEF Logger!Check, Logger!Overflow, Logger!vars
<1>5. LoggerShape'
  <2>1. Logger!TypeOK'
    BY <1>1, <1>2, <1>4 DEF LoggerInv, LoggerShape, Logger!TypeOK
  <2>2. writer' = "write" <=> hand' # Sentinel
    BY <1>1, <1>4 DEF LoggerInv, LoggerShape
  <2>3. ~started' => writer' = "none" /\ closer' = "idle"
    <3>1. started' = FALSE => started = FALSE /\ writer' = writer
      BY <1>4 DEF Logger!Start, Logger!GetTimeout, Logger!Flush, Logger!Check,
                  Logger!Overflow, Logger!vars, LoggerInv, LoggerShape
    <3> QED
      BY <1>1, <1>4, <3>1 DEF LoggerInv, LoggerShape
  <2> QED
    BY <1>1, <2>1, <2>2, <2>3 DEF LoggerInv, LoggerShape
<1>6. LoggerCounts'
  <2>1. \A s \in Logger!Streams : /\ Logger!Of(s, Returned)' = Logger!Of(s, Returned)
                                 /\ Logger!Of(s, Pending)' = Logger!Of(s, Pending)
                                 /\ Logger!Of(s, written)' = Logger!Of(s, written)
    BY <1>1, <1>2, <1>3 DEF Logger!Of
  <2>2. IsFiniteSet(Begun')
    <3>1. IsFiniteSet(Begun)
      BY DEF LoggerInv, LoggerCounts
    <3>2. \A r : IsFiniteSet(Begun \cup {r})
      BY <3>1, FS_AddElement
    <3> QED
      BY <1>2, <3>1, <3>2
  <2> QED
    BY <1>1, <1>2, <1>3, <2>1, <2>2 DEF LoggerInv, LoggerCounts
<1>7. LoggerOrder'
  <2>1. \A s \in Logger!Streams : /\ Logger!Of(s, early)' = Logger!Of(s, early)
                                 /\ Logger!Of(s, written)' = Logger!Of(s, written)
    BY <1>1 DEF Logger!Of
  <2>2. closer \in {"files", "manifest", "done"} => writer' = writer
    BY <1>4 DEF LoggerInv, LoggerOrder
  <2> QED
    BY <1>1, <1>3, <1>4, <2>1, <2>2 DEF LoggerInv, LoggerOrder
<1> QED
  BY <1>5, <1>6, <1>7 DEF LoggerInv

LEMMA LoggerKeeps ==
  ASSUME Logger!ConstantsOK, LoggerInv, [Logger!Next]_Logger!vars
  PROVE  LoggerInv'
<1>1. CASE \E r \in Records : Logger!Enqueue(r)
  BY <1>1, EnqueueKeeps
<1>2. CASE \E r \in Records : Logger!Drop(r)
  BY <1>2, DropKeeps
<1>3. CASE Logger!Get
  BY <1>3, GetKeeps
<1>4. CASE Logger!Write
  BY <1>4, WriteKeeps
<1>5. CASE Logger!PutSentinel
  BY <1>5, PutSentinelKeeps
<1>6. CASE Logger!Close \/ Logger!Join \/ Logger!CloseFiles \/ Logger!WriteManifest
  BY <1>6, CloserKeeps
<1>7. CASE \/ Logger!Start \/ Logger!GetTimeout \/ Logger!Flush
           \/ \E r \in Records : Logger!Check(r) \/ Logger!Overflow(r)
           \/ UNCHANGED Logger!vars
  BY <1>7, QuietKeeps
<1> QED
  BY <1>1, <1>2, <1>3, <1>4, <1>5, <1>6, <1>7
     DEF Logger!Next, Logger!Writer, Logger!Closer, Logger!Record

LEMMA LoggerInvariant == ASSUME Logger!ConstantsOK PROVE Logger!Spec => []LoggerInv
<1>1. Logger!Init => LoggerInv
  BY LoggerInitInv
<1>2. LoggerInv /\ [Logger!Next]_Logger!vars => LoggerInv'
  BY LoggerKeeps
<1> QED
  BY <1>1, <1>2, PTL DEF Logger!Spec

\* FlightLogger.close() and the writer: for any records, streams, queue length and disk errors,
\* when the writer reached the sentinel before the join timed out, each call that had returned
\* before close() is a line of its file or counted in the manifest, which counts nothing else.
THEOREM SessionAccountedTheorem ==
  ASSUME Logger!ConstantsOK PROVE Logger!Spec => []SessionAccounted
<1>1. LoggerInv => SessionAccounted
  <2> SUFFICES ASSUME LoggerInv, closer = "done", writer = "exited", NEW s \in Logger!Streams
               PROVE  /\ Logger!Of(s, early) <= Logger!Of(s, written) + manifest[s]
                      /\ Logger!Of(s, written) + manifest[s] <= Logger!Of(s, Returned)
    BY DEF SessionAccounted, Logger!SessionAccounted, Returned
  <2>1. /\ Logger!Of(s, Returned) = Logger!Of(s, written) + dropped[s] + Logger!Of(s, Pending)
        /\ manifest[s] <= dropped[s]
    BY DEF LoggerInv, LoggerCounts
  <2>2. Logger!Of(s, early) <= Logger!Of(s, written) + manifest[s]
    BY DEF LoggerInv, LoggerOrder
  <2> QED
    BY <2>1, <2>2, BooksType
<1> QED
  BY <1>1, LoggerInvariant, PTL

-----------------------------------------------------------------------------
(* LandingTarget: the streak is what it is meant to be, counters add up, and what makes the *)
(* monitor fresh came from the autopilot.                                                   *)

\* What the counters can hold, without the bounds of a model-checking run.
CountTypes ==
    /\ ltCount \in [Landing!Outcomes -> Nat]
    /\ ltStreak \in Nat

\* The streak is what it is meant to be, and the loop is on its way out when it is too long.
StreakInv ==
    /\ ltFails = ltStreak
    /\ ltPc \notin {"close", "closed"} => ltStreak <= Tolerance
    /\ ltStreak <= Tolerance + 1

\* Ids are reported as the tracker gives them out, so the highest one is their number.
TrackInv ==
    /\ ltTracks \in [total : Nat, max : Nat]
    /\ ltIds = 1..ltTracks.max
    /\ ltTracks.total = ltTracks.max

\* What makes the monitor fresh came from the autopilot.
HeardInv ==
    /\ ltAge \in Int
    /\ ltBeats \in Seq({"autopilot", "other"})
    /\ ltAge # -1 => ltHeard
    /\ \A i \in 1..Len(ltBeats) : ltBeats[i] = "autopilot" => ltHeard
    /\ Landing!OnlyOnceHeard

\* The inductive invariant.
LandingInv == CountTypes /\ Landing!TargetsAccounted /\ StreakInv /\ TrackInv /\ HeardInv

-----------------------------------------------------------------------------

\* The outcomes, named apart.
LEMMA OutcomeFacts ==
    {"target", "published", "suppressed", "failed", "slow", "no_heartbeat", "no_pose",
     "unprojectable"} \subseteq Landing!Outcomes
  BY DEF Landing!Outcomes

\* An interval's ids are as many as it is long.
LEMMA NewTracks ==
  ASSUME NEW m \in Nat, NEW n \in Nat, m <= n
  PROVE  Landing!Cardinality(m + 1 .. n) = n - m
<1>c. Landing!Cardinality(m + 1 .. n) = Cardinality(m + 1 .. n)
  BY DEF Landing!Cardinality, Cardinality
<1>1. CASE m = n
  <2>1. m + 1 .. n = {}
    BY <1>1
  <2> QED
    BY <1>1, <1>c, <2>1, FS_EmptySet
<1>2. CASE m < n
  <2>1. Cardinality(m + 1 .. n) = IF m + 1 > n THEN 0 ELSE n - (m + 1) + 1
    BY FS_Interval
  <2> QED
    BY <1>2, <1>c, <2>1
<1> QED
  BY <1>1, <1>2

\* The pipeline as it is built.
LEMMA LandingInitInv == ASSUME Landing!ConstantsOK PROVE Landing!Init => LandingInv
<1> SUFFICES ASSUME Landing!Init PROVE LandingInv
  OBVIOUS
<1>1. CountTypes /\ Landing!TargetsAccounted
  BY OutcomeFacts DEF Landing!Init, CountTypes, Landing!TargetsAccounted
<1>2. StreakInv
  BY DEF Landing!Init, StreakInv, Landing!ConstantsOK
<1>3. TrackInv
  <2>1. 1..0 = {}
    OBVIOUS
  <2> QED
    BY <2>1 DEF Landing!Init, TrackInv
<1>4. HeardInv
  BY OutcomeFacts DEF Landing!Init, HeardInv, Landing!OnlyOnceHeard
<1> QED
  BY <1>1, <1>2, <1>3, <1>4 DEF LandingInv

\* A tracker that confirms tracks gives out the next ids, and they are counted.
LEMMA TrackKeeps == ASSUME TrackInv, Landing!Track PROVE TrackInv'
<1>1. CASE UNCHANGED Landing!tracker
  BY <1>1 DEF Landing!tracker, TrackInv
<1>2. ASSUME NEW old \in SUBSET ltIds, NEW upto \in ltTracks.max..MaxTracks,
             ltIds' = ltIds \cup Landing!Matched(old, upto),
             ltTracks' = [total |-> ltTracks.total
                              + Landing!Cardinality({i \in Landing!Matched(old, upto) :
                                                          i > ltTracks.max}),
                          max |-> upto]
      PROVE  TrackInv'
  <2>1. ltTracks.max \in Nat /\ upto \in Nat /\ ltTracks.max <= upto
    BY <1>2 DEF TrackInv
  <2> DEFINE m == ltTracks.max
             new == m + 1 .. upto
  <2>k. old \subseteq 1..m /\ ltIds = 1..m /\ ltTracks.total = m
    BY DEF TrackInv
  <2>2. {i \in Landing!Matched(old, upto) : i > m} = new
    <3>1. \A i \in old : i \in Nat /\ i <= m
      BY <2>k, <2>1
    <3>2. \A i \in new : i > m
      BY <2>1
    <3>3. Landing!Matched(old, upto) = old \cup new
      BY DEF Landing!Matched
    <3>4. \A i \in old : ~(i > m)
      BY <3>1, <2>1
    <3> HIDE DEF m, new
    <3> QED
      BY <3>2, <3>3, <3>4
  <2>3. ltTracks'.total = upto /\ ltTracks'.max = upto
    <3>1. Landing!Cardinality(new) = upto - m
      BY <2>1, NewTracks
    <3>2. ltTracks'.total = m + Landing!Cardinality(new) /\ ltTracks'.max = upto
      BY <1>2, <2>2, <2>k
    <3> QED
      BY <3>1, <3>2, <2>1
  <2>4. ltIds' = 1..upto
    <3>1. ltIds' = (1..m) \cup new
      BY <1>2, <2>k DEF Landing!Matched
    <3>2. (1..m) \cup new = 1..upto
      BY <2>1
    <3> QED
      BY <3>1, <3>2
  <2> QED
    BY <1>2, <2>1, <2>3, <2>4 DEF TrackInv
<1> QED
  BY <1>1, <1>2 DEF Landing!Track

\* Each publish counts its target under one outcome, and only failures lengthen the streak.
LEMMA PublishKeeps ==
  ASSUME Landing!ConstantsOK, CountTypes, Landing!TargetsAccounted, StreakInv, Landing!Publish
  PROVE  CountTypes' /\ Landing!TargetsAccounted' /\ StreakInv'
<1>p. ltPc = "publish" /\ Tolerance \in Nat
  BY DEF Landing!Publish, Landing!ConstantsOK
<1>s. ltStreak <= Tolerance /\ ltFails = ltStreak /\ ltStreak \in Nat
  BY <1>p DEF StreakInv, CountTypes
<1>c. ASSUME NEW what, Landing!Counted(what)
      PROVE  /\ ltCount' \in [Landing!Outcomes -> Nat]
             /\ \A o \in Landing!Outcomes : ltCount'[o] = ltCount[o] + (IF o \in what THEN 1 ELSE 0)
  BY <1>c DEF Landing!Counted, CountTypes
<1>1. CASE ltPc' = "read" /\ UNCHANGED Landing!counters
  BY <1>1, <1>s, <1>p DEF Landing!counters, CountTypes, Landing!TargetsAccounted, StreakInv
<1>2. ASSUME NEW reason \in {"no_heartbeat", "no_pose", "unprojectable"}, Landing!Suppressed(reason)
      PROVE  CountTypes' /\ Landing!TargetsAccounted' /\ StreakInv'
  <2>1. Landing!Counted({"target", "suppressed", reason}) /\ UNCHANGED <<ltStreak, ltFails>>
    BY <1>2 DEF Landing!Suppressed
  <2>2. CountTypes'
    BY <1>s, <2>1, <1>c DEF CountTypes
  <2>3. Landing!TargetsAccounted'
    BY <2>1, <1>c, OutcomeFacts DEF CountTypes, Landing!TargetsAccounted
  <2>4. StreakInv'
    BY <2>1, <1>s, <1>p DEF StreakInv
  <2> QED
    BY <2>2, <2>3, <2>4
<1>3. CASE Landing!Sent
  <2>1. /\ \E slow \in BOOLEAN :
               Landing!Counted({"target", "published"} \cup (IF slow THEN {"slow"} ELSE {}))
        /\ ltStreak' = 0 /\ ltFails' = 0
    BY <1>3 DEF Landing!Sent
  <2>2. CountTypes'
    BY <2>1, <1>c DEF CountTypes
  <2>3. Landing!TargetsAccounted'
    BY <2>1, <1>c, OutcomeFacts DEF CountTypes, Landing!TargetsAccounted
  <2>4. StreakInv'
    BY <2>1, <1>p DEF StreakInv
  <2> QED
    BY <2>2, <2>3, <2>4
<1>4. CASE Landing!Raised
  <2>1. /\ Landing!Counted({"target", "failed"})
        /\ ltStreak' = ltStreak + 1 /\ ltFails' = ltFails + 1
        /\ ltPc' = IF ltStreak' > Tolerance THEN "close" ELSE "read"
    BY <1>4 DEF Landing!Raised
  <2>2. CountTypes'
    BY <1>s, <2>1, <1>c DEF CountTypes
  <2>3. Landing!TargetsAccounted'
    BY <2>1, <1>c, OutcomeFacts DEF CountTypes, Landing!TargetsAccounted
  <2>4. StreakInv'
    BY <2>1, <1>s, <1>p DEF StreakInv
  <2> QED
    BY <2>2, <2>3, <2>4
<1> QED
  BY <1>1, <1>2, <1>3, <1>4 DEF Landing!Publish, Landing!NedSuppressed

\* A message goes out only through a fresh monitor, and what made it fresh was heard.
LEMMA HeardKeeps ==
  ASSUME CountTypes, HeardInv, [Landing!Next]_Landing!vars
  PROVE  HeardInv'
<1>c. /\ ltCount \in [Landing!Outcomes -> Nat] /\ "published" \in Landing!Outcomes
      /\ "target" \in Landing!Outcomes /\ ltAge \in Int
  BY OutcomeFacts DEF CountTypes, HeardInv
<1>1. CASE Landing!Tick
  BY <1>1, <1>c DEF Landing!Tick, HeardInv, Landing!OnlyOnceHeard, Landing!Aged, Landing!config
<1>2. CASE Landing!Beat
  <2>1. PICK from \in {"autopilot", "other"} :
            /\ ltBeats' = Append(ltBeats, from)
            /\ ltHeard' = (ltHeard \/ from = "autopilot")
    BY <1>2 DEF Landing!Beat
  <2>2. ltBeats' \in Seq({"autopilot", "other"})
    BY <2>1 DEF HeardInv
  <2>3. \A i \in 1..Len(ltBeats') : ltBeats'[i] = "autopilot" => ltHeard'
    <3> SUFFICES ASSUME NEW i \in 1..Len(ltBeats'), ltBeats'[i] = "autopilot"
                 PROVE  ltHeard'
      OBVIOUS
    <3>1. ltBeats \in Seq({"autopilot", "other"})
      BY DEF HeardInv
    <3>2. CASE i \in 1..Len(ltBeats)
      <4>1. ltBeats[i] = "autopilot"
        BY <2>1, <3>1, <3>2
      <4> QED
        BY <2>1, <3>2, <4>1 DEF HeardInv
    <3>3. CASE i \notin 1..Len(ltBeats)
      <4>1. ltBeats'[i] = from
        BY <2>1, <3>1, <3>3
      <4> QED
        BY <2>1, <4>1
    <3> QED
      BY <3>2, <3>3
  <2> QED
    BY <1>2, <2>1, <2>2, <2>3 DEF Landing!Beat, HeardInv, Landing!OnlyOnceHeard, Landing!config,
                                  Landing!counters
<1>3. CASE Landing!PollHeartbeat
  <2>1. CASE UNCHANGED <<ltBeats, ltAge>>
    BY <1>3, <2>1 DEF Landing!PollHeartbeat, HeardInv, Landing!OnlyOnceHeard, Landing!config,
                      Landing!counters
  <2>2. CASE /\ ltBeats # <<>> /\ ltBeats' = Tail(ltBeats)
             /\ ltAge' = IF Landing!IsTarget(Head(ltBeats)) THEN 0 ELSE ltAge
    <3>1. ltBeats \in Seq({"autopilot", "other"}) /\ Len(ltBeats) >= 1
      BY <2>2 DEF HeardInv
    <3>2. /\ ltBeats' \in Seq({"autopilot", "other"})
          /\ \A i \in 1..Len(ltBeats') : ltBeats'[i] = ltBeats[i + 1]
          /\ Len(ltBeats') = Len(ltBeats) - 1
      BY <2>2, <3>1
    <3>3. ltHeard' = ltHeard
      BY <1>3 DEF Landing!PollHeartbeat
    <3>4. \A i \in 1..Len(ltBeats') : ltBeats'[i] = "autopilot" => ltHeard'
      BY <3>1, <3>2, <3>3 DEF HeardInv
    <3>5. Head(ltBeats) = ltBeats[1]
      BY <3>1
    <3>6. ltAge' # -1 => ltHeard'
      BY <2>2, <3>1, <3>3, <3>5 DEF Landing!IsTarget, HeardInv
    <3>7. ltAge' \in Int
      BY <2>2, <1>c
    <3>8. UNCHANGED <<ltGate, ltCount>>
      BY <1>3 DEF Landing!PollHeartbeat, Landing!config, Landing!counters
    <3> QED
      BY <3>2, <3>3, <3>4, <3>6, <3>7, <3>8 DEF HeardInv, Landing!OnlyOnceHeard
  <2> QED
    BY <1>3, <2>1, <2>2 DEF Landing!PollHeartbeat
<1>4. CASE Landing!Publish
  <2>1. UNCHANGED <<ltGate, ltBeats, ltAge, ltHeard>>
    BY <1>4 DEF Landing!Publish, Landing!config
  <2>2. CASE Landing!Sendable
    <3>1. ltGate => ltHeard
      BY <2>2 DEF Landing!Sendable, Landing!IsFresh, HeardInv
    <3> QED
      BY <2>1, <3>1 DEF HeardInv, Landing!OnlyOnceHeard
  <2>3. CASE ~Landing!Sendable
    <3>1. UNCHANGED Landing!counters \/ Landing!Suppressed("no_heartbeat")
      BY <1>4, <2>3 DEF Landing!Publish
    <3>2. ltCount'["published"] = ltCount["published"]
      BY <3>1, <1>c DEF Landing!counters, Landing!Suppressed, Landing!Counted
    <3> QED
      BY <2>1, <3>2 DEF HeardInv, Landing!OnlyOnceHeard
  <2> QED
    BY <2>2, <2>3
<1>5. CASE \/ Landing!RequestStop \/ Landing!Read \/ Landing!Track \/ Landing!Close
           \/ UNCHANGED Landing!vars
  <2>1. UNCHANGED <<ltGate, ltBeats, ltAge, ltHeard, ltCount>>
    BY <1>5 DEF Landing!RequestStop, Landing!Read, Landing!Track, Landing!Close, Landing!vars,
                Landing!config, Landing!link, Landing!counters, Landing!tracker
  <2> QED
    BY <2>1 DEF HeardInv, Landing!OnlyOnceHeard
<1> QED
  BY <1>1, <1>2, <1>3, <1>4, <1>5 DEF Landing!Next, Landing!Loop

\* The invariant is inductive.
LEMMA LandingInvariant ==
  ASSUME Landing!ConstantsOK
  PROVE  Landing!Init /\ [][Landing!Next]_Landing!vars => []LandingInv
<1>1. Landing!Init => LandingInv
  BY LandingInitInv
<1>2. LandingInv /\ [Landing!Next]_Landing!vars => LandingInv'
  <2> SUFFICES ASSUME LandingInv, [Landing!Next]_Landing!vars PROVE LandingInv'
    OBVIOUS
  <2>h. HeardInv'
    BY HeardKeeps DEF LandingInv
  <2>1. CASE \/ Landing!Tick \/ Landing!Beat \/ Landing!RequestStop \/ Landing!Read
             \/ Landing!PollHeartbeat \/ Landing!Close \/ UNCHANGED Landing!vars
    <3>1. UNCHANGED <<ltCount, ltStreak, ltFails, ltTracks, ltIds>>
      BY <2>1
      DEF Landing!Tick, Landing!Beat, Landing!RequestStop, Landing!Read, Landing!PollHeartbeat,
          Landing!Close, Landing!vars, Landing!counters, Landing!tracker
    <3>2. ltPc' \notin {"close", "closed"} => ltPc \notin {"close", "closed"}
      BY <2>1 DEF Landing!Tick, Landing!Beat, Landing!RequestStop, Landing!Read,
                  Landing!PollHeartbeat, Landing!Close, Landing!vars, Landing!loop
    <3> QED
      BY <2>h, <3>1, <3>2
      DEF LandingInv, CountTypes, Landing!TargetsAccounted, StreakInv, TrackInv
  <2>2. CASE Landing!Track
    <3>1. UNCHANGED Landing!counters /\ ltPc = "track"
      BY <2>2 DEF Landing!Track
    <3> QED
      BY <2>h, <2>2, <3>1, TrackKeeps
      DEF LandingInv, Landing!counters, CountTypes, Landing!TargetsAccounted, StreakInv
  <2>3. CASE Landing!Publish
    <3>1. UNCHANGED Landing!tracker
      BY <2>3 DEF Landing!Publish
    <3> QED
      BY <2>h, <2>3, <3>1, PublishKeeps DEF LandingInv, Landing!tracker, TrackInv
  <2> QED
    BY <2>1, <2>2, <2>3 DEF Landing!Next, Landing!Loop
<1> QED
  BY <1>1, <1>2, PTL

\* Pipeline._publish and run(): for every tolerance the loop goes on while no more publishes
\* in a row than tolerated have raised, whatever was suppressed in between; every target is
\* accounted for once, and tracks_total is the number of distinct tracks.  With
\* require_heartbeat nothing is published before the autopilot is heard, whichever other
\* systems are on the link.
THEOREM FailsLoudlyTheorem == ASSUME Landing!ConstantsOK PROVE Landing!Spec => []FailsLoudly
<1>1. LandingInv => FailsLoudly
  <2> SUFFICES ASSUME LandingInv PROVE FailsLoudly
    OBVIOUS
  <2>1. /\ ltPc \notin {"close", "closed"} => ltFails <= Tolerance
        /\ ltFails <= Tolerance + 1
    BY DEF LandingInv, StreakInv
  <2>2. Landing!TracksCounted
    <3>1. ltTracks.max \in Nat
      BY DEF LandingInv, TrackInv
    <3>2. Landing!Cardinality(0 + 1 .. ltTracks.max) = ltTracks.max - 0
      BY <3>1, NewTracks
    <3> QED
      BY <3>1, <3>2 DEF LandingInv, TrackInv, Landing!TracksCounted
  <2>3. Landing!OnlyOnceHeard
    BY DEF LandingInv, HeardInv
  <2> QED
    BY <2>1, <2>2, <2>3 DEF LandingInv, FailsLoudly, Landing!FailsLoudly
<1> QED
  BY <1>1, LandingInvariant, PTL DEF Landing!Spec

\* The counters stay within the number of targets, and the empty reads within their limit.
LandingTypes ==
    /\ Landing!TypeOK
    /\ ltPc \notin {"close", "closed"} => ltEmpties < MaxEmpties
    /\ \A o \in Landing!Outcomes : ltCount[o] <= ltCount["target"]
    /\ ltStreak <= ltCount["failed"] /\ ltFails <= ltCount["failed"]

LEMMA LandingBounds ==
  ASSUME Landing!ConstantsOK
  PROVE  /\ Tolerance \in Nat /\ MaxAge \in Nat /\ MaxGap \in Nat /\ MaxTargets \in Nat
         /\ MaxTracks \in Nat /\ MaxBeats \in Nat /\ MaxEmpties \in Nat /\ MaxEmpties > 0
<1>1. \A x \in {Tolerance, MaxAge, MaxGap, MaxTargets, MaxTracks, MaxBeats} : x \in Nat
  BY DEF Landing!ConstantsOK
<1>2. MaxEmpties \in Nat /\ MaxEmpties # 0
  BY DEF Landing!ConstantsOK
<1>3. MaxEmpties > 0
  BY <1>2
<1> QED
  BY <1>1, <1>2, <1>3

LEMMA AgedType ==
  ASSUME NEW limit \in Nat, NEW age \in Landing!Ages(limit)
  PROVE  Landing!Aged(age, limit) \in Landing!Ages(limit) /\ 0 \in Landing!Ages(limit)
  BY DEF Landing!Ages, Landing!Aged

LEMMA LandingTypesInit == ASSUME Landing!ConstantsOK PROVE Landing!Init => LandingTypes
<1> SUFFICES ASSUME Landing!Init PROVE LandingTypes
  OBVIOUS
<1>1. /\ ltGate \in BOOLEAN /\ ltFrame \in {"body_frd", "local_ned"} /\ ltPc = "read"
      /\ ltStop = FALSE /\ ltEmpties = 0 /\ ltConn \in BOOLEAN /\ ltBeats = <<>> /\ ltAge = -1
      /\ ltHeard = FALSE /\ ltSilence = 0 /\ ltCount = [o \in Landing!Outcomes |-> 0]
      /\ ltStreak = 0 /\ ltFails = 0 /\ ltGap = -1
      /\ ltTracks = [total |-> 0, max |-> 0] /\ ltIds = {}
  BY DEF Landing!Init
<1>2. /\ 0 \in 0..MaxEmpties /\ 0 < MaxEmpties /\ 0 \in 0..MaxTargets /\ 0 \in 0..MaxTracks
      /\ -1 \in Landing!Ages(MaxAge) /\ -1 \in Landing!Ages(MaxGap) /\ 0 \in Landing!Ages(MaxAge)
  BY LandingBounds DEF Landing!Ages
<1>3. ltStop \in BOOLEAN /\ ltHeard \in BOOLEAN /\ ltBeats \in Seq({"autopilot", "other"})
  <2>1. FALSE \in BOOLEAN /\ <<>> \in Seq({"autopilot", "other"})
    BY EmptySeq
  <2>2. ltStop \in BOOLEAN
    BY <1>1, <2>1
  <2>3. ltHeard \in BOOLEAN
    BY <1>1, <2>1
  <2> QED
    BY <1>1, <2>1, <2>2, <2>3
<1>4. ltCount \in [Landing!Outcomes -> 0..MaxTargets]
  BY <1>1, <1>2
<1>5. ltTracks \in [total : Nat, max : 0..MaxTracks] /\ ltIds \in SUBSET (1..MaxTracks)
  BY <1>1, <1>2
<1>6. Landing!TypeOK
  BY <1>1, <1>2, <1>3, <1>4, <1>5 DEF Landing!TypeOK
<1>7. \A o \in Landing!Outcomes : ltCount[o] = 0
  BY <1>1
<1> QED
  BY <1>1, <1>2, <1>6, <1>7, OutcomeFacts DEF LandingTypes

\* Publish counts each target once.
LEMMA PublishTypes ==
  ASSUME Landing!ConstantsOK, LandingTypes, Landing!Publish
  PROVE  LandingTypes'
<1>0. /\ ltCount \in [Landing!Outcomes -> 0..MaxTargets] /\ MaxTargets \in Nat
      /\ \A o \in Landing!Outcomes : ltCount[o] <= ltCount["target"] /\ ltCount[o] \in Nat
      /\ ltStreak \in Nat /\ ltFails \in Nat
      /\ ltStreak <= ltCount["failed"] /\ ltFails <= ltCount["failed"]
      /\ ltGap \in Landing!Ages(MaxGap) /\ 0 \in Landing!Ages(MaxGap)
  <2>1. ltCount \in [Landing!Outcomes -> 0..MaxTargets]
    BY DEF LandingTypes, Landing!TypeOK
  <2>2. ltStreak \in Nat /\ ltFails \in Nat /\ ltGap \in Landing!Ages(MaxGap)
    BY DEF LandingTypes, Landing!TypeOK
  <2>3. 0 \in Landing!Ages(MaxGap) /\ MaxTargets \in Nat
    BY LandingBounds DEF Landing!Ages
  <2>4. \A o \in Landing!Outcomes : ltCount[o] \in Nat
    BY <2>1
  <2> QED
    BY <2>1, <2>2, <2>3, <2>4 DEF LandingTypes
<1>1. /\ ltPc = "publish" /\ ltPc' \in {"read", "close"} /\ ltConn' \in BOOLEAN
      /\ UNCHANGED <<ltGate, ltFrame, ltStop, ltEmpties, ltBeats, ltAge, ltHeard, ltSilence,
                     ltTracks, ltIds>>
  <2>1. /\ ltPc = "publish"
        /\ UNCHANGED <<ltGate, ltFrame, ltStop, ltEmpties, ltBeats, ltAge, ltHeard, ltSilence,
                       ltTracks, ltIds>>
    BY DEF Landing!Publish, Landing!config, Landing!tracker
  <2>2. ltPc' \in {"read", "close"}
    BY DEF Landing!Publish, Landing!Suppressed, Landing!Sent, Landing!Raised,
           Landing!NedSuppressed
  <2>3. ltConn' \in {ltConn, TRUE}
    BY DEF Landing!Publish, Landing!Connected
  <2>4. ltConn \in BOOLEAN
    BY DEF LandingTypes, Landing!TypeOK
  <2> QED
    BY <2>1, <2>2, <2>3, <2>4
<1>2. CASE UNCHANGED Landing!counters
  <2>1. UNCHANGED <<ltCount, ltStreak, ltFails, ltGap>>
    BY <1>2 DEF Landing!counters
  <2> QED
    BY <1>1, <2>1 DEF LandingTypes, Landing!TypeOK
<1>3. CASE /\ ltCount["target"] < MaxTargets
           /\ \E what : "target" \in what /\ Landing!Counted(what)
                        /\ \/ ltStreak' = 0 /\ ltFails' = 0
                           \/ UNCHANGED <<ltStreak, ltFails>>
                           \/ /\ ltStreak' = ltStreak + 1 /\ ltFails' = ltFails + 1
                              /\ "failed" \in what
           /\ ltGap' \in {ltGap, 0}
  <2>1. PICK what : /\ "target" \in what /\ Landing!Counted(what)
                    /\ \/ ltStreak' = 0 /\ ltFails' = 0
                       \/ UNCHANGED <<ltStreak, ltFails>>
                       \/ /\ ltStreak' = ltStreak + 1 /\ ltFails' = ltFails + 1
                          /\ "failed" \in what
    BY <1>3
  <2>2. \A o \in Landing!Outcomes : ltCount'[o] = ltCount[o] + (IF o \in what THEN 1 ELSE 0)
    BY <2>1 DEF Landing!Counted
  <2>3. "target" \in Landing!Outcomes /\ "failed" \in Landing!Outcomes
    BY OutcomeFacts
  <2>4. ltCount'["target"] = ltCount["target"] + 1 /\ ltCount["target"] \in Nat
    BY <1>0, <2>1, <2>2, <2>3
  <2>5. \A o \in Landing!Outcomes : ltCount'[o] <= ltCount'["target"] /\ ltCount'[o] \in Nat
    BY <1>0, <2>2, <2>4
  <2>6. ltCount'["target"] <= MaxTargets
    BY <1>0, <1>3, <2>4
  <2>7. \A o \in Landing!Outcomes : ltCount'[o] \in 0..MaxTargets
    BY <1>0, <2>4, <2>5, <2>6
  <2>8. ltCount' \in [Landing!Outcomes -> 0..MaxTargets]
    BY <2>1, <2>7 DEF Landing!Counted
  <2>9. /\ ltCount["failed"] \in Nat /\ ltCount'["failed"] \in Nat
        /\ ltCount["failed"] <= ltCount'["failed"]
        /\ "failed" \in what => ltCount'["failed"] = ltCount["failed"] + 1
    BY <1>0, <2>2, <2>3
  <2>10. /\ ltStreak' \in Nat /\ ltFails' \in Nat
         /\ ltStreak' <= ltCount'["failed"] /\ ltFails' <= ltCount'["failed"]
    BY <1>0, <2>1, <2>9
  <2>11. ltCount'["failed"] <= MaxTargets
    BY <2>3, <2>7
  <2>12. ltStreak' \in 0..MaxTargets /\ ltFails' \in 0..MaxTargets
    BY <1>0, <2>9, <2>10, <2>11
  <2>13. ltGap' \in Landing!Ages(MaxGap)
    BY <1>0, <1>3
  <2> QED
    BY <1>1, <2>5, <2>8, <2>10, <2>12, <2>13 DEF LandingTypes, Landing!TypeOK
<1> QED
  <2>1. UNCHANGED Landing!counters
            \/ /\ ltCount["target"] < MaxTargets
               /\ \/ \E reason : Landing!Suppressed(reason)
                  \/ Landing!Sent \/ Landing!Raised
    BY DEF Landing!Publish, Landing!NedSuppressed
  <2>2. ASSUME NEW reason, Landing!Suppressed(reason), ltCount["target"] < MaxTargets
        PROVE  LandingTypes'
    BY <1>3, <2>2 DEF Landing!Suppressed
  <2>3. ASSUME Landing!Sent, ltCount["target"] < MaxTargets PROVE LandingTypes'
    <3>1. "target" \in {"target", "published"} \cup (IF Landing!Slow THEN {"slow"} ELSE {})
      OBVIOUS
    <3> QED
      BY <1>3, <2>3, <3>1 DEF Landing!Sent
  <2>4. ASSUME Landing!Raised, ltCount["target"] < MaxTargets PROVE LandingTypes'
    BY <1>3, <2>4 DEF Landing!Raised
  <2> QED
    BY <1>2, <2>1, <2>2, <2>3, <2>4

LEMMA LandingTypesKeep ==
  ASSUME Landing!ConstantsOK, LandingTypes, [Landing!Next]_Landing!vars
  PROVE  LandingTypes'
<1> USE DEF Landing!config, Landing!counters, Landing!link, Landing!tracker, Landing!loop
<1>1. CASE Landing!Tick
  <2>1. /\ Landing!Aged(ltAge, MaxAge) \in Landing!Ages(MaxAge)
        /\ Landing!Aged(ltSilence, MaxAge) \in Landing!Ages(MaxAge)
        /\ Landing!Aged(ltGap, MaxGap) \in Landing!Ages(MaxGap)
    BY AgedType, LandingBounds DEF LandingTypes, Landing!TypeOK
  <2> QED
    BY <1>1, <2>1 DEF Landing!Tick, LandingTypes, Landing!TypeOK
<1>2. CASE Landing!Beat
  <2>1. PICK from \in {"autopilot", "other"} :
            /\ ltBeats' = Append(ltBeats, from)
            /\ ltHeard' = (ltHeard \/ from = "autopilot")
            /\ ltSilence' = IF from = "autopilot" THEN 0 ELSE ltSilence
    BY <1>2 DEF Landing!Beat
  <2>2. ltBeats' \in Seq({"autopilot", "other"})
    BY <2>1, AppendProperties DEF LandingTypes, Landing!TypeOK
  <2>3. ltHeard' \in BOOLEAN /\ ltSilence' \in Landing!Ages(MaxAge)
    BY <2>1, AgedType, LandingBounds DEF LandingTypes, Landing!TypeOK
  <2> QED
    BY <1>2, <2>2, <2>3 DEF Landing!Beat, LandingTypes, Landing!TypeOK
<1>3. CASE Landing!RequestStop
  BY <1>3 DEF Landing!RequestStop, LandingTypes, Landing!TypeOK
<1>4. CASE Landing!Read
  <2>1. /\ ltPc' \in {"read", "track", "close"} /\ ltEmpties' \in 0..MaxEmpties
        /\ ltPc' \notin {"close", "closed"} => ltEmpties' < MaxEmpties
    <3>1. ltPc = "read" /\ ltEmpties \in 0..MaxEmpties /\ ltEmpties < MaxEmpties
      BY <1>4 DEF Landing!Read, LandingTypes, Landing!TypeOK
    <3> QED
      BY <1>4, <3>1, LandingBounds DEF Landing!Read
  <2>2. UNCHANGED <<ltGate, ltFrame, ltStop, ltConn, ltBeats, ltAge, ltHeard, ltSilence,
                    ltCount, ltStreak, ltFails, ltGap, ltTracks, ltIds>>
    BY <1>4 DEF Landing!Read
  <2> QED
    BY <2>1, <2>2 DEF LandingTypes, Landing!TypeOK
<1>5. CASE Landing!Track
  <2>1. /\ ltPc = "track" /\ ltPc' = "poll"
        /\ UNCHANGED <<ltGate, ltFrame, ltStop, ltEmpties, ltConn, ltBeats, ltAge, ltHeard,
                       ltSilence, ltCount, ltStreak, ltFails, ltGap>>
    BY <1>5 DEF Landing!Track
  <2>2. /\ ltTracks \in [total : Nat, max : 0..MaxTracks] /\ ltIds \in SUBSET (1..MaxTracks)
    BY DEF LandingTypes, Landing!TypeOK
  <2>3. ltTracks' \in [total : Nat, max : 0..MaxTracks] /\ ltIds' \in SUBSET (1..MaxTracks)
    <3>1. CASE UNCHANGED <<ltTracks, ltIds>>
      BY <2>2, <3>1
    <3>2. ASSUME NEW old \in SUBSET ltIds, NEW upto \in ltTracks.max..MaxTracks,
                 ltIds' = ltIds \cup Landing!Matched(old, upto),
                 ltTracks' = [total |-> ltTracks.total
                                  + Landing!Cardinality({i \in Landing!Matched(old, upto) :
                                                             i > ltTracks.max}),
                              max |-> upto]
          PROVE  ltTracks' \in [total : Nat, max : 0..MaxTracks] /\ ltIds' \in SUBSET (1..MaxTracks)
      <4> DEFINE new == {i \in Landing!Matched(old, upto) : i > ltTracks.max}
      <4>1. /\ ltTracks.max \in Nat /\ upto \in Nat /\ upto \in 0..MaxTracks
            /\ ltTracks.total \in Nat /\ MaxTracks \in Nat
        BY <2>2, <3>2, LandingBounds
      <4>2. Landing!Matched(old, upto) \subseteq 1..MaxTracks
        <5>1. ltTracks.max + 1 .. upto \subseteq 1..MaxTracks
          BY <4>1
        <5>2. old \subseteq 1..MaxTracks
          BY <2>2
        <5> QED
          BY <5>1, <5>2 DEF Landing!Matched
      <4>3. Landing!Cardinality(new) \in Nat
        <5>1. Landing!Cardinality(new) = Cardinality(new)
          BY DEF Landing!Cardinality, Cardinality
        <5>2. new \subseteq 1..MaxTracks
          BY <4>2
        <5> HIDE DEF new
        <5>3. IsFiniteSet(1..MaxTracks)
          BY <4>1, FS_Interval
        <5>4. IsFiniteSet(new)
          BY <5>2, <5>3, FS_Subset
        <5>5. Cardinality(new) \in Nat
          BY <5>4, FS_CardinalityType
        <5> QED
          BY <5>1, <5>5
      <4>4. ltTracks' = [total |-> ltTracks.total + Landing!Cardinality(new), max |-> upto]
        BY <3>2
      <4>5. ltIds' \in SUBSET (1..MaxTracks)
        BY <2>2, <3>2, <4>2
      <4> HIDE DEF new
      <4>6. ltTracks.total + Landing!Cardinality(new) \in Nat
        BY <4>1, <4>3
      <4> QED
        BY <4>1, <4>4, <4>5, <4>6
    <3> QED
      BY <1>5, <3>1, <3>2 DEF Landing!Track
  <2> QED
    BY <2>1, <2>3 DEF LandingTypes, Landing!TypeOK
<1>6. CASE Landing!PollHeartbeat
  <2>1. /\ ltPc = "poll" /\ ltPc' = "publish"
        /\ UNCHANGED <<ltGate, ltFrame, ltStop, ltEmpties, ltHeard, ltSilence, ltCount,
                       ltStreak, ltFails, ltGap, ltTracks, ltIds>>
    BY <1>6 DEF Landing!PollHeartbeat
  <2>2. /\ ltConn \in BOOLEAN /\ ltBeats \in Seq({"autopilot", "other"})
        /\ ltAge \in Landing!Ages(MaxAge) /\ 0 \in Landing!Ages(MaxAge)
    BY AgedType, LandingBounds DEF LandingTypes, Landing!TypeOK
  <2>3. /\ ltConn' \in {ltConn, TRUE}
        /\ ltBeats' = ltBeats \/ (ltBeats # <<>> /\ ltBeats' = Tail(ltBeats))
        /\ ltAge' \in {ltAge, 0}
    BY <1>6 DEF Landing!PollHeartbeat, Landing!Connected
  <2>4. ltConn' \in BOOLEAN /\ ltAge' \in Landing!Ages(MaxAge)
    BY <2>2, <2>3
  <2>5. ltBeats' \in Seq({"autopilot", "other"})
    BY <2>2, <2>3, HeadTailProperties
  <2> QED
    BY <2>1, <2>4, <2>5 DEF LandingTypes, Landing!TypeOK
<1>7. CASE Landing!Publish
  BY <1>7, PublishTypes
<1>8. CASE Landing!Close
  <2>1. ltConn' = FALSE => ltConn' \in BOOLEAN
    OBVIOUS
  <2> QED
    BY <1>8, <2>1 DEF Landing!Close, Landing!CloseBridge, LandingTypes, Landing!TypeOK
<1>9. CASE UNCHANGED Landing!vars
  BY <1>9 DEF Landing!vars, LandingTypes, Landing!TypeOK
<1> QED
  BY <1>1, <1>2, <1>3, <1>4, <1>5, <1>6, <1>7, <1>8, <1>9 DEF Landing!Next, Landing!Loop

LEMMA LandingTypesInvariant == ASSUME Landing!ConstantsOK PROVE Landing!Spec => []LandingTypes
<1>1. Landing!Init => LandingTypes
  BY LandingTypesInit
<1>2. LandingTypes /\ [Landing!Next]_Landing!vars => LandingTypes'
  BY LandingTypesKeep
<1> QED
  BY <1>1, <1>2, PTL DEF Landing!Spec

-----------------------------------------------------------------------------
(* CrsfLink: what extract_frames takes and leaves.                                          *)

LinkCells == [frame : Link!Frames, at : 0..FrameLen, len : 0 .. MaxFrameLen + 1]
Rank(P, i) == Cardinality({j \in P : j <= i})

LEMMA RankType ==
  ASSUME NEW m \in Nat, NEW P \in SUBSET (1..m), NEW i \in Int
  PROVE  /\ IsFiniteSet(P) /\ IsFiniteSet({j \in P : j <= i})
         /\ Rank(P, i) \in Nat /\ Cardinality(P) \in Nat /\ Rank(P, i) <= Cardinality(P)
<1>1. IsFiniteSet(1..m)
  BY FS_Interval
<1>2. IsFiniteSet(P)
  BY <1>1, FS_Subset
<1> DEFINE Q == {j \in P : j <= i}
<1>3. Q \subseteq P
  OBVIOUS
<1> HIDE DEF Q
<1>4. IsFiniteSet(Q) /\ Cardinality(Q) <= Cardinality(P)
  BY <1>2, <1>3, FS_Subset
<1>5. Cardinality(Q) \in Nat /\ Cardinality(P) \in Nat
  BY <1>2, <1>4, FS_CardinalityType
<1> QED
  BY <1>2, <1>4, <1>5 DEF Rank, Q

\* A member of the set counts one more than those below it.
LEMMA RankStep ==
  ASSUME NEW m \in Nat, NEW P \in SUBSET (1..m), NEW i \in P
  PROVE  /\ Cardinality({j \in P : j < i}) \in Nat
         /\ Rank(P, i) = Cardinality({j \in P : j < i}) + 1
<1> DEFINE Q == {j \in P : j < i}
<1>0. i \in Int /\ \A j \in P : j \in Int
  OBVIOUS
<1>1. IsFiniteSet(P)
  BY <1>0, RankType
<1>2. Q \subseteq P /\ i \notin Q /\ {j \in P : j <= i} = Q \cup {i}
  <2>1. \A j \in P : j <= i <=> j < i \/ j = i
    BY <1>0
  <2>2. ~ (i < i)
    BY <1>0
  <2> QED
    BY <2>1, <2>2
<1> HIDE DEF Q
<1>3. IsFiniteSet(Q)
  BY <1>1, <1>2, FS_Subset
<1>4. Cardinality(Q \cup {i}) = Cardinality(Q) + 1 /\ Cardinality(Q) \in Nat
  BY <1>2, <1>3, FS_AddElement, FS_CardinalityType
<1> QED
  BY <1>2, <1>4 DEF Rank, Q

LEMMA RankGrows ==
  ASSUME NEW m \in Nat, NEW P \in SUBSET (1..m), NEW i \in P, NEW k \in P, i < k
  PROVE  Rank(P, i) < Rank(P, k)
<1> DEFINE Q == {j \in P : j < k}
           R == {j \in P : j <= i}
<1>0. i \in Int /\ k \in Int /\ \A j \in P : j \in Int
  OBVIOUS
<1>1. R \subseteq Q /\ Q \subseteq P
  <2>1. \A j \in P : j <= i => j < k
    BY <1>0
  <2> QED
    BY <2>1
<1>2. IsFiniteSet(P) /\ Rank(P, i) \in Nat
  BY <1>0, RankType
<1>3. Rank(P, k) = Cardinality(Q) + 1 /\ Cardinality(Q) \in Nat
  BY RankStep
<1> HIDE DEF Q, R
<1>4. IsFiniteSet(Q)
  BY <1>1, <1>2, FS_Subset
<1>5. Cardinality(R) <= Cardinality(Q)
  BY <1>1, <1>4, FS_Subset
<1>6. Rank(P, i) = Cardinality(R)
  BY DEF Rank, R
<1> QED
  BY <1>2, <1>3, <1>5, <1>6

\* The lowest of a set of numbers, and the highest.
LEMMA Lowest ==
  ASSUME NEW P \in SUBSET Nat, P # {}
  PROVE  \E i \in P : \A j \in P : i <= j
<1>1. IsWellFoundedOn(OpToRel(<, Nat), Nat)
  BY NatLessThanWellFounded
<1>2. PICK i \in P : \A j \in P : ~ (<<j, i>> \in OpToRel(<, Nat))
  BY <1>1, WFMin
<1>3. \A j \in P : j < i => <<j, i>> \in OpToRel(<, Nat)
  BY DEF OpToRel
<1>4. ASSUME NEW j \in P PROVE i <= j
  <2>1. i \in Nat /\ j \in Nat
    OBVIOUS
  <2>2. ~ (j < i)
    BY <1>2, <1>3
  <2> QED
    BY <2>1, <2>2
<1> QED
  BY <1>4

LEMMA Highest ==
  ASSUME NEW m \in Nat, NEW P \in SUBSET (1..m), P # {}
  PROVE  \E i \in P : \A j \in P : j <= i
<1> DEFINE Q == {m - i : i \in P}
<1>1. Q \in SUBSET Nat /\ Q # {}
  OBVIOUS
<1>2. PICK q \in Q : \A r \in Q : q <= r
  BY <1>1, Lowest
<1>3. PICK i \in P : q = m - i
  OBVIOUS
<1>4. ASSUME NEW j \in P PROVE j <= i
  <2>1. m - j \in Q
    OBVIOUS
  <2>2. m - i <= m - j
    BY <1>2, <1>3, <2>1
  <2> QED
    BY <2>2
<1> QED
  BY <1>4

\* Nth and Rank are inverse to each other.
LEMMA NthOfRank ==
  ASSUME NEW m \in Nat, NEW P \in SUBSET (1..m), NEW i \in P
  PROVE  /\ Rank(P, i) \in 1..Cardinality(P) /\ Link!Nth(P, Rank(P, i)) = i
<1>0. i \in Int /\ \A j \in P : j \in Int
  OBVIOUS
<1>1. Rank(P, i) \in 1..Cardinality(P)
  <2>1. Rank(P, i) \in Nat /\ Cardinality(P) \in Nat /\ Rank(P, i) <= Cardinality(P)
    BY <1>0, RankType
  <2>2. Cardinality({j \in P : j < i}) \in Nat /\ Rank(P, i) = Cardinality({j \in P : j < i}) + 1
    BY RankStep
  <2> QED
    BY <2>1, <2>2
<1>2. ASSUME NEW j \in P, Rank(P, j) = Rank(P, i) PROVE j = i
  <2>1. i \in Int /\ j \in Int /\ Rank(P, i) \in Int
    BY <1>0, <1>1
  <2>2. CASE i < j
    <3>1. Rank(P, i) < Rank(P, j)
      BY <2>2, RankGrows
    <3> QED
      BY <1>2, <2>1, <3>1
  <2>3. CASE j < i
    <3>1. Rank(P, j) < Rank(P, i)
      BY <2>3, RankGrows
    <3> QED
      BY <1>2, <2>1, <3>1
  <2> QED
    BY <2>1, <2>2, <2>3
<1>3. Link!Nth(P, Rank(P, i)) = CHOOSE j \in P : Rank(P, j) = Rank(P, i)
  BY DEF Link!Nth, Link!Cardinality, Rank, Cardinality
<1> QED
  BY <1>1, <1>2, <1>3

LEMMA RankOfNth ==
  ASSUME NEW m \in Nat, NEW P \in SUBSET (1..m), NEW n \in 1..Cardinality(P)
  PROVE  Link!Nth(P, n) \in P /\ Rank(P, Link!Nth(P, n)) = n
<1>0. /\ P \subseteq Nat /\ \A j \in P : j \in Int
      /\ IsFiniteSet(P) /\ Cardinality(P) \in Nat
  <2>1. P \subseteq Nat /\ \A j \in P : j \in Int
    OBVIOUS
  <2>2. IsFiniteSet(P)
    BY 0 \in Int, RankType
  <2> QED
    BY <2>1, <2>2, FS_CardinalityType
<1>1. P # {}
  BY <1>0, FS_EmptySet
<1> DEFINE Q == {i \in P : n <= Rank(P, i)}
<1>2. Q # {}
  <2>1. PICK i \in P : \A j \in P : j <= i
    BY <1>1, Highest
  <2>2. {j \in P : j <= i} = P
    BY <2>1
  <2>3. Rank(P, i) = Cardinality(P)
    BY <2>2 DEF Rank
  <2> QED
    BY <1>0, <2>3
<1>3. PICK i \in Q : \A j \in Q : i <= j
  BY <1>0, <1>2, Lowest
<1>4. i \in P /\ i \in Int /\ n <= Rank(P, i) /\ Rank(P, i) \in Nat
  BY <1>0, <1>3, RankType
<1> DEFINE B == {j \in P : j < i}
<1>5. Rank(P, i) = Cardinality(B) + 1 /\ Cardinality(B) \in Nat
  BY <1>4, RankStep
<1>6. Cardinality(B) < n
  <2>1. CASE B = {}
    <3>1. Cardinality(B) = 0
      BY <2>1, FS_EmptySet
    <3> QED
      BY <3>1
  <2>2. CASE B # {}
    <3>1. B \in SUBSET (1..m)
      OBVIOUS
    <3>2. PICK k \in B : \A j \in B : j <= k
      <4> HIDE DEF B
      <4> QED
        BY <2>2, <3>1, Highest
    <3>3. k \in P /\ k \in Int /\ k < i
      BY <1>0, <3>2
    <3>4. {j \in P : j <= k} = B
      <4>1. ASSUME NEW j \in P PROVE j <= k <=> j < i
        <5>1. j \in Int
          BY <1>0
        <5>2. j < i => j <= k
          BY <3>2
        <5> QED
          BY <1>4, <3>3, <5>1, <5>2
      <4> QED
        BY <4>1
    <3>5. Rank(P, k) = Cardinality(B)
      BY <3>4 DEF Rank
    <3>6. ~ (n <= Rank(P, k))
      BY <1>3, <1>4, <3>3
    <3> QED
      BY <1>5, <3>5, <3>6
  <2> QED
    BY <2>1, <2>2
<1>7. Rank(P, i) = n
  BY <1>4, <1>5, <1>6
<1>8. Link!Nth(P, Rank(P, i)) = i
  BY <1>4, NthOfRank
<1> QED
  BY <1>4, <1>7, <1>8

\* Two sets of which one is the other, moved.
LEMMA MovedSet ==
  ASSUME NEW m \in Nat, NEW P \in SUBSET (1..m), NEW d \in Int, NEW Q, Q = {i + d : i \in P}
  PROVE  IsFiniteSet(Q) /\ Cardinality(Q) = Cardinality(P)
<1>1. IsFiniteSet(P)
  BY 0 \in Int, RankType
<1> DEFINE f == [i \in P |-> i + d]
<1>2. \A i \in P : i \in Int
  OBVIOUS
<1>3. f \in Bijection(P, Q)
  <2>1. f \in [P -> Q]
    OBVIOUS
  <2>2. \A i, j \in P : f[i] = f[j] => i = j
    BY <1>2
  <2>3. \A q \in Q : \E i \in P : f[i] = q
    OBVIOUS
  <2> HIDE DEF f
  <2> QED
    BY <2>1, <2>2, <2>3 DEF Bijection, Injection, Surjection, IsInjective
<1>4. ExistsBijection(P, Q)
  BY <1>3 DEF ExistsBijection
<1> QED
  BY <1>1, <1>4, FS_Bijection

\* Cutting a set of positions in two: the second part is counted from the cut.
Before(P, s) == {i \in P : i < s}
From(P, s, m) == {k \in 1 .. m - s + 1 : k + s - 1 \in P}

LEMMA CutRanks ==
  ASSUME NEW m \in Nat, NEW P \in SUBSET (1..m), NEW s \in 1 .. m + 1
  PROVE  /\ Before(P, s) \in SUBSET (1..m) /\ From(P, s, m) \in SUBSET (1 .. m - s + 1)
         /\ m - s + 1 \in Nat
         /\ Cardinality(P) = Cardinality(Before(P, s)) + Cardinality(From(P, s, m))
         /\ \A i \in Before(P, s) : i \in P /\ Rank(P, i) = Rank(Before(P, s), i)
         /\ \A k \in From(P, s, m) :
                /\ k + s - 1 \in P
                /\ Rank(P, k + s - 1) = Cardinality(Before(P, s)) + Rank(From(P, s, m), k)
<1> DEFINE A == Before(P, s)
           B == From(P, s, m)
<1>1. /\ A \in SUBSET (1..m) /\ B \in SUBSET (1 .. m - s + 1) /\ m - s + 1 \in Nat
      /\ A \in SUBSET P
  <2>1. A \in SUBSET P /\ B \in SUBSET (1 .. m - s + 1)
    BY DEF Before, From
  <2>2. m - s + 1 \in Nat
    OBVIOUS
  <2>3. A \in SUBSET (1..m)
    BY <2>1
  <2> QED
    BY <2>1, <2>2, <2>3
<1>2. \A i \in P : i \in Int /\ 1 <= i /\ i <= m
  OBVIOUS
<1>3. IsFiniteSet(P) /\ IsFiniteSet(A) /\ IsFiniteSet(B)
  <2>1. IsFiniteSet(P)
    BY 0 \in Int, RankType
  <2>2. IsFiniteSet(B)
    BY <1>1, 0 \in Int, RankType
  <2> QED
    BY <1>1, <2>1, <2>2, FS_Subset
\* The members from s up to t, and as they are counted from the cut.
<1>4. ASSUME NEW t \in Int
      PROVE  /\ IsFiniteSet({i \in P : s <= i /\ i <= t})
             /\ Cardinality({i \in P : s <= i /\ i <= t}) = Cardinality({k \in B : k <= t - s + 1})
  <2> DEFINE R == {k \in B : k <= t - s + 1}
             Q == {i \in P : s <= i /\ i <= t}
  <2>1. R \in SUBSET (1 .. m - s + 1)
    BY <1>1
  <2>2. Q = {k + (s - 1) : k \in R}
    <3>1. ASSUME NEW i \in Q PROVE \E k \in R : i = k + (s - 1)
      <4>1. /\ i \in Int /\ s <= i /\ i <= t /\ i <= m /\ s \in Int /\ m \in Int /\ t \in Int
            /\ i \in P
        BY <1>2
      <4>2. (i - s + 1) + s - 1 = i /\ i - s + 1 \in 1 .. m - s + 1 /\ i - s + 1 <= t - s + 1
        BY <4>1
      <4>3. i - s + 1 \in R
        BY <4>1, <4>2 DEF From
      <4>4. i = (i - s + 1) + (s - 1)
        BY <4>1
      <4> QED
        BY <4>3, <4>4
    <3>2. ASSUME NEW k \in R PROVE k + (s - 1) \in Q
      <4>1. k \in Int /\ 1 <= k /\ k <= t - s + 1 /\ s \in Int /\ k + s - 1 \in P
        BY DEF From
      <4>2. k + (s - 1) = k + s - 1 /\ s <= k + s - 1 /\ k + s - 1 <= t
        BY <4>1
      <4> QED
        BY <4>1, <4>2
    <3> QED
      BY <3>1, <3>2
  <2>3. s - 1 \in Int
    OBVIOUS
  <2> HIDE DEF R, Q
  <2>4. IsFiniteSet(Q) /\ Cardinality(Q) = Cardinality(R)
    BY <1>1, <2>1, <2>2, <2>3, MovedSet
  <2> QED
    BY <2>4 DEF Q, R
\* A, and what is between the cut and t, are all up to t.
<1>5. ASSUME NEW t \in Int, s - 1 <= t
      PROVE  Rank(P, t) = Cardinality(A) + Rank(B, t - s + 1)
  <2> DEFINE Q == {i \in P : s <= i /\ i <= t}
             U == {i \in P : i <= t}
  <2>1. A \cap Q = {} /\ A \cup Q = U
    <3>1. \A i \in P : /\ i <= t <=> i < s \/ (s <= i /\ i <= t)
                      /\ ~ (i < s /\ s <= i)
      BY <1>2, <1>5
    <3> QED
      BY <3>1 DEF Before
  <2>2. IsFiniteSet(Q) /\ Cardinality(Q) = Rank(B, t - s + 1)
    BY <1>4 DEF Rank
  <2>3. Rank(P, t) = Cardinality(U)
    BY DEF Rank
  <2> HIDE DEF A, B, Q, U
  <2>4. Cardinality(A \cup Q) = Cardinality(A) + Cardinality(Q) - Cardinality(A \cap Q)
    BY <1>3, <2>2, FS_Union
  <2>5. Cardinality(A \cap Q) = 0 /\ Cardinality(A) \in Nat /\ Cardinality(Q) \in Nat
    BY <1>3, <2>1, <2>2, FS_EmptySet, FS_CardinalityType
  <2>6. Cardinality(A \cup Q) = Cardinality(U)
    BY <2>1
  <2> QED
    BY <2>2, <2>3, <2>4, <2>5, <2>6
<1>6. Cardinality(P) = Cardinality(A) + Cardinality(B)
  <2>1. {i \in P : i <= m} = P
    BY <1>2
  <2>2. {k \in B : k <= m - s + 1} = B
    BY <1>1
  <2>3. Rank(P, m) = Cardinality(P) /\ Rank(B, m - s + 1) = Cardinality(B)
    BY <2>1, <2>2 DEF Rank
  <2>4. s - 1 <= m
    OBVIOUS
  <2> QED
    BY <1>5, <2>3, <2>4
<1>7. ASSUME NEW i \in A PROVE i \in P /\ Rank(P, i) = Rank(A, i)
  <2>1. i \in P /\ i < s /\ i \in Int /\ s \in Int
    BY <1>2 DEF Before
  <2>2. \A j \in P : j <= i => j \in A
    BY <1>2, <2>1 DEF Before
  <2>3. {j \in P : j <= i} = {j \in A : j <= i}
    BY <1>1, <2>2
  <2> QED
    BY <2>1, <2>3 DEF Rank
<1>8. ASSUME NEW k \in B
      PROVE  k + s - 1 \in P /\ Rank(P, k + s - 1) = Cardinality(A) + Rank(B, k)
  <2>1. k \in Int /\ 1 <= k /\ s \in Int /\ k + s - 1 \in P
    BY DEF From
  <2>2. k + s - 1 \in Int /\ s - 1 <= k + s - 1 /\ (k + s - 1) - s + 1 = k
    BY <2>1
  <2> QED
    BY <1>5, <2>1, <2>2
<1> QED
  BY <1>1, <1>6, <1>7, <1>8

LEMMA FramesType ==
  ASSUME NEW cells \in Seq(LinkCells), NEW P \in SUBSET (1..Len(cells))
  PROVE  /\ Link!FramesAt(cells, P) \in Seq(Link!Frames)
         /\ Len(Link!FramesAt(cells, P)) = Cardinality(P) /\ Cardinality(P) \in Nat
         /\ \A n \in 1..Cardinality(P) : /\ Link!Nth(P, n) \in P
                                         /\ Link!FramesAt(cells, P)[n] = cells[Link!Nth(P, n)].frame
<1>1. Len(cells) \in Nat
  BY LenProperties
<1>2. Cardinality(P) \in Nat
  BY <1>1, 0 \in Int, RankType
<1>3. \A n \in 1..Cardinality(P) : Link!Nth(P, n) \in P
  BY <1>1, RankOfNth
<1>4. ASSUME NEW i \in 1..Len(cells) PROVE cells[i].frame \in Link!Frames
  <2>1. cells[i] \in LinkCells
    BY ElementOfSeq
  <2> QED
    BY <2>1 DEF LinkCells
<1> DEFINE e(n) == cells[Link!Nth(P, n)].frame
<1>5. Link!FramesAt(cells, P) = [n \in 1..Cardinality(P) |-> e(n)]
  BY DEF Link!FramesAt, Link!Cardinality, Cardinality
<1>6. \A n \in 1..Cardinality(P) : e(n) \in Link!Frames
  BY <1>3, <1>4
<1> HIDE DEF e
<1>7. [n \in 1..Cardinality(P) |-> e(n)] \in Seq(Link!Frames)
  BY <1>2, <1>6, IsASeq
<1>8. Len([n \in 1..Cardinality(P) |-> e(n)]) = Cardinality(P)
  BY <1>2, <1>7, LenProperties
<1> QED
  BY <1>2, <1>3, <1>5, <1>7, <1>8 DEF e

\* What is cut at s gives the frames before s and those from s on.
LEMMA FramesCut ==
  ASSUME NEW cells \in Seq(LinkCells), NEW P \in SUBSET (1..Len(cells)),
         NEW s \in 1 .. Len(cells) + 1
  PROVE  Link!FramesAt(cells, P) =
             Link!FramesAt(cells, Before(P, s))
                 \o Link!FramesAt(SubSeq(cells, s, Len(cells)), From(P, s, Len(cells)))
<1> DEFINE m == Len(cells)
           A == Before(P, s)
           B == From(P, s, m)
           rest == SubSeq(cells, s, m)
           F == Link!FramesAt(cells, P)
           G == Link!FramesAt(cells, A)
           H == Link!FramesAt(rest, B)
<1>1. m \in Nat /\ s \in Int /\ 1 <= s /\ s <= m + 1
  BY LenProperties
<1>2. /\ A \in SUBSET (1..m) /\ B \in SUBSET (1 .. m - s + 1) /\ m - s + 1 \in Nat
      /\ Cardinality(P) = Cardinality(A) + Cardinality(B)
      /\ \A i \in A : i \in P /\ Rank(P, i) = Rank(A, i)
      /\ \A k \in B : /\ k + s - 1 \in P
                      /\ Rank(P, k + s - 1) = Cardinality(A) + Rank(B, k)
  BY <1>1, CutRanks
<1>3. /\ rest \in Seq(LinkCells) /\ Len(rest) = m - s + 1
      /\ \A k \in 1 .. m - s + 1 : rest[k] = cells[s + k - 1]
  <2>1. \A i \in s..m : cells[i] \in LinkCells
    BY <1>1, ElementOfSeq
  <2> HIDE DEF m
  <2>2. /\ SubSeq(cells, s, m) \in Seq(LinkCells)
        /\ Len(SubSeq(cells, s, m)) = IF s <= m THEN m - s + 1 ELSE 0
        /\ \A i \in 1 .. m - s + 1 : SubSeq(cells, s, m)[i] = cells[s + i - 1]
    BY <1>1, <2>1, SubSeqProperties
  <2> QED
    BY <1>1, <2>2
<1>4. /\ F \in Seq(Link!Frames) /\ Len(F) = Cardinality(P)
      /\ \A n \in 1..Cardinality(P) : F[n] = cells[Link!Nth(P, n)].frame
  BY FramesType
<1>5. /\ G \in Seq(Link!Frames) /\ Len(G) = Cardinality(A) /\ Cardinality(A) \in Nat
      /\ \A n \in 1..Cardinality(A) : Link!Nth(A, n) \in A /\ G[n] = cells[Link!Nth(A, n)].frame
  BY <1>2, FramesType
<1>6. /\ H \in Seq(Link!Frames) /\ Len(H) = Cardinality(B) /\ Cardinality(B) \in Nat
      /\ \A n \in 1..Cardinality(B) : Link!Nth(B, n) \in B /\ H[n] = rest[Link!Nth(B, n)].frame
  <2> HIDE DEF rest, B
  <2>1. B \in SUBSET (1..Len(rest)) /\ rest \in Seq(LinkCells)
    BY <1>2, <1>3
  <2> QED
    BY <2>1, FramesType
<1> HIDE DEF F, G, H, A, B, rest, m
<1>7. /\ G \o H \in Seq(Link!Frames) /\ Len(G \o H) = Len(G) + Len(H)
      /\ \A n \in 1 .. Len(G) + Len(H) :
             (G \o H)[n] = IF n <= Len(G) THEN G[n] ELSE H[n - Len(G)]
  BY <1>5, <1>6, ConcatProperties
<1>8. ASSUME NEW n \in 1..Len(F) PROVE F[n] = (G \o H)[n]
  <2>0. n \in Int /\ 1 <= n /\ n <= Cardinality(A) + Cardinality(B) /\ n \in 1..Cardinality(P)
    BY <1>2, <1>4, <1>5, <1>6, <1>8
  <2>1. CASE n <= Cardinality(A)
    <3>1. n \in 1..Cardinality(A)
      BY <1>5, <2>0, <2>1
    <3>2. Link!Nth(A, n) \in A /\ Rank(A, Link!Nth(A, n)) = n
      BY <1>1, <1>2, <3>1, RankOfNth
    <3>3. Link!Nth(A, n) \in P /\ Rank(P, Link!Nth(A, n)) = n
      BY <1>2, <3>2
    <3>4. Link!Nth(P, Rank(P, Link!Nth(A, n))) = Link!Nth(A, n)
      BY <1>1, <3>3, NthOfRank DEF m
    <3>5. F[n] = cells[Link!Nth(A, n)].frame /\ G[n] = cells[Link!Nth(A, n)].frame
      BY <1>4, <1>5, <2>0, <3>1, <3>3, <3>4
    <3>6. (G \o H)[n] = G[n]
      BY <1>5, <1>6, <1>7, <2>0, <2>1
    <3> QED
      BY <3>5, <3>6
  <2>2. CASE Cardinality(A) < n
    <3> DEFINE q == n - Cardinality(A)
               k == Link!Nth(B, q)
    <3>1. q \in 1..Cardinality(B)
      BY <1>5, <1>6, <2>0, <2>2
    <3> HIDE DEF q
    <3>2. k \in B /\ Rank(B, k) = q
      BY <1>2, <3>1, RankOfNth
    <3> HIDE DEF k
    <3>3. k + s - 1 \in P /\ Rank(P, k + s - 1) = n
      <4>1. k + s - 1 \in P /\ Rank(P, k + s - 1) = Cardinality(A) + q
        BY <1>2, <3>2
      <4>2. Cardinality(A) + q = n
        BY <1>5, <2>0 DEF q
      <4> QED
        BY <4>1, <4>2
    <3>4. Link!Nth(P, Rank(P, k + s - 1)) = k + s - 1
      BY <1>1, <3>3, NthOfRank DEF m
    <3>5. F[n] = cells[k + s - 1].frame
      BY <1>4, <2>0, <3>3, <3>4
    <3>6. H[q] = rest[k].frame
      BY <1>6, <3>1 DEF k
    <3>7. k \in 1 .. m - s + 1 /\ s + k - 1 = k + s - 1
      BY <1>1, <1>2, <3>2
    <3>8. (G \o H)[n] = H[q]
      BY <1>5, <1>6, <1>7, <2>0, <2>2 DEF q
    <3> QED
      BY <1>3, <3>5, <3>6, <3>7, <3>8
  <2>3. n \in Int /\ Cardinality(A) \in Int
    BY <1>5, <2>0
  <2>4. n <= Cardinality(A) \/ Cardinality(A) < n
    BY <2>3
  <2> QED
    BY <2>1, <2>2, <2>4
<1>9. Len(F) = Len(G \o H)
  BY <1>2, <1>4, <1>5, <1>6, <1>7
<1>10. F = G \o H
  BY <1>4, <1>7, <1>8, <1>9, SeqEqual
<1> QED
  BY <1>10 DEF F, G, H, A, B, rest, m

\* The frames at the same cells of two streams that agree there.
LEMMA FramesSame ==
  ASSUME NEW cells \in Seq(LinkCells), NEW other \in Seq(LinkCells),
         NEW P \in SUBSET (1..Len(cells)), P \in SUBSET (1..Len(other)),
         \A i \in P : cells[i] = other[i]
  PROVE  Link!FramesAt(cells, P) = Link!FramesAt(other, P)
<1> DEFINE F == Link!FramesAt(cells, P)
           G == Link!FramesAt(other, P)
<1>1. /\ F \in Seq(Link!Frames) /\ Len(F) = Cardinality(P)
      /\ \A n \in 1..Cardinality(P) : Link!Nth(P, n) \in P /\ F[n] = cells[Link!Nth(P, n)].frame
  BY FramesType
<1>2. /\ G \in Seq(Link!Frames) /\ Len(G) = Cardinality(P)
      /\ \A n \in 1..Cardinality(P) : G[n] = other[Link!Nth(P, n)].frame
  BY FramesType
<1> HIDE DEF F, G
<1>3. \A n \in 1..Len(F) : F[n] = G[n]
  BY <1>1, <1>2
<1>4. F = G
  BY <1>1, <1>2, <1>3, SeqEqual
<1> QED
  BY <1>4 DEF F, G

\* CrsfFrame.from_bytes takes FrameLen cells, which are those of one frame.
WholeCells(cells, i) ==
    /\ i + FrameLen - 1 <= Len(cells)
    /\ cells[i].frame.n > 0
    /\ \A k \in 1..FrameLen : cells[i + k - 1] = Link!Cell(cells[i].frame, k)

LEMMA CellsAre ==
  ASSUME Link!ConstantsOK, NEW frame \in Link!Frames
  PROVE  /\ Link!Cells(frame) \in Seq(LinkCells) /\ Len(Link!Cells(frame)) = FrameLen
         /\ \A k \in 1..FrameLen : Link!Cells(frame)[k] = Link!Cell(frame, k)
         /\ FrameLen \in Nat /\ FrameLen >= 2 /\ MaxFrameLen \in Nat /\ FrameLen <= MaxFrameLen
<1>1. FrameLen \in Nat /\ FrameLen >= 2 /\ MaxFrameLen \in Nat /\ FrameLen <= MaxFrameLen
  BY DEF Link!ConstantsOK
<1>2. \A k \in 1..FrameLen : Link!Cell(frame, k) \in LinkCells
  <2>1. ASSUME NEW k \in 1..FrameLen PROVE Link!Cell(frame, k) \in LinkCells
    <3>1. (IF k = 1 THEN FrameLen ELSE 0) \in 0 .. MaxFrameLen + 1
      BY <1>1
    <3>2. k \in 0..FrameLen
      BY <1>1
    <3> QED
      BY <3>1, <3>2 DEF Link!Cell, LinkCells
  <2> QED
    BY <2>1
<1> DEFINE e(k) == Link!Cell(frame, k)
<1>3. Link!Cells(frame) = [k \in 1..FrameLen |-> e(k)]
  BY DEF Link!Cells
<1>4. \A k \in 1..FrameLen : e(k) \in LinkCells
  BY <1>2
<1> HIDE DEF e
<1>5. [k \in 1..FrameLen |-> e(k)] \in Seq(LinkCells)
  BY <1>1, <1>4, IsASeq
<1>6. Len([k \in 1..FrameLen |-> e(k)]) = FrameLen
  BY <1>1, <1>5, LenProperties
<1> QED
  BY <1>1, <1>3, <1>5, <1>6 DEF e

LEMMA CellTypes ==
  ASSUME NEW cells \in Seq(LinkCells), NEW i \in 1..Len(cells)
  PROVE  /\ cells[i] \in LinkCells /\ cells[i].frame \in Link!Frames
         /\ cells[i].len \in 0 .. MaxFrameLen + 1 /\ cells[i].frame.n \in Nat
<1>1. cells[i] \in LinkCells
  BY ElementOfSeq
<1>2. cells[i].frame \in Link!Frames /\ cells[i].len \in 0 .. MaxFrameLen + 1
  BY <1>1 DEF LinkCells
<1> QED
  BY <1>1, <1>2 DEF Link!Frames

LEMMA WholeIs ==
  ASSUME Link!ConstantsOK, NEW cells \in Seq(LinkCells), NEW i \in 1..Len(cells)
  PROVE  /\ Link!WholeAt(cells, i) <=> WholeCells(cells, i)
         /\ WholeCells(cells, i) => cells[i].len = FrameLen /\ Link!Plausible(cells[i])
<1> DEFINE n == Len(cells)
           f == cells[i].frame
           last == i + cells[i].len - 1
           part == SubSeq(cells, i, last)
<1>1. n \in Nat /\ i \in Int /\ 1 <= i /\ i <= n
  BY LenProperties
<1>2. f \in Link!Frames /\ cells[i].len \in Nat /\ f.n \in Nat
  BY CellTypes
<1>3. /\ Link!Cells(f) \in Seq(LinkCells) /\ Len(Link!Cells(f)) = FrameLen
      /\ \A k \in 1..FrameLen : Link!Cells(f)[k] = Link!Cell(f, k)
      /\ FrameLen \in Nat /\ FrameLen >= 2 /\ MaxFrameLen \in Nat /\ FrameLen <= MaxFrameLen
  <2> HIDE DEF f
  <2> QED
    BY <1>2, CellsAre
<1>4. ASSUME last <= n, cells[i].len >= 1
      PROVE  /\ part \in Seq(LinkCells) /\ Len(part) = cells[i].len
             /\ \A k \in 1..cells[i].len : part[k] = cells[i + k - 1]
  <2>1. \A j \in i..last : cells[j] \in LinkCells
    BY <1>1, <1>2, <1>4, ElementOfSeq
  <2>2. last \in Int /\ i <= last /\ last - i + 1 = cells[i].len
    BY <1>1, <1>2, <1>4
  <2> HIDE DEF last
  <2>3. /\ SubSeq(cells, i, last) \in Seq(LinkCells)
        /\ Len(SubSeq(cells, i, last)) = IF i <= last THEN last - i + 1 ELSE 0
        /\ \A k \in 1 .. last - i + 1 : SubSeq(cells, i, last)[k] = cells[i + k - 1]
    BY <1>1, <2>1, <2>2, SubSeqProperties
  <2> QED
    BY <2>2, <2>3
<1>5. ASSUME WholeCells(cells, i) PROVE cells[i].len = FrameLen /\ Link!Plausible(cells[i])
  <2>1. 1 \in 1..FrameLen /\ i + 1 - 1 = i
    BY <1>1, <1>3
  <2>2. cells[i] = Link!Cell(f, 1)
    BY <1>5, <2>1 DEF WholeCells
  <2>3. cells[i].len = FrameLen
    BY <2>2 DEF Link!Cell
  <2> QED
    BY <1>3, <2>3 DEF Link!Plausible
<1>6. ASSUME Link!WholeAt(cells, i) PROVE WholeCells(cells, i)
  <2>1. /\ Link!Plausible(cells[i]) /\ last <= n /\ f.n > 0 /\ part = Link!Cells(f)
    BY <1>6 DEF Link!WholeAt
  <2>2. cells[i].len >= 1
    BY <2>1, <1>3 DEF Link!Plausible
  <2>3. Len(part) = cells[i].len /\ \A k \in 1..cells[i].len : part[k] = cells[i + k - 1]
    BY <1>4, <2>1, <2>2
  <2>4. cells[i].len = FrameLen
    BY <1>3, <2>1, <2>3
  <2> QED
    BY <1>3, <2>1, <2>3, <2>4 DEF WholeCells
<1>7. ASSUME WholeCells(cells, i) PROVE Link!WholeAt(cells, i)
  <2>1. cells[i].len = FrameLen /\ Link!Plausible(cells[i])
    BY <1>5, <1>7
  <2>2. last <= n /\ f.n > 0 /\ \A k \in 1..FrameLen : cells[i + k - 1] = Link!Cell(f, k)
    BY <1>7, <2>1 DEF WholeCells
  <2>3. /\ part \in Seq(LinkCells) /\ Len(part) = FrameLen
        /\ \A k \in 1..FrameLen : part[k] = cells[i + k - 1]
    BY <1>3, <1>4, <2>1, <2>2
  <2>4. part = Link!Cells(f)
    <3> HIDE DEF part, f
    <3>1. \A k \in 1..Len(part) : part[k] = Link!Cells(f)[k]
      BY <1>3, <2>2, <2>3
    <3> QED
      BY <1>3, <2>3, <3>1, SeqEqual
  <2> QED
    BY <2>1, <2>2, <2>4 DEF Link!WholeAt
<1> QED
  BY <1>5, <1>6, <1>7

\* No frame starts inside a frame.
LEMMA NothingInside ==
  ASSUME Link!ConstantsOK, NEW cells \in Seq(LinkCells), NEW i \in 1..Len(cells),
         WholeCells(cells, i), NEW j \in Int, i < j, j < i + FrameLen
  PROVE  j \in 1..Len(cells) /\ ~ Link!Plausible(cells[j])
<1>1. Len(cells) \in Nat /\ i \in Int /\ 1 <= i /\ FrameLen \in Nat /\ MaxFrameLen \in Nat
  BY LenProperties DEF Link!ConstantsOK
<1> DEFINE k == j - i + 1
<1>2. k \in 1..FrameLen /\ k # 1 /\ i + k - 1 = j /\ j <= i + FrameLen - 1
  BY <1>1
<1>3. cells[j] = Link!Cell(cells[i].frame, k) /\ i + FrameLen - 1 <= Len(cells)
  BY <1>2 DEF WholeCells
<1>4. cells[j].len = 0
  BY <1>2, <1>3 DEF Link!Cell
<1>5. ~ Link!Plausible(cells[j])
  BY <1>1, <1>4 DEF Link!Plausible
<1> QED
  BY <1>1, <1>2, <1>3, <1>5

\* The loop goes on, and stays within the cells.
LEMMA Advances ==
  ASSUME Link!ConstantsOK, NEW cells \in Seq(LinkCells), NEW i \in 1..Len(cells)
  PROVE  /\ i + Link!Advance(cells, i) \in 1 .. Len(cells) + 1
         /\ i + Link!Advance(cells, i) > i
         /\ \/ Link!Advance(cells, i) = 1
            \/ WholeCells(cells, i) /\ Link!Advance(cells, i) = FrameLen
<1>1. Len(cells) \in Nat /\ i \in Int /\ 1 <= i /\ i <= Len(cells) /\ FrameLen \in Nat
      /\ FrameLen >= 2
  BY LenProperties DEF Link!ConstantsOK
<1>2. CASE Link!WholeAt(cells, i)
  <2>1. WholeCells(cells, i) /\ Link!Advance(cells, i) = FrameLen
    BY <1>2, WholeIs DEF Link!Advance
  <2>2. i + FrameLen - 1 <= Len(cells)
    BY <2>1 DEF WholeCells
  <2> QED
    BY <1>1, <2>1, <2>2
<1>3. CASE ~ Link!WholeAt(cells, i)
  <2>1. Link!Advance(cells, i) = 1
    BY <1>3 DEF Link!Advance
  <2> QED
    BY <1>1, <2>1
<1> QED
  BY <1>2, <1>3

\* The cells to which the loop comes from those in S.
Onward(cells, S) ==
    {1} \cup {i + Link!Advance(cells, i) :
                  i \in {j \in S : j <= Len(cells) /\ ~ Link!Waits(cells, j)}}

\* There is such a set: the least one that the loop does not leave.
LEMMA ComesIs ==
  ASSUME Link!ConstantsOK, NEW cells \in Seq(LinkCells)
  PROVE  /\ Link!Comes(cells) \in SUBSET (1 .. Len(cells) + 1)
         /\ Link!Comes(cells) = Onward(cells, Link!Comes(cells))
<1> DEFINE D == 1 .. Len(cells) + 1
           K == {S \in SUBSET D : Onward(cells, S) \subseteq S}
           T == {i \in D : \A S \in K : i \in S}
<1>1. Len(cells) \in Nat
  BY LenProperties
<1>2. \A S \in SUBSET D : Onward(cells, S) \subseteq D
  <2>1. ASSUME NEW S \in SUBSET D, NEW i \in S, i <= Len(cells)
        PROVE  i + Link!Advance(cells, i) \in D
    <3>1. i \in 1..Len(cells)
      BY <1>1, <2>1
    <3> QED
      BY <3>1, Advances
  <2>2. 1 \in D
    BY <1>1
  <2> HIDE DEF D
  <2> QED
    BY <2>1, <2>2 DEF Onward
<1>3. \A S, R \in SUBSET D : S \subseteq R => Onward(cells, S) \subseteq Onward(cells, R)
  BY DEF Onward
<1> HIDE DEF D
<1>4. T \in SUBSET D /\ \A S \in K : T \subseteq S
  OBVIOUS
<1>5. Onward(cells, T) \subseteq T
  <2>1. ASSUME NEW S \in K PROVE Onward(cells, T) \subseteq S
    <3>1. S \in SUBSET D /\ Onward(cells, S) \subseteq S
      OBVIOUS
    <3>2. T \subseteq S /\ T \in SUBSET D
      BY <1>4
    <3> HIDE DEF T
    <3> QED
      BY <1>3, <3>1, <3>2
  <2>2. Onward(cells, T) \subseteq D
    BY <1>2, <1>4
  <2> QED
    BY <2>1, <2>2
<1>6. T \subseteq Onward(cells, T)
  <2> HIDE DEF T
  <2>1. Onward(cells, T) \in SUBSET D
    BY <1>2, <1>4
  <2>2. Onward(cells, Onward(cells, T)) \subseteq Onward(cells, T)
    BY <1>3, <1>4, <1>5, <2>1
  <2>3. Onward(cells, T) \in K
    BY <2>1, <2>2
  <2> QED
    BY <1>4, <2>3
<1>7. T \in SUBSET D /\ T = Onward(cells, T)
  BY <1>4, <1>5, <1>6
<1>8. Link!Comes(cells) = CHOOSE S \in SUBSET D : S = Onward(cells, S)
  BY DEF Link!Comes, Onward, D
<1> QED
  BY <1>7, <1>8 DEF D

\* The loop does not go beyond a cell at which it waits, nor beyond the end.
LEMMA WaitsLast ==
  ASSUME Link!ConstantsOK, NEW cells \in Seq(LinkCells), NEW s \in Link!Comes(cells),
         s <= Len(cells) => Link!Waits(cells, s)
  PROVE  \A i \in Link!Comes(cells) : i <= s
<1> DEFINE V == Link!Comes(cells)
           n == Len(cells)
<1>1. n \in Nat /\ V \in SUBSET (1 .. n + 1) /\ V = Onward(cells, V)
  BY LenProperties, ComesIs
<1>2. s \in Int /\ 1 <= s /\ s <= n + 1 /\ \A i \in V : i \in Nat
  BY <1>1
<1> HIDE DEF V, n
<1> DEFINE B == {i \in V : i > s}
<1>3. SUFFICES ASSUME B # {} PROVE FALSE
  <2>1. B = {} => \A i \in V : ~ (i > s)
    OBVIOUS
  <2> QED
    BY <1>2, <2>1, <1>3 DEF V
<1>4. B \in SUBSET Nat
  BY <1>2
<1>5. PICK v \in B : \A j \in B : v <= j
  <2> HIDE DEF B
  <2> QED
    BY <1>3, <1>4, Lowest
<1>6. v \in V /\ v > s /\ v \in Int
  BY <1>2
<1>7. PICK i \in V : i <= n /\ ~ Link!Waits(cells, i) /\ v = i + Link!Advance(cells, i)
  <2>1. v # 1
    BY <1>2, <1>6
  <2> QED
    BY <1>1, <1>6, <2>1 DEF Onward, n
<1>8. i \in Int /\ i \in 1..n
  BY <1>1, <1>2, <1>7
<1>9. /\ v \in 1 .. n + 1 /\ v > i
      /\ \/ Link!Advance(cells, i) = 1
         \/ WholeCells(cells, i) /\ Link!Advance(cells, i) = FrameLen
  BY <1>7, <1>8, Advances DEF n
<1>10. i <= s
  <2>1. CASE i > s
    <3>1. i \in B
      BY <2>1
    <3>2. v <= i
      BY <1>5, <3>1
    <3> QED
      BY <1>6, <1>8, <1>9, <3>2
  <2> QED
    BY <1>2, <1>8, <2>1
<1>11. i # s
  BY <1>7 DEF n
<1>12. i < s /\ FrameLen \in Nat
  BY <1>2, <1>8, <1>10, <1>11 DEF Link!ConstantsOK
<1>13. WholeCells(cells, i) /\ Link!Advance(cells, i) = FrameLen
  BY <1>2, <1>6, <1>7, <1>8, <1>9, <1>12
<1>14. s < i + FrameLen
  BY <1>6, <1>7, <1>13
<1>15. s \in 1..n /\ ~ Link!Plausible(cells[s])
  BY <1>2, <1>8, <1>12, <1>13, <1>14, NothingInside DEF n
<1> QED
  BY <1>15 DEF Link!Waits, n

\* Where the loop ends.
LEMMA StopIs ==
  ASSUME Link!ConstantsOK, NEW cells \in Seq(LinkCells)
  PROVE  /\ Link!Stop(cells) \in 1 .. Len(cells) + 1 /\ Link!Stop(cells) \in Link!Comes(cells)
         /\ Link!Stop(cells) <= Len(cells) => Link!Waits(cells, Link!Stop(cells))
         /\ \A i \in Link!Comes(cells) : i <= Link!Stop(cells)
<1> DEFINE V == Link!Comes(cells)
           n == Len(cells)
<1>1. n \in Nat /\ V \in SUBSET (1 .. n + 1) /\ V = Onward(cells, V)
  BY LenProperties, ComesIs
<1> HIDE DEF V, n
<1>2. V # {} /\ n + 1 \in Nat
  <2>1. 1 \in Onward(cells, V)
    BY DEF Onward
  <2> QED
    BY <1>1, <2>1
<1>3. PICK m \in V : \A i \in V : i <= m
  BY <1>1, <1>2, Highest
<1>4. ASSUME m <= n, ~ Link!Waits(cells, m) PROVE FALSE
  <2>1. m \in 1..n
    BY <1>1, <1>4
  <2>2. m + Link!Advance(cells, m) \in V
    BY <1>1, <1>4 DEF Onward, n
  <2>3. m + Link!Advance(cells, m) > m /\ m + Link!Advance(cells, m) \in Int /\ m \in Int
    BY <2>1, Advances DEF n
  <2> QED
    BY <1>3, <2>2, <2>3
<1>5. Link!Stop(cells) = CHOOSE i \in V : i <= n => Link!Waits(cells, i)
  BY DEF Link!Stop, V, n
<1>6. Link!Stop(cells) \in V /\ (Link!Stop(cells) <= n => Link!Waits(cells, Link!Stop(cells)))
  BY <1>3, <1>4, <1>5
<1>7. \A i \in V : i <= Link!Stop(cells)
  BY <1>6, WaitsLast DEF V, n
<1> QED
  BY <1>1, <1>6, <1>7 DEF V, n

\* The loop passes over nothing that may start a frame.
LEMMA PlausibleSeen ==
  ASSUME Link!ConstantsOK, NEW cells \in Seq(LinkCells), NEW i \in 1..Len(cells),
         i < Link!Stop(cells), Link!Plausible(cells[i])
  PROVE  i \in Link!Comes(cells) /\ ~ Link!Waits(cells, i)
<1> DEFINE V == Link!Comes(cells)
           n == Len(cells)
           s == Link!Stop(cells)
<1>1. n \in Nat /\ V \in SUBSET (1 .. n + 1) /\ V = Onward(cells, V) /\ i \in Int
  BY LenProperties, ComesIs
<1>2. /\ s \in 1 .. n + 1 /\ s \in V /\ i < s /\ i \in 1..n
  BY StopIs
<1>3. ASSUME NEW j \in V, j < s PROVE j <= n /\ ~ Link!Waits(cells, j)
  <2>1. j \in Int /\ s \in Int /\ j <= n
    BY <1>1, <1>2, <1>3
  <2>2. ASSUME Link!Waits(cells, j) PROVE FALSE
    <3>1. s <= j
      BY <1>2, <2>2, WaitsLast
    <3> QED
      BY <1>3, <2>1, <3>1
  <2> QED
    BY <2>1, <2>2
<1> HIDE DEF V, n, s
<1> DEFINE B == {j \in V : j <= i}
<1>4. B # {} /\ B \in SUBSET (1 .. n + 1) /\ n + 1 \in Nat
  <2>1. 1 \in Onward(cells, V)
    BY DEF Onward
  <2>2. 1 \in V /\ 1 <= i
    BY <1>1, <1>2, <2>1
  <2>3. B # {}
    BY <2>2
  <2>4. n \in Nat /\ V \in SUBSET (1 .. n + 1)
    BY <1>1
  <2>5. n + 1 \in Nat
    BY <2>4
  <2>6. B \in SUBSET (1 .. n + 1)
    BY <2>4
  <2> QED
    BY <2>3, <2>5, <2>6
<1>5. PICK j \in B : \A k \in B : k <= j
  <2> HIDE DEF B
  <2> QED
    BY <1>4, Highest
<1>6. j \in V /\ j <= i /\ j \in Int /\ j < s /\ s \in Int
  BY <1>1, <1>2
<1>7. j <= n /\ ~ Link!Waits(cells, j) /\ j \in 1..n
  <2>1. j <= n /\ ~ Link!Waits(cells, j)
    BY <1>3, <1>6
  <2> QED
    BY <1>1, <1>6, <2>1
<1>8. CASE j < i
  <2> DEFINE v == j + Link!Advance(cells, j)
  <2>1. v \in V
    BY <1>1, <1>6, <1>7 DEF Onward, n
  <2>2. /\ v > j /\ v \in Int
        /\ \/ Link!Advance(cells, j) = 1
           \/ WholeCells(cells, j) /\ Link!Advance(cells, j) = FrameLen
    BY <1>7, Advances DEF n
  <2>3. v > i
    <3>1. CASE v <= i
      <4>1. v <= j
        BY <1>5, <2>1, <3>1
      <4> QED
        BY <1>6, <2>2, <4>1
    <3> QED
      BY <1>1, <2>2, <3>1
  <2>4. WholeCells(cells, j) /\ Link!Advance(cells, j) = FrameLen
    BY <1>1, <1>6, <1>8, <2>2, <2>3
  <2>5. i < j + FrameLen
    BY <2>3, <2>4
  <2>6. ~ Link!Plausible(cells[i])
    BY <1>1, <1>7, <1>8, <2>4, <2>5, NothingInside DEF n
  <2> QED
    BY <2>6
<1>9. CASE j = i
  BY <1>6, <1>7, <1>9 DEF V
<1> QED
  BY <1>1, <1>6, <1>8, <1>9

LEMMA PartOf ==
  ASSUME NEW S, NEW s \in Seq(S), NEW a \in 1 .. Len(s) + 1, NEW b \in a - 1 .. Len(s)
  PROVE  /\ SubSeq(s, a, b) \in Seq(S) /\ Len(SubSeq(s, a, b)) = b - a + 1
         /\ \A k \in 1 .. b - a + 1 : SubSeq(s, a, b)[k] = s[a + k - 1]
<1>1. Len(s) \in Nat /\ a \in Int /\ b \in Int /\ 1 <= a /\ a <= Len(s) + 1
      /\ a - 1 <= b /\ b <= Len(s)
  BY LenProperties
<1>2. \A i \in a..b : s[i] \in S
  BY <1>1, ElementOfSeq
<1>3. /\ SubSeq(s, a, b) \in Seq(S)
      /\ Len(SubSeq(s, a, b)) = IF a <= b THEN b - a + 1 ELSE 0
      /\ \A k \in 1 .. b - a + 1 : SubSeq(s, a, b)[k] = s[a + k - 1]
  BY <1>1, <1>2, SubSeqProperties
<1>4. (IF a <= b THEN b - a + 1 ELSE 0) = b - a + 1
  BY <1>1
<1> QED
  BY <1>3, <1>4

\* The telemetry on its way that is whole.
LEMMA IntactIs ==
  ASSUME Link!ConstantsOK, NEW cells \in Seq(LinkCells)
  PROVE  /\ Len(cells) \in Nat /\ Link!IntactAt(cells) \in SUBSET (1..Len(cells))
         /\ Link!IntactIn(cells) = Link!FramesAt(cells, Link!IntactAt(cells))
         /\ Link!IntactIn(cells) \in Seq(Link!Frames)
         /\ \A i \in 1..Len(cells) :
                i \in Link!IntactAt(cells) <=> WholeCells(cells, i) /\ ~ cells[i].frame.rc
<1>1. Len(cells) \in Nat
  BY LenProperties
<1>2. Link!IntactAt(cells) \in SUBSET (1..Len(cells))
  BY DEF Link!IntactAt
<1>3. Link!IntactIn(cells) = Link!FramesAt(cells, Link!IntactAt(cells))
  BY DEF Link!IntactIn
<1>4. Link!FramesAt(cells, Link!IntactAt(cells)) \in Seq(Link!Frames)
  BY <1>2, FramesType
<1>5. \A i \in 1..Len(cells) : Link!WholeAt(cells, i) <=> WholeCells(cells, i)
  BY WholeIs
<1>6. \A i \in 1..Len(cells) :
          i \in Link!IntactAt(cells) <=> WholeCells(cells, i) /\ ~ cells[i].frame.rc
  BY <1>5 DEF Link!IntactAt
<1> QED
  BY <1>1, <1>2, <1>3, <1>4, <1>6

\* What is whole from a position on is whole in what is left from there.
LEMMA WholeShift ==
  ASSUME Link!ConstantsOK, NEW cells \in Seq(LinkCells), NEW s \in 1 .. Len(cells) + 1,
         NEW k \in 1 .. Len(cells) - s + 1
  PROVE  /\ k + s - 1 \in 1..Len(cells)
         /\ SubSeq(cells, s, Len(cells))[k] = cells[k + s - 1]
         /\ WholeCells(SubSeq(cells, s, Len(cells)), k) <=> WholeCells(cells, k + s - 1)
<1> DEFINE n == Len(cells)
           rest == SubSeq(cells, s, n)
<1>1. n \in Nat /\ s \in Int /\ 1 <= s /\ s <= n + 1 /\ k \in Int /\ 1 <= k /\ k <= n - s + 1
      /\ FrameLen \in Nat
  BY LenProperties DEF Link!ConstantsOK
<1>2. n \in s - 1 .. n
  BY <1>1
<1>3. Len(rest) = n - s + 1 /\ \A j \in 1 .. n - s + 1 : rest[j] = cells[s + j - 1]
  <2> HIDE DEF n
  <2>1. s \in 1 .. Len(cells) + 1 /\ n \in s - 1 .. Len(cells)
    BY <1>2 DEF n
  <2> QED
    BY <2>1, PartOf
<1> HIDE DEF n, rest
<1>4. rest[k] = cells[k + s - 1]
  <2>1. s + k - 1 = k + s - 1 /\ k \in 1 .. n - s + 1
    BY <1>1
  <2> QED
    BY <1>3, <2>1
<1>5. k + FrameLen - 1 <= Len(rest) <=> (k + s - 1) + FrameLen - 1 <= n
  BY <1>1, <1>3
<1>6. ASSUME k + FrameLen - 1 <= Len(rest), NEW j \in 1..FrameLen
      PROVE  rest[k + j - 1] = cells[(k + s - 1) + j - 1]
  <2>1. k + j - 1 \in 1 .. n - s + 1 /\ s + (k + j - 1) - 1 = (k + s - 1) + j - 1
    BY <1>1, <1>3, <1>6
  <2> QED
    BY <1>3, <2>1
<1>7. WholeCells(rest, k) <=> WholeCells(cells, k + s - 1)
  BY <1>4, <1>5, <1>6 DEF WholeCells, n
<1> QED
  BY <1>1, <1>4, <1>7 DEF n, rest

\* Taking the first cells away leaves the frames that start behind them.
LEMMA IntactSplit ==
  ASSUME Link!ConstantsOK, NEW cells \in Seq(LinkCells), NEW s \in 1 .. Len(cells) + 1
  PROVE  Link!IntactIn(cells) =
             Link!FramesAt(cells, Before(Link!IntactAt(cells), s))
                 \o Link!IntactIn(SubSeq(cells, s, Len(cells)))
<1> DEFINE n == Len(cells)
           rest == SubSeq(cells, s, n)
           P == Link!IntactAt(cells)
<1>1. n \in Nat /\ s \in Int /\ 1 <= s /\ s <= n + 1 /\ n \in s - 1 .. n
  BY LenProperties
<1>2. /\ P \in SUBSET (1..n) /\ Link!IntactIn(cells) = Link!FramesAt(cells, P)
      /\ \A i \in 1..n : i \in P <=> WholeCells(cells, i) /\ ~ cells[i].frame.rc
  BY IntactIs
<1>3. rest \in Seq(LinkCells) /\ Len(rest) = n - s + 1
  <2> HIDE DEF n
  <2>1. s \in 1 .. Len(cells) + 1 /\ n \in s - 1 .. Len(cells)
    BY <1>1 DEF n
  <2> QED
    BY <2>1, PartOf
<1>4. /\ Link!IntactAt(rest) \in SUBSET (1 .. n - s + 1)
      /\ Link!IntactIn(rest) = Link!FramesAt(rest, Link!IntactAt(rest))
      /\ \A k \in 1 .. n - s + 1 :
             k \in Link!IntactAt(rest) <=> WholeCells(rest, k) /\ ~ rest[k].frame.rc
  <2> HIDE DEF rest
  <2> QED
    BY <1>3, IntactIs
<1>5. ASSUME NEW k \in 1 .. n - s + 1
      PROVE  /\ k + s - 1 \in 1..n /\ rest[k] = cells[k + s - 1]
             /\ WholeCells(rest, k) <=> WholeCells(cells, k + s - 1)
  BY WholeShift
<1>6. Link!FramesAt(cells, P) =
          Link!FramesAt(cells, Before(P, s)) \o Link!FramesAt(rest, From(P, s, n))
  <2> HIDE DEF P
  <2> QED
    BY <1>2, FramesCut
<1> HIDE DEF P, rest, n
<1>7. From(P, s, n) = Link!IntactAt(rest)
  <2>1. \A k \in 1 .. n - s + 1 : k + s - 1 \in P <=> k \in Link!IntactAt(rest)
    BY <1>2, <1>4, <1>5
  <2> QED
    BY <1>4, <2>1 DEF From
<1>8. Link!IntactIn(cells) = Link!FramesAt(cells, Before(P, s)) \o Link!IntactIn(rest)
  BY <1>2, <1>4, <1>6, <1>7
<1> QED
  BY <1>8 DEF P, rest, n

\* More cells leave what is there as it is.
LEMMA WholeMore ==
  ASSUME Link!ConstantsOK, NEW cells \in Seq(LinkCells), NEW more \in Seq(LinkCells),
         NEW i \in 1..Len(cells)
  PROVE  /\ cells \o more \in Seq(LinkCells) /\ Len(cells \o more) = Len(cells) + Len(more)
         /\ i \in 1..Len(cells \o more) /\ (cells \o more)[i] = cells[i]
         /\ WholeCells(cells, i) => WholeCells(cells \o more, i)
         /\ WholeCells(cells \o more, i) /\ i + FrameLen - 1 <= Len(cells) => WholeCells(cells, i)
<1> DEFINE all == cells \o more
<1>1. Len(cells) \in Nat /\ Len(more) \in Nat /\ i \in Int /\ 1 <= i /\ i <= Len(cells)
      /\ FrameLen \in Nat
  BY LenProperties DEF Link!ConstantsOK
<1>2. /\ all \in Seq(LinkCells) /\ Len(all) = Len(cells) + Len(more)
      /\ \A j \in 1 .. Len(cells) + Len(more) :
             all[j] = IF j <= Len(cells) THEN cells[j] ELSE more[j - Len(cells)]
  BY ConcatProperties
<1> HIDE DEF all
<1>3. \A j \in 1..Len(cells) : all[j] = cells[j]
  BY <1>1, <1>2
<1>4. i \in 1..Len(all)
  BY <1>1, <1>2
<1>5. ASSUME i + FrameLen - 1 <= Len(cells)
      PROVE  \A k \in 1..FrameLen : all[i + k - 1] = cells[i + k - 1]
  <2>1. \A k \in 1..FrameLen : i + k - 1 \in 1..Len(cells)
    BY <1>1, <1>5
  <2> QED
    BY <1>3, <2>1
<1>6. i + FrameLen - 1 <= Len(cells) => i + FrameLen - 1 <= Len(all)
  BY <1>1, <1>2
<1>7. all[i] = cells[i]
  BY <1>3
<1>8. WholeCells(cells, i) => WholeCells(all, i)
  BY <1>5, <1>6, <1>7 DEF WholeCells
<1>9. WholeCells(all, i) /\ i + FrameLen - 1 <= Len(cells) => WholeCells(cells, i)
  BY <1>5, <1>7 DEF WholeCells
<1> QED
  BY <1>2, <1>4, <1>7, <1>8, <1>9 DEF all

\* An RC frame, or what is left of it, behind the cells makes no telemetry whole.
LEMMA IntactAppend ==
  ASSUME Link!ConstantsOK, NEW cells \in Seq(LinkCells), NEW more \in Seq(LinkCells),
         \A i \in 1..Len(more) : more[i].frame.rc
  PROVE  Link!IntactIn(cells \o more) = Link!IntactIn(cells)
<1> DEFINE all == cells \o more
           P == Link!IntactAt(all)
           Q == Link!IntactAt(cells)
<1>1. Len(cells) \in Nat /\ Len(more) \in Nat /\ FrameLen \in Nat /\ FrameLen >= 2
  BY LenProperties DEF Link!ConstantsOK
<1>2. /\ all \in Seq(LinkCells) /\ Len(all) = Len(cells) + Len(more)
      /\ \A j \in 1 .. Len(cells) + Len(more) :
             all[j] = IF j <= Len(cells) THEN cells[j] ELSE more[j - Len(cells)]
  BY ConcatProperties
<1>3. /\ P \in SUBSET (1..Len(all)) /\ Link!IntactIn(all) = Link!FramesAt(all, P)
      /\ \A i \in 1..Len(all) : i \in P <=> WholeCells(all, i) /\ ~ all[i].frame.rc
  <2> HIDE DEF all
  <2> QED
    BY <1>2, IntactIs
<1>4. /\ Q \in SUBSET (1..Len(cells)) /\ Link!IntactIn(cells) = Link!FramesAt(cells, Q)
      /\ \A i \in 1..Len(cells) : i \in Q <=> WholeCells(cells, i) /\ ~ cells[i].frame.rc
  BY IntactIs
<1>5. ASSUME NEW i \in 1..Len(cells)
      PROVE  /\ i \in 1..Len(all) /\ all[i] = cells[i]
             /\ WholeCells(cells, i) => WholeCells(all, i)
             /\ WholeCells(all, i) /\ i + FrameLen - 1 <= Len(cells) => WholeCells(cells, i)
  BY WholeMore
<1> HIDE DEF all, P, Q
\* The cells behind are of RC frames.
<1>6. ASSUME NEW j \in 1..Len(all), j > Len(cells) PROVE all[j].frame.rc
  <2>1. j \in 1 .. Len(cells) + Len(more) /\ ~ (j <= Len(cells)) /\ j - Len(cells) \in 1..Len(more)
    BY <1>1, <1>2, <1>6
  <2> QED
    BY <1>2, <2>1
<1>7. ASSUME NEW i \in P PROVE i \in Q
  <2>1. i \in 1..Len(all) /\ i \in Int /\ WholeCells(all, i) /\ ~ all[i].frame.rc
    BY <1>3
  <2>2. i <= Len(cells)
    BY <1>1, <1>2, <1>6, <2>1
  <2> DEFINE last == i + FrameLen - 1
  <2>3. last \in 1..Len(all) /\ last \in Int /\ FrameLen \in 1..FrameLen
    BY <1>1, <2>1 DEF WholeCells
  <2>4. all[last] = Link!Cell(all[i].frame, FrameLen)
    BY <2>1, <2>3 DEF WholeCells
  <2>5. ~ all[last].frame.rc
    BY <2>1, <2>4 DEF Link!Cell
  <2>6. last <= Len(cells)
    BY <1>1, <1>6, <2>3, <2>5
  <2>7. i \in 1..Len(cells)
    BY <1>1, <2>1, <2>2
  <2> QED
    BY <1>4, <1>5, <2>1, <2>6, <2>7
<1>8. ASSUME NEW i \in Q PROVE i \in P
  <2>1. i \in 1..Len(cells) /\ WholeCells(cells, i) /\ ~ cells[i].frame.rc
    BY <1>4
  <2> QED
    BY <1>3, <1>5, <2>1
<1>9. P = Q
  BY <1>7, <1>8
<1>10. \A i \in Q : cells[i] = all[i]
  BY <1>4, <1>5
<1>11. Link!FramesAt(cells, Q) = Link!FramesAt(all, Q)
  BY <1>2, <1>3, <1>4, <1>9, <1>10, FramesSame
<1> QED
  BY <1>3, <1>4, <1>9, <1>11 DEF all

\* What poll_inbound takes is the telemetry that is whole before the place where it stops.
LEMMA TakenIs ==
  ASSUME Link!ConstantsOK, NEW cells \in Seq(LinkCells), NEW more \in Seq(LinkCells)
  PROVE  {i \in Link!Taken(cells) : ~ cells[i].frame.rc} =
             Before(Link!IntactAt(cells \o more), Link!Stop(cells))
<1> DEFINE all == cells \o more
           s == Link!Stop(cells)
           n == Len(cells)
<1>1. n \in Nat /\ FrameLen \in Nat
  BY LenProperties DEF Link!ConstantsOK
<1>2. /\ s \in 1 .. n + 1 /\ s \in Link!Comes(cells) /\ (s <= n => Link!Waits(cells, s))
      /\ \A i \in Link!Comes(cells) : i <= s
  BY StopIs
<1>3. \A i \in 1..n : /\ i \in 1..Len(all) /\ all[i] = cells[i]
                      /\ WholeCells(cells, i) => WholeCells(all, i)
                      /\ WholeCells(all, i) /\ i + FrameLen - 1 <= n => WholeCells(cells, i)
  BY WholeMore
<1>4. all \in Seq(LinkCells) /\ Len(all) = n + Len(more) /\ Len(more) \in Nat
  BY ConcatProperties, LenProperties
<1>5. /\ Link!IntactAt(all) \in SUBSET (1..Len(all))
      /\ \A i \in 1..Len(all) :
             i \in Link!IntactAt(all) <=> WholeCells(all, i) /\ ~ all[i].frame.rc
  <2> HIDE DEF all
  <2> QED
    BY <1>4, IntactIs
<1>6. \A i \in 1..n : /\ Link!WholeAt(cells, i) <=> WholeCells(cells, i)
                      /\ WholeCells(cells, i) => cells[i].len = FrameLen /\ Link!Plausible(cells[i])
  BY WholeIs
<1>7. Link!Comes(cells) \in SUBSET (1 .. n + 1)
  BY ComesIs
<1>8. ASSUME NEW i \in Link!Taken(cells)
      PROVE  i \in 1..n /\ i < s /\ WholeCells(cells, i)
  <2>1. i \in Link!Comes(cells) /\ i <= n /\ Link!WholeAt(cells, i)
    BY DEF Link!Taken
  <2>2. i \in 1..n /\ i \in Int
    BY <1>1, <1>7, <2>1
  <2>3. WholeCells(cells, i) /\ cells[i].len = FrameLen
    BY <1>6, <2>1, <2>2
  <2>4. ~ Link!Waits(cells, i)
    <3>1. i + FrameLen - 1 <= n /\ i + FrameLen - 1 \in Int
      BY <1>1, <2>2, <2>3 DEF WholeCells
    <3>2. ~ (i + FrameLen - 1 > n)
      BY <1>1, <3>1
    <3> QED
      BY <2>3, <3>2 DEF Link!Waits
  <2>5. i <= s /\ i # s /\ s \in Int
    BY <1>1, <1>2, <2>1, <2>4
  <2> QED
    BY <2>2, <2>3, <2>5
<1>9. ASSUME NEW i \in 1..n, i < s, WholeCells(all, i) PROVE i \in Link!Taken(cells)
  <2>1. all[i] = cells[i] /\ i \in 1..Len(all)
    BY <1>3
  <2>2. cells[i].len = FrameLen /\ Link!Plausible(cells[i])
    <3>1. all[i].len = FrameLen /\ Link!Plausible(all[i])
      <4> HIDE DEF all
      <4> QED
        BY <1>4, <1>9, <2>1, WholeIs
    <3> QED
      BY <2>1, <3>1
  <2>3. i \in Link!Comes(cells) /\ ~ Link!Waits(cells, i)
    BY <1>9, <2>2, PlausibleSeen
  <2>4. i + FrameLen - 1 <= n
    <3>1. ~ (i + FrameLen - 1 > n)
      BY <2>2, <2>3 DEF Link!Waits
    <3> QED
      BY <1>1, <3>1
  <2>5. WholeCells(cells, i)
    BY <1>3, <1>9, <2>4
  <2>6. i <= n /\ Link!WholeAt(cells, i)
    BY <1>1, <1>6, <2>5
  <2> QED
    BY <2>3, <2>6 DEF Link!Taken
<1> HIDE DEF all, s, n
<1>10. ASSUME NEW i \in Link!Taken(cells), ~ cells[i].frame.rc
       PROVE  i \in Before(Link!IntactAt(all), s)
  BY <1>3, <1>5, <1>8, <1>10 DEF Before
<1>11. ASSUME NEW i \in Before(Link!IntactAt(all), s)
       PROVE  i \in Link!Taken(cells) /\ ~ cells[i].frame.rc
  <2>1. i \in Link!IntactAt(all) /\ i < s /\ i \in 1..Len(all)
    BY <1>5 DEF Before
  <2>2. WholeCells(all, i) /\ ~ all[i].frame.rc
    BY <1>5, <2>1
  <2>3. i \in 1..n
    BY <1>1, <1>2, <1>4, <2>1
  <2> QED
    BY <1>3, <1>9, <2>1, <2>2, <2>3
<1>12. {i \in Link!Taken(cells) : ~ cells[i].frame.rc} = Before(Link!IntactAt(all), s)
  BY <1>10, <1>11
<1> QED
  BY <1>12 DEF all, s

-----------------------------------------------------------------------------
(* CrsfLink: what came through whole is what was delivered and what still can be.          *)

\* The frames whose echoes are expected are RC frames.
RecentInv == \A k \in 1..Len(crRecent) : crRecent[k].rc

LinkInv == Link!TypeOK /\ RecentInv /\ Link!TelemetryKept /\ Link!BufferBounded

LEMMA LinkTypes ==
  ASSUME LinkInv
  PROVE  /\ crWire \in Seq(LinkCells) /\ crBuffer \in Seq(LinkCells)
         /\ crRecent \in Seq(Link!Frames) /\ crDelivered \in Seq(Link!Frames)
         /\ crIntact \in Seq(Link!Frames)
         /\ crSent \in 0..MaxSent /\ crRc \in 0..MaxRc
         /\ crDamage \in 0..MaxDamage /\ crReopens \in 0..MaxReopens
<1>1. /\ {crWire, crBuffer} \subseteq Seq(LinkCells)
      /\ {crRecent, crDelivered, crIntact} \subseteq Seq(Link!Frames)
      /\ crSent \in 0..MaxSent /\ crRc \in 0..MaxRc
      /\ crDamage \in 0..MaxDamage /\ crReopens \in 0..MaxReopens
  BY DEF LinkInv, Link!TypeOK, LinkCells
<1> QED
  BY <1>1

LEMMA LinkTyped ==
  ASSUME crWire' \in Seq(LinkCells), crBuffer' \in Seq(LinkCells),
         crRecent' \in Seq(Link!Frames), crDelivered' \in Seq(Link!Frames),
         crIntact' \in Seq(Link!Frames),
         crSent' \in 0..MaxSent, crRc' \in 0..MaxRc,
         crDamage' \in 0..MaxDamage, crReopens' \in 0..MaxReopens
  PROVE  Link!TypeOK'
BY DEF Link!TypeOK, LinkCells, Link!Frames

LEMMA LinkBounds ==
  ASSUME Link!ConstantsOK
  PROVE  /\ MaxSent \in Nat /\ MaxRc \in Nat /\ MaxDamage \in Nat /\ MaxReopens \in Nat
         /\ DedupeLen \in Nat /\ ReadChunk \in Nat /\ MaxFrameLen \in Nat
         /\ MaxFrameLen > 0
<1>1. /\ \A x \in {MaxFrameLen, ReadChunk, DedupeLen} : x \in Nat /\ x # 0
      /\ \A x \in {MaxSent, MaxRc, MaxDamage, MaxReopens} : x \in Nat
  BY DEF Link!ConstantsOK
<1>2. MaxFrameLen \in Nat /\ MaxFrameLen # 0
  BY <1>1
<1> QED
  BY <1>1, <1>2

\* What goes on the wire for a frame: cells of that frame, and perhaps noise.
LEMMA Transmitted ==
  ASSUME Link!ConstantsOK, crWire \in Seq(LinkCells), crDamage \in 0..MaxDamage,
         NEW frame \in Link!Frames, Link!Transmit(frame)
  PROVE  /\ crDamage' \in 0..MaxDamage
         /\ \E more \in Seq(LinkCells) :
                /\ crWire' = crWire \o more
                /\ \A i \in 1..Len(more) : more[i].frame = frame \/ more[i].frame.rc
<1> DEFINE f == Link!Cells(frame)
<1>1. /\ f \in Seq(LinkCells) /\ Len(f) = FrameLen
      /\ \A k \in 1..FrameLen : f[k] = Link!Cell(frame, k)
      /\ FrameLen \in Nat /\ FrameLen >= 2 /\ MaxFrameLen \in Nat
  BY CellsAre
<1>2. \A k \in 1..FrameLen : f[k].frame = frame
  BY <1>1 DEF Link!Cell
<1>3. MaxDamage \in Nat
  BY LinkBounds
<1>4. CASE crWire' = crWire \o Link!Cells(frame) /\ UNCHANGED crDamage
  BY <1>1, <1>2, <1>4
<1>5. CASE /\ crDamage < MaxDamage
           /\ crDamage' = crDamage + 1
           /\ \E at \in 1..FrameLen, len \in 0 .. MaxFrameLen + 1 :
                  crWire' = crWire \o [Link!Cells(frame) EXCEPT ![at] = Link!Noise(len)]
  <2>1. PICK at \in 1..FrameLen, len \in 0 .. MaxFrameLen + 1 :
            crWire' = crWire \o [f EXCEPT ![at] = Link!Noise(len)]
    BY <1>5
  <2>2. Link!Noise(len) \in LinkCells /\ Link!Noise(len).frame.rc
    <3>1. 0 \in 0..FrameLen /\ 0 \in Nat
      BY <1>1
    <3> QED
      BY <3>1 DEF Link!Noise, Link!Rc, LinkCells, Link!Frames
  <2> DEFINE more == [f EXCEPT ![at] = Link!Noise(len)]
  <2>3. more \in Seq(LinkCells) /\ Len(more) = Len(f)
        /\ \A i \in 1..Len(f) : more[i] = IF i = at THEN Link!Noise(len) ELSE f[i]
    <3> HIDE DEF f
    <3>1. DOMAIN f = 1..Len(f) /\ \A i \in 1..Len(f) : f[i] \in LinkCells
      BY <1>1, LenProperties, ElementOfSeq
    <3>2. more = [i \in 1..Len(f) |-> IF i = at THEN Link!Noise(len) ELSE f[i]]
      BY <3>1
    <3>3. Len(f) \in Nat
      BY <1>1, LenProperties
    <3> DEFINE e(i) == IF i = at THEN Link!Noise(len) ELSE f[i]
    <3>4. \A i \in 1..Len(f) : e(i) \in LinkCells
      BY <2>2, <3>1
    <3>5. [i \in 1..Len(f) |-> e(i)] \in Seq(LinkCells)
      <4> HIDE DEF e
      <4> QED
        BY <3>3, <3>4, IsASeq
    <3>6. more \in Seq(LinkCells) /\ DOMAIN more = 1..Len(f)
      BY <3>2, <3>5
    <3> HIDE DEF more
    <3>7. Len(more) = Len(f)
      BY <3>3, <3>6, LenProperties
    <3> QED
      BY <3>2, <3>6, <3>7
  <2>4. \A i \in 1..Len(more) : more[i].frame = frame \/ more[i].frame.rc
    <3> HIDE DEF more, f
    <3> QED
      BY <1>1, <1>2, <2>2, <2>3
  <2>5. crDamage' \in 0..MaxDamage
    BY <1>3, <1>5
  <2> QED
    BY <2>1, <2>3, <2>4, <2>5
<1>6. CASE /\ crDamage < MaxDamage
           /\ crDamage' = crDamage + 1
           /\ \E at \in 1..FrameLen : crWire' = crWire \o Link!RemoveAt(Link!Cells(frame), at)
  <2>1. PICK at \in 1..FrameLen : crWire' = crWire \o Link!RemoveAt(f, at)
    BY <1>6
  <2> DEFINE a == SubSeq(f, 1, at - 1)
             b == SubSeq(f, at + 1, Len(f))
  <2>2. Link!RemoveAt(f, at) = a \o b
    BY DEF Link!RemoveAt
  <2> HIDE DEF f
  <2>3. /\ at \in Int /\ 1 <= at /\ at <= Len(f) /\ Len(f) \in Nat
        /\ 1 \in 1 .. Len(f) + 1 /\ at - 1 \in 1 - 1 .. Len(f)
        /\ at + 1 \in 1 .. Len(f) + 1 /\ Len(f) \in at + 1 - 1 .. Len(f)
    BY <1>1
  <2>4. /\ a \in Seq(LinkCells) /\ Len(a) = at - 1 - 1 + 1
        /\ \A k \in 1 .. at - 1 - 1 + 1 : a[k] = f[1 + k - 1]
    BY <1>1, <2>3, PartOf
  <2>5. /\ b \in Seq(LinkCells) /\ Len(b) = Len(f) - (at + 1) + 1
        /\ \A k \in 1 .. Len(f) - (at + 1) + 1 : b[k] = f[at + 1 + k - 1]
    BY <1>1, <2>3, PartOf
  <2> HIDE DEF a, b
  <2>6. /\ a \o b \in Seq(LinkCells) /\ Len(a \o b) = Len(a) + Len(b)
        /\ \A i \in 1 .. Len(a) + Len(b) :
               (a \o b)[i] = IF i <= Len(a) THEN a[i] ELSE b[i - Len(a)]
    BY <2>4, <2>5, ConcatProperties
  <2>7. ASSUME NEW i \in 1..Len(a \o b) PROVE (a \o b)[i].frame = frame
    <3>0. i \in Int /\ 1 <= i /\ i <= Len(a) + Len(b) /\ Len(a) = at - 1 /\ Len(b) = Len(f) - at
      BY <2>3, <2>4, <2>5, <2>6
    <3>1. CASE i <= Len(a)
      <4>1. i \in 1 .. at - 1 - 1 + 1 /\ 1 + i - 1 \in 1..FrameLen
        BY <1>1, <2>3, <3>0, <3>1
      <4> QED
        BY <1>2, <2>4, <2>6, <3>0, <3>1, <4>1
    <3>2. CASE ~ (i <= Len(a))
      <4> DEFINE k == i - Len(a)
      <4>1. k \in 1 .. Len(f) - (at + 1) + 1 /\ at + 1 + k - 1 \in 1..FrameLen
        BY <1>1, <2>3, <3>0, <3>2
      <4>2. (a \o b)[i] = b[k]
        BY <2>6, <3>0, <3>2
      <4> HIDE DEF k
      <4> QED
        BY <1>2, <2>5, <4>1, <4>2
    <3> QED
      BY <3>1, <3>2
  <2>8. crDamage' \in 0..MaxDamage
    BY <1>3, <1>6
  <2> QED
    BY <2>1, <2>2, <2>6, <2>7, <2>8
<1> QED
  BY <1>4, <1>5, <1>6 DEF Link!Transmit

LEMMA LinkInitInv == ASSUME Link!ConstantsOK PROVE Link!Init => LinkInv
<1> SUFFICES ASSUME Link!Init PROVE LinkInv
  OBVIOUS
<1>1. /\ crWire = <<>> /\ crBuffer = <<>> /\ crRecent = <<>> /\ crDelivered = <<>>
      /\ crSent = 0 /\ crRc = 0 /\ crDamage = 0 /\ crReopens = 0 /\ crIntact = <<>>
  BY DEF Link!Init
<1>2. <<>> \in Seq(LinkCells) /\ <<>> \in Seq(Link!Frames) /\ Len(<<>>) = 0
  BY EmptySeq
<1>3. Link!TypeOK
  <2>1. 0 \in 0..MaxSent /\ 0 \in 0..MaxRc /\ 0 \in 0..MaxDamage /\ 0 \in 0..MaxReopens
    BY LinkBounds
  <2> QED
    BY <1>1, <1>2, <2>1 DEF Link!TypeOK, LinkCells
<1>4. RecentInv
  BY <1>1, <1>2 DEF RecentInv
<1>5. Link!BufferBounded
  BY <1>1, <1>2, LinkBounds DEF Link!BufferBounded
<1>6. Link!TelemetryKept
  <2>1. <<>> \o <<>> = <<>>
    OBVIOUS
  <2>2. /\ Link!IntactAt(<<>>) \in SUBSET (1..Len(<<>>))
        /\ Link!IntactIn(<<>>) = Link!FramesAt(<<>>, Link!IntactAt(<<>>))
    BY <1>2, IntactIs
  <2>3. Link!IntactAt(<<>>) = {}
    BY <1>2, <2>2
  <2>4. {} \in SUBSET (1..Len(<<>>)) /\ Cardinality({}) = 0
    BY FS_EmptySet
  <2>5. Link!FramesAt(<<>>, {}) \in Seq(Link!Frames) /\ Len(Link!FramesAt(<<>>, {})) = 0
    BY <1>2, <2>4, FramesType
  <2>6. Link!FramesAt(<<>>, {}) = <<>>
    BY <2>5, EmptySeq
  <2> QED
    BY <1>1, <2>1, <2>2, <2>3, <2>6 DEF Link!TelemetryKept
<1> QED
  BY <1>3, <1>4, <1>5, <1>6 DEF LinkInv

LEMMA ModuleKeeps ==
  ASSUME Link!ConstantsOK, LinkInv, Link!Module
  PROVE  LinkInv'
<1>0. /\ crWire \in Seq(LinkCells) /\ crBuffer \in Seq(LinkCells)
      /\ crRecent \in Seq(Link!Frames) /\ crDelivered \in Seq(Link!Frames)
      /\ crSent \in 0..MaxSent /\ crRc \in 0..MaxRc
      /\ crDamage \in 0..MaxDamage /\ crReopens \in 0..MaxReopens
  BY LinkTypes
<1>1. /\ crSent < MaxSent /\ crSent' = crSent + 1
      /\ Link!Transmit(Link!Telemetry(crSent'))
      /\ crIntact' = crDelivered \o Link!IntactIn(crBuffer \o crWire')
      /\ UNCHANGED <<crBuffer, crRecent, crDelivered, crRc, crReopens>>
  BY DEF Link!Module
<1>2. crSent' \in 0..MaxSent /\ crSent' \in Nat
  BY <1>0, <1>1, LinkBounds
<1>3. Link!Telemetry(crSent') \in Link!Frames
  BY <1>2 DEF Link!Telemetry, Link!Frames
<1>4. PICK more \in Seq(LinkCells) : crWire' = crWire \o more
  <2> DEFINE f == Link!Telemetry(crSent')
  <2> HIDE DEF f
  <2>1. f \in Link!Frames /\ Link!Transmit(f)
    BY <1>1, <1>3 DEF f
  <2> QED
    BY <1>0, <2>1, Transmitted
<1>5. crDamage' \in 0..MaxDamage
  <2> DEFINE f == Link!Telemetry(crSent')
  <2> HIDE DEF f
  <2>1. f \in Link!Frames /\ Link!Transmit(f)
    BY <1>1, <1>3 DEF f
  <2> QED
    BY <1>0, <2>1, Transmitted
<1>6. crWire' \in Seq(LinkCells) /\ crBuffer \o crWire' \in Seq(LinkCells)
  BY <1>0, <1>4, ConcatProperties
<1>7. crIntact' \in Seq(Link!Frames)
  <2>1. Link!IntactIn(crBuffer \o crWire') \in Seq(Link!Frames)
    <3> DEFINE c == crBuffer \o crWire'
    <3> HIDE DEF c
    <3>1. c \in Seq(LinkCells)
      BY <1>6 DEF c
    <3>2. Link!IntactIn(c) \in Seq(Link!Frames)
      BY <3>1, IntactIs
    <3> QED
      BY <3>2 DEF c
  <2> QED
    BY <1>0, <1>1, <2>1, ConcatProperties
<1>8. Link!TypeOK'
  BY <1>0, <1>1, <1>2, <1>5, <1>6, <1>7, LinkTyped
<1>9. RecentInv' /\ Link!BufferBounded'
  BY <1>1 DEF LinkInv, RecentInv, Link!BufferBounded
<1>10. Link!TelemetryKept'
  BY <1>1 DEF Link!TelemetryKept
<1> QED
  BY <1>8, <1>9, <1>10 DEF LinkInv

LEMMA SendRcKeeps ==
  ASSUME Link!ConstantsOK, LinkInv, Link!SendRc
  PROVE  LinkInv'
<1>0. /\ crWire \in Seq(LinkCells) /\ crBuffer \in Seq(LinkCells)
      /\ crRecent \in Seq(Link!Frames) /\ crDelivered \in Seq(Link!Frames)
      /\ crIntact \in Seq(Link!Frames)
      /\ crSent \in 0..MaxSent /\ crRc \in 0..MaxRc
      /\ crDamage \in 0..MaxDamage /\ crReopens \in 0..MaxReopens
  BY LinkTypes
<1> DEFINE f == Link!Rc(crRc')
           q == Append(crRecent, f)
<1>1. /\ crRc < MaxRc /\ crRc' = crRc + 1
      /\ crRecent' = Link!Latest(q, DedupeLen)
      /\ Link!Transmit(f)
      /\ UNCHANGED <<crBuffer, crDelivered, crSent, crReopens, crIntact>>
  BY DEF Link!SendRc
<1>2. crRc' \in 0..MaxRc /\ crRc' \in Nat
  BY <1>0, <1>1, LinkBounds
<1>3. f \in Link!Frames /\ f.rc
  BY <1>2 DEF Link!Rc, Link!Frames
<1> HIDE DEF f
<1>4. /\ crDamage' \in 0..MaxDamage
      /\ \E more \in Seq(LinkCells) :
             /\ crWire' = crWire \o more
             /\ \A i \in 1..Len(more) : more[i].frame = f \/ more[i].frame.rc
  BY <1>0, <1>1, <1>3, Transmitted
<1>5. PICK more \in Seq(LinkCells) :
          /\ crWire' = crWire \o more
          /\ \A i \in 1..Len(more) : more[i].frame = f \/ more[i].frame.rc
  BY <1>4
<1>6. crWire' \in Seq(LinkCells)
  BY <1>0, <1>5, ConcatProperties
<1>7. q \in Seq(Link!Frames) /\ Len(q) = Len(crRecent) + 1 /\ Len(crRecent) \in Nat
      /\ \A k \in 1..Len(q) : q[k].rc
  <2>1. /\ q \in Seq(Link!Frames) /\ Len(q) = Len(crRecent) + 1
        /\ \A k \in 1..Len(crRecent) : q[k] = crRecent[k]
        /\ q[Len(crRecent) + 1] = f
    BY <1>0, <1>3, AppendProperties
  <2>2. Len(crRecent) \in Nat
    BY <1>0, LenProperties
  <2> HIDE DEF q
  <2>3. ASSUME NEW k \in 1..Len(q) PROVE q[k].rc
    <3>1. k \in 1..Len(crRecent) \/ k = Len(crRecent) + 1
      BY <2>1, <2>2
    <3> QED
      BY <1>3, <2>1, <3>1 DEF LinkInv, RecentInv
  <2> QED
    BY <2>1, <2>2, <2>3
<1> HIDE DEF q
<1>8. crRecent' \in Seq(Link!Frames) /\ RecentInv'
  <2>1. CASE Len(q) > DedupeLen
    <3>1. crRecent' = Tail(q)
      BY <1>1, <2>1 DEF Link!Latest
    <3>2. q # <<>>
      BY <1>7, EmptySeq
    <3>3. /\ Tail(q) \in Seq(Link!Frames) /\ Len(Tail(q)) = Len(q) - 1
          /\ \A k \in 1..Len(Tail(q)) : Tail(q)[k] = q[k + 1]
      BY <1>7, <3>2, HeadTailProperties
    <3>4. \A k \in 1..Len(Tail(q)) : k + 1 \in 1..Len(q)
      BY <1>7, <3>3
    <3>5. \A k \in 1..Len(Tail(q)) : Tail(q)[k].rc
      BY <1>7, <3>3, <3>4
    <3> QED
      BY <3>1, <3>3, <3>5 DEF RecentInv
  <2>2. CASE ~ (Len(q) > DedupeLen)
    <3>1. crRecent' = q
      BY <1>1, <2>2 DEF Link!Latest
    <3> QED
      BY <1>7, <3>1 DEF RecentInv
  <2> QED
    BY <2>1, <2>2
<1>9. Link!TypeOK'
  BY <1>0, <1>1, <1>2, <1>4, <1>6, <1>8, LinkTyped
<1>10. Link!BufferBounded'
  BY <1>1 DEF LinkInv, Link!BufferBounded
<1>11. Link!TelemetryKept'
  <2>1. crBuffer \o crWire' = (crBuffer \o crWire) \o more
    <3>1. (crBuffer \o crWire) \o more = crBuffer \o (crWire \o more)
      BY <1>0, ConcatAssociative, SMTT(30)
    <3> QED
      BY <1>5, <3>1
  <2>2. crBuffer \o crWire \in Seq(LinkCells)
    BY <1>0, ConcatProperties
  <2>3. \A i \in 1..Len(more) : more[i].frame.rc
    BY <1>3, <1>5
  <2>4. Link!IntactIn((crBuffer \o crWire) \o more) = Link!IntactIn(crBuffer \o crWire)
    <3> DEFINE c == crBuffer \o crWire
    <3> HIDE DEF c
    <3>1. c \in Seq(LinkCells)
      BY <2>2 DEF c
    <3>2. Link!IntactIn(c \o more) = Link!IntactIn(c)
      BY <2>3, <3>1, IntactAppend
    <3> QED
      BY <3>2 DEF c
  <2>5. crDelivered \o Link!IntactIn(crBuffer \o crWire) = crIntact
    BY DEF LinkInv, Link!TelemetryKept
  <2>6. crDelivered' \o Link!IntactIn(crBuffer' \o crWire') = crIntact'
    BY <1>1, <2>1, <2>4, <2>5
  <2> QED
    BY <2>6 DEF Link!TelemetryKept
<1> QED
  BY <1>8, <1>9, <1>10, <1>11 DEF LinkInv

LEMMA PollInboundKeeps ==
  ASSUME Link!ConstantsOK, LinkInv, Link!PollInbound
  PROVE  LinkInv'
<1>0. /\ crWire \in Seq(LinkCells) /\ crBuffer \in Seq(LinkCells)
      /\ crRecent \in Seq(Link!Frames) /\ crDelivered \in Seq(Link!Frames)
      /\ crIntact \in Seq(Link!Frames)
      /\ crSent \in 0..MaxSent /\ crRc \in 0..MaxRc
      /\ crDamage \in 0..MaxDamage /\ crReopens \in 0..MaxReopens
  BY LinkTypes
<1>1. PICK k \in 1..ReadChunk :
          /\ k <= Len(crWire)
          /\ crWire' = SubSeq(crWire, k + 1, Len(crWire))
          /\ LET cells == crBuffer \o SubSeq(crWire, 1, k)
             IN  /\ crBuffer' = SubSeq(cells, Link!Stop(cells), Len(cells))
                 /\ crDelivered' = crDelivered
                        \o Link!FramesAt(cells, {i \in Link!Taken(cells) :
                                                     ~ Link!IsEcho(cells[i].frame)})
  BY DEF Link!PollInbound
<1>2. UNCHANGED <<crRecent, crSent, crRc, crDamage, crReopens, crIntact>>
  BY DEF Link!PollInbound
<1> DEFINE came == SubSeq(crWire, 1, k)
           rest == SubSeq(crWire, k + 1, Len(crWire))
           cells == crBuffer \o came
           all == cells \o rest
           s == Link!Stop(cells)
           left == SubSeq(cells, s, Len(cells))
           taken == {i \in Link!Taken(cells) : ~ Link!IsEcho(cells[i].frame)}
           new == Link!FramesAt(cells, taken)
<1>3. /\ Len(crWire) \in Nat /\ k \in Int /\ 1 <= k /\ k <= Len(crWire)
      /\ 1 \in 1 .. Len(crWire) + 1 /\ k \in 1 - 1 .. Len(crWire)
      /\ k + 1 \in 1 .. Len(crWire) + 1 /\ Len(crWire) \in k + 1 - 1 .. Len(crWire)
  <2>1. Len(crWire) \in Nat
    BY <1>0, LenProperties
  <2>2. k \in Int /\ 1 <= k /\ k <= Len(crWire)
    BY <1>1, LinkBounds
  <2> QED
    BY <2>1, <2>2
<1>4. came \in Seq(LinkCells) /\ rest \in Seq(LinkCells)
  BY <1>0, <1>3, PartOf
<1>5. came \o rest = crWire
  <2>1. SubSeq(crWire, 1, k) \o SubSeq(crWire, k + 1, Len(crWire))
            = SubSeq(crWire, 1, Len(crWire))
    BY <1>0, <1>3, ConcatAdjacentSubSeq
  <2>2. SubSeq(crWire, 1, Len(crWire)) = crWire
    BY <1>0, SubSeqFull
  <2> QED
    BY <2>1, <2>2
<1>6. /\ crWire' = rest /\ crBuffer' = left /\ crDelivered' = crDelivered \o new
  BY <1>1
<1> HIDE DEF came, rest
<1>7. cells \in Seq(LinkCells)
  BY <1>0, <1>4, ConcatProperties
<1>8. all = crBuffer \o crWire
  <2>0. crBuffer \in Seq(LinkCells)
    BY <1>0
  <2> HIDE DEF cells
  <2>1. (crBuffer \o came) \o rest = crBuffer \o (came \o rest)
    BY <1>4, <2>0, ConcatAssociative
  <2> USE DEF cells
  <2> QED
    BY <1>5, <2>1
<1> HIDE DEF cells
<1>9. /\ all \in Seq(LinkCells) /\ Len(all) = Len(cells) + Len(rest)
      /\ Len(cells) \in Nat /\ Len(rest) \in Nat
      /\ \A j \in 1 .. Len(cells) + Len(rest) :
             all[j] = IF j <= Len(cells) THEN cells[j] ELSE rest[j - Len(cells)]
  BY <1>4, <1>7, ConcatProperties, LenProperties
<1>10. /\ s \in 1 .. Len(cells) + 1 /\ (s <= Len(cells) => Link!Waits(cells, s))
  BY <1>7, StopIs
<1> HIDE DEF s
<1>11. /\ s \in Int /\ 1 <= s /\ s <= Len(cells) + 1 /\ Len(cells) \in s - 1 .. Len(cells)
       /\ s \in 1 .. Len(all) + 1
  BY <1>9, <1>10
<1>12. /\ left \in Seq(LinkCells) /\ Len(left) = Len(cells) - s + 1
       /\ \A j \in 1 .. Len(cells) - s + 1 : left[j] = cells[s + j - 1]
  BY <1>7, <1>10, <1>11, PartOf
\* Every frame that an echo may have is an RC frame.
<1>13. ASSUME NEW f PROVE Link!IsEcho(f) <=> f.rc
  <2>1. ASSUME f \in Link!Range(crRecent) PROVE f.rc
    <3>1. PICK j \in DOMAIN crRecent : f = crRecent[j]
      BY <2>1 DEF Link!Range
    <3>2. j \in 1..Len(crRecent)
      BY <1>0, LenProperties
    <3> QED
      BY <3>1, <3>2 DEF LinkInv, RecentInv
  <2> QED
    BY <2>1 DEF Link!IsEcho
<1>14. taken = Before(Link!IntactAt(all), s)
  <2>1. taken = {i \in Link!Taken(cells) : ~ cells[i].frame.rc}
    BY <1>13
  <2>2. {i \in Link!Taken(cells) : ~ cells[i].frame.rc} =
            Before(Link!IntactAt(cells \o rest), Link!Stop(cells))
    BY <1>4, <1>7, TakenIs
  <2> QED
    BY <2>1, <2>2 DEF s
<1>15. taken \in SUBSET (1..Len(cells)) /\ taken \in SUBSET (1..Len(all))
  <2>1. Link!IntactAt(all) \in SUBSET (1..Len(all))
    <3> HIDE DEF all
    <3> QED
      BY <1>9, IntactIs
  <2>2. taken \in SUBSET (1..Len(all)) /\ \A i \in taken : i < s
    BY <1>14, <2>1 DEF Before
  <2> HIDE DEF taken, all
  <2>3. \A i \in taken : i \in 1..Len(cells)
    BY <1>9, <1>11, <2>2
  <2> QED
    BY <2>2, <2>3
<1> HIDE DEF taken
<1>16. new \in Seq(Link!Frames)
  BY <1>7, <1>15, FramesType
<1>17. new = Link!FramesAt(all, taken)
  <2>1. \A i \in taken : cells[i] = all[i]
    <3> HIDE DEF all
    <3>1. \A i \in taken : i \in Int /\ i \in 1 .. Len(cells) + Len(rest) /\ i <= Len(cells)
      BY <1>9, <1>15
    <3> QED
      BY <1>9, <3>1
  <2> HIDE DEF all
  <2> QED
    BY <1>7, <1>9, <1>15, <2>1, FramesSame
<1>18. left \o rest = SubSeq(all, s, Len(all))
  <2> DEFINE part == SubSeq(all, s, Len(all))
  <2>1. Len(all) \in Nat /\ Len(all) \in s - 1 .. Len(all)
    BY <1>9, <1>11
  <2>2. /\ part \in Seq(LinkCells) /\ Len(part) = Len(all) - s + 1
        /\ \A j \in 1 .. Len(all) - s + 1 : part[j] = all[s + j - 1]
    <3> HIDE DEF all
    <3> QED
      BY <1>9, <1>11, <2>1, PartOf
  <2> HIDE DEF part, left, all
  <2>3. /\ left \o rest \in Seq(LinkCells) /\ Len(left \o rest) = Len(left) + Len(rest)
        /\ \A j \in 1 .. Len(left) + Len(rest) :
               (left \o rest)[j] = IF j <= Len(left) THEN left[j] ELSE rest[j - Len(left)]
    BY <1>4, <1>12, ConcatProperties
  <2>4. Len(left \o rest) = Len(part)
    BY <1>9, <1>11, <1>12, <2>2, <2>3
  <2>5. ASSUME NEW j \in 1..Len(part) PROVE (left \o rest)[j] = part[j]
    <3>0. /\ j \in Int /\ 1 <= j /\ j <= Len(cells) - s + 1 + Len(rest)
          /\ j \in 1 .. Len(all) - s + 1 /\ j \in 1 .. Len(left) + Len(rest)
      BY <1>9, <1>11, <1>12, <2>2
    <3>1. part[j] = all[s + j - 1] /\ s + j - 1 \in 1 .. Len(cells) + Len(rest)
      BY <1>9, <1>11, <2>2, <3>0
    <3>2. CASE j <= Len(left)
      <4>1. s + j - 1 <= Len(cells) /\ j \in 1 .. Len(cells) - s + 1
        BY <1>9, <1>11, <1>12, <3>0, <3>2
      <4>2. (left \o rest)[j] = cells[s + j - 1]
        BY <1>12, <2>3, <3>0, <3>2, <4>1
      <4>3. all[s + j - 1] = cells[s + j - 1]
        BY <1>9, <3>1, <4>1
      <4> QED
        BY <3>1, <4>2, <4>3
    <3>3. CASE ~ (j <= Len(left))
      <4>1. ~ (s + j - 1 <= Len(cells)) /\ j - Len(left) = s + j - 1 - Len(cells)
        BY <1>9, <1>11, <1>12, <3>0, <3>3
      <4>2. (left \o rest)[j] = rest[s + j - 1 - Len(cells)]
        BY <2>3, <3>0, <3>3, <4>1
      <4>3. all[s + j - 1] = rest[s + j - 1 - Len(cells)]
        <5> DEFINE i == s + j - 1
        <5>1. i \in 1 .. Len(cells) + Len(rest) /\ ~ (i <= Len(cells))
          BY <3>1, <4>1
        <5> HIDE DEF i
        <5>2. all[i] = rest[i - Len(cells)]
          BY <1>9, <5>1
        <5>3. i = s + j - 1 /\ i - Len(cells) = s + j - 1 - Len(cells)
          BY <1>9, <1>11, <3>0 DEF i
        <5> QED
          BY <5>2, <5>3
      <4> QED
        BY <3>1, <4>2, <4>3
    <3> QED
      BY <3>2, <3>3
  <2>6. left \o rest = part
    BY <2>2, <2>3, <2>4, <2>5, SeqEqual
  <2> QED
    BY <2>6 DEF part
\* What was whole is what is taken and what is left.
<1>19. Link!IntactIn(all) = new \o Link!IntactIn(left \o rest)
  <2>1. Link!IntactIn(all) = Link!FramesAt(all, Before(Link!IntactAt(all), s))
                                 \o Link!IntactIn(SubSeq(all, s, Len(all)))
    <3> HIDE DEF all
    <3> QED
      BY <1>9, <1>11, IntactSplit
  <2> QED
    BY <1>14, <1>17, <1>18, <2>1
<1>20. Link!IntactIn(left \o rest) \in Seq(Link!Frames)
  <2>1. left \o rest \in Seq(LinkCells)
    BY <1>4, <1>12, ConcatProperties
  <2> DEFINE c == left \o rest
  <2> HIDE DEF c
  <2>2. c \in Seq(LinkCells)
    BY <2>1 DEF c
  <2>3. Link!IntactIn(c) \in Seq(Link!Frames)
    BY <2>2, IntactIs
  <2> QED
    BY <2>3 DEF c
<1>21. Link!TelemetryKept'
  <2>1. (crDelivered \o new) \o Link!IntactIn(left \o rest)
            = crDelivered \o (new \o Link!IntactIn(left \o rest))
    <3> DEFINE more == Link!IntactIn(left \o rest)
    <3>1. more \in Seq(Link!Frames) /\ crDelivered \in Seq(Link!Frames)
      BY <1>0, <1>20
    <3> HIDE DEF new, more
    <3>2. (crDelivered \o new) \o more = crDelivered \o (new \o more)
      BY <1>16, <3>1, ConcatAssociative
    <3> QED
      BY <3>2 DEF more
  <2>2. crDelivered \o Link!IntactIn(crBuffer \o crWire) = crIntact
    BY DEF LinkInv, Link!TelemetryKept
  <2>3. crDelivered' \o Link!IntactIn(crBuffer' \o crWire')
            = (crDelivered \o new) \o Link!IntactIn(left \o rest)
    BY <1>6
  <2>4. crDelivered' \o Link!IntactIn(crBuffer' \o crWire') = crIntact'
    BY <1>2, <1>8, <1>19, <2>1, <2>2, <2>3
  <2> QED
    BY <2>4 DEF Link!TelemetryKept
<1>22. Link!BufferBounded'
  <2>1. MaxFrameLen \in Nat /\ MaxFrameLen > 0
    BY LinkBounds
  <2>2. Len(left) < MaxFrameLen
    <3>1. CASE s <= Len(cells)
      <4>1. Link!Waits(cells, s) /\ s \in 1..Len(cells)
        BY <1>10, <1>11, <3>1
      <4>2. cells[s].len \in 2..MaxFrameLen /\ s + cells[s].len - 1 > Len(cells)
        BY <4>1 DEF Link!Waits, Link!Plausible
      <4> QED
        BY <1>9, <1>11, <1>12, <2>1, <4>2
    <3>2. CASE ~ (s <= Len(cells))
      BY <1>9, <1>11, <1>12, <2>1, <3>2
    <3> QED
      BY <3>1, <3>2
  <2> QED
    BY <1>6, <2>2 DEF Link!BufferBounded
<1>23. Link!TypeOK'
  <2>1. crDelivered' \in Seq(Link!Frames)
    BY <1>0, <1>6, <1>16, ConcatProperties
  <2>2. crWire' \in Seq(LinkCells) /\ crBuffer' \in Seq(LinkCells)
    BY <1>4, <1>6, <1>12
  <2> QED
    BY <1>0, <1>2, <2>1, <2>2, LinkTyped
<1>24. RecentInv'
  BY <1>2 DEF LinkInv, RecentInv
<1> QED
  BY <1>21, <1>22, <1>23, <1>24 DEF LinkInv

LEMMA ReopenKeeps ==
  ASSUME Link!ConstantsOK, LinkInv, Link!Reopen
  PROVE  LinkInv'
<1>0. /\ crWire \in Seq(LinkCells) /\ crBuffer \in Seq(LinkCells)
      /\ crRecent \in Seq(Link!Frames) /\ crDelivered \in Seq(Link!Frames)
      /\ crSent \in 0..MaxSent /\ crRc \in 0..MaxRc
      /\ crDamage \in 0..MaxDamage /\ crReopens \in 0..MaxReopens
  BY LinkTypes
<1>1. /\ crReopens < MaxReopens /\ crReopens' = crReopens + 1 /\ crWire' = <<>>
      /\ crIntact' = crDelivered \o Link!IntactIn(crBuffer)
      /\ UNCHANGED <<crBuffer, crRecent, crDelivered, crSent, crRc, crDamage>>
  BY DEF Link!Reopen
<1>2. Link!IntactIn(crBuffer) \in Seq(Link!Frames)
  BY <1>0, IntactIs
<1>3. crIntact' \in Seq(Link!Frames) /\ <<>> \in Seq(LinkCells)
  BY <1>0, <1>1, <1>2, ConcatProperties, EmptySeq
<1>4. crReopens' \in 0..MaxReopens
  BY <1>0, <1>1, LinkBounds
<1>5. Link!TypeOK'
  BY <1>0, <1>1, <1>3, <1>4, LinkTyped
<1>6. RecentInv' /\ Link!BufferBounded'
  BY <1>1 DEF LinkInv, RecentInv, Link!BufferBounded
<1>7. Link!TelemetryKept'
  <2>1. crBuffer \o <<>> = crBuffer
    BY <1>0, ConcatEmptySeq
  <2> QED
    BY <1>1, <2>1 DEF Link!TelemetryKept
<1> QED
  BY <1>5, <1>6, <1>7 DEF LinkInv

LEMMA LinkKeeps ==
  ASSUME Link!ConstantsOK, LinkInv, [Link!Next]_Link!vars
  PROVE  LinkInv'
<1>1. CASE Link!Module
  BY <1>1, ModuleKeeps
<1>2. CASE Link!SendRc
  BY <1>2, SendRcKeeps
<1>3. CASE Link!PollInbound
  BY <1>3, PollInboundKeeps
<1>4. CASE Link!Reopen
  BY <1>4, ReopenKeeps
<1>5. CASE UNCHANGED Link!vars
  BY <1>5 DEF Link!vars, LinkInv, RecentInv, Link!TypeOK, Link!TelemetryKept, Link!BufferBounded
<1> QED
  BY <1>1, <1>2, <1>3, <1>4, <1>5 DEF Link!Next

LEMMA LinkInvariant == ASSUME Link!ConstantsOK PROVE Link!Spec => []LinkInv
<1>1. Link!Init => LinkInv
  BY LinkInitInv
<1>2. LinkInv /\ [Link!Next]_Link!vars => LinkInv'
  BY LinkKeeps
<1> QED
  BY <1>1, <1>2, PTL DEF Link!Spec

\* CrsfLink.poll_inbound and extract_frames: for every length of frames, chunk and bound,
\* however the bytes arrive and whatever of them is damaged or lost, the telemetry that comes
\* through whole is delivered once and in order and no echo with it; and what waits in the
\* buffer is shorter than the longest frame.
THEOREM TelemetryKeptTheorem ==
  ASSUME Link!ConstantsOK PROVE Link!Spec => []TelemetryKept
<1>1. LinkInv => TelemetryKept
  BY DEF LinkInv, TelemetryKept
<1> QED
  BY <1>1, LinkInvariant, PTL

-----------------------------------------------------------------------------
(* What flies, together: whichever part is active, each part starts and steps as its module *)
(* says.                                                                                    *)

LEMMA OnboardSteps ==
  ASSUME [OnboardNext]_onboardVars
  PROVE  /\ [Next]_vars /\ [Logger!Next]_Logger!vars /\ [Landing!Next]_Landing!vars
         /\ [Link!Next]_Link!vars
<1>1. /\ Next \/ UNCHANGED vars
      /\ Logger!Next \/ UNCHANGED loggerVars
      /\ Landing!Next \/ UNCHANGED landingVars
      /\ Link!Next \/ UNCHANGED linkVars
  BY DEF OnboardNext, onboardVars
<1>2. UNCHANGED loggerVars => UNCHANGED Logger!vars
  BY DEF loggerVars, Logger!vars
<1>3. UNCHANGED landingVars => UNCHANGED Landing!vars
  BY DEF landingVars, Landing!vars, Landing!config, Landing!counters, Landing!link,
         Landing!tracker, Landing!loop
<1>4. UNCHANGED linkVars => UNCHANGED Link!vars
  BY DEF linkVars, Link!vars
<1> QED
  BY <1>1, <1>2, <1>3, <1>4

LEMMA OnboardImplements ==
  OnboardSpec => Spec /\ Logger!Spec /\ Landing!Spec /\ Link!Spec
<1>1. OnboardInit => Init /\ Logger!Init /\ Landing!Init /\ Link!Init
  BY DEF OnboardInit
<1>2. [OnboardNext]_onboardVars =>
          /\ [Next]_vars /\ [Logger!Next]_Logger!vars /\ [Landing!Next]_Landing!vars
          /\ [Link!Next]_Link!vars
  BY OnboardSteps
<1> QED
  BY <1>1, <1>2, PTL DEF OnboardSpec, Spec, Logger!Spec, Landing!Spec, Link!Spec

\* Preflight, as it is run with the others: the first frame of a hold that arms does so on
\* a settled link, or after one let through on a settled link that could not be sent.
THEOREM OnboardArms == OnboardSpec => ArmsOnlyGranted
  BY ArmsTheorem, OnboardImplements, PTL

\* Preflight: no report, however bad, takes the arm channel low once it was let through.
THEOREM OnboardNeverDisarms == OnboardSpec => NeverDisarms
  BY NeverDisarmsTheorem, OnboardImplements, PTL

\* FlightLogger: a session that closed cleanly accounts for every record.
THEOREM OnboardAccounted == OnboardSpec => []SessionAccounted
<1>1. Logger!Spec => []SessionAccounted
  BY OnboardConstantsOK, SessionAccountedTheorem
<1> QED
  BY <1>1, OnboardImplements, PTL

\* LandingTarget: a feed that keeps failing ends the loop, and nothing is published unheard.
THEOREM OnboardFailsLoudly == OnboardSpec => []FailsLoudly
<1>1. Landing!Spec => []FailsLoudly
  BY OnboardConstantsOK, FailsLoudlyTheorem
<1> QED
  BY <1>1, OnboardImplements, PTL

\* CrsfLink: what came through whole is delivered once and in order, from a bounded buffer.
THEOREM OnboardTelemetryKept == OnboardSpec => []TelemetryKept
<1>1. Link!Spec => []TelemetryKept
  BY OnboardConstantsOK, TelemetryKeptTheorem
<1> QED
  BY <1>1, OnboardImplements, PTL

\* Every variable of what flies keeps its type: ages, streaks, counters, queues, control
\* states and what is on the wire.
THEOREM OnboardTypes == OnboardSpec => []TypesOK
<1>1. Spec => []TypeOK
  BY GuardTypesTheorem
<1>2. Logger!Spec => []Logger!TypeOK
  <2>1. LoggerInv => Logger!TypeOK
    BY DEF LoggerInv, LoggerShape
  <2>2. Logger!Spec => []LoggerInv
    BY OnboardConstantsOK, LoggerInvariant
  <2> QED
    BY <2>1, <2>2, PTL
<1>3. Landing!Spec => []Landing!TypeOK
  <2>1. LandingTypes => Landing!TypeOK
    BY DEF LandingTypes
  <2>2. Landing!Spec => []LandingTypes
    BY OnboardConstantsOK, LandingTypesInvariant
  <2> QED
    BY <2>1, <2>2, PTL
<1>4. Link!Spec => []Link!TypeOK
  <2>1. LinkInv => Link!TypeOK
    BY DEF LinkInv
  <2>2. Link!Spec => []LinkInv
    BY OnboardConstantsOK, LinkInvariant
  <2> QED
    BY <2>1, <2>2, PTL
<1>5. TypesOK <=> TypeOK /\ Logger!TypeOK /\ Landing!TypeOK /\ Link!TypeOK
  BY DEF TypesOK
<1> QED
  BY <1>1, <1>2, <1>3, <1>4, <1>5, OnboardImplements, PTL
=============================================================================
