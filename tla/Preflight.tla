------------------------------ MODULE Preflight ------------------------------
(***************************************************************************)
(* Health-gated arming of meshsa.fpv: LinkHealthMonitor judges the link    *)
(* from the newest LinkStatistics frame, and ArmGuard, an RC link around   *)
(* another RC link, lets the arm channel go high only on its report.       *)
(*                                                                         *)
(* Monitor and guard run on one thread, at no fixed rate: an evaluation    *)
(* may or may not be fed to the guard before the next RC frame.  Ages are  *)
(* counted in ticks and saturate where no comparison tells them apart.     *)
(***************************************************************************)
EXTENDS Naturals

CONSTANTS
    Stale,         \* health_linkstats_stale_s
    Critical,      \* stale_s times health_linkstats_critical_factor
    Hysteresis,    \* health_hysteresis_s
    MaxReportAge,  \* arm_guard_report_max_age_s
    MaxFaults      \* bound on RC frames that cannot be sent

ASSUME PreflightAssumption ==
    /\ Stale \in Nat /\ Critical \in Nat /\ Stale <= Critical
    /\ Hysteresis \in Nat /\ MaxReportAge \in Nat /\ MaxFaults \in Nat

VARIABLES
    quality,     \* what the newest frame in the store says, "NO_DATA" before the first
    frameAge,    \* its age
    state,       \* LinkHealthMonitor._state
    pending,     \* LinkHealthMonitor._pending, "none" if unset
    pendingFor,  \* time since _pending_since
    report,      \* ArmGuard._last_report
    latched,     \* ArmGuard._latched
    wire,        \* arm channel of the last frame that was sent
    faults,      \* frames that could not be sent
    raw,         \* history: raw state of the last evaluation
    okFor,       \* history: for how long every evaluation has found the link OK
    held,        \* history: the arm channel was sent high and commanded high since
    tried        \* history: a frame that found the link settled could not be sent, and the
                 \* arm channel has been commanded high since

monitorVars == <<quality, frameAge, state, pending, pendingFor, raw, okFor>>
vars == <<monitorVars, report, latched, wire, faults, held, tried>>

Qualities == {"OK", "WARN", "CRITICAL"}
Severity == [OK |-> 0, WARN |-> 1, CRITICAL |-> 2, NO_DATA |-> 3]
HealthStates == DOMAIN Severity

NoReport == [state |-> "none", age |-> 0, okFor |-> 0]

Init ==
    /\ quality = "NO_DATA"
    /\ frameAge = 0
    /\ state = "NO_DATA"
    /\ pending = "none"
    /\ pendingFor = 0
    /\ report = NoReport
    /\ latched = FALSE
    /\ wire = "none"
    /\ faults = 0
    /\ raw = "NO_DATA"
    /\ okFor = 0
    /\ held = FALSE
    /\ tried = FALSE

Older(age, limit) == IF age < limit THEN age + 1 ELSE age

Tick ==
    /\ frameAge' = Older(frameAge, Critical + 1)
    /\ pendingFor' = IF pending = "none" THEN 0 ELSE Older(pendingFor, Hysteresis)
    /\ okFor' = IF raw = "OK" THEN Older(okFor, Hysteresis) ELSE 0
    /\ report' = IF report = NoReport THEN report
                 ELSE [report EXCEPT !.age = Older(@, MaxReportAge + 1)]
    /\ <<frameAge', pendingFor', okFor', report'>> # <<frameAge, pendingFor, okFor, report>>
    /\ UNCHANGED <<quality, state, pending, latched, wire, faults, raw, held, tried>>

-----------------------------------------------------------------------------
(* TelemetryStore and LinkHealthMonitor *)

\* A LinkStatistics frame arrives; the thresholds make its fields one of the qualities.
Telemetry(q) ==
    /\ quality' = q
    /\ frameAge' = 0
    /\ UNCHANGED <<state, pending, pendingFor, report, latched, wire, faults, raw, okFor,
                   held, tried>>

\* _raw_state: the age of the frame first, then what it says.
RawState ==
    IF quality = "NO_DATA" THEN "NO_DATA"
    ELSE IF frameAge > Critical THEN "CRITICAL"
    ELSE IF frameAge > Stale THEN "WARN"
    ELSE quality

ClearPending == pending' = "none" /\ pendingFor' = 0

HysteresisKeepsPending(r) ==
    \/ r = state /\ UNCHANGED <<state, pending, pendingFor>>
    \/ /\ Severity[r] > Severity[state]
       /\ state' = r
       /\ UNCHANGED <<pending, pendingFor>>
    \/ /\ Severity[r] < Severity[state]
       /\ pending # r
       /\ pending' = r /\ pendingFor' = 0
       /\ UNCHANGED state
    \/ /\ Severity[r] < Severity[state]
       /\ pending = r
       /\ IF pendingFor >= Hysteresis THEN state' = r /\ ClearPending
          ELSE UNCHANGED <<state, pending, pendingFor>>

HysteresisRaises(r) ==
    \/ r = state /\ ClearPending /\ UNCHANGED state
    \/ /\ Severity[r] # Severity[state]
       /\ pending # r
       /\ pending' = r /\ pendingFor' = 0
       /\ UNCHANGED state
    \/ /\ Severity[r] # Severity[state]
       /\ pending = r
       /\ IF pendingFor >= Hysteresis THEN state' = r /\ ClearPending
          ELSE UNCHANGED <<state, pending, pendingFor>>

\* _apply_hysteresis: degradation is immediate, an improvement must persist.
ApplyHysteresis(r) ==
    \/ r = state /\ ClearPending /\ UNCHANGED state
    \/ Severity[r] > Severity[state] /\ state' = r /\ ClearPending
    \/ /\ Severity[r] < Severity[state]
       /\ pending # r
       /\ pending' = r /\ pendingFor' = 0
       /\ UNCHANGED state
    \/ /\ Severity[r] < Severity[state]
       /\ pending = r
       /\ IF pendingFor >= Hysteresis THEN state' = r /\ ClearPending
          ELSE UNCHANGED <<state, pending, pendingFor>>

\* evaluate(), and update_health() if the owner passes the report on.
Evaluate ==
    /\ ApplyHysteresis(RawState)
    /\ raw' = RawState
    /\ okFor' = IF raw = "OK" /\ RawState = "OK" THEN okFor ELSE 0
    /\ report' \in {report, [state |-> state', age |-> 0, okFor |-> okFor']}
    /\ UNCHANGED <<quality, frameAge, latched, wire, faults, held, tried>>

-----------------------------------------------------------------------------
(* ArmGuard *)

ArmAllowed == report # NoReport /\ report.age <= MaxReportAge /\ report.state = "OK"

\* The report the guard acts on is fresh, and every evaluation of a whole hysteresis
\* window before it found the link OK.
Settled == report.age <= MaxReportAge /\ report.okFor >= Hysteresis

\* The wrapped link sends the frame, or raises (as may the event sink before it).
Forward(arm, commanded) ==
    \/ /\ wire' = arm
       /\ held' = (commanded = "high" /\ (arm = "high" \/ held))
       /\ tried' = (commanded = "high" /\ tried)
       /\ UNCHANGED faults
    \/ /\ faults < MaxFaults
       /\ faults' = faults + 1
       /\ held' = (commanded = "high" /\ held)
       /\ tried' = (commanded = "high" /\ (tried \/ (arm = "high" /\ Settled)))
       /\ UNCHANGED wire

SendRcNoLatch(arm) ==
    /\ \/ arm = "low" /\ latched' = FALSE /\ Forward(arm, arm)
       \/ arm = "high" /\ ArmAllowed /\ latched' = TRUE /\ Forward(arm, arm)
       \/ arm = "high" /\ ~ArmAllowed /\ UNCHANGED latched /\ Forward("low", arm)
    /\ UNCHANGED <<monitorVars, report>>

\* send_rc of a frame whose arm channel the operator commands low or high: latched, it is
\* passed on, and a low one releases the latch; not latched, a high one needs permission.
SendRc(arm) ==
    /\ \/ latched /\ latched' = (arm = "high") /\ Forward(arm, arm)
       \/ ~latched /\ arm = "low" /\ UNCHANGED latched /\ Forward(arm, arm)
       \/ ~latched /\ arm = "high" /\ ArmAllowed /\ latched' = TRUE /\ Forward(arm, arm)
       \/ ~latched /\ arm = "high" /\ ~ArmAllowed /\ UNCHANGED latched /\ Forward("low", arm)
    /\ UNCHANGED <<monitorVars, report>>

-----------------------------------------------------------------------------

Next ==
    \/ Tick \/ Evaluate
    \/ \E q \in Qualities : Telemetry(q)
    \/ \E arm \in {"low", "high"} : SendRc(arm)

Spec == Init /\ [][Next]_vars

\* The monitor's owner keeps evaluating, and time passes.
Fairness == WF_vars(Tick) /\ WF_vars(Evaluate)

FairSpec == Spec /\ Fairness

-----------------------------------------------------------------------------
(* Properties *)

TypeOK ==
    /\ quality \in Qualities \cup {"NO_DATA"}
    /\ frameAge \in 0..Critical + 1
    /\ state \in HealthStates
    /\ pending \in HealthStates \cup {"none"}
    /\ pending # "none" => Severity[pending] < Severity[state]
    /\ pendingFor \in 0..Hysteresis
    /\ report \in [state : HealthStates, age : 0..MaxReportAge + 1, okFor : 0..Hysteresis]
                  \cup {NoReport}
    /\ latched \in BOOLEAN
    /\ wire \in {"none", "low", "high"}
    /\ faults \in 0..MaxFaults
    /\ raw \in HealthStates
    /\ okFor \in 0..Hysteresis
    /\ held \in BOOLEAN
    /\ tried \in BOOLEAN

\* No arming on a single good frame: while the operator holds the arm switch, the first
\* frame that leaves with the arm channel high does so on a settled link, or after a frame
\* of the same hold that was let through on a settled link and that the link could not
\* send.  The second case is what the code does: it latches before it sends, and then no
\* further frame of the hold is tested, whatever has become of the link.
ArmsOnlyGranted == [][~held /\ held' => Settled \/ tried]_vars

\* The guard never disarms in flight: once the arm channel was sent high, no frame goes
\* out with it low until the operator commands it low, however bad the link gets.
NeverDisarms == [][held /\ wire' = "low" => ~held']_vars

\* A link that stays good is eventually judged OK for good.
Recovers ==
    <>[](quality = "OK" /\ frameAge <= Stale) => <>[](state = "OK")
=============================================================================
