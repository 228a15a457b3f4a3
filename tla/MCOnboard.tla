------------------------------ MODULE MCOnboard ------------------------------
(***************************************************************************)
(* The parts that fly, for one TLC run: the health monitor and arm guard,  *)
(* the session logger, the RC link, and the landing loop of the Jetson.    *)
(* They keep no state in common, so it suffices to run each by itself:     *)
(* "active" names the one that runs, the others stay as they were          *)
(* constructed.                                                            *)
(***************************************************************************)
EXTENDS Preflight, Integers, Sequences

CONSTANTS Records, Stream, QueueLen, Sentinel, MaxDiskErrors,
          Tolerance, MaxEmpties, MaxAge, MaxGap, MaxTargets, MaxTracks, MaxBeats,
          FrameLen, MaxFrameLen, ReadChunk, DedupeLen, MaxSent, MaxRc, MaxDamage, MaxReopens

VARIABLES
    active,
    started, call, closer, queue, writer, hand, filesOpen, written, dropped, manifest,
    diskErrors, early,
    ltGate, ltFrame, ltPc, ltStop, ltEmpties, ltConn, ltBeats, ltAge, ltGap, ltCount,
    ltStreak, ltTracks, ltHeard, ltSilence, ltFails, ltIds,
    crWire, crBuffer, crRecent, crDelivered, crSent, crRc, crDamage, crReopens, crIntact

SomeRecords == {"r1", "e1", "e2"}
SomeStreams == [r1 |-> "rc", e1 |-> "events", e2 |-> "events"]

Logger == INSTANCE FlightLogger WITH MaxFaults <- MaxDiskErrors, faults <- diskErrors
Landing == INSTANCE LandingTarget
Link == INSTANCE CrsfLink

ASSUME OnboardConstantsOK == Logger!ConstantsOK /\ Landing!ConstantsOK /\ Link!ConstantsOK

loggerVars == <<started, call, closer, queue, writer, hand, filesOpen, written, dropped,
                manifest, diskErrors, early>>
landingVars == <<ltGate, ltFrame, ltPc, ltStop, ltEmpties, ltConn, ltBeats, ltAge, ltGap,
                 ltCount, ltStreak, ltTracks, ltHeard, ltSilence, ltFails, ltIds>>
linkVars == <<crWire, crBuffer, crRecent, crDelivered, crSent, crRc, crDamage, crReopens,
              crIntact>>
onboardVars == <<active, vars, loggerVars, landingVars, linkVars>>

OnboardInit ==
    /\ active \in {"guard", "logger", "landing", "link"}
    /\ Init /\ Logger!Init /\ Landing!Init /\ Link!Init
    /\ active # "landing" => ltGate /\ ltConn /\ ltFrame = "body_frd"

OnboardNext ==
    /\ UNCHANGED active
    /\ \/ active = "guard" /\ Next /\ UNCHANGED <<loggerVars, landingVars, linkVars>>
       \/ active = "logger" /\ Logger!Next /\ UNCHANGED <<vars, landingVars, linkVars>>
       \/ active = "landing" /\ Landing!Next /\ UNCHANGED <<vars, loggerVars, linkVars>>
       \/ active = "link" /\ Link!Next /\ UNCHANGED <<vars, loggerVars, landingVars>>

\* The fairness of each module, for the one that runs.
OnboardFairness ==
    /\ WF_vars(active = "guard" /\ Tick)
    /\ WF_vars(active = "guard" /\ Evaluate)
    /\ WF_loggerVars(active = "logger" /\ Logger!Closer)
    /\ \A r \in Records : WF_loggerVars(active = "logger" /\ Logger!Record(r))
    /\ WF_landingVars(active = "landing" /\ Landing!Tick)
    /\ WF_landingVars(active = "landing" /\ Landing!Loop)

OnboardSpec == OnboardInit /\ [][OnboardNext]_onboardVars /\ OnboardFairness

-----------------------------------------------------------------------------
(* The properties of the modules, gathered; ArmsOnlyGranted and NeverDisarms are those *)
(* of Preflight.                                                                       *)

\* Every variable of every module has its type.
TypesOK == TypeOK /\ Logger!TypeOK /\ Landing!TypeOK /\ Link!TypeOK

\* FlightLogger: a session that closed cleanly accounts for every record.
SessionAccounted == Logger!SessionAccounted

\* LandingTarget: a feed that keeps failing ends the loop, the counters add up, and nothing
\* is published before the autopilot is heard.
FailsLoudly == Landing!FailsLoudly /\ Landing!OnlyOnceHeard

\* LandingTarget: the lasting silence of the autopilot closes the gate for good.
FailsClosed == Landing!SilenceSuppresses

\* CrsfLink: what came through whole is delivered once and in order, from a bounded buffer.
TelemetryKept == Link!TelemetryKept /\ Link!BufferBounded

\* Nothing waits for ever: close() of the logger and its callers end, a link that stays
\* good is judged so, and a signal closes the landing loop.
Ends == Logger!CloseEnds /\ Logger!CallsEnd /\ Recovers /\ Landing!StopCloses
=============================================================================
