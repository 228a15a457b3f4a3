--------------------------- MODULE LandingTarget ---------------------------
(***************************************************************************)
(* The Jetson's precision-landing loop: Pipeline of jetson_yolo_gcs with   *)
(* its LandingTargetBridge and HeartbeatMonitor.  One thread reads a       *)
(* frame, detects, tracks, streams, polls the link for one HEARTBEAT and   *)
(* publishes LANDING_TARGET, unless the autopilot's heartbeat is stale.    *)
(* Meanwhile time passes, heartbeats arrive (the autopilot's and those of  *)
(* other systems on the link) and a signal may ask the loop to stop.       *)
(*                                                                         *)
(* Ages count ticks and stop at the first value beyond what they are       *)
(* compared with.  Frame rates, logging and the geometry of the message    *)
(* are left out.                                                           *)
(***************************************************************************)
EXTENDS Integers, Sequences, FiniteSets

CONSTANTS
    Tolerance,    \* publish_failure_tolerance
    MaxEmpties,   \* max_consecutive_empty
    MaxAge,       \* heartbeat_timeout_s, in ticks
    MaxGap,       \* 1 / min_publish_rate_hz, in ticks
    MaxTargets,   \* bound on frames with a target
    MaxTracks,    \* bound on track ids
    MaxBeats      \* bound on heartbeats buffered by the link

ConstantsOK ==
    /\ {Tolerance, MaxAge, MaxGap, MaxTargets, MaxTracks, MaxBeats} \subseteq Nat
    /\ MaxEmpties \in Nat \ {0}

VARIABLES
    ltGate,       \* require_heartbeat
    ltFrame,      \* MavlinkSettings.frame
    ltPc,         \* what the loop does next
    ltStop,       \* _stop
    ltEmpties,    \* consecutive empty reads
    ltConn,       \* the bridge has a connection
    ltBeats,      \* heartbeats buffered by the link, by their sender
    ltAge,        \* age of the last beat() of the monitor, -1 before the first
    ltGap,        \* time since the last publish, -1 before the first
    ltCount,      \* the counters of the pipeline and of the bridge
    ltStreak,     \* _consecutive_publish_failures
    ltTracks,     \* tracks_total and _max_track_id
    ltHeard,      \* history: the autopilot has sent a heartbeat
    ltSilence,    \* history: age of the autopilot's last heartbeat
    ltFails,      \* history: publishes that raised since the last one that was sent
    ltIds         \* history: track ids reported

counters == <<ltCount, ltStreak, ltFails, ltGap>>
tracker == <<ltTracks, ltIds>>
link == <<ltConn, ltBeats, ltAge, ltHeard, ltSilence>>
loop == <<ltPc, ltStop, ltEmpties>>
config == <<ltGate, ltFrame>>
vars == <<config, loop, link, counters, tracker>>

Outcomes == {"target", "published", "suppressed", "failed", "slow",
             "no_heartbeat", "no_pose", "unprojectable"}

\* build_pipeline starts the bridge; a bridge wired by hand may open its link later.
Init ==
    /\ ltGate \in BOOLEAN
    /\ ltFrame \in {"body_frd", "local_ned"}
    /\ ltPc = "read" /\ ltStop = FALSE /\ ltEmpties = 0
    /\ ltConn \in BOOLEAN
    /\ ltBeats = <<>> /\ ltAge = -1 /\ ltHeard = FALSE /\ ltSilence = 0
    /\ ltCount = [o \in Outcomes |-> 0] /\ ltStreak = 0 /\ ltFails = 0 /\ ltGap = -1
    /\ ltTracks = [total |-> 0, max |-> 0] /\ ltIds = {}

-----------------------------------------------------------------------------
(* The world around the loop *)

Aged(age, limit) == IF age \in 0..limit THEN age + 1 ELSE age

Tick ==
    /\ ltAge' = Aged(ltAge, MaxAge)
    /\ ltGap' = Aged(ltGap, MaxGap)
    /\ ltSilence' = Aged(ltSilence, MaxAge)
    /\ UNCHANGED <<config, loop, ltConn, ltBeats, ltHeard, ltCount, ltStreak, ltFails, tracker>>

\* A heartbeat of the autopilot or of another system reaches an open link.
Beat ==
    /\ ltConn
    /\ Len(ltBeats) < MaxBeats
    /\ \E from \in {"autopilot", "other"} :
           /\ ltBeats' = Append(ltBeats, from)
           /\ ltHeard' = (ltHeard \/ from = "autopilot")
           /\ ltSilence' = IF from = "autopilot" THEN 0 ELSE ltSilence
    /\ UNCHANGED <<config, loop, ltConn, ltAge, counters, tracker>>

\* SIGINT or SIGTERM.
RequestStop ==
    /\ ltPc # "closed"
    /\ ~ltStop
    /\ ltStop' = TRUE
    /\ UNCHANGED <<config, ltPc, ltEmpties, link, counters, tracker>>

-----------------------------------------------------------------------------
(* run() and step() *)

\* The camera yields a frame, or none in time, or raises; the detector finds what it finds,
\* or drops the frame by a DetectionError, or raises.
Read ==
    /\ ltPc = "read"
    /\ \/ /\ ltStop
          /\ ltPc' = "close"
          /\ UNCHANGED ltEmpties
       \/ /\ ~ltStop
          /\ ltEmpties' = 0
          /\ ltPc' \in {"track", "read", "close"}
       \/ /\ ~ltStop
          /\ ltEmpties' = ltEmpties + 1
          /\ ltPc' = IF ltEmpties' >= MaxEmpties THEN "close" ELSE "read"
    /\ UNCHANGED <<config, ltStop, link, counters, tracker>>

\* NorfairTracker.update reports the tracks matched to a detection of this frame: those it
\* has just confirmed, with the next ids, and some of those it knew.
Matched(old, upto) == old \cup (ltTracks.max + 1 .. upto)

\* _update_tracks counts the ids above the highest so far, and the stream is written.  A tracker
\* that raises (here, before it confirms any) and a stream that does cost this frame only.
Track ==
    /\ ltPc = "track"
    /\ \/ \E old \in SUBSET ltIds, upto \in ltTracks.max..MaxTracks :
              LET matched == Matched(old, upto)
                  new == {i \in matched : i > ltTracks.max}
              IN  /\ ltIds' = ltIds \cup matched
                  /\ ltTracks' = [total |-> ltTracks.total + Cardinality(new), max |-> upto]
       \/ UNCHANGED tracker
    /\ ltPc' = "poll"
    /\ UNCHANGED <<config, ltStop, ltEmpties, link, counters>>

\* The link opens, or its factory raises.
Connected(open) == open \in {ltConn, TRUE}

AnyBeat(from) == TRUE

\* _is_target_heartbeat
IsTarget(from) == from = "autopilot"

\* poll_heartbeat: with the gate on, opens the link if need be and takes ONE buffered
\* HEARTBEAT, whose time is the time it is taken.  Errors are swallowed.
PollHeartbeat ==
    /\ ltPc = "poll"
    /\ ltPc' = "publish"
    /\ \/ UNCHANGED <<ltConn, ltBeats, ltAge>>
       \/ /\ ltGate
          /\ Connected(ltConn')
          /\ \/ ltBeats = <<>> /\ UNCHANGED <<ltBeats, ltAge>>
             \/ /\ ltBeats # <<>>
                /\ ltBeats' = Tail(ltBeats)
                /\ ltAge' = IF IsTarget(Head(ltBeats)) THEN 0 ELSE ltAge
    /\ UNCHANGED <<config, ltStop, ltEmpties, ltHeard, ltSilence, counters, tracker>>

\* HeartbeatMonitor.is_fresh
IsFresh == ltAge \in 0..MaxAge

Sendable == ~ltGate \/ IsFresh

Counted(what) == ltCount' = [o \in Outcomes |-> ltCount[o] + IF o \in what THEN 1 ELSE 0]

SuppressedResets(reason) ==
    /\ Counted({"target", "suppressed", reason})
    /\ ltStreak' = 0
    /\ ltPc' = "read"
    /\ UNCHANGED <<ltFails, ltGap>>

\* A send that the bridge suppresses, counted by the bridge under its reason, and by the
\* pipeline: the streak of failures goes on.
Suppressed(reason) ==
    /\ Counted({"target", "suppressed", reason})
    /\ ltPc' = "read"
    /\ UNCHANGED <<ltStreak, ltFails, ltGap>>

\* _note_publish_cadence: too long since the last one.
Slow == ltGap > MaxGap

\* A message went out, and what the pipeline notes of it.
Sent ==
    /\ ltConn'
    /\ Counted({"target", "published"} \cup (IF Slow THEN {"slow"} ELSE {}))
    /\ ltStreak' = 0
    /\ ltFails' = 0
    /\ ltGap' = 0
    /\ ltPc' = "read"

\* The send raises, or there is no link: tolerated, until it happens too often.
Raised ==
    /\ Counted({"target", "failed"})
    /\ ltStreak' = ltStreak + 1
    /\ ltFails' = ltFails + 1
    /\ ltPc' = IF ltStreak' > Tolerance THEN "close" ELSE "read"
    /\ UNCHANGED ltGap

\* _send_local_ned without a pose, or with one from which the target cannot be projected.
NedSuppressed ==
    /\ ltConn'
    /\ ltFrame = "local_ned"
    /\ \E reason \in {"no_pose", "unprojectable"} : Suppressed(reason)

\* _select_target finds no target, or it is published.
Publish ==
    /\ ltPc = "publish"
    /\ \/ ltPc' = "read" /\ UNCHANGED <<ltConn, counters>>
       \/ /\ ltCount["target"] < MaxTargets
          /\ \/ ~Sendable /\ Suppressed("no_heartbeat") /\ UNCHANGED ltConn
             \/ /\ Sendable
                /\ Connected(ltConn')
                /\ Sent \/ Raised \/ NedSuppressed
    /\ UNCHANGED <<config, ltStop, ltEmpties, ltBeats, ltAge, ltHeard, ltSilence, tracker>>

CloseBridge == ltConn' = FALSE

\* close() of the camera, the detector, the stream, the bridge and the tracker, whatever
\* ended run() and whichever of them raises.
Close ==
    /\ ltPc = "close"
    /\ ltPc' = "closed"
    /\ CloseBridge
    /\ UNCHANGED <<config, ltStop, ltEmpties, ltBeats, ltAge, ltHeard, ltSilence, counters, tracker>>

Loop == Read \/ Track \/ PollHeartbeat \/ Publish \/ Close

Next == Tick \/ Beat \/ RequestStop \/ Loop

Spec == Init /\ [][Next]_vars

\* Time passes; no read, detection or send blocks for ever.
Fairness == WF_vars(Tick) /\ WF_vars(Loop)

FairSpec == Spec /\ Fairness

-----------------------------------------------------------------------------
(* Properties *)

Ages(limit) == -1 .. limit + 1

TypeOK ==
    /\ ltGate \in BOOLEAN /\ ltFrame \in {"body_frd", "local_ned"}
    /\ ltPc \in {"read", "track", "poll", "publish", "close", "closed"}
    /\ ltStop \in BOOLEAN /\ ltEmpties \in 0..MaxEmpties
    /\ ltConn \in BOOLEAN /\ ltBeats \in Seq({"autopilot", "other"})
    /\ ltAge \in Ages(MaxAge) /\ ltGap \in Ages(MaxGap)
    /\ ltHeard \in BOOLEAN /\ ltSilence \in Ages(MaxAge)
    /\ ltCount \in [Outcomes -> 0..MaxTargets]
    /\ ltStreak \in 0..MaxTargets /\ ltFails \in 0..MaxTargets
    /\ ltTracks \in [total : Nat, max : 0..MaxTracks]
    /\ ltIds \in SUBSET (1..MaxTracks)

\* Every target is accounted for once, by the pipeline and by the bridge alike: it was
\* published, suppressed for one reason, or raised.
TargetsAccounted ==
    /\ ltCount["target"] = ltCount["published"] + ltCount["suppressed"] + ltCount["failed"]
    /\ ltCount["suppressed"] =
           ltCount["no_heartbeat"] + ltCount["no_pose"] + ltCount["unprojectable"]
    /\ ltCount["slow"] <= ltCount["published"]

\* tracks_total counts the distinct tracks, from a high-water mark alone.
TracksCounted == ltTracks.total = Cardinality(ltIds)

\* A feed whose sends keep failing fails loudly, and one that works does not: the loop goes
\* on while no more sends than tolerated have raised since the last that went out, however
\* many were suppressed in between, and only then.  What it counts meanwhile adds up.
FailsLoudly ==
    /\ ltPc \notin {"close", "closed"} => ltFails <= Tolerance
    /\ ltFails <= Tolerance + 1
    /\ TargetsAccounted
    /\ TracksCounted

\* Fail closed: with the gate on nothing is published before the autopilot, and not merely
\* some other system on the link, has been heard.
OnlyOnceHeard == ltGate /\ ltCount["published"] > 0 => ltHeard

\* An autopilot that stays silent closes the gate for good, whatever is still buffered and
\* whatever other systems send.
SilenceSuppresses ==
    ltGate => (<>[](ltSilence > MaxAge) => <>[](~Sendable))

\* A signal ends the loop and closes everything, at whatever step it arrives.
StopCloses == ltStop ~> ltPc = "closed"

\* What the gate is for: no send while the autopilot is silent.
NoSendOnSilence ==
    [][ltGate /\ ltCount'["published"] > ltCount["published"] => ltSilence <= MaxAge]_vars
=============================================================================
