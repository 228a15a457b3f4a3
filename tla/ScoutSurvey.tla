---------------------------- MODULE ScoutSurvey ----------------------------
(***************************************************************************)
(* meshsa.scout: ScoutPipeline turns detections into pins and the operator *)
(* of the station triages them.  Each detection is aligned with a pose,    *)
(* projected, merged into a cluster by Deduplicator and written to the     *)
(* store, under the status that the store has for the pin.  A store in     *)
(* memory dies with its process.  One in a SQLite file is still there when *)
(* the next process begins, without clusters, and may at the same time be  *)
(* served by the station of another process: then the operator acts        *)
(* between any two statements of the pipeline.                             *)
(*                                                                         *)
(* The ground is a line.  A detection lies where the anomaly is that it    *)
(* shows, or off by the noise.  The MARKER emitted with each write is left *)
(* out.                                                                    *)
(***************************************************************************)
EXTENDS Integers, Sequences

CONSTANTS
    Truths,          \* where the anomalies are
    Noises,          \* position noise of the flights: RTK, or a stock receiver
    Radius,          \* dedup_radius_m
    Confs,           \* confidences
    Decisions,       \* the statuses the operator uses
    MaxDetections,   \* bound on detections that are projected
    MaxDrops,        \* bound on detections that a process drops
    MaxTriages,      \* bound on decisions of the operator
    MaxRestarts      \* bound on restarts

\* DETECTION_STATUSES
Statuses == {"new", "tagged", "rejected", "inspected"}

ConstantsOK ==
    /\ Truths \subseteq Int /\ Confs \subseteq Nat \ {0}
    /\ Decisions \subseteq Statuses
    /\ Noises \subseteq Nat
    /\ {Radius, MaxDetections, MaxDrops, MaxTriages, MaxRestarts} \subseteq Nat

VARIABLES
    scNoise,      \* the noise of this flight
    scStorage,    \* "memory", "file", or a file that is "shared"
    scPc,         \* where ingest() is
    scDet,        \* the detection it has at hand: position and confidence
    scPin,        \* the cluster it has merged it into
    scStatus,     \* the status it has read from the store
    scPins,       \* the clusters of the Deduplicator
    scStore,      \* the store: pins by id
    scIds,        \* ids given out
    scStats,      \* PipelineStats
    scSkewed,     \* TimeSync.dropped, for this batch
    scEdit,       \* the pin that set_status has read and is about to write, or NoEdit
    scTriage,     \* history: the operator's last decision on each pin
    scTriages,    \* decisions made
    scRestarts    \* restarts

pipeline == <<scPc, scDet, scPin, scStatus, scPins, scStats, scSkewed>>
operator == <<scEdit, scTriage, scTriages>>
vars == <<scNoise, scStorage, pipeline, scStore, scIds, operator, scRestarts>>

Ids == 1..MaxDetections
NoDet == [pos |-> 0, conf |-> 0]
NoStats == [in |-> 0, projected |-> 0, skew |-> 0, horizon |-> 0]
NoEdit == [id |-> 0, pos |-> 0, conf |-> 0, status |-> "new"]

Init ==
    /\ scNoise \in Noises
    /\ scStorage \in {"memory", "file", "shared"}
    /\ scPc = "idle" /\ scDet = NoDet /\ scPin = 0 /\ scStatus = "new"
    /\ scPins = <<>> /\ scStats = NoStats /\ scSkewed = 0
    /\ scStore = <<>> /\ scIds = 0
    /\ scEdit = NoEdit /\ scTriage = <<>> /\ scTriages = 0 /\ scRestarts = 0

Distance(a, b) == IF a < b THEN b - a ELSE a - b

-----------------------------------------------------------------------------
(* ScoutPipeline.ingest *)

Begin ==
    /\ scPc = "idle"
    /\ scStorage = "shared" \/ scEdit = NoEdit
    /\ scIds < MaxDetections
    /\ scPc' = "next"
    /\ scSkewed' = 0
    /\ UNCHANGED <<scNoise, scStorage, scDet, scPin, scStatus, scPins, scStats, scStore, scIds,
                   operator, scRestarts>>

Count(what) == scStats' = [w \in DOMAIN scStats |-> scStats[w] + IF w \in what THEN 1 ELSE 0]

\* The next detection: no pose is near enough in time, or its ray misses the ground.
Drop ==
    /\ scPc = "next"
    /\ scStats.in - scStats.projected < MaxDrops
    /\ \/ Count({"in"}) /\ scSkewed' = scSkewed + 1
       \/ Count({"in", "horizon"}) /\ UNCHANGED scSkewed
    /\ UNCHANGED <<scNoise, scStorage, scPc, scDet, scPin, scStatus, scPins, scStore, scIds,
                   operator, scRestarts>>

\* The next detection has a position and gets an id.
Project ==
    /\ scPc = "next"
    /\ scIds < MaxDetections
    /\ \E t \in Truths, n \in {-scNoise, 0, scNoise}, c \in Confs :
           scDet' = [pos |-> t + n, conf |-> c]
    /\ Count({"in", "projected"})
    /\ scIds' = scIds + 1
    /\ scPc' = "dedup"
    /\ UNCHANGED <<scNoise, scStorage, scPin, scStatus, scPins, scSkewed, scStore,
                   operator, scRestarts>>

\* Deduplicator.add: the first cluster whose anchor is within the radius.
Near == {i \in DOMAIN scPins : Distance(scDet.pos, scPins[i].anchor) <= Radius}
First(S) == CHOOSE i \in S : \A j \in S : i <= j

MergeMovesAnchor(i) ==
    scPins' = IF scDet.conf > scPins[i].conf
              THEN [scPins EXCEPT ![i] = [id |-> @.id, anchor |-> scDet.pos,
                                          pos |-> scDet.pos, conf |-> scDet.conf]]
              ELSE scPins

\* It keeps its id and its anchor, and takes the better fix.
Merge(i) ==
    scPins' = IF scDet.conf > scPins[i].conf
              THEN [scPins EXCEPT ![i] = [id |-> @.id, anchor |-> @.anchor,
                                          pos |-> scDet.pos, conf |-> scDet.conf]]
              ELSE scPins

Dedup ==
    /\ scPc = "dedup"
    /\ IF Near # {}
       THEN Merge(First(Near)) /\ scPin' = First(Near)
       ELSE /\ scPins' = Append(scPins, [id |-> scIds, anchor |-> scDet.pos,
                                         pos |-> scDet.pos, conf |-> scDet.conf])
            /\ scPin' = Len(scPins')
    /\ scPc' = "read"
    /\ UNCHANGED <<scNoise, scStorage, scDet, scStatus, scStats, scSkewed, scStore, scIds,
                   operator, scRestarts>>

\* store.get: the operator's decision on this pin, if there is one.
Read ==
    /\ scPc = "read"
    /\ scPc' = "write"
    /\ scStatus' = IF scPins[scPin].id \in DOMAIN scStore
                   THEN scStore[scPins[scPin].id].status ELSE "new"
    /\ UNCHANGED <<scNoise, scStorage, scDet, scPin, scPins, scStats, scSkewed, scStore, scIds,
                   operator, scRestarts>>

\* store.add: replaces what the store has under that id.
Put(id, pin) == scStore' = [i \in DOMAIN scStore \cup {id} |-> IF i = id THEN pin ELSE scStore[i]]

Write ==
    /\ scPc = "write"
    /\ scPc' = "next"
    /\ LET pin == scPins[scPin]
       IN  Put(pin.id, [pos |-> pin.pos, conf |-> pin.conf, status |-> scStatus])
    /\ scDet' = NoDet /\ scPin' = 0 /\ scStatus' = "new"
    /\ UNCHANGED <<scNoise, scStorage, scPins, scStats, scSkewed, scIds, operator,
                   scRestarts>>

\* The end of a batch: its skewed detections join the others.
End ==
    /\ scPc = "next"
    /\ scPc' = "idle"
    /\ scStats' = [scStats EXCEPT !.skew = @ + scSkewed]
    /\ scSkewed' = 0
    /\ UNCHANGED <<scNoise, scStorage, scDet, scPin, scStatus, scPins, scStore, scIds, operator,
                   scRestarts>>

-----------------------------------------------------------------------------
(* The operator, and the process *)

\* set_status_body, for an id in the store and one of the statuses; others change nothing.
\* store.set_status gets the pin ...
Edit ==
    /\ scEdit = NoEdit
    /\ scTriages < MaxTriages
    /\ scTriages' = scTriages + 1
    /\ scStorage = "shared" \/ scPc = "idle"
    /\ \E id \in DOMAIN scStore, status \in Decisions :
           scEdit' = [id |-> id, pos |-> scStore[id].pos, conf |-> scStore[id].conf,
                      status |-> status]
    /\ UNCHANGED <<scNoise, scStorage, pipeline, scStore, scIds, scTriage, scRestarts>>

\* ... and adds it again.
SetStatus ==
    /\ scEdit # NoEdit
    /\ Put(scEdit.id, [pos |-> scEdit.pos, conf |-> scEdit.conf, status |-> scEdit.status])
    /\ scTriage' = [i \in DOMAIN scTriage \cup {scEdit.id} |->
                        IF i = scEdit.id THEN scEdit.status ELSE scTriage[i]]
    /\ scEdit' = NoEdit
    /\ UNCHANGED <<scNoise, scStorage, pipeline, scIds, scTriages, scRestarts>>

\* The process ends, at any step (a locked database ends it too), and another begins.
Restart ==
    /\ scRestarts < MaxRestarts
    /\ scRestarts' = scRestarts + 1
    /\ scPc' = "idle" /\ scDet' = NoDet /\ scPin' = 0 /\ scStatus' = "new"
    /\ scPins' = <<>> /\ scStats' = NoStats /\ scSkewed' = 0
    /\ IF scStorage = "memory"
       THEN scStore' = <<>> /\ scTriage' = <<>>
       ELSE UNCHANGED <<scStore, scTriage>>
    /\ scEdit' = IF scStorage = "shared" THEN scEdit ELSE NoEdit
    /\ UNCHANGED <<scNoise, scStorage, scIds, scTriages>>

Next ==
    \/ Begin \/ Drop \/ Project \/ Dedup \/ Read \/ Write \/ End
    \/ Edit \/ SetStatus \/ Restart

Spec == Init /\ [][Next]_vars

-----------------------------------------------------------------------------
(* Properties *)

Fixes == [pos : Int, conf : Confs]

TypeOK ==
    /\ scNoise \in Noises /\ scStorage \in {"memory", "file", "shared"}
    /\ scPc \in {"idle", "next", "dedup", "read", "write"}
    /\ scDet \in Fixes \cup {NoDet}
    /\ scPin \in 0..Len(scPins) /\ scStatus \in Statuses
    /\ scPins \in Seq([id : Ids, anchor : Int, pos : Int, conf : Confs])
    /\ DOMAIN scStore \subseteq Ids
    /\ \A id \in DOMAIN scStore : scStore[id] \in [pos : Int, conf : Confs, status : Statuses]
    /\ scIds \in 0..MaxDetections
    /\ scStats \in [DOMAIN NoStats -> 0 .. MaxDetections + MaxDrops] /\ scSkewed \in 0..MaxDrops
    /\ scEdit.id \in 0..MaxDetections /\ DOMAIN scTriage \subseteq DOMAIN scStore

\* No detection gets lost on its way, over any number of batches: each is projected, or
\* dropped and counted under its reason.
DetectionsAccounted ==
    scStats.in = scStats.projected + scStats.horizon + scStats.skew + scSkewed

\* However many better fixes a cluster adopts, it does not drift: its pin stays within the
\* radius of where it started, and no two clusters start within the radius of each other.
ClustersStayPut ==
    \A i \in DOMAIN scPins :
        /\ Distance(scPins[i].pos, scPins[i].anchor) <= Radius
        /\ \A j \in DOMAIN scPins : i # j => Distance(scPins[i].anchor, scPins[j].anchor) > Radius

\* With RTK noise an anomaly that stands alone has one cluster, in whatever order the
\* detections come.  (Clusters die with their process; in a file the pins of an earlier one
\* remain, and the anomaly may get another.)
StandsAlone(t) == \A u \in Truths \ {t} : Distance(t, u) > Radius + 2 * scNoise

OnePinPerTruth ==
    2 * scNoise <= Radius =>
        \A t \in Truths : StandsAlone(t) =>
            \A i, j \in DOMAIN scPins :
                Distance(scPins[i].pos, t) <= scNoise /\ Distance(scPins[j].pos, t) <= scNoise
                    => i = j

\* A cluster's pin in the store is what the cluster says, but for the one that is being written; unless
\* the file is shared, where set_status may put an older fix back.
StoreCurrent ==
    scStorage # "shared" => \A i \in DOMAIN scPins :
        scPc \in {"idle", "next"} \/ i # scPin =>
            /\ scPins[i].id \in DOMAIN scStore
            /\ scStore[scPins[i].id].pos = scPins[i].pos
            /\ scStore[scPins[i].id].conf = scPins[i].conf

\* Later frames refine a pin and never undo what the operator decided on it, across batches
\* and restarts; unless the file is shared, where the decision can fall between the read
\* and the write.
TriageKept ==
    scStorage # "shared" => \A id \in DOMAIN scTriage : scStore[id].status = scTriage[id]
=============================================================================
