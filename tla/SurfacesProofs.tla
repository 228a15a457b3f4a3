---------------------------- MODULE SurfacesProofs ---------------------------
(***************************************************************************)
(* Proofs about what people see and ask, for any detections, decisions,    *)
(* restarts, messages and chats: the scout store keeps its pins, the       *)
(* assistant pairs each tool_use with its result, and the console shows    *)
(* what was last heard.  ScoutInv, ChatInv and PictureInv are the          *)
(* inductive invariants; the lemmas ...Invariant say that a component that *)
(* starts and steps as it should keeps its own.                            *)
(***************************************************************************)
EXTENDS Surfaces, SequenceTheorems, FiniteSetTheorems, WellFoundedInduction, TLAPS

-----------------------------------------------------------------------------
(* ScoutSurvey: clusters stay where they started, each anomaly has one pin, what the        *)
(* operator decided survives, and the store is what the clusters say.                       *)

ScoutPin == [id : Scout!Ids, anchor : Int, pos : Int, conf : Confs]
StorePin == [pos : Int, conf : Confs, status : Scout!Statuses]
ScoutEdit == [id : Scout!Ids, pos : Int, conf : Confs, status : Scout!Statuses]
Counters == {"in", "projected", "skew", "horizon"}

\* The types, with what the program counter says about the detection and the cluster at hand.
ScoutTypes ==
    /\ scNoise \in Noises /\ scStorage \in {"memory", "file", "shared"}
    /\ scPc \in {"idle", "next", "dedup", "read", "write"}
    /\ scDet \in Scout!Fixes \cup {Scout!NoDet}
    /\ scPc = "dedup" => scDet \in Scout!Fixes /\ scIds \in Scout!Ids
    /\ scPins \in Seq(ScoutPin)
    /\ IF scPc \in {"read", "write"} THEN scPin \in 1..Len(scPins) ELSE scPin = 0
    /\ scStatus \in Scout!Statuses
    /\ DOMAIN scStore \subseteq Scout!Ids
    /\ \A id \in DOMAIN scStore : scStore[id] \in StorePin
    /\ scIds \in 0..MaxDetections
    /\ scEdit \in ScoutEdit \cup {Scout!NoEdit}
    /\ DOMAIN scTriage \subseteq DOMAIN scStore

Within(x) == \E t \in Truths : Scout!Distance(x, t) <= scNoise

\* Each cluster has an id of its own, given out before that of the detection at hand, and is
\* where some anomaly is, off by no more than the noise, as its anchor is.
ScoutClusters ==
    /\ \A i \in 1..Len(scPins) :
           /\ scPins[i].id <= scIds
           /\ scPc = "dedup" => scPins[i].id < scIds
           /\ Within(scPins[i].pos) /\ Within(scPins[i].anchor)
           /\ Scout!Distance(scPins[i].pos, scPins[i].anchor) <= Radius
    /\ \A i, j \in 1..Len(scPins) : i # j =>
           /\ scPins[i].id # scPins[j].id
           /\ Scout!Distance(scPins[i].anchor, scPins[j].anchor) > Radius
    /\ scPc = "dedup" => Within(scDet.pos)

\* In a store of one process set_status runs between batches, on the pin the store has, and
\* what the pipeline has read of the status is what the store has.
ScoutStored ==
    scStorage # "shared" =>
        /\ \A i \in 1..Len(scPins) : i # scPin =>
               /\ scPins[i].id \in DOMAIN scStore
               /\ scStore[scPins[i].id].pos = scPins[i].pos
               /\ scStore[scPins[i].id].conf = scPins[i].conf
        /\ \A id \in DOMAIN scTriage : scStore[id].status = scTriage[id]
        /\ scEdit # Scout!NoEdit =>
               /\ scPc = "idle" /\ scEdit.id \in DOMAIN scStore
               /\ scEdit.pos = scStore[scEdit.id].pos /\ scEdit.conf = scStore[scEdit.id].conf
        /\ scPc = "write" /\ scPins[scPin].id \in DOMAIN scStore =>
               scStatus = scStore[scPins[scPin].id].status
        /\ scPc = "write" /\ scPins[scPin].id \notin DOMAIN scStore => scStatus = "new"

\* Every detection counted is projected, under an id, or one of the few that are dropped.
ScoutCounted ==
    /\ scStats \in [Counters -> Nat] /\ scSkewed \in Nat
    /\ scPc = "idle" => scSkewed = 0
    /\ Scout!DetectionsAccounted
    /\ scStats["projected"] <= scIds
    /\ scStats["in"] - scStats["projected"] <= MaxDrops

ScoutInv == ScoutTypes /\ ScoutClusters /\ ScoutStored /\ ScoutCounted

\* A nonempty set of positive integers has a least element, and First takes it.
LEMMA FirstIsMember ==
  ASSUME NEW S \in SUBSET Nat, S # {}
  PROVE  Scout!First(S) \in S
<1>1. IsWellFoundedOn(OpToRel(<, Nat), Nat)
  BY NatLessThanWellFounded
<1>2. PICK x \in S : \A y \in S : ~ (<<y, x>> \in OpToRel(<, Nat))
  BY <1>1, WFMin
<1>3. \A y \in S : x <= y
  <2>1. SUFFICES ASSUME NEW y \in S PROVE ~ (y < x)
    OBVIOUS
  <2>2. y < x => <<y, x>> \in OpToRel(<, Nat)
    BY DEF OpToRel
  <2> QED
    BY <1>2, <2>2
<1> QED
  BY <1>2, <1>3 DEF Scout!First

\* Distance is one, and Merge or a new cluster is what it says.
LEMMA DistanceFacts ==
  ASSUME NEW a \in Int, NEW b \in Int, NEW c \in Int
  PROVE  /\ Scout!Distance(a, b) \in Nat /\ Scout!Distance(a, b) = Scout!Distance(b, a)
         /\ Scout!Distance(a, a) = 0
         /\ Scout!Distance(a, c) <= Scout!Distance(a, b) + Scout!Distance(b, c)
BY DEF Scout!Distance

LEMMA CountAdds ==
  ASSUME scStats \in [Counters -> Nat], NEW what, Scout!Count(what)
  PROVE  /\ scStats' \in [Counters -> Nat]
         /\ \A w \in what \cap Counters : scStats'[w] = scStats[w] + 1
         /\ \A w \in Counters \ what : scStats'[w] = scStats[w]
<1>1. DOMAIN scStats = Counters /\ \A w \in Counters : scStats[w] \in Nat
  OBVIOUS
<1>2. scStats' = [w \in Counters |-> scStats[w] + IF w \in what THEN 1 ELSE 0]
  BY <1>1 DEF Scout!Count
<1>3. \A w \in Counters : scStats[w] + (IF w \in what THEN 1 ELSE 0) \in Nat
  BY <1>1
<1> HIDE DEF Counters
<1>4. \A w \in Counters : scStats'[w] = scStats[w] + IF w \in what THEN 1 ELSE 0
  BY <1>2
<1>5. \A w \in Counters : w \in what => scStats'[w] = scStats[w] + 1
  BY <1>4
<1>6. \A w \in Counters : w \notin what => scStats'[w] = scStats[w]
  BY <1>1, <1>4
<1> QED
  BY <1>2, <1>3, <1>5, <1>6

\* The counters: a step counts what it does with a detection.
LEMMA ScoutCountedKept ==
  ASSUME Scout!ConstantsOK, ScoutTypes, ScoutCounted, [Scout!Next]_Scout!vars
  PROVE  ScoutCounted'
<1>t. /\ scStats \in [Counters -> Nat] /\ scSkewed \in Nat /\ scIds \in Nat
      /\ MaxDrops \in Nat /\ MaxDetections \in Nat
      /\ "in" \in Counters /\ "projected" \in Counters /\ "skew" \in Counters
      /\ "horizon" \in Counters
  BY DEF ScoutTypes, ScoutCounted, Scout!ConstantsOK, Counters
<1>r. \A w \in Counters : scStats[w] \in Nat
  BY <1>t
<1>c. /\ scStats["in"] = scStats["projected"] + scStats["horizon"] + scStats["skew"] + scSkewed
      /\ scStats["projected"] <= scIds /\ scStats["in"] - scStats["projected"] <= MaxDrops
  BY DEF ScoutCounted, Scout!DetectionsAccounted
<1>1. CASE UNCHANGED <<scStats, scSkewed, scIds>> /\ (scPc' = "idle" => scPc = "idle")
  BY <1>1 DEF ScoutCounted, Scout!DetectionsAccounted
<1>2. CASE Scout!Begin
  BY <1>2 DEF Scout!Begin, ScoutCounted, Scout!DetectionsAccounted
<1>3. CASE Scout!Drop
  <2>1. CASE Scout!Count({"in"}) /\ scSkewed' = scSkewed + 1
    <3>1. /\ scStats' \in [Counters -> Nat] /\ scStats'["in"] = scStats["in"] + 1
          /\ scStats'["projected"] = scStats["projected"]
          /\ scStats'["skew"] = scStats["skew"] /\ scStats'["horizon"] = scStats["horizon"]
      BY <1>t, <2>1, CountAdds
    <3> QED
      BY <1>3, <1>t, <1>c, <1>r, <2>1, <3>1 DEF Scout!Drop, ScoutCounted, Scout!DetectionsAccounted
  <2>2. CASE Scout!Count({"in", "horizon"}) /\ scSkewed' = scSkewed
    <3>1. /\ scStats' \in [Counters -> Nat] /\ scStats'["in"] = scStats["in"] + 1
          /\ scStats'["projected"] = scStats["projected"]
          /\ scStats'["skew"] = scStats["skew"] /\ scStats'["horizon"] = scStats["horizon"] + 1
      BY <1>t, <2>2, CountAdds
    <3> QED
      BY <1>3, <1>t, <1>c, <1>r, <2>2, <3>1 DEF Scout!Drop, ScoutCounted, Scout!DetectionsAccounted
  <2> QED
    BY <1>3, <2>1, <2>2 DEF Scout!Drop
<1>4. CASE Scout!Project
  <2>1. /\ scStats' \in [Counters -> Nat] /\ scStats'["in"] = scStats["in"] + 1
        /\ scStats'["projected"] = scStats["projected"] + 1
        /\ scStats'["skew"] = scStats["skew"] /\ scStats'["horizon"] = scStats["horizon"]
    BY <1>4, <1>t, CountAdds DEF Scout!Project
  <2> QED
    BY <1>4, <1>t, <1>c, <1>r, <2>1 DEF Scout!Project, ScoutCounted, Scout!DetectionsAccounted
<1>5. CASE Scout!End
  <2>1. /\ scStats' \in [Counters -> Nat] /\ scStats'["skew"] = scStats["skew"] + scSkewed
        /\ scStats'["in"] = scStats["in"] /\ scStats'["projected"] = scStats["projected"]
        /\ scStats'["horizon"] = scStats["horizon"]
    BY <1>5, <1>t, <1>r DEF Scout!End
  <2> QED
    BY <1>5, <1>t, <1>c, <1>r, <2>1 DEF Scout!End, ScoutCounted, Scout!DetectionsAccounted
<1>6. CASE Scout!Restart
  <2>1. scStats' \in [Counters -> Nat] /\ \A w \in Counters : scStats'[w] = 0
    BY <1>6 DEF Scout!Restart, Scout!NoStats, Counters
  <2> QED
    BY <1>6, <1>t, <2>1 DEF Scout!Restart, ScoutCounted, Scout!DetectionsAccounted
<1>7. CASE Scout!Dedup \/ Scout!Read \/ Scout!Write \/ Scout!Edit \/ Scout!SetStatus
  <2>1. UNCHANGED <<scStats, scSkewed, scIds>> /\ (scPc' = "idle" => scPc = "idle")
    BY <1>7 DEF Scout!Dedup, Scout!Read, Scout!Write, Scout!Edit, Scout!SetStatus, Scout!pipeline
  <2> QED
    BY <1>1, <2>1
<1>8. CASE UNCHANGED Scout!vars
  BY <1>1, <1>8 DEF Scout!vars, Scout!pipeline
<1> QED
  BY <1>2, <1>3, <1>4, <1>5, <1>6, <1>7, <1>8 DEF Scout!Next

\* A merge leaves every other cluster as it is, and of this one the id and the anchor.
LEMMA MergeKeeps ==
  ASSUME ScoutTypes, scDet \in Scout!Fixes, NEW i \in 1..Len(scPins), Scout!Merge(i)
  PROVE  /\ scPins' \in Seq(ScoutPin) /\ Len(scPins') = Len(scPins)
         /\ \A j \in 1..Len(scPins) : j # i => scPins'[j] = scPins[j]
         /\ scPins'[i].id = scPins[i].id /\ scPins'[i].anchor = scPins[i].anchor
         /\ \/ scPins'[i] = scPins[i]
            \/ scPins'[i].pos = scDet.pos /\ scPins'[i].conf = scDet.conf
<1>t. scPins \in Seq(ScoutPin) /\ scPins[i] \in ScoutPin
  BY ElementOfSeq DEF ScoutTypes
<1>1. CASE scPins' = scPins
  BY <1>1, <1>t
<1>2. CASE scDet.conf > scPins[i].conf
  <2> DEFINE p == [id |-> scPins[i].id, anchor |-> scPins[i].anchor,
                   pos |-> scDet.pos, conf |-> scDet.conf]
  <2>1. scPins' = [scPins EXCEPT ![i] = p]
    BY <1>2 DEF Scout!Merge
  <2>2. /\ p \in ScoutPin /\ p.id = scPins[i].id /\ p.anchor = scPins[i].anchor
        /\ p.pos = scDet.pos /\ p.conf = scDet.conf
    BY <1>t DEF ScoutPin, Scout!Fixes
  <2> HIDE DEF p
  <2>3. /\ scPins' \in Seq(ScoutPin) /\ Len(scPins') = Len(scPins) /\ scPins'[i] = p
        /\ \A j \in 1..Len(scPins) : j # i => scPins'[j] = scPins[j]
    BY <1>t, <2>1, <2>2, ExceptSeq
  <2> QED
    BY <2>2, <2>3
<1> QED
  BY <1>1, <1>2 DEF Scout!Merge

\* The step of the Deduplicator: the detection's cluster is new, or one that was near.
LEMMA DedupAdds ==
  ASSUME ScoutTypes, Scout!Dedup
  PROVE  /\ scDet \in Scout!Fixes /\ scIds \in Scout!Ids /\ scPin' \in 1..Len(scPins')
         /\ scPins' \in Seq(ScoutPin)
         /\ \/ /\ scPin' \in Scout!Near /\ Scout!Merge(scPin')
            \/ /\ Scout!Near = {} /\ Len(scPins') = Len(scPins) + 1 /\ scPin' = Len(scPins')
               /\ \A j \in 1..Len(scPins) : scPins'[j] = scPins[j]
               /\ scPins'[scPin'].id = scIds /\ scPins'[scPin'].anchor = scDet.pos
               /\ scPins'[scPin'].pos = scDet.pos /\ scPins'[scPin'].conf = scDet.conf
<1>1. scDet \in Scout!Fixes /\ scIds \in Scout!Ids /\ scPins \in Seq(ScoutPin)
  BY DEF Scout!Dedup, ScoutTypes
<1>2. CASE Scout!Near # {}
  <2>1. Scout!Near \in SUBSET Nat /\ Scout!Near \subseteq 1..Len(scPins)
    BY <1>1, LenProperties DEF Scout!Near
  <2>2. Scout!First(Scout!Near) \in Scout!Near
    BY <1>2, <2>1, FirstIsMember
  <2>3. scPin' \in Scout!Near /\ Scout!Merge(scPin')
    BY <1>2, <2>2 DEF Scout!Dedup
  <2>4. scPin' \in 1..Len(scPins)
    BY <2>1, <2>3
  <2> QED
    BY <1>1, <2>3, <2>4, MergeKeeps
<1>3. CASE Scout!Near = {}
  <2> DEFINE p == [id |-> scIds, anchor |-> scDet.pos, pos |-> scDet.pos, conf |-> scDet.conf]
  <2>1. scPins' = Append(scPins, p) /\ scPin' = Len(scPins')
    BY <1>3 DEF Scout!Dedup
  <2>2. /\ p \in ScoutPin /\ p.id = scIds /\ p.anchor = scDet.pos
        /\ p.pos = scDet.pos /\ p.conf = scDet.conf
    BY <1>1 DEF ScoutPin, Scout!Fixes
  <2> HIDE DEF p
  <2>3. /\ scPins' \in Seq(ScoutPin) /\ Len(scPins') = Len(scPins) + 1
        /\ scPins'[Len(scPins) + 1] = p
        /\ \A j \in 1..Len(scPins) : scPins'[j] = scPins[j]
    BY <1>1, <2>1, <2>2, AppendProperties
  <2>4. scPin' = Len(scPins) + 1 /\ scPin' \in 1..Len(scPins')
    BY <1>1, <2>1, <2>3, LenProperties
  <2> QED
    BY <1>1, <1>3, <2>1, <2>2, <2>3, <2>4
<1> QED
  BY <1>2, <1>3

\* What is put is in the store, and nothing else in it changes.
LEMMA PutPuts ==
  ASSUME NEW id, NEW pin, Scout!Put(id, pin)
  PROVE  /\ DOMAIN scStore' = DOMAIN scStore \cup {id} /\ scStore'[id] = pin
         /\ \A i \in DOMAIN scStore : i # id => scStore'[i] = scStore[i]
BY DEF Scout!Put

\* Types.
LEMMA ScoutTypesKept ==
  ASSUME Scout!ConstantsOK, ScoutTypes, [Scout!Next]_Scout!vars
  PROVE  ScoutTypes'
<1>t. /\ scNoise \in Noises /\ scStorage \in {"memory", "file", "shared"}
      /\ scPc \in {"idle", "next", "dedup", "read", "write"}
      /\ scDet \in Scout!Fixes \cup {Scout!NoDet}
      /\ scPc = "dedup" => scDet \in Scout!Fixes /\ scIds \in Scout!Ids
      /\ scPins \in Seq(ScoutPin) /\ scStatus \in Scout!Statuses
      /\ IF scPc \in {"read", "write"} THEN scPin \in 1..Len(scPins) ELSE scPin = 0
      /\ DOMAIN scStore \subseteq Scout!Ids
      /\ \A id \in DOMAIN scStore : scStore[id] \in StorePin
      /\ scIds \in 0..MaxDetections /\ MaxDetections \in Nat
      /\ scEdit \in ScoutEdit \cup {Scout!NoEdit}
      /\ DOMAIN scTriage \subseteq DOMAIN scStore
  BY DEF ScoutTypes, Scout!ConstantsOK
<1>1. CASE Scout!Begin \/ Scout!Drop \/ Scout!End \/ UNCHANGED Scout!vars
  BY <1>1, <1>t DEF Scout!Begin, Scout!Drop, Scout!End, Scout!vars, Scout!pipeline,
                    Scout!operator, ScoutTypes
<1>2. CASE Scout!Project
  <2>1. PICK t \in Truths, n \in {-scNoise, 0, scNoise}, c \in Confs :
            scDet' = [pos |-> t + n, conf |-> c]
    BY <1>2 DEF Scout!Project
  <2>2. t + n \in Int
    BY <1>t DEF Scout!ConstantsOK
  <2>3. scDet' \in Scout!Fixes
    BY <2>1, <2>2 DEF Scout!Fixes
  <2>4. scIds' \in Scout!Ids /\ scIds' \in 0..MaxDetections
    BY <1>2, <1>t DEF Scout!Project, Scout!Ids
  <2> QED
    BY <1>2, <1>t, <2>3, <2>4 DEF Scout!Project, Scout!operator, ScoutTypes
<1>3. CASE Scout!Dedup
  <2>1. scPin' \in 1..Len(scPins') /\ scPins' \in Seq(ScoutPin) /\ scPc' = "read"
    BY <1>3, DedupAdds DEF Scout!Dedup
  <2> QED
    BY <1>3, <1>t, <2>1 DEF Scout!Dedup, Scout!operator, ScoutTypes
<1>4. CASE Scout!Read
  <2>1. scStatus' \in Scout!Statuses
    BY <1>4, <1>t DEF Scout!Read, StorePin, Scout!Statuses
  <2> QED
    BY <1>4, <1>t, <2>1 DEF Scout!Read, Scout!operator, ScoutTypes
<1>5. CASE Scout!Write
  <2> DEFINE pin == scPins[scPin]
             put == [pos |-> pin.pos, conf |-> pin.conf, status |-> scStatus]
  <2>1. pin \in ScoutPin
    BY <1>5, <1>t, ElementOfSeq DEF Scout!Write
  <2>2. Scout!Put(pin.id, put) /\ put \in StorePin /\ pin.id \in Scout!Ids
    BY <1>5, <1>t, <2>1 DEF Scout!Write, ScoutPin, StorePin
  <2> HIDE DEF pin, put
  <2>5. /\ DOMAIN scStore' = DOMAIN scStore \cup {pin.id} /\ scStore'[pin.id] = put
        /\ \A i \in DOMAIN scStore : i # pin.id => scStore'[i] = scStore[i]
    BY <2>2, PutPuts
  <2>3. DOMAIN scStore' \subseteq Scout!Ids /\ \A id \in DOMAIN scStore' : scStore'[id] \in StorePin
    BY <1>t, <2>2, <2>5
  <2>4. DOMAIN scTriage' \subseteq DOMAIN scStore'
    <3>1. UNCHANGED scTriage
      BY <1>5 DEF Scout!Write, Scout!operator
    <3> QED
      BY <1>t, <2>5, <3>1
  <2> QED
    BY <1>5, <1>t, <2>3, <2>4 DEF Scout!Write, Scout!operator, ScoutTypes, Scout!Statuses
<1>6. CASE Scout!Edit
  <2>1. PICK id \in DOMAIN scStore, status \in Decisions :
            scEdit' = [id |-> id, pos |-> scStore[id].pos, conf |-> scStore[id].conf,
                       status |-> status]
    BY <1>6 DEF Scout!Edit
  <2>2. id \in Scout!Ids /\ scStore[id] \in StorePin /\ status \in Scout!Statuses
    BY <1>t, <2>1 DEF Scout!ConstantsOK
  <2>3. scEdit' \in ScoutEdit
    BY <2>1, <2>2 DEF ScoutEdit, StorePin
  <2> QED
    BY <1>6, <1>t, <2>3 DEF Scout!Edit, Scout!pipeline, ScoutTypes
<1>7. CASE Scout!SetStatus
  <2> DEFINE put == [pos |-> scEdit.pos, conf |-> scEdit.conf, status |-> scEdit.status]
  <2>1. scEdit \in ScoutEdit
    BY <1>7, <1>t DEF Scout!SetStatus
  <2>2. Scout!Put(scEdit.id, put) /\ put \in StorePin /\ scEdit.id \in Scout!Ids
    BY <1>7, <2>1 DEF Scout!SetStatus, ScoutEdit, StorePin
  <2> HIDE DEF put
  <2>5. /\ DOMAIN scStore' = DOMAIN scStore \cup {scEdit.id} /\ scStore'[scEdit.id] = put
        /\ \A i \in DOMAIN scStore : i # scEdit.id => scStore'[i] = scStore[i]
    BY <2>2, PutPuts
  <2>3. /\ DOMAIN scStore' = DOMAIN scStore \cup {scEdit.id} /\ DOMAIN scStore' \subseteq Scout!Ids
        /\ \A id \in DOMAIN scStore' : scStore'[id] \in StorePin
    BY <1>t, <2>2, <2>5
  <2>4. DOMAIN scTriage' = DOMAIN scTriage \cup {scEdit.id} /\ scEdit' = Scout!NoEdit
    BY <1>7 DEF Scout!SetStatus
  <2> QED
    BY <1>7, <1>t, <2>3, <2>4 DEF Scout!SetStatus, Scout!pipeline, ScoutTypes
<1>8. CASE Scout!Restart
  <2>1. /\ scPins' = <<>> /\ scPins' \in Seq(ScoutPin) /\ scPc' = "idle" /\ scPin' = 0
        /\ scDet' = Scout!NoDet /\ scStatus' = "new" /\ scIds' = scIds
        /\ scNoise' = scNoise /\ scStorage' = scStorage
    BY <1>8, EmptySeq DEF Scout!Restart
  <2>2. /\ DOMAIN scStore' \subseteq Scout!Ids
        /\ \A id \in DOMAIN scStore' : scStore'[id] \in StorePin
        /\ DOMAIN scTriage' \subseteq DOMAIN scStore'
    <3>1. CASE scStorage = "memory"
      <4>1. DOMAIN scStore' = {} /\ DOMAIN scTriage' = {}
        BY <1>8, <3>1 DEF Scout!Restart
      <4> QED
        BY <4>1
    <3>2. CASE scStorage # "memory"
      BY <1>8, <1>t, <3>2 DEF Scout!Restart
    <3> QED
      BY <3>1, <3>2
  <2>3. scEdit' \in ScoutEdit \cup {Scout!NoEdit}
    BY <1>8, <1>t DEF Scout!Restart
  <2> QED
    BY <1>t, <2>1, <2>2, <2>3 DEF ScoutTypes, Scout!Statuses
<1> QED
  BY <1>1, <1>2, <1>3, <1>4, <1>5, <1>6, <1>7, <1>8 DEF Scout!Next

\* Clusters: a merge moves a pin and no anchor, and a new cluster is out of reach of the others.
LEMMA ScoutClustersKept ==
  ASSUME Scout!ConstantsOK, ScoutTypes, ScoutTypes', ScoutClusters, [Scout!Next]_Scout!vars
  PROVE  ScoutClusters'
<1>t. /\ scPins \in Seq(ScoutPin) /\ scIds \in Nat /\ scNoise \in Nat /\ Truths \subseteq Int
      /\ Radius \in Nat /\ Len(scPins) \in Nat
      /\ \A i \in 1..Len(scPins) : /\ scPins[i].id \in Nat /\ scPins[i].anchor \in Int
                                   /\ scPins[i].pos \in Int
  <2>1. scPins \in Seq(ScoutPin) /\ scIds \in Nat /\ scNoise \in Nat /\ Truths \subseteq Int
        /\ Radius \in Nat /\ MaxDetections \in Nat
    BY DEF ScoutTypes, Scout!ConstantsOK
  <2>2. Len(scPins) \in Nat /\ \A i \in 1..Len(scPins) : scPins[i] \in ScoutPin
    BY <2>1, LenProperties, ElementOfSeq
  <2> QED
    BY <2>1, <2>2 DEF ScoutPin, Scout!Ids
<1>1. CASE UNCHANGED <<scPins, scIds, scNoise, scDet>> /\ (scPc' = "dedup" => scPc = "dedup")
  BY <1>1 DEF ScoutClusters, Within
<1>2. CASE \/ Scout!Begin \/ Scout!Drop \/ Scout!Read \/ Scout!End \/ Scout!Edit
           \/ Scout!SetStatus \/ UNCHANGED Scout!vars
  <2>1. UNCHANGED <<scPins, scIds, scNoise, scDet>> /\ (scPc' = "dedup" => scPc = "dedup")
    BY <1>2 DEF Scout!Begin, Scout!Drop, Scout!Read, Scout!End, Scout!Edit, Scout!SetStatus,
                Scout!vars, Scout!pipeline
  <2> QED
    BY <1>1, <2>1
<1>3. CASE Scout!Write
  <2>1. UNCHANGED <<scPins, scIds, scNoise>> /\ scPc' = "next"
    BY <1>3 DEF Scout!Write
  <2> QED
    BY <2>1 DEF ScoutClusters, Within
<1>4. CASE Scout!Restart
  <2>1. Len(scPins') = 0 /\ scPc' = "idle"
    BY <1>4 DEF Scout!Restart
  <2> QED
    BY <2>1 DEF ScoutClusters
<1>5. CASE Scout!Project
  <2>1. PICK t \in Truths, n \in {-scNoise, 0, scNoise}, c \in Confs :
            scDet' = [pos |-> t + n, conf |-> c]
    BY <1>5 DEF Scout!Project
  <2>2. t \in Int /\ n \in Int /\ scDet'.pos = t + n
    BY <1>t, <2>1
  <2>3. Scout!Distance(t + n, t) <= scNoise
    BY <1>t, <2>1, <2>2 DEF Scout!Distance
  <2>4. /\ scIds' = scIds + 1 /\ scPins' = scPins /\ scNoise' = scNoise /\ scPc' = "dedup"
    BY <1>5 DEF Scout!Project
  <2>5. Within(scDet.pos)'
    BY <2>1, <2>2, <2>3, <2>4 DEF Within
  <2>6. \A i \in 1..Len(scPins) : scPins[i].id < scIds + 1 /\ scPins[i].id <= scIds + 1
    BY <1>t DEF ScoutClusters
  <2> QED
    BY <2>4, <2>5, <2>6 DEF ScoutClusters, Within
<1>6. CASE Scout!Dedup
  <2>1. /\ scPc = "dedup" /\ scPc' = "read" /\ scIds' = scIds /\ scNoise' = scNoise
        /\ scDet' = scDet
    BY <1>6 DEF Scout!Dedup
  <2>2. Within(scDet.pos) /\ scDet.pos \in Int /\ scDet \in Scout!Fixes
    BY <2>1 DEF ScoutClusters, ScoutTypes, Scout!Fixes
  <2>3. CASE scPin' \in Scout!Near /\ Scout!Merge(scPin')
    <3> DEFINE i == scPin'
    <3>1. i \in 1..Len(scPins) /\ Scout!Distance(scDet.pos, scPins[i].anchor) <= Radius
      BY <1>t, <2>3, LenProperties DEF Scout!Near
    <3> HIDE DEF i
    <3>2. Scout!Merge(i)
      BY <2>3 DEF i
    <3>3. /\ Len(scPins') = Len(scPins)
          /\ \A j \in 1..Len(scPins) : j # i => scPins'[j] = scPins[j]
          /\ scPins'[i].id = scPins[i].id /\ scPins'[i].anchor = scPins[i].anchor
          /\ \/ scPins'[i] = scPins[i]
             \/ scPins'[i].pos = scDet.pos
      BY <2>2, <3>1, <3>2, MergeKeeps
    <3>4. \A j \in 1..Len(scPins) : /\ scPins'[j].id = scPins[j].id
                                    /\ scPins'[j].anchor = scPins[j].anchor
      BY <3>3
    <3>5. ASSUME NEW j \in 1..Len(scPins)
          PROVE  /\ Within(scPins'[j].pos)
                 /\ Scout!Distance(scPins'[j].pos, scPins[j].anchor) <= Radius
      BY <2>2, <3>1, <3>3 DEF ScoutClusters
    <3>6. ASSUME NEW j \in 1..Len(scPins)
          PROVE  /\ scPins[j].id <= scIds /\ Within(scPins[j].anchor)
      BY DEF ScoutClusters
    <3>7. ASSUME NEW j \in 1..Len(scPins'), NEW k \in 1..Len(scPins'), j # k
          PROVE  /\ scPins'[j].id # scPins'[k].id
                 /\ Scout!Distance(scPins'[j].anchor, scPins'[k].anchor) > Radius
      BY <3>3, <3>4, <3>7 DEF ScoutClusters
    <3>8. ASSUME NEW j \in 1..Len(scPins')
          PROVE  /\ scPins'[j].id <= scIds /\ Within(scPins'[j].anchor) /\ Within(scPins'[j].pos)
                 /\ Scout!Distance(scPins'[j].pos, scPins'[j].anchor) <= Radius
      BY <3>3, <3>4, <3>5, <3>6
    <3>9. \A x : Within(x) => Within(x)'
      BY <2>1 DEF Within
    <3> QED
      BY <2>1, <3>7, <3>8, <3>9 DEF ScoutClusters, Within
  <2>4. CASE /\ Scout!Near = {} /\ Len(scPins') = Len(scPins) + 1 /\ scPin' = Len(scPins')
             /\ \A j \in 1..Len(scPins) : scPins'[j] = scPins[j]
             /\ scPins'[scPin'].id = scIds /\ scPins'[scPin'].anchor = scDet.pos
             /\ scPins'[scPin'].pos = scDet.pos
    <3>1. \A j \in 1..Len(scPins) : Scout!Distance(scDet.pos, scPins[j].anchor) > Radius
      <4>1. \A j \in 1..Len(scPins) : Scout!Distance(scDet.pos, scPins[j].anchor) \in Nat
        BY <1>t, <2>2, DistanceFacts
      <4> QED
        BY <1>t, <2>4, <4>1, LenProperties DEF Scout!Near
    <3>2. \A j \in 1..Len(scPins) : Scout!Distance(scPins[j].anchor, scDet.pos) > Radius
      BY <1>t, <2>2, <3>1, DistanceFacts
    <3>3. \A j \in 1..Len(scPins) :
              /\ scPins[j].id < scIds /\ scPins[j].id # scIds
              /\ Within(scPins[j].pos) /\ Within(scPins[j].anchor)
              /\ Scout!Distance(scPins[j].pos, scPins[j].anchor) <= Radius
      BY <1>t, <2>1 DEF ScoutClusters
    <3>4. Scout!Distance(scDet.pos, scDet.pos) <= Radius
      <4>1. Scout!Distance(scDet.pos, scDet.pos) = 0
        BY <2>2, DistanceFacts
      <4> QED
        BY <1>t, <4>1
    <3>5. \A j \in 1..Len(scPins') : j \in 1..Len(scPins) \/ j = scPin'
      BY <1>t, <2>4
    <3>6. ASSUME NEW j \in 1..Len(scPins')
          PROVE  /\ scPins'[j].id <= scIds /\ Within(scPins'[j].anchor) /\ Within(scPins'[j].pos)
                 /\ Scout!Distance(scPins'[j].pos, scPins'[j].anchor) <= Radius
      <4>1. CASE j = scPin'
        BY <1>t, <2>2, <2>4, <3>4, <4>1
      <4>2. CASE j \in 1..Len(scPins)
        BY <1>t, <2>4, <3>3, <4>2
      <4> QED
        BY <3>5, <4>1, <4>2
    <3>7. ASSUME NEW j \in 1..Len(scPins'), NEW k \in 1..Len(scPins'), j # k
          PROVE  /\ scPins'[j].id # scPins'[k].id
                 /\ Scout!Distance(scPins'[j].anchor, scPins'[k].anchor) > Radius
      <4>1. CASE j \in 1..Len(scPins) /\ k \in 1..Len(scPins)
        BY <2>4, <3>7, <4>1 DEF ScoutClusters
      <4>2. CASE j \in 1..Len(scPins) /\ k = scPin'
        BY <2>4, <3>2, <3>3, <4>2
      <4>3. CASE j = scPin' /\ k \in 1..Len(scPins)
        BY <2>4, <3>1, <3>3, <4>3
      <4> QED
        BY <3>5, <3>7, <4>1, <4>2, <4>3
    <3>8. \A x : Within(x) => Within(x)'
      BY <2>1 DEF Within
    <3> QED
      BY <2>1, <3>6, <3>7, <3>8 DEF ScoutClusters, Within
  <2> QED
    BY <1>6, <2>3, <2>4, DedupAdds
<1> QED
  BY <1>2, <1>3, <1>4, <1>5, <1>6 DEF Scout!Next

\* The store: Write puts the cluster at hand, SetStatus what the operator decided, and where the
\* store has one process they take turns.
LEMMA ScoutStoredKept ==
  ASSUME Scout!ConstantsOK, ScoutTypes, ScoutClusters, ScoutStored, [Scout!Next]_Scout!vars
  PROVE  ScoutStored'
<1> SUFFICES ASSUME scStorage # "shared" PROVE ScoutStored'
  <2>1. scStorage' = scStorage
    BY DEF Scout!Next, Scout!vars, Scout!Begin, Scout!Drop, Scout!Project, Scout!Dedup, Scout!Read,
           Scout!Write, Scout!End, Scout!Edit, Scout!SetStatus, Scout!Restart
  <2> QED
    BY <2>1 DEF ScoutStored
<1>t. /\ scPins \in Seq(ScoutPin) /\ Len(scPins) \in Nat
      /\ IF scPc \in {"read", "write"} THEN scPin \in 1..Len(scPins) ELSE scPin = 0
      /\ scEdit = Scout!NoEdit \/ scEdit \in ScoutEdit
      /\ DOMAIN scTriage \subseteq DOMAIN scStore
  BY LenProperties DEF ScoutTypes
<1>i. /\ \A i \in 1..Len(scPins) : i # scPin =>
             /\ scPins[i].id \in DOMAIN scStore
             /\ scStore[scPins[i].id].pos = scPins[i].pos
             /\ scStore[scPins[i].id].conf = scPins[i].conf
      /\ \A id \in DOMAIN scTriage : scStore[id].status = scTriage[id]
      /\ scEdit # Scout!NoEdit =>
             /\ scPc = "idle" /\ scEdit.id \in DOMAIN scStore
             /\ scEdit.pos = scStore[scEdit.id].pos /\ scEdit.conf = scStore[scEdit.id].conf
      /\ scPc = "write" /\ scPins[scPin].id \in DOMAIN scStore =>
             scStatus = scStore[scPins[scPin].id].status
      /\ scPc = "write" /\ scPins[scPin].id \notin DOMAIN scStore => scStatus = "new"
  BY DEF ScoutStored
<1>1. CASE \/ Scout!Begin \/ Scout!Drop \/ Scout!Project \/ Scout!End \/ UNCHANGED Scout!vars
  <2>1. /\ UNCHANGED <<scPins, scPin, scStore, scTriage, scEdit, scStatus>>
        /\ scPc' = "write" => scPc = "write"
        /\ scPc' # "idle" => scPc # "idle" \/ scEdit = Scout!NoEdit
    BY <1>1 DEF Scout!Begin, Scout!Drop, Scout!Project, Scout!End, Scout!vars, Scout!pipeline,
                Scout!operator
  <2> QED
    BY <1>i, <2>1 DEF ScoutStored
<1>2. CASE Scout!Dedup
  <2>1. /\ UNCHANGED <<scStore, scTriage, scEdit>> /\ scPc = "dedup" /\ scPc' = "read"
        /\ scEdit = Scout!NoEdit /\ scPin = 0
    BY <1>2, <1>i, <1>t DEF Scout!Dedup, Scout!operator
  <2>2. \A i \in 1..Len(scPins') :
            i # scPin' => i \in 1..Len(scPins) /\ i # scPin /\ scPins'[i] = scPins[i]
    <3>1. CASE scPin' \in Scout!Near /\ Scout!Merge(scPin')
      <4>1. scPin' \in 1..Len(scPins) /\ scDet \in Scout!Fixes
        BY <1>t, <2>1, <3>1, LenProperties DEF Scout!Near, ScoutTypes
      <4>2. /\ Len(scPins') = Len(scPins)
            /\ \A j \in 1..Len(scPins) : j # scPin' => scPins'[j] = scPins[j]
        BY <3>1, <4>1, MergeKeeps
      <4> QED
        BY <1>t, <2>1, <4>2
    <3>2. CASE /\ Len(scPins') = Len(scPins) + 1 /\ scPin' = Len(scPins')
               /\ \A j \in 1..Len(scPins) : scPins'[j] = scPins[j]
      BY <1>t, <2>1, <3>2
    <3> QED
      BY <1>2, <3>1, <3>2, DedupAdds
  <2> QED
    BY <1>i, <2>1, <2>2 DEF ScoutStored
<1>3. CASE Scout!Read
  <2>1. /\ UNCHANGED <<scPins, scPin, scStore, scTriage, scEdit>> /\ scPc = "read"
        /\ scPc' = "write"
        /\ scStatus' = IF scPins[scPin].id \in DOMAIN scStore
                       THEN scStore[scPins[scPin].id].status ELSE "new"
    BY <1>3 DEF Scout!Read, Scout!operator
  <2> QED
    BY <1>i, <2>1 DEF ScoutStored
<1>4. CASE Scout!Write
  <2> DEFINE pin == scPins[scPin]
             put == [pos |-> pin.pos, conf |-> pin.conf, status |-> scStatus]
  <2>1. /\ Scout!Put(pin.id, put) /\ scPc = "write" /\ scPc' = "next" /\ scPin' = 0
        /\ UNCHANGED <<scPins, scTriage, scEdit>>
    BY <1>4 DEF Scout!Write, Scout!operator
  <2>3. /\ scEdit = Scout!NoEdit /\ scPin \in 1..Len(scPins)
        /\ put.pos = pin.pos /\ put.conf = pin.conf /\ put.status = scStatus
    BY <1>i, <1>t, <2>1
  <2>4. \A i \in 1..Len(scPins) : i # scPin => scPins[i].id # pin.id
    BY <2>3 DEF ScoutClusters
  <2>5. pin.id \in DOMAIN scStore => scStatus = scStore[pin.id].status
    BY <1>i, <2>1
  <2>7. scPins[scPin] = pin
    OBVIOUS
  <2> HIDE DEF pin, put
  <2>2. /\ DOMAIN scStore' = DOMAIN scStore \cup {pin.id} /\ scStore'[pin.id] = put
        /\ \A i \in DOMAIN scStore : i # pin.id => scStore'[i] = scStore[i]
    BY <2>1, PutPuts
  <2>6. \A i \in 1..Len(scPins) :
            /\ scPins[i].id \in DOMAIN scStore'
            /\ scStore'[scPins[i].id].pos = scPins[i].pos
            /\ scStore'[scPins[i].id].conf = scPins[i].conf
    <3> TAKE i \in 1..Len(scPins)
    <3>1. CASE i = scPin
      BY <2>2, <2>3, <2>7, <3>1
    <3>2. CASE i # scPin
      BY <1>i, <2>2, <2>4, <3>2
    <3> QED
      BY <3>1, <3>2
  <2>8. \A id \in DOMAIN scTriage : scStore'[id].status = scTriage[id]
    <3> TAKE id \in DOMAIN scTriage
    <3>1. id \in DOMAIN scStore /\ scStore[id].status = scTriage[id]
      BY <1>i, <1>t
    <3>2. CASE id = pin.id
      BY <2>2, <2>3, <2>5, <3>1, <3>2
    <3>3. CASE id # pin.id
      BY <2>2, <3>1, <3>3
    <3> QED
      BY <3>2, <3>3
  <2> QED
    BY <2>1, <2>3, <2>6, <2>8 DEF ScoutStored
<1>5. CASE Scout!Edit
  <2>1. PICK id \in DOMAIN scStore, status \in Decisions :
            scEdit' = [id |-> id, pos |-> scStore[id].pos, conf |-> scStore[id].conf,
                       status |-> status]
    BY <1>5 DEF Scout!Edit
  <2>2. scEdit'.id = id /\ scEdit'.pos = scStore[id].pos /\ scEdit'.conf = scStore[id].conf
    BY <2>1
  <2>3. UNCHANGED <<scPins, scPin, scStore, scTriage, scStatus, scPc>> /\ scPc = "idle"
    BY <1>5 DEF Scout!Edit, Scout!pipeline
  <2> QED
    BY <1>i, <2>1, <2>2, <2>3 DEF ScoutStored
<1>6. CASE Scout!SetStatus
  <2> DEFINE put == [pos |-> scEdit.pos, conf |-> scEdit.conf, status |-> scEdit.status]
             e == scEdit.id
  <2>1. /\ Scout!Put(e, put) /\ scEdit # Scout!NoEdit /\ scEdit' = Scout!NoEdit
        /\ scTriage' = [i \in DOMAIN scTriage \cup {e} |->
                            IF i = e THEN scEdit.status ELSE scTriage[i]]
        /\ UNCHANGED <<scPins, scPin, scStatus, scPc>>
    BY <1>6 DEF Scout!SetStatus, Scout!pipeline
  <2>2. /\ DOMAIN scStore' = DOMAIN scStore \cup {e} /\ scStore'[e] = put
        /\ \A i \in DOMAIN scStore : i # e => scStore'[i] = scStore[i]
    BY <2>1, PutPuts
  <2>3. /\ scPc = "idle" /\ e \in DOMAIN scStore
        /\ put.pos = scStore[e].pos /\ put.conf = scStore[e].conf /\ put.status = scEdit.status
    BY <1>i, <2>1
  <2> HIDE DEF put, e
  <2>4. \A i \in 1..Len(scPins) : i # scPin =>
            /\ scPins[i].id \in DOMAIN scStore'
            /\ scStore'[scPins[i].id].pos = scPins[i].pos
            /\ scStore'[scPins[i].id].conf = scPins[i].conf
    <3> TAKE i \in 1..Len(scPins)
    <3>1. CASE scPins[i].id = e
      BY <1>i, <2>2, <2>3, <3>1
    <3>2. CASE scPins[i].id # e
      BY <1>i, <2>2, <3>2
    <3> QED
      BY <3>1, <3>2
  <2>5. \A id \in DOMAIN scTriage' : scStore'[id].status = scTriage'[id]
    <3> TAKE id \in DOMAIN scTriage'
    <3>1. CASE id = e
      BY <2>1, <2>2, <2>3, <3>1
    <3>2. CASE id # e
      BY <1>i, <1>t, <2>1, <2>2, <3>2
    <3> QED
      BY <3>1, <3>2
  <2> QED
    BY <2>1, <2>3, <2>4, <2>5 DEF ScoutStored
<1>7. CASE Scout!Restart
  <2>1. Len(scPins') = 0 /\ scPc' = "idle" /\ scEdit' = Scout!NoEdit
    BY <1>7 DEF Scout!Restart
  <2>2. \A id \in DOMAIN scTriage' : scStore'[id].status = scTriage'[id]
    <3>1. CASE scStorage = "memory"
      BY <1>7, <3>1 DEF Scout!Restart
    <3>2. CASE scStorage # "memory"
      BY <1>7, <1>i, <3>2 DEF Scout!Restart
    <3> QED
      BY <3>1, <3>2
  <2> QED
    BY <2>1, <2>2 DEF ScoutStored
<1> QED
  BY <1>1, <1>2, <1>3, <1>4, <1>5, <1>6, <1>7 DEF Scout!Next

LEMMA ScoutInitInv == ASSUME Scout!ConstantsOK PROVE Scout!Init => ScoutInv
<1> SUFFICES ASSUME Scout!Init PROVE ScoutInv
  OBVIOUS
<1>1. /\ scNoise \in Noises /\ scStorage \in {"memory", "file", "shared"} /\ scPc = "idle"
      /\ scDet = Scout!NoDet /\ scPin = 0 /\ scStatus = "new" /\ scPins = <<>>
      /\ scStats = Scout!NoStats /\ scSkewed = 0 /\ DOMAIN scStore = {} /\ scIds = 0
      /\ scEdit = Scout!NoEdit /\ DOMAIN scTriage = {}
  BY DEF Scout!Init
<1>2. Len(scPins) = 0 /\ scPins \in Seq(ScoutPin) /\ MaxDetections \in Nat /\ MaxDrops \in Nat
  BY <1>1, EmptySeq DEF Scout!ConstantsOK
<1>3. ScoutTypes
  BY <1>1, <1>2 DEF ScoutTypes, Scout!Statuses
<1>4. ScoutClusters /\ ScoutStored
  BY <1>1, <1>2 DEF ScoutClusters, ScoutStored
<1>5. scStats \in [Counters -> Nat] /\ \A w \in Counters : scStats[w] = 0
  BY <1>1 DEF Scout!NoStats, Counters
<1>6. ScoutCounted
  BY <1>1, <1>2, <1>5 DEF ScoutCounted, Counters, Scout!DetectionsAccounted
<1> QED
  BY <1>3, <1>4, <1>6 DEF ScoutInv

LEMMA ScoutInvariant ==
  ASSUME Scout!ConstantsOK
  PROVE  Scout!Init /\ [][Scout!Next]_Scout!vars => []ScoutInv
<1>1. Scout!Init => ScoutInv
  BY ScoutInitInv
<1>2. ScoutInv /\ [Scout!Next]_Scout!vars => ScoutInv'
  BY ScoutTypesKept, ScoutClustersKept, ScoutStoredKept, ScoutCountedKept DEF ScoutInv
<1> QED
  BY <1>1, <1>2, PTL

\* Two pins in reach of an anomaly that stands alone have both their anchors in its reach, and
\* so are one.
LEMMA OnePin ==
  ASSUME Scout!ConstantsOK, ScoutTypes, ScoutClusters, 2 * scNoise <= Radius,
         NEW t \in Truths, Scout!StandsAlone(t)
  PROVE  \A i, j \in DOMAIN scPins :
             (Scout!Distance(scPins[i].pos, t) <= scNoise
              /\ Scout!Distance(scPins[j].pos, t) <= scNoise) => i = j
<1> DEFINE S == {i \in DOMAIN scPins : Scout!Distance(scPins[i].pos, t) <= scNoise}
<1>t. /\ scNoise \in Nat /\ Radius \in Nat /\ Truths \subseteq Int /\ t \in Int
      /\ DOMAIN scPins = 1..Len(scPins)
      /\ \A i \in 1..Len(scPins) : scPins[i].anchor \in Int /\ scPins[i].pos \in Int
  <2>1. scPins \in Seq(ScoutPin) /\ scNoise \in Nat /\ Truths \subseteq Int /\ Radius \in Nat
    BY DEF ScoutTypes, Scout!ConstantsOK
  <2>2. DOMAIN scPins = 1..Len(scPins) /\ \A i \in 1..Len(scPins) : scPins[i] \in ScoutPin
    BY <2>1, LenProperties, ElementOfSeq
  <2> QED
    BY <2>1, <2>2 DEF ScoutPin
<1>1. ASSUME NEW i \in S PROVE Scout!Distance(scPins[i].anchor, t) <= scNoise
  <2> DEFINE a == scPins[i].anchor
             p == scPins[i].pos
  <2>1. PICK u \in Truths : Scout!Distance(a, u) <= scNoise
    BY <1>t DEF ScoutClusters, Within
  <2>2. Scout!Distance(p, a) <= Radius /\ Scout!Distance(p, t) <= scNoise
    BY <1>t DEF ScoutClusters
  <2>3. a \in Int /\ p \in Int /\ u \in Int
    BY <1>t, <2>1
  <2> HIDE DEF a, p
  <2>4. Scout!Distance(t, u) <= Radius + 2 * scNoise
    BY <1>t, <2>1, <2>2, <2>3 DEF Scout!Distance
  <2>5. u = t
    <3>1. Scout!Distance(t, u) \in Nat /\ Radius + 2 * scNoise \in Nat
      BY <1>t, <2>3, DistanceFacts
    <3>2. ~ (Scout!Distance(t, u) > Radius + 2 * scNoise)
      BY <2>4, <3>1
    <3> QED
      BY <3>2, <2>1 DEF Scout!StandsAlone
  <2> QED
    BY <2>1, <2>5 DEF a
<1>2. ASSUME NEW i \in S, NEW j \in S PROVE i = j
  <2> DEFINE a == scPins[i].anchor
             b == scPins[j].anchor
  <2>1. a \in Int /\ b \in Int /\ Scout!Distance(a, t) <= scNoise /\ Scout!Distance(b, t) <= scNoise
    BY <1>t, <1>1
  <2>2. i # j => Scout!Distance(a, b) > Radius
    BY <1>t DEF ScoutClusters
  <2> HIDE DEF a, b
  <2>3. Scout!Distance(a, b) <= 2 * scNoise
    BY <1>t, <2>1 DEF Scout!Distance
  <2>4. Scout!Distance(a, b) \in Nat
    BY <2>1, DistanceFacts
  <2> QED
    BY <1>t, <2>2, <2>3, <2>4
<1> QED
  BY <1>2

LEMMA PinsKeptHere == ASSUME Scout!ConstantsOK, ScoutInv PROVE PinsKept
<1>1. DOMAIN scPins = 1..Len(scPins)
  BY LenProperties DEF ScoutInv, ScoutTypes
<1>2. Scout!ClustersStayPut
  BY <1>1 DEF ScoutInv, ScoutClusters, Scout!ClustersStayPut
<1>3. Scout!OnePinPerTruth
  <2> SUFFICES ASSUME 2 * scNoise <= Radius, NEW t \in Truths, Scout!StandsAlone(t)
               PROVE  \A i, j \in DOMAIN scPins :
                          /\ Scout!Distance(scPins[i].pos, t) <= scNoise
                          /\ Scout!Distance(scPins[j].pos, t) <= scNoise
                          => i = j
    BY DEF Scout!OnePinPerTruth
  <2> QED
    BY OnePin DEF ScoutInv
<1>4. Scout!TriageKept /\ Scout!DetectionsAccounted
  BY DEF ScoutInv, ScoutStored, ScoutCounted, Scout!TriageKept
<1>5. Scout!StoreCurrent
  <2> SUFFICES ASSUME scStorage # "shared", NEW i \in 1..Len(scPins),
                      scPc \in {"idle", "next"} \/ i # scPin
               PROVE  /\ scPins[i].id \in DOMAIN scStore
                      /\ scStore[scPins[i].id].pos = scPins[i].pos
                      /\ scStore[scPins[i].id].conf = scPins[i].conf
    BY <1>1 DEF Scout!StoreCurrent
  <2>1. scPc \in {"idle", "next"} => scPin = 0
    BY DEF ScoutInv, ScoutTypes
  <2>2. i # 0
    OBVIOUS
  <2>3. i # scPin
    BY <2>1, <2>2
  <2> QED
    BY <2>3 DEF ScoutInv, ScoutStored
<1> QED
  BY <1>2, <1>3, <1>4, <1>5 DEF PinsKept

\* For any flights, detections, decisions and restarts: no cluster drifts, a process makes one
\* of an anomaly that stands alone, and every detection is accounted for; unless pipeline and
\* station share the store's file, the store has the clusters of this process as they are, and
\* the operator's decisions outlive later frames and, with the store, restarts.  (The next
\* process has no clusters: what it detects are new pins beside those in a file.)
THEOREM PinsKeptTheorem == ASSUME Scout!ConstantsOK PROVE Scout!Spec => []PinsKept
<1>1. ScoutInv => PinsKept
  BY PinsKeptHere
<1> QED
  BY <1>1, ScoutInvariant, PTL DEF Scout!Spec

-----------------------------------------------------------------------------
(* Assistant: turns alternate and are paired, round by round. *)

ChatTurns == [role : {"user", "assistant"}, ids : Seq(Nat)]

\* The types, without the bounds of a model-checking run.
ChatTypeInv ==
    /\ asPc \in [Chats -> {"idle", "model", "tool", "done"}]
    /\ asTurns \in [Chats -> Seq(ChatTurns)]
    /\ asRounds \in [Chats -> Nat]
    /\ asResults \in [Chats -> Seq(Nat)]
    /\ asCalls \in [Chats -> Nat]

\* ChatTurns alternate, and a tool_use is answered in the turn after it, if there is one.
ChatPaired(turns) ==
    /\ \A i \in 1..Len(turns) : (turns[i].role = "user") <=> (i % 2 = 1)
    /\ \A i \in 1..Len(turns) - 1 : turns[i].role = "assistant" =>
           turns[i + 1].ids = turns[i].ids

\* Where a chat is in its rounds is how many turns it has; while tools run, the results so far
\* answer the first of what the last turn asks for.
ChatOneInv(c) ==
    /\ asPc[c] = "idle" => asTurns[c] = <<>> /\ asRounds[c] = 0
    /\ asPc[c] = "model" => Len(asTurns[c]) = 2 * asRounds[c] - 1 /\ ChatPaired(asTurns[c])
    /\ asPc[c] = "tool" =>
           /\ Len(asTurns[c]) = 2 * asRounds[c] /\ asRounds[c] > 0
           /\ ChatPaired(asTurns[c])
           /\ Len(asResults[c]) <= Len(Chat!Wanted(c))
           /\ \A k \in 1..Len(asResults[c]) : asResults[c][k] = Chat!Wanted(c)[k]

\* The inductive invariant.
ChatInv == ChatTypeInv /\ \A c \in Chats : ChatOneInv(c)

-----------------------------------------------------------------------------

\* Adding the turn that is due keeps turns paired.
LEMMA ChatPairedAppend ==
  ASSUME NEW turns \in Seq(ChatTurns), NEW turn \in ChatTurns, ChatPaired(turns),
         (turn.role = "user") <=> ((Len(turns) + 1) % 2 = 1),
         turn.role = "user" /\ Len(turns) > 0 => turn.ids = turns[Len(turns)].ids
  PROVE  /\ Append(turns, turn) \in Seq(ChatTurns)
         /\ Len(Append(turns, turn)) = Len(turns) + 1
         /\ ChatPaired(Append(turns, turn))
<1>1. /\ Append(turns, turn) \in Seq(ChatTurns)
      /\ Len(Append(turns, turn)) = Len(turns) + 1 /\ Len(turns) \in Nat
      /\ \A i \in 1..Len(turns) : Append(turns, turn)[i] = turns[i]
      /\ Append(turns, turn)[Len(turns) + 1] = turn
  BY AppendProperties, LenProperties
<1> DEFINE new == Append(turns, turn)
<1>2. \A i \in 1..Len(new) : (new[i].role = "user") <=> (i % 2 = 1)
  BY <1>1 DEF ChatPaired
<1>3. \A i \in 1..Len(new) - 1 : new[i].role = "assistant" => new[i + 1].ids = new[i].ids
  <2> SUFFICES ASSUME NEW i \in 1..Len(turns), turns[i].role = "assistant"
               PROVE  new[i + 1].ids = turns[i].ids
    BY <1>1
  <2>1. CASE i < Len(turns)
    BY <1>1, <2>1 DEF ChatPaired
  <2>2. CASE i = Len(turns)
    <3>1. i % 2 # 1 /\ i \in Nat
      BY <1>1 DEF ChatPaired
    <3>2. (Len(turns) + 1) % 2 = 1
      BY <1>1, <2>2, <3>1
    <3> QED
      BY <1>1, <2>2, <3>2
  <2> QED
    BY <1>1, <2>1, <2>2
<1> QED
  BY <1>1, <1>2, <1>3 DEF ChatPaired

\* A chat without turns.
LEMMA ChatInitInv == Chat!Init => ChatInv
<1> SUFFICES ASSUME Chat!Init PROVE ChatInv
  OBVIOUS
<1>1. <<>> \in Seq(ChatTurns) /\ <<>> \in Seq(Nat)
  OBVIOUS
<1> QED
  BY <1>1 DEF Chat!Init, ChatInv, ChatTypeInv, ChatOneInv

\* What no step of a chat touches of the others.
LEMMA ChatOthersKeep ==
  ASSUME ChatInv, NEW c \in Chats, NEW d \in Chats, d # c,
         asPc'[d] = asPc[d], asTurns'[d] = asTurns[d], asRounds'[d] = asRounds[d],
         asResults'[d] = asResults[d]
  PROVE  ChatOneInv(d)'
  BY DEF ChatInv, ChatOneInv, Chat!Wanted

\* The head of the loop, reached with as many turns as another request has.
LEMMA ChatNextRoundKeeps ==
  ASSUME ChatInv, NEW c \in Chats, Chat!NextRound(c), UNCHANGED <<asResults, asCalls>>,
         asTurns' \in [Chats -> Seq(ChatTurns)],
         \A d \in Chats : d # c => asTurns'[d] = asTurns[d],
         Len(asTurns'[c]) = 2 * asRounds[c] + 1, ChatPaired(asTurns'[c])
  PROVE  ChatInv'
<1>1. CASE asPc' = [asPc EXCEPT ![c] = "model"] /\ asRounds' = [asRounds EXCEPT ![c] = @ + 1]
  <2>1. ChatOneInv(c)'
    BY <1>1 DEF ChatOneInv, ChatInv, ChatTypeInv
  <2>2. \A d \in Chats : d # c => ChatOneInv(d)'
    BY <1>1, ChatOthersKeep DEF ChatInv, ChatTypeInv
  <2> QED
    BY <1>1, <2>1, <2>2 DEF ChatInv, ChatTypeInv
<1>2. CASE asPc' = [asPc EXCEPT ![c] = "done"] /\ UNCHANGED asRounds
  <2>1. ChatOneInv(c)'
    BY <1>2 DEF ChatOneInv, ChatInv, ChatTypeInv
  <2>2. \A d \in Chats : d # c => ChatOneInv(d)'
    BY <1>2, ChatOthersKeep DEF ChatInv, ChatTypeInv
  <2> QED
    BY <1>2, <2>1, <2>2 DEF ChatInv, ChatTypeInv
<1> QED
  BY <1>1, <1>2 DEF Chat!NextRound, Chat!Reply

\* A reply ends a chat, whatever its turns are by then.
LEMMA ChatReplyKeeps ==
  ASSUME ChatInv, NEW c \in Chats, asPc' = [asPc EXCEPT ![c] = "done"],
         asTurns' \in [Chats -> Seq(ChatTurns)], asResults' \in [Chats -> Seq(Nat)],
         \A d \in Chats : d # c => asTurns'[d] = asTurns[d] /\ asResults'[d] = asResults[d],
         UNCHANGED <<asRounds, asCalls>>
  PROVE  ChatInv'
<1>1. ChatOneInv(c)'
  BY DEF ChatOneInv, ChatInv, ChatTypeInv
<1>2. \A d \in Chats : d # c => ChatOneInv(d)'
  BY ChatOthersKeep DEF ChatInv, ChatTypeInv
<1> QED
  BY <1>1, <1>2 DEF ChatInv, ChatTypeInv

\* The prompt is the first turn.
LEMMA ChatAskKeeps == ASSUME ChatInv, NEW c \in Chats, Chat!Ask(c) PROVE ChatInv'
<1>1. CASE Chat!Reply(c, 400) /\ UNCHANGED <<asTurns, asRounds>>
  BY <1>1, ChatReplyKeeps DEF Chat!Ask, Chat!Reply, ChatInv, ChatTypeInv
<1>2. CASE Chat!Added(c, Chat!User(<<>>)) /\ Chat!NextRound(c)
  <2>1. asTurns[c] = <<>> /\ asRounds[c] = 0
    BY DEF Chat!Ask, ChatInv, ChatOneInv
  <2> DEFINE turn == Chat!User(<<>>)
  <2>2. turn \in ChatTurns /\ turn.role = "user"
    BY DEF Chat!User, ChatTurns
  <2>3. asTurns' = [asTurns EXCEPT ![c] = Append(asTurns[c], turn)]
    BY <1>2 DEF Chat!Added
  <2> DEFINE new == Append(asTurns[c], turn)
  <2>4. new \in Seq(ChatTurns) /\ Len(new) = 1 /\ ChatPaired(new)
    <3> HIDE DEF turn
    <3>1. asTurns[c] \in Seq(ChatTurns) /\ Len(asTurns[c]) = 0
      BY <2>1, EmptySeq
    <3>2. ChatPaired(asTurns[c])
      BY <3>1 DEF ChatPaired
    <3>3. turn.role = "user" <=> ((Len(asTurns[c]) + 1) % 2 = 1)
      BY <2>2, <3>1
    <3> QED
      BY <2>2, <3>1, <3>2, <3>3, ChatPairedAppend
  <2> HIDE DEF turn, new
  <2>5. asTurns' \in [Chats -> Seq(ChatTurns)] /\ asTurns'[c] = new
        /\ \A d \in Chats : d # c => asTurns'[d] = asTurns[d]
    BY <2>3, <2>4 DEF ChatInv, ChatTypeInv, new
  <2>6. Len(asTurns'[c]) = 2 * asRounds[c] + 1 /\ UNCHANGED <<asResults, asCalls>>
    BY <2>1, <2>4, <2>5 DEF Chat!Ask
  <2> QED
    BY <1>2, <2>4, <2>5, <2>6, ChatNextRoundKeeps
<1> QED
  BY <1>1, <1>2 DEF Chat!Ask

\* The model's answer is the next turn; no tool has run for it yet.
LEMMA ChatAnswerKeeps ==
  ASSUME Chat!ConstantsOK, ChatInv, NEW c \in Chats, Chat!Answer(c)
  PROVE  ChatInv'
<1>1. PICK n \in 0..MaxUses :
          /\ Chat!Added(c, Chat!Model([i \in 1..n |-> asCalls[c] + i]))
          /\ \/ Chat!Reply(c, 200)
             \/ asPc' = [asPc EXCEPT ![c] = "tool"] /\ UNCHANGED asStatus
  BY DEF Chat!Answer
<1> DEFINE turn == Chat!Model([i \in 1..n |-> asCalls[c] + i])
<1>2. turn \in ChatTurns /\ turn.role = "assistant"
  <2>1. n \in Nat /\ asCalls[c] \in Nat
    BY DEF Chat!ConstantsOK, ChatInv, ChatTypeInv
  <2>2. [i \in 1..n |-> asCalls[c] + i] \in Seq(Nat)
    BY <2>1
  <2> QED
    BY <2>2 DEF Chat!Model, ChatTurns
<1>3. /\ asPc[c] = "model" /\ asTurns[c] \in Seq(ChatTurns) /\ ChatPaired(asTurns[c])
      /\ Len(asTurns[c]) = 2 * asRounds[c] - 1 /\ asRounds[c] \in Nat
      /\ Len(asTurns[c]) \in Nat
  BY LenProperties DEF Chat!Answer, ChatInv, ChatTypeInv, ChatOneInv
<1>4. asRounds[c] > 0 /\ (Len(asTurns[c]) + 1) % 2 = 0
  BY <1>3
<1>5. /\ Append(asTurns[c], turn) \in Seq(ChatTurns)
      /\ Len(Append(asTurns[c], turn)) = 2 * asRounds[c]
      /\ ChatPaired(Append(asTurns[c], turn))
  <2> HIDE DEF turn
  <2> QED
    BY <1>2, <1>3, <1>4, ChatPairedAppend
<1>6. asTurns' = [asTurns EXCEPT ![c] = Append(@, turn)]
  BY <1>1 DEF Chat!Added
<1>7. asResults' = [asResults EXCEPT ![c] = <<>>] /\ UNCHANGED <<asRounds, asCalls>>
  BY DEF Chat!Answer
<1> HIDE DEF turn
<1>8. asTurns' \in [Chats -> Seq(ChatTurns)] /\ asTurns'[c] = Append(asTurns[c], turn)
      /\ \A d \in Chats : d # c => asTurns'[d] = asTurns[d]
  BY <1>5, <1>6 DEF ChatInv, ChatTypeInv
<1>9. asResults' \in [Chats -> Seq(Nat)] /\ asResults'[c] = <<>>
      /\ \A d \in Chats : d # c => asResults'[d] = asResults[d]
  BY <1>7 DEF ChatInv, ChatTypeInv
<1>10. CASE Chat!Reply(c, 200)
  BY <1>7, <1>8, <1>9, <1>10, ChatReplyKeeps DEF Chat!Reply
<1>11. CASE asPc' = [asPc EXCEPT ![c] = "tool"]
  <2>1. Chat!Wanted(c)' \in Seq(Nat) /\ Len(Chat!Wanted(c)') \in Nat
    <3>1. asTurns'[c][Len(asTurns'[c])] \in ChatTurns
      BY <1>3, <1>4, <1>5, <1>8, ElementOfSeq
    <3> QED
      BY <3>1, LenProperties DEF Chat!Wanted, ChatTurns
  <2>2. ChatOneInv(c)'
    BY <1>3, <1>4, <1>5, <1>7, <1>8, <1>9, <1>11, <2>1 DEF ChatOneInv, ChatInv, ChatTypeInv
  <2>3. \A d \in Chats : d # c => ChatOneInv(d)'
    BY <1>7, <1>8, <1>9, <1>11, ChatOthersKeep DEF ChatInv, ChatTypeInv
  <2> QED
    BY <1>7, <1>8, <1>9, <1>11, <2>2, <2>3 DEF ChatInv, ChatTypeInv
<1> QED
  BY <1>1, <1>10, <1>11

\* A tool that has run adds the result that is next.
LEMMA ChatDispatchKeeps == ASSUME ChatInv, NEW c \in Chats, Chat!Dispatch(c) PROVE ChatInv'
<1>1. /\ asPc[c] = "tool" /\ Len(asResults[c]) < Len(Chat!Wanted(c))
      /\ asResults' = [asResults EXCEPT ![c] = Append(@, Chat!Wanted(c)[Len(@) + 1])]
      /\ asCalls' = [asCalls EXCEPT ![c] = @ + 1]
      /\ UNCHANGED <<asPc, asTurns, asRounds>>
  BY DEF Chat!Dispatch
<1>2. Chat!Wanted(c) \in Seq(Nat) /\ Len(Chat!Wanted(c)) \in Nat
  <2>1. asTurns[c] \in Seq(ChatTurns) /\ Len(asTurns[c]) \in 1..Len(asTurns[c])
    BY <1>1, LenProperties DEF ChatInv, ChatTypeInv, ChatOneInv
  <2>2. asTurns[c][Len(asTurns[c])] \in ChatTurns
    BY <2>1, ElementOfSeq
  <2> QED
    BY <2>2, LenProperties DEF Chat!Wanted, ChatTurns
<1>3. asResults[c] \in Seq(Nat) /\ Len(asResults[c]) \in Nat
  BY LenProperties DEF ChatInv, ChatTypeInv
<1>4. Chat!Wanted(c)[Len(asResults[c]) + 1] \in Nat
  BY <1>1, <1>2, <1>3, ElementOfSeq
<1> DEFINE new == Append(asResults[c], Chat!Wanted(c)[Len(asResults[c]) + 1])
<1>5. /\ new \in Seq(Nat) /\ Len(new) = Len(asResults[c]) + 1
      /\ \A k \in 1..Len(asResults[c]) : new[k] = asResults[c][k]
      /\ new[Len(asResults[c]) + 1] = Chat!Wanted(c)[Len(asResults[c]) + 1]
  BY <1>3, <1>4, AppendProperties
<1>6. asResults' = [asResults EXCEPT ![c] = new]
  BY <1>1
<1> HIDE DEF new
<1>7. asResults' \in [Chats -> Seq(Nat)] /\ asResults'[c] = new
      /\ \A d \in Chats : d # c => asResults'[d] = asResults[d]
  BY <1>5, <1>6 DEF ChatInv, ChatTypeInv
<1>8. Chat!Wanted(c)' = Chat!Wanted(c)
  BY <1>1 DEF Chat!Wanted
<1>9. ChatOneInv(c)
  BY DEF ChatInv
<1>10. ChatOneInv(c)'
  <2> DEFINE n == Len(asResults[c])
             m == Len(Chat!Wanted(c))
  <2>1. n \in Nat /\ m \in Nat /\ n < m /\ Len(new) = n + 1
    BY <1>1, <1>2, <1>3, <1>5
  <2>2. \A k \in 1..n : new[k] = Chat!Wanted(c)[k]
    BY <1>1, <1>5, <1>9 DEF ChatOneInv
  <2>3. new[n + 1] = Chat!Wanted(c)[n + 1]
    BY <1>5
  <2> HIDE DEF n, m
  <2>4. n + 1 <= m /\ \A k \in 1..n + 1 : new[k] = Chat!Wanted(c)[k]
    BY <2>1, <2>2, <2>3
  <2>5. Len(new) <= Len(Chat!Wanted(c)) /\ \A k \in 1..Len(new) : new[k] = Chat!Wanted(c)[k]
    BY <2>1, <2>4 DEF m
  <2> QED
    BY <1>1, <1>7, <1>8, <1>9, <2>5 DEF ChatOneInv
<1>11. \A d \in Chats : d # c => ChatOneInv(d)'
  BY <1>1, <1>7, ChatOthersKeep
<1> QED
  BY <1>1, <1>7, <1>10, <1>11 DEF ChatInv, ChatTypeInv

\* The results, all there, are the turn that answers the model.
LEMMA ChatReturnKeeps == ASSUME ChatInv, NEW c \in Chats, Chat!Return(c) PROVE ChatInv'
<1>1. /\ asPc[c] = "tool" /\ Len(asResults[c]) = Len(Chat!Wanted(c))
      /\ Chat!Added(c, Chat!User(asResults[c])) /\ Chat!NextRound(c)
      /\ UNCHANGED <<asResults, asCalls>>
  BY DEF Chat!Return
<1>2. /\ asTurns[c] \in Seq(ChatTurns) /\ Len(asTurns[c]) = 2 * asRounds[c] /\ asRounds[c] \in Nat
      /\ asRounds[c] > 0 /\ ChatPaired(asTurns[c]) /\ asResults[c] \in Seq(Nat)
      /\ \A k \in 1..Len(asResults[c]) : asResults[c][k] = Chat!Wanted(c)[k]
  BY <1>1 DEF ChatInv, ChatTypeInv, ChatOneInv
<1>3. asTurns[c][Len(asTurns[c])] \in ChatTurns
  BY <1>2, ElementOfSeq
<1>4. asResults[c] = asTurns[c][Len(asTurns[c])].ids
  BY <1>1, <1>2, <1>3, SeqEqual DEF Chat!Wanted, ChatTurns
<1>5. Chat!User(asResults[c]) \in ChatTurns /\ Chat!User(asResults[c]).role = "user"
      /\ Chat!User(asResults[c]).ids = asResults[c]
  BY <1>2 DEF Chat!User, ChatTurns
<1>6. (Len(asTurns[c]) + 1) % 2 = 1
  BY <1>2
<1> DEFINE new == Append(asTurns[c], Chat!User(asResults[c]))
<1>7. new \in Seq(ChatTurns) /\ Len(new) = 2 * asRounds[c] + 1 /\ ChatPaired(new)
  BY <1>2, <1>4, <1>5, <1>6, ChatPairedAppend
<1>8. asTurns' = [asTurns EXCEPT ![c] = new]
  BY <1>1 DEF Chat!Added
<1> HIDE DEF new
<1>9. asTurns' \in [Chats -> Seq(ChatTurns)] /\ asTurns'[c] = new
      /\ \A d \in Chats : d # c => asTurns'[d] = asTurns[d]
  BY <1>7, <1>8 DEF ChatInv, ChatTypeInv
<1> QED
  BY <1>1, <1>7, <1>9, ChatNextRoundKeeps

\* Every step keeps the invariant.
LEMMA ChatKeeps == ASSUME Chat!ConstantsOK PROVE ChatInv /\ [Chat!Next]_Chat!vars => ChatInv'
<1> SUFFICES ASSUME ChatInv, [Chat!Next]_Chat!vars PROVE ChatInv'
  OBVIOUS
<1>1. CASE UNCHANGED Chat!vars
  BY <1>1 DEF Chat!vars, ChatInv, ChatTypeInv, ChatOneInv, Chat!Wanted
<1>2. ASSUME NEW c \in Chats, Chat!Raise(c) PROVE ChatInv'
  BY <1>2, ChatReplyKeeps DEF Chat!Raise, Chat!Reply, ChatInv, ChatTypeInv
<1>3. CASE Chat!Next
  BY <1>2, <1>3, ChatAskKeeps, ChatAnswerKeeps, ChatDispatchKeeps, ChatReturnKeeps
  DEF Chat!Next, Chat!Step
<1> QED
  BY <1>1, <1>3

\* The invariant holds of every run.
LEMMA ChatInvariant ==
  ASSUME Chat!ConstantsOK
  PROVE  Chat!Init /\ [][Chat!Next]_Chat!vars => []ChatInv
  BY ChatInitInv, ChatKeeps, PTL

\* However many chats run over one agent, and whatever the model asks for: each request to it
\* has alternating turns, and each tool_use is answered once, in the turn after it.
THEOREM TurnsMatchTheorem == ASSUME Chat!ConstantsOK PROVE Chat!Spec => []TurnsMatch
<1>1. ChatInv => TurnsMatch
  <2> SUFFICES ASSUME ChatInv, NEW c \in Chats, asPc[c] = "model"
               PROVE  LET turns == asTurns[c]
                      IN  /\ Len(turns) = 2 * asRounds[c] - 1
                          /\ \A i \in DOMAIN turns : (turns[i].role = "user") <=> (i % 2 = 1)
                          /\ \A i \in DOMAIN turns : turns[i].role = "assistant" =>
                                 turns[i + 1].ids = turns[i].ids
    BY DEF TurnsMatch, Chat!TurnsMatch
  <2>1. /\ asTurns[c] \in Seq(ChatTurns) /\ DOMAIN asTurns[c] = 1..Len(asTurns[c])
        /\ Len(asTurns[c]) = 2 * asRounds[c] - 1 /\ ChatPaired(asTurns[c]) /\ asRounds[c] \in Nat
    BY LenProperties DEF ChatInv, ChatTypeInv, ChatOneInv
  <2>2. ASSUME NEW i \in 1..Len(asTurns[c]), asTurns[c][i].role = "assistant"
        PROVE  asTurns[c][i + 1].ids = asTurns[c][i].ids
    <3>1. i % 2 # 1
      BY <2>1, <2>2 DEF ChatPaired
    <3>2. i \in 1..Len(asTurns[c]) - 1
      BY <2>1, <3>1
    <3> QED
      BY <2>1, <2>2, <3>2 DEF ChatPaired
  <2> QED
    BY <2>1, <2>2 DEF ChatPaired
<1> QED
  BY <1>1, ChatInvariant, PTL DEF Chat!Spec

-----------------------------------------------------------------------------
(* The types *)

\* What the counters of the pipeline say of each other bounds them.
LEMMA ScoutTyped == ASSUME Scout!ConstantsOK, ScoutInv PROVE Scout!TypeOK
<1>1. /\ MaxDetections \in Nat /\ MaxDrops \in Nat /\ scIds \in 0..MaxDetections
      /\ scStats \in [Counters -> Nat] /\ scSkewed \in Nat
      /\ scStats["in"] = scStats["projected"] + scStats["horizon"] + scStats["skew"] + scSkewed
      /\ scStats["projected"] <= scIds
      /\ scStats["in"] - scStats["projected"] <= MaxDrops
  BY DEF Scout!ConstantsOK, ScoutInv, ScoutTypes, ScoutCounted, Scout!DetectionsAccounted
<1>2. /\ scStats["in"] \in Nat /\ scStats["projected"] \in Nat /\ scStats["horizon"] \in Nat
      /\ scStats["skew"] \in Nat
  BY <1>1 DEF Counters
<1>3. /\ scStats["in"] \in 0 .. MaxDetections + MaxDrops
      /\ scStats["projected"] \in 0 .. MaxDetections + MaxDrops
      /\ scStats["horizon"] \in 0 .. MaxDetections + MaxDrops
      /\ scStats["skew"] \in 0 .. MaxDetections + MaxDrops
      /\ scSkewed \in 0..MaxDrops
  BY <1>1, <1>2
<1>4. DOMAIN Scout!NoStats = Counters
  BY DEF Scout!NoStats, Counters
<1>5. \A w \in Counters : scStats[w] \in 0 .. MaxDetections + MaxDrops
  BY <1>3 DEF Counters
<1>6. scStats \in [DOMAIN Scout!NoStats -> 0 .. MaxDetections + MaxDrops]
  BY <1>1, <1>4, <1>5
<1>7. scPin \in 0..Len(scPins) /\ scPins \in Seq(ScoutPin)
  BY LenProperties DEF ScoutInv, ScoutTypes
<1>8. scEdit.id \in 0..MaxDetections
  BY <1>1 DEF ScoutInv, ScoutTypes, ScoutEdit, Scout!NoEdit, Scout!Ids
<1> QED
  BY <1>3, <1>6, <1>7, <1>8 DEF Scout!TypeOK, ScoutInv, ScoutTypes, ScoutPin, StorePin

\* The rounds of a chat are at most those allowed, and its status is one of a reply.
ChatBounds ==
    asRounds \in [Chats -> 0..MaxIterations] /\ asStatus \in [Chats -> {0, 200, 400, 502}]

LEMMA ChatTypesInvariant ==
  ASSUME Chat!ConstantsOK
  PROVE  Chat!Init /\ [][Chat!Next]_Chat!vars => []Chat!TypeOK
<1>c. MaxIterations \in Nat
  BY DEF Chat!ConstantsOK
<1>1. Chat!Init => ChatBounds
  BY <1>c DEF Chat!Init, ChatBounds
<1>2. ChatBounds /\ [Chat!Next]_Chat!vars => ChatBounds'
  <2> SUFFICES ASSUME ChatBounds, [Chat!Next]_Chat!vars PROVE ChatBounds'
    OBVIOUS
  <2>1. CASE UNCHANGED Chat!vars
    BY <2>1 DEF Chat!vars, ChatBounds
  <2>2. ASSUME NEW c \in Chats, NEW s \in {200, 400, 502}, Chat!Reply(c, s)
        PROVE  asStatus' \in [Chats -> {0, 200, 400, 502}]
    BY <2>2 DEF Chat!Reply, ChatBounds
  <2>3. ASSUME NEW c \in Chats, Chat!NextRound(c) PROVE ChatBounds'
    <3>1. CASE asRounds[c] < MaxIterations
      BY <1>c, <2>3, <3>1 DEF Chat!NextRound, ChatBounds
    <3>2. CASE ~(asRounds[c] < MaxIterations)
      BY <2>2, <2>3, <3>2 DEF Chat!NextRound, ChatBounds
    <3> QED
      BY <3>1, <3>2
  <2>4. ASSUME NEW c \in Chats, Chat!Ask(c) PROVE ChatBounds'
    BY <2>2, <2>3, <2>4 DEF Chat!Ask, ChatBounds
  <2>5. ASSUME NEW c \in Chats, Chat!Answer(c) PROVE ChatBounds'
    BY <2>2, <2>5 DEF Chat!Answer, ChatBounds
  <2>6. ASSUME NEW c \in Chats, Chat!Dispatch(c) PROVE ChatBounds'
    BY <2>6 DEF Chat!Dispatch, ChatBounds
  <2>7. ASSUME NEW c \in Chats, Chat!Return(c) PROVE ChatBounds'
    BY <2>3, <2>7 DEF Chat!Return
  <2>8. ASSUME NEW c \in Chats, Chat!Raise(c) PROVE ChatBounds'
    BY <2>2, <2>8 DEF Chat!Raise, ChatBounds
  <2> QED
    BY <2>1, <2>4, <2>5, <2>6, <2>7, <2>8 DEF Chat!Next, Chat!Step
<1>3. ChatInv /\ ChatBounds => Chat!TypeOK
  BY DEF ChatInv, ChatTypeInv, ChatBounds, Chat!TypeOK, ChatTurns
<1> QED
  BY <1>1, <1>2, <1>3, ChatInvariant, PTL

-----------------------------------------------------------------------------
(* Console: the places of a sequence taken in order.                                        *)

Rank(P, i) == Cardinality({j \in P : j <= i})

LEMMA RankType ==
  ASSUME NEW m \in Nat, NEW P \in SUBSET (1..m), NEW i \in Int
  PROVE  /\ IsFiniteSet(P) /\ IsFiniteSet({j \in P : j <= i})
         /\ Rank(P, i) \in Nat /\ Cardinality(P) \in Nat /\ Rank(P, i) <= Cardinality(P)
<1>1. IsFiniteSet(1..m)
  BY FS_Interval
<1>2. IsFiniteSet(P)
  BY <1>1, FS_Subset
<1> DEFINE Q == {j \in P : j <= i}
<1>3. Q \subseteq P
  OBVIOUS
<1> HIDE DEF Q
<1>4. IsFiniteSet(Q) /\ Cardinality(Q) <= Cardinality(P)
  BY <1>2, <1>3, FS_Subset
<1>5. Cardinality(Q) \in Nat /\ Cardinality(P) \in Nat
  BY <1>2, <1>4, FS_CardinalityType
<1> QED
  BY <1>2, <1>4, <1>5 DEF Rank, Q

\* A member of the set counts one more than those below it.
LEMMA RankStep ==
  ASSUME NEW m \in Nat, NEW P \in SUBSET (1..m), NEW i \in P
  PROVE  /\ Cardinality({j \in P : j < i}) \in Nat
         /\ Rank(P, i) = Cardinality({j \in P : j < i}) + 1
<1> DEFINE Q == {j \in P : j < i}
<1>0. i \in Int /\ \A j \in P : j \in Int
  OBVIOUS
<1>1. IsFiniteSet(P)
  BY <1>0, RankType
<1>2. Q \subseteq P /\ i \notin Q /\ {j \in P : j <= i} = Q \cup {i}
  <2>1. \A j \in P : j <= i <=> j < i \/ j = i
    BY <1>0
  <2>2. ~ (i < i)
    BY <1>0
  <2> QED
    BY <2>1, <2>2
<1> HIDE DEF Q
<1>3. IsFiniteSet(Q)
  BY <1>1, <1>2, FS_Subset
<1>4. Cardinality(Q \cup {i}) = Cardinality(Q) + 1 /\ Cardinality(Q) \in Nat
  BY <1>2, <1>3, FS_AddElement, FS_CardinalityType
<1> QED
  BY <1>2, <1>4 DEF Rank, Q

LEMMA RankGrows ==
  ASSUME NEW m \in Nat, NEW P \in SUBSET (1..m), NEW i \in P, NEW k \in P, i < k
  PROVE  Rank(P, i) < Rank(P, k)
<1> DEFINE Q == {j \in P : j < k}
           R == {j \in P : j <= i}
<1>0. i \in Int /\ k \in Int /\ \A j \in P : j \in Int
  OBVIOUS
<1>1. R \subseteq Q /\ Q \subseteq P
  <2>1. \A j \in P : j <= i => j < k
    BY <1>0
  <2> QED
    BY <2>1
<1>2. IsFiniteSet(P) /\ Rank(P, i) \in Nat
  BY <1>0, RankType
<1>3. Rank(P, k) = Cardinality(Q) + 1 /\ Cardinality(Q) \in Nat
  BY RankStep
<1> HIDE DEF Q, R
<1>4. IsFiniteSet(Q)
  BY <1>1, <1>2, FS_Subset
<1>5. Cardinality(R) <= Cardinality(Q)
  BY <1>1, <1>4, FS_Subset
<1>6. Rank(P, i) = Cardinality(R)
  BY DEF Rank, R
<1> QED
  BY <1>2, <1>3, <1>5, <1>6

\* The lowest of a set of numbers, and the highest.
LEMMA Lowest ==
  ASSUME NEW P \in SUBSET Nat, P # {}
  PROVE  \E i \in P : \A j \in P : i <= j
<1>1. IsWellFoundedOn(OpToRel(<, Nat), Nat)
  BY NatLessThanWellFounded
<1>2. PICK i \in P : \A j \in P : ~ (<<j, i>> \in OpToRel(<, Nat))
  BY <1>1, WFMin
<1>3. \A j \in P : j < i => <<j, i>> \in OpToRel(<, Nat)
  BY DEF OpToRel
<1>4. ASSUME NEW j \in P PROVE i <= j
  <2>1. i \in Nat /\ j \in Nat
    OBVIOUS
  <2>2. ~ (j < i)
    BY <1>2, <1>3
  <2> QED
    BY <2>1, <2>2
<1> QED
  BY <1>4

LEMMA Highest ==
  ASSUME NEW m \in Nat, NEW P \in SUBSET (1..m), P # {}
  PROVE  \E i \in P : \A j \in P : j <= i
<1> DEFINE Q == {m - i : i \in P}
<1>1. Q \in SUBSET Nat /\ Q # {}
  <2>1. \A i \in P : m - i \in Nat
    OBVIOUS
  <2> QED
    BY <2>1
<1>2. PICK q \in Q : \A r \in Q : q <= r
  BY <1>1, Lowest
<1>3. PICK i \in P : q = m - i
  OBVIOUS
<1>4. ASSUME NEW j \in P PROVE j <= i
  <2>1. m - j \in Q
    OBVIOUS
  <2>2. m - i <= m - j
    BY <1>2, <1>3, <2>1
  <2> QED
    BY <2>2
<1> QED
  BY <1>4

\* Nth and Rank are inverse to each other.
LEMMA NthOfRank ==
  ASSUME NEW m \in Nat, NEW P \in SUBSET (1..m), NEW i \in P
  PROVE  /\ Rank(P, i) \in 1..Cardinality(P) /\ Picture!Nth(P, Rank(P, i)) = i
<1>0. i \in Int /\ \A j \in P : j \in Int
  OBVIOUS
<1>1. Rank(P, i) \in 1..Cardinality(P)
  <2>1. Rank(P, i) \in Nat /\ Cardinality(P) \in Nat /\ Rank(P, i) <= Cardinality(P)
    BY <1>0, RankType
  <2>2. Cardinality({j \in P : j < i}) \in Nat /\ Rank(P, i) = Cardinality({j \in P : j < i}) + 1
    BY RankStep
  <2> QED
    BY <2>1, <2>2
<1>2. ASSUME NEW j \in P, Rank(P, j) = Rank(P, i) PROVE j = i
  <2>1. i \in Int /\ j \in Int /\ Rank(P, i) \in Int
    BY <1>0, <1>1
  <2>2. CASE i < j
    <3>1. Rank(P, i) < Rank(P, j)
      BY <2>2, RankGrows
    <3> QED
      BY <1>2, <2>1, <3>1
  <2>3. CASE j < i
    <3>1. Rank(P, j) < Rank(P, i)
      BY <2>3, RankGrows
    <3> QED
      BY <1>2, <2>1, <3>1
  <2> QED
    BY <2>1, <2>2, <2>3
<1>3. Picture!Nth(P, Rank(P, i)) = CHOOSE j \in P : Rank(P, j) = Rank(P, i)
  BY DEF Picture!Nth, Picture!Cardinality, Rank, Cardinality
<1> QED
  BY <1>1, <1>2, <1>3

LEMMA RankOfNth ==
  ASSUME NEW m \in Nat, NEW P \in SUBSET (1..m), NEW n \in 1..Cardinality(P)
  PROVE  Picture!Nth(P, n) \in P /\ Rank(P, Picture!Nth(P, n)) = n
<1>0. /\ P \subseteq Nat /\ \A j \in P : j \in Int
      /\ IsFiniteSet(P) /\ Cardinality(P) \in Nat
  <2>1. P \subseteq Nat /\ \A j \in P : j \in Int
    OBVIOUS
  <2>2. IsFiniteSet(P)
    BY 0 \in Int, RankType
  <2> QED
    BY <2>1, <2>2, FS_CardinalityType
<1>1. P # {}
  BY <1>0, FS_EmptySet
<1> DEFINE Q == {i \in P : n <= Rank(P, i)}
<1>2. Q # {}
  <2>1. PICK i \in P : \A j \in P : j <= i
    BY <1>1, Highest
  <2>2. {j \in P : j <= i} = P
    BY <2>1
  <2>3. Rank(P, i) = Cardinality(P)
    BY <2>2 DEF Rank
  <2> QED
    BY <1>0, <2>3
<1>3. PICK i \in Q : \A j \in Q : i <= j
  BY <1>0, <1>2, Lowest
<1>4. i \in P /\ i \in Int /\ n <= Rank(P, i) /\ Rank(P, i) \in Nat
  BY <1>0, <1>3, RankType
<1> DEFINE B == {j \in P : j < i}
<1>5. Rank(P, i) = Cardinality(B) + 1 /\ Cardinality(B) \in Nat
  BY <1>4, RankStep
<1>6. Cardinality(B) < n
  <2>1. CASE B = {}
    <3>1. Cardinality(B) = 0
      BY <2>1, FS_EmptySet
    <3> QED
      BY <3>1
  <2>2. CASE B # {}
    <3>1. B \in SUBSET (1..m)
      OBVIOUS
    <3>2. PICK k \in B : \A j \in B : j <= k
      <4> HIDE DEF B
      <4> QED
        BY <2>2, <3>1, Highest
    <3>3. k \in P /\ k \in Int /\ k < i
      BY <1>0, <3>2
    <3>4. {j \in P : j <= k} = B
      <4>1. ASSUME NEW j \in P PROVE j <= k <=> j < i
        <5>1. j \in Int
          BY <1>0
        <5>2. j < i => j <= k
          BY <3>2
        <5> QED
          BY <1>4, <3>3, <5>1, <5>2
      <4> QED
        BY <4>1
    <3>5. Rank(P, k) = Cardinality(B)
      BY <3>4 DEF Rank
    <3>6. ~ (n <= Rank(P, k))
      BY <1>3, <1>4, <3>3
    <3> QED
      BY <1>5, <3>5, <3>6
  <2> QED
    BY <2>1, <2>2
<1>7. Rank(P, i) = n
  BY <1>4, <1>5, <1>6
<1>8. Picture!Nth(P, Rank(P, i)) = i
  BY <1>4, NthOfRank
<1> QED
  BY <1>4, <1>7, <1>8


\* What is taken, and where it comes from.
LEMMA AtTakes ==
  ASSUME NEW X, NEW s \in Seq(X), NEW P \in SUBSET (1..Len(s))
  PROVE  /\ Picture!At(s, P) \in Seq(X) /\ Len(Picture!At(s, P)) = Cardinality(P)
         /\ Cardinality(P) \in Nat /\ Cardinality(P) <= Len(s)
         /\ \A n \in 1..Cardinality(P) :
                Picture!Nth(P, n) \in P /\ Picture!At(s, P)[n] = s[Picture!Nth(P, n)]
         /\ \A n, l \in 1..Cardinality(P) : n < l => Picture!Nth(P, n) < Picture!Nth(P, l)
         /\ \A i \in P : \E n \in 1..Cardinality(P) : Picture!Nth(P, n) = i
<1>0. Len(s) \in Nat /\ \A i \in 1..Len(s) : s[i] \in X
  BY LenProperties, ElementOfSeq
<1>1. Cardinality(P) \in Nat /\ Cardinality(P) <= Len(s)
  <2>1. IsFiniteSet(1..Len(s)) /\ Cardinality(1..Len(s)) = Len(s)
    <3>1. Len(s) \in Int /\ 1 \in Int
      BY <1>0
    <3>2. /\ IsFiniteSet(1..Len(s))
          /\ Cardinality(1..Len(s)) = IF 1 > Len(s) THEN 0 ELSE Len(s) - 1 + 1
      BY <3>1, FS_Interval
    <3> QED
      BY <1>0, <3>2
  <2>2. Cardinality(P) <= Cardinality(1..Len(s))
    BY <2>1, FS_Subset
  <2>3. Cardinality(P) \in Nat
    BY <1>0, 0 \in Int, RankType
  <2> QED
    BY <2>1, <2>2, <2>3
<1>2. \A n \in 1..Cardinality(P) : Picture!Nth(P, n) \in P /\ Rank(P, Picture!Nth(P, n)) = n
  BY <1>0, RankOfNth
<1>3. Picture!At(s, P) = [n \in 1..Cardinality(P) |-> s[Picture!Nth(P, n)]]
  BY DEF Picture!At, Picture!Cardinality, Cardinality
<1>4. \A n \in 1..Cardinality(P) : Picture!At(s, P)[n] = s[Picture!Nth(P, n)]
  BY <1>3
<1>5. Picture!At(s, P) \in Seq(X) /\ Len(Picture!At(s, P)) = Cardinality(P)
  <2> DEFINE f == Picture!At(s, P)
  <2>1. \A n \in 1..Cardinality(P) : s[Picture!Nth(P, n)] \in X
    BY <1>0, <1>2
  <2>2. f \in [1..Cardinality(P) -> X]
    BY <1>3, <2>1
  <2> HIDE DEF f
  <2>3. f \in Seq(X)
    BY <1>1, <2>2, IsASeq
  <2>4. DOMAIN f = 1..Cardinality(P) /\ DOMAIN f = 1..Len(f) /\ Len(f) \in Nat
    BY <2>2, <2>3, LenProperties
  <2>5. Len(f) = Cardinality(P)
    BY <1>1, <2>4
  <2> QED
    BY <2>3, <2>5 DEF f
<1>6. ASSUME NEW n \in 1..Cardinality(P), NEW l \in 1..Cardinality(P), n < l
      PROVE  Picture!Nth(P, n) < Picture!Nth(P, l)
  <2>1. PICK i \in P : i = Picture!Nth(P, n) /\ Rank(P, i) = n
    BY <1>2
  <2>2. PICK j \in P : j = Picture!Nth(P, l) /\ Rank(P, j) = l
    BY <1>2
  <2>3. i \in Int /\ j \in Int /\ n \in Int /\ l \in Int
    BY <1>0
  <2>4. i # j
    BY <1>6, <2>1, <2>2, <2>3
  <2>5. ~(j < i)
    <3> SUFFICES ASSUME j < i PROVE FALSE
      OBVIOUS
    <3>1. Rank(P, j) < Rank(P, i)
      BY <1>0, RankGrows
    <3> QED
      BY <1>6, <2>1, <2>2, <2>3, <3>1
  <2>6. i < j
    BY <2>3, <2>4, <2>5
  <2> QED
    BY <2>1, <2>2, <2>6
<1>7. \A i \in P : \E n \in 1..Cardinality(P) : Picture!Nth(P, n) = i
  BY <1>0, NthOfRank
<1> QED
  BY <1>1, <1>2, <1>4, <1>5, <1>6, <1>7

\* A map that loses nothing and reaches everything keeps the count.
LEMMA SameCount ==
  ASSUME NEW S, IsFiniteSet(S), NEW T, NEW p \in [S -> T],
         \A i, j \in S : p[i] = p[j] => i = j, \A q \in T : \E i \in S : p[i] = q
  PROVE  IsFiniteSet(T) /\ Cardinality(T) = Cardinality(S)
<1>1. p \in Bijection(S, T)
  BY DEF Bijection, Injection, Surjection, IsInjective
<1>2. ExistsBijection(S, T)
  BY <1>1 DEF ExistsBijection
<1> QED
  BY <1>2, FS_Bijection

\* Two sequences with the same entries at places that correspond.
LEMMA AtSame ==
  ASSUME NEW X, NEW s \in Seq(X), NEW t \in Seq(X),
         NEW A \in SUBSET (1..Len(s)), NEW B \in SUBSET (1..Len(t)), NEW p \in [A -> B],
         \A i, j \in A : i < j => p[i] < p[j], \A q \in B : \E i \in A : p[i] = q,
         \A i \in A : s[i] = t[p[i]]
  PROVE  Picture!At(s, A) = Picture!At(t, B)
<1>0. /\ \A i \in A : i \in Int
      /\ \A q \in B : q \in Int
      /\ Len(s) \in Nat /\ Len(t) \in Nat
  BY LenProperties
<1>1. \A i, j \in A : i < j \/ i = j \/ j < i
  BY <1>0
<1>2. \A i, j \in A : j <= i <=> p[j] <= p[i]
  <2>1. ASSUME NEW i \in A, NEW j \in A PROVE j <= i <=> p[j] <= p[i]
    <3>1. i \in Int /\ j \in Int /\ p[i] \in Int /\ p[j] \in Int
      BY <1>0
    <3>2. (i < j => p[i] < p[j]) /\ (j < i => p[j] < p[i]) /\ (i = j => p[i] = p[j])
      OBVIOUS
    <3> QED
      BY <3>1, <3>2
  <2> QED
    BY <2>1
<1>3. \A i, j \in A : p[i] = p[j] => i = j
  <2>1. \A i \in A : p[i] \in Int
    BY <1>0
  <2>2. \A i, j \in A : p[i] < p[j] => p[i] # p[j]
    BY <2>1
  <2> QED
    BY <1>1, <2>2
<1>4. IsFiniteSet(A)
  BY <1>0, 0 \in Int, RankType
<1>5. Cardinality(B) = Cardinality(A)
  BY <1>3, <1>4, SameCount
<1>6. ASSUME NEW i \in A PROVE Rank(B, p[i]) = Rank(A, i)
  <2> DEFINE S == {j \in A : j <= i}
             T == {q \in B : q <= p[i]}
             f == [j \in S |-> p[j]]
  <2>1. f \in [S -> T]
    BY <1>2
  <2>2. \A j, l \in S : f[j] = f[l] => j = l
    BY <1>3
  <2>3. \A q \in T : \E j \in S : f[j] = q
    BY <1>2
  <2>4. IsFiniteSet(S)
    BY <1>4, FS_Subset
  <2> HIDE DEF S, T, f
  <2>5. Cardinality(T) = Cardinality(S)
    BY <2>1, <2>2, <2>3, <2>4, SameCount
  <2> QED
    BY <2>5 DEF S, T, Rank
<1>7. ASSUME NEW n \in 1..Cardinality(A) PROVE s[Picture!Nth(A, n)] = t[Picture!Nth(B, n)]
  <2>1. PICK i \in A : i = Picture!Nth(A, n) /\ Rank(A, i) = n
    BY <1>0, RankOfNth
  <2>2. p[i] \in B /\ Rank(B, p[i]) = n
    BY <1>6, <2>1
  <2>3. Picture!Nth(B, n) = p[i]
    <3>1. Picture!Nth(B, Rank(B, p[i])) = p[i]
      BY <1>0, <2>2, NthOfRank
    <3> QED
      BY <2>2, <3>1
  <2> QED
    BY <2>1, <2>3
<1> QED
  BY <1>5, <1>7 DEF Picture!At, Picture!Cardinality, Cardinality

-----------------------------------------------------------------------------
(* Console: what the picture is, from what was heard.                                       *)

Entry == [key : Keys, seen : 0..MaxClock]

\* The entries E are, in order, the last that was heard of some sources, p says where; the
\* last that was heard of any other is older, and stale or one of too many.
Placed(E, H, p) ==
    /\ p \in [1..Len(E) -> Picture!LastHeard(H)]
    /\ \A i, j \in 1..Len(E) : i < j => p[i] < p[j]
    /\ \A i \in 1..Len(E) : E[i] = H[p[i]]

Since(H, q) == Cardinality({j \in Picture!LastHeard(H) : j >= q})
Gone(H, k, q) == ~Picture!IsFresh(H[q], k) \/ Since(H, q) > Cap[k]
Missing(E, H, k, p) ==
    \A q \in Picture!LastHeard(H) :
        \/ \E i \in 1..Len(E) : p[i] = q
        \/ Gone(H, k, q) /\ \A i \in 1..Len(E) : q < p[i]

InOrder(H) ==
    /\ \A i \in 1..Len(H) : H[i].seen <= coNow
    /\ \A i, j \in 1..Len(H) : i <= j => H[i].seen <= H[j].seen

Shown(E, H, k) ==
    /\ E \in Seq(Entry) /\ H \in Seq(Entry) /\ Len(E) <= Cap[k] /\ InOrder(H)
    /\ \E p \in [1..Len(E) -> Picture!LastHeard(H)] : Placed(E, H, p) /\ Missing(E, H, k, p)

\* The places of the last envelopes, one for each source.
LEMMA LastFacts ==
  ASSUME NEW H \in Seq(Entry)
  PROVE  /\ Picture!LastHeard(H) \in SUBSET (1..Len(H)) /\ Len(H) \in Nat
         /\ \A i \in Picture!LastHeard(H) : i \in Int /\ H[i] \in Entry
         /\ \A i, j \in Picture!LastHeard(H) : H[i].key = H[j].key => i = j
         /\ IsFiniteSet(Picture!LastHeard(H))
         /\ \A q \in Int : Since(H, q) \in Nat
<1> DEFINE L == Picture!LastHeard(H)
<1>1. /\ L \in SUBSET (1..Len(H)) /\ Len(H) \in Nat /\ DOMAIN H = 1..Len(H)
      /\ \A i \in L : i \in Int /\ H[i] \in Entry
  <2>1. Len(H) \in Nat /\ DOMAIN H = 1..Len(H) /\ \A i \in 1..Len(H) : H[i] \in Entry
    BY LenProperties, ElementOfSeq
  <2>2. L \in SUBSET (1..Len(H))
    BY <2>1 DEF Picture!LastHeard
  <2> HIDE DEF L
  <2>3. \A i \in L : i \in Int
    BY <2>1, <2>2
  <2> QED
    BY <2>1, <2>2, <2>3
<1>2. ASSUME NEW i \in L, NEW j \in L, H[i].key = H[j].key PROVE i = j
  <2>1. i <= j /\ j <= i
    BY <1>1, <1>2 DEF Picture!LastHeard
  <2> QED
    BY <1>1, <2>1
<1> HIDE DEF L
<1>3. IsFiniteSet(L)
  BY <1>1, 0 \in Int, RankType
<1>4. ASSUME NEW q \in Int PROVE Since(H, q) \in Nat
  <2> DEFINE T == {j \in L : j >= q}
  <2>1. IsFiniteSet(T)
    BY <1>3, FS_Subset
  <2>2. Cardinality(T) \in Nat
    BY <2>1, FS_CardinalityType
  <2> QED
    BY <2>2 DEF Since, L
<1> QED
  BY <1>1, <1>2, <1>3, <1>4 DEF L

\* Of the entries at hand and those after it at most so many are heard of.
LEMMA SinceAt ==
  ASSUME NEW H \in Seq(Entry), NEW E \in Seq(Entry), NEW k, NEW p,
         Placed(E, H, p), Missing(E, H, k, p), NEW i \in 1..Len(E)
  PROVE  Since(H, p[i]) = Len(E) - i + 1
<1> DEFINE L == Picture!LastHeard(H)
           S == i..Len(E)
           T == {j \in L : j >= p[i]}
           f == [l \in S |-> p[l]]
<1>0. Len(E) \in Nat /\ i \in Nat /\ 1 <= i /\ i <= Len(E) /\ S \subseteq 1..Len(E)
  BY LenProperties
<1>1. /\ L \in SUBSET (1..Len(H)) /\ \A q \in L : q \in Int
      /\ \A l \in 1..Len(E) : p[l] \in L
  BY LastFacts DEF Placed
<1>2. \A l, n \in 1..Len(E) : l < n => p[l] < p[n]
  BY DEF Placed
<1>3. \A l \in 1..Len(E) : p[l] \in Int
  BY <1>1
<1>4. f \in [S -> T]
  <2>1. ASSUME NEW l \in S PROVE p[l] >= p[i]
    <3>1. l = i \/ i < l
      BY <1>0
    <3>2. p[l] \in Int /\ p[i] \in Int /\ (i < l => p[i] < p[l])
      BY <1>0, <1>2, <1>3
    <3> QED
      BY <3>1, <3>2
  <2> QED
    BY <1>0, <1>1, <2>1
<1>5. ASSUME NEW l \in S, NEW n \in S, f[l] = f[n] PROVE l = n
  <2>1. l \in Int /\ n \in Int /\ l \in 1..Len(E) /\ n \in 1..Len(E) /\ p[l] = p[n]
    BY <1>0, <1>5
  <2>2. p[l] \in Int /\ p[n] \in Int /\ (l < n => p[l] < p[n]) /\ (n < l => p[n] < p[l])
    BY <1>2, <1>3, <2>1
  <2> QED
    BY <2>1, <2>2
<1>6. ASSUME NEW q \in T PROVE \E l \in S : f[l] = q
  <2>1. q \in L /\ q >= p[i] /\ q \in Int /\ p[i] \in Int
    BY <1>1
  <2>2. PICK l \in 1..Len(E) : p[l] = q
    BY <2>1 DEF Missing
  <2>3. ~(l < i)
    BY <1>2, <1>3, <2>1, <2>2
  <2>4. l \in S
    BY <1>0, <2>3
  <2> QED
    BY <2>2, <2>4
<1>7. IsFiniteSet(S) /\ Cardinality(S) = Len(E) - i + 1
  <2>1. Len(E) \in Int /\ i \in Int
    BY <1>0
  <2>2. IsFiniteSet(S) /\ Cardinality(S) = IF i > Len(E) THEN 0 ELSE Len(E) - i + 1
    BY <2>1, FS_Interval
  <2> QED
    BY <1>0, <2>2
<1> HIDE DEF S, T, f
<1>8. Cardinality(T) = Cardinality(S)
  BY <1>4, <1>5, <1>6, <1>7, SameCount
<1> QED
  BY <1>7, <1>8 DEF T, Since

\* What the next read serves.
LEMMA ShownFresh ==
  ASSUME NEW E, NEW H, NEW k \in Picture!Kinds, Cap[k] \in Nat, Shown(E, H, k)
  PROVE  Picture!Fresh(E, k)
            = Picture!At(H, {i \in Picture!Newest(H, k) : Picture!IsFresh(H[i], k)})
<1> DEFINE L == Picture!LastHeard(H)
           A == {i \in 1..Len(E) : Picture!IsFresh(E[i], k)}
           B == {i \in Picture!Newest(H, k) : Picture!IsFresh(H[i], k)}
<1>0. E \in Seq(Entry) /\ H \in Seq(Entry) /\ Len(E) <= Cap[k]
  BY DEF Shown
<1>1. PICK p : Placed(E, H, p) /\ Missing(E, H, k, p)
  BY DEF Shown
<1>2. /\ L \in SUBSET (1..Len(H)) /\ \A q \in L : q \in Int
      /\ \A q \in Int : Since(H, q) \in Nat
      /\ Len(E) \in Nat /\ DOMAIN E = 1..Len(E)
  BY <1>0, LastFacts, LenProperties
<1>c. Cap[k] \in Int
  OBVIOUS
<1>3. Picture!Newest(H, k) = {i \in L : Since(H, i) <= Cap[k]}
  BY DEF Picture!Newest, Since, Picture!Cardinality, Cardinality
<1>4. /\ \A i \in 1..Len(E) : p[i] \in L /\ E[i] = H[p[i]]
      /\ \A i, j \in 1..Len(E) : i < j => p[i] < p[j]
  BY <1>1 DEF Placed
<1>5. \A i \in 1..Len(E) : p[i] \in Picture!Newest(H, k)
  <2>1. ASSUME NEW i \in 1..Len(E) PROVE Since(H, p[i]) <= Cap[k]
    <3>1. Since(H, p[i]) = Len(E) - i + 1
      BY <1>0, <1>1, SinceAt
    <3>2. Len(E) \in Int /\ i \in Int /\ 1 <= i
      BY <1>2
    <3> QED
      BY <1>0, <1>c, <3>1, <3>2
  <2> QED
    BY <1>3, <1>4, <2>1
<1>6. ASSUME NEW q \in B PROVE \E i \in A : p[i] = q
  <2>1. q \in L /\ Since(H, q) <= Cap[k] /\ Picture!IsFresh(H[q], k)
    BY <1>3
  <2>2. ~Gone(H, k, q)
    <3>1. Since(H, q) \in Int
      BY <1>2, <2>1
    <3>2. ~(Since(H, q) > Cap[k])
      BY <1>c, <2>1, <3>1
    <3> QED
      BY <2>1, <3>2 DEF Gone
  <2>3. PICK i \in 1..Len(E) : p[i] = q
    BY <1>1, <2>1, <2>2 DEF Missing
  <2> QED
    BY <1>4, <2>1, <2>3
<1> DEFINE f == [i \in A |-> p[i]]
<1>7. f \in [A -> B]
  BY <1>4, <1>5
<1>8. /\ \A i, j \in A : i < j => f[i] < f[j]
      /\ \A q \in B : \E i \in A : f[i] = q
      /\ \A i \in A : E[i] = H[f[i]]
  BY <1>4, <1>6
<1>9. A \in SUBSET (1..Len(E)) /\ B \in SUBSET (1..Len(H))
  BY <1>2, <1>3
<1>10. Picture!Fresh(E, k) = Picture!At(E, A)
  BY <1>2 DEF Picture!Fresh
<1> HIDE DEF A, B, f
<1>11. Picture!At(E, A) = Picture!At(H, B)
  BY <1>0, <1>7, <1>8, <1>9, AtSame
<1> QED
  BY <1>10, <1>11 DEF B

\* Sweeping takes what is stale, and that is the oldest.
LEMMA SweepShows ==
  ASSUME NEW E, NEW H, NEW k \in Picture!Kinds, Cap[k] \in Nat, StaleAfter[k] \in Nat,
         coNow \in Nat, Shown(E, H, k)
  PROVE  /\ Shown(Picture!Fresh(E, k), H, k)
         /\ Len(E) \in Nat /\ Len(Picture!Fresh(E, k)) \in Nat /\ Len(Picture!Fresh(E, k)) <= Len(E)
<1> DEFINE L == Picture!LastHeard(H)
           A == {i \in 1..Len(E) : Picture!IsFresh(E[i], k)}
           F == Picture!Fresh(E, k)
           at(n) == Picture!Nth(A, n)
<1>0. E \in Seq(Entry) /\ H \in Seq(Entry) /\ Len(E) <= Cap[k] /\ InOrder(H)
  BY DEF Shown
<1>1. PICK p : Placed(E, H, p) /\ Missing(E, H, k, p)
  BY DEF Shown
<1>2. /\ L \in SUBSET (1..Len(H)) /\ \A q \in L : q \in Int /\ H[q] \in Entry
      /\ Len(E) \in Nat /\ DOMAIN E = 1..Len(E)
      /\ A \in SUBSET (1..Len(E))
  BY <1>0, LastFacts, LenProperties
<1>3. /\ \A i \in 1..Len(E) : p[i] \in L /\ E[i] = H[p[i]]
      /\ \A i, j \in 1..Len(E) : i < j => p[i] < p[j]
  BY <1>1 DEF Placed
<1>4. F = Picture!At(E, A)
  BY <1>2 DEF Picture!Fresh
<1> HIDE DEF A, F
<1>5. /\ F \in Seq(Entry) /\ Len(F) = Cardinality(A)
      /\ Cardinality(A) \in Nat /\ Cardinality(A) <= Len(E)
      /\ \A n \in 1..Cardinality(A) : at(n) \in A /\ F[n] = E[at(n)]
      /\ \A n, l \in 1..Cardinality(A) : n < l => at(n) < at(l)
      /\ \A i \in A : \E n \in 1..Cardinality(A) : at(n) = i
  BY <1>0, <1>2, <1>4, AtTakes
<1> HIDE DEF at
<1> DEFINE r == [n \in 1..Len(F) |-> p[at(n)]]
<1>6. Placed(F, H, r)
  <2>1. r \in [1..Len(F) -> L]
    BY <1>2, <1>3, <1>5
  <2>2. \A i, j \in 1..Len(F) : i < j => r[i] < r[j]
    BY <1>2, <1>3, <1>5
  <2>3. \A i \in 1..Len(F) : F[i] = H[r[i]]
    BY <1>2, <1>3, <1>5
  <2> QED
    BY <2>1, <2>2, <2>3 DEF Placed
<1>7. Missing(F, H, k, r)
  <2> SUFFICES ASSUME NEW q \in L, \A n \in 1..Len(F) : r[n] # q
               PROVE  Gone(H, k, q) /\ \A n \in 1..Len(F) : q < r[n]
    BY DEF Missing
  <2>1. CASE \E i \in 1..Len(E) : p[i] = q
    <3>1. PICK i \in 1..Len(E) : p[i] = q
      BY <2>1
    <3>2. i \notin A
      BY <1>5, <3>1
    <3>3. ~Picture!IsFresh(H[q], k)
      BY <1>3, <3>1, <3>2 DEF A
    <3>4. ASSUME NEW n \in 1..Len(F) PROVE q < r[n]
      <4>1. at(n) \in A /\ at(n) \in 1..Len(E) /\ r[n] = p[at(n)]
        BY <1>2, <1>5
      <4>2. Picture!IsFresh(H[r[n]], k)
        BY <1>3, <4>1 DEF A
      <4>3. r[n] \in L /\ r[n] \in 1..Len(H) /\ q \in 1..Len(H) /\ r[n] \in Int /\ q \in Int
        BY <1>2, <1>3, <4>1
      <4>4. H[q].seen \in Int /\ H[r[n]].seen \in Int
        BY <1>2, <4>3 DEF Entry
      <4>5. H[q].seen < H[r[n]].seen
        <5>1. coNow - StaleAfter[k] \in Int
          OBVIOUS
        <5> QED
          BY <3>3, <4>2, <4>4, <5>1 DEF Picture!IsFresh
      <4>6. r[n] <= q => H[r[n]].seen <= H[q].seen
        BY <1>0, <4>3 DEF InOrder
      <4> QED
        BY <4>3, <4>4, <4>5, <4>6
    <3> QED
      BY <3>3, <3>4 DEF Gone
  <2>2. CASE ~\E i \in 1..Len(E) : p[i] = q
    <3>1. Gone(H, k, q) /\ \A i \in 1..Len(E) : q < p[i]
      BY <1>1, <2>2 DEF Missing
    <3> QED
      BY <1>2, <1>5, <3>1
  <2> QED
    BY <2>1, <2>2
<1>c. Cap[k] \in Int
  OBVIOUS
<1>8. Len(F) <= Cap[k] /\ Len(F) \in Nat /\ Len(F) <= Len(E)
  <2>1. Len(F) \in Int /\ Len(E) \in Int /\ Len(F) <= Len(E)
    BY <1>2, <1>5
  <2> QED
    BY <1>0, <1>5, <1>c, <2>1
<1>9. r \in [1..Len(F) -> L]
  BY <1>6 DEF Placed
<1> HIDE DEF r
<1>10. Shown(F, H, k)
  BY <1>0, <1>5, <1>6, <1>7, <1>8, <1>9 DEF Shown
<1> QED
  BY <1>2, <1>8, <1>10 DEF F

\* A source is heard: its last place is the new one, that of any other stays.
LEMMA LastAppend ==
  ASSUME NEW H \in Seq(Entry), NEW e \in Entry
  PROVE  /\ Append(H, e) \in Seq(Entry) /\ Len(Append(H, e)) = Len(H) + 1
         /\ Append(H, e)[Len(H) + 1] = e
         /\ \A i \in 1..Len(H) : Append(H, e)[i] = H[i]
         /\ Picture!LastHeard(Append(H, e))
               = {i \in Picture!LastHeard(H) : H[i].key # e.key} \cup {Len(H) + 1}
<1> DEFINE G == Append(H, e)
<1>1. /\ G \in Seq(Entry) /\ Len(G) = Len(H) + 1 /\ G[Len(H) + 1] = e
      /\ \A i \in 1..Len(H) : G[i] = H[i]
  BY AppendProperties
<1>2. Len(H) \in Nat /\ DOMAIN H = 1..Len(H) /\ DOMAIN G = 1 .. Len(H) + 1
  BY <1>1, LenProperties
<1> HIDE DEF G
<1>3. \A i \in 1 .. Len(H) + 1 : i \in 1..Len(H) \/ i = Len(H) + 1
  BY <1>2
<1>4. \A i \in 1..Len(H) :
          i < Len(H) + 1 /\ i <= Len(H) + 1 /\ ~(Len(H) + 1 <= i) /\ i \in 1 .. Len(H) + 1
  BY <1>2
<1>5. Len(H) + 1 \in 1 .. Len(H) + 1 /\ Len(H) + 1 <= Len(H) + 1
  BY <1>2
<1>6. ASSUME NEW i \in 1 .. Len(H) + 1
      PROVE  i \in Picture!LastHeard(G)
                 <=> (i \in Picture!LastHeard(H) /\ H[i].key # e.key) \/ i = Len(H) + 1
  <2>1. CASE i = Len(H) + 1
    BY <1>1, <1>2, <1>3, <1>4, <1>5, <2>1 DEF Picture!LastHeard
  <2>2. CASE i \in 1..Len(H)
    <3>1. i \in Picture!LastHeard(G) => i \in Picture!LastHeard(H) /\ H[i].key # e.key
      BY <1>1, <1>2, <1>3, <1>4, <1>5, <2>2 DEF Picture!LastHeard
    <3>2. i \in Picture!LastHeard(H) /\ H[i].key # e.key => i \in Picture!LastHeard(G)
      BY <1>1, <1>2, <1>3, <1>4, <1>5, <2>2 DEF Picture!LastHeard
    <3>3. i # Len(H) + 1
      BY <1>2, <2>2
    <3> QED
      BY <3>1, <3>2, <3>3
  <2> QED
    BY <1>3, <2>1, <2>2
<1>7. /\ Picture!LastHeard(G) \subseteq 1 .. Len(H) + 1
      /\ Picture!LastHeard(H) \subseteq 1 .. Len(H) + 1
  BY <1>2, <1>4 DEF Picture!LastHeard
<1>8. Picture!LastHeard(G) = {i \in Picture!LastHeard(H) : H[i].key # e.key} \cup {Len(H) + 1}
  BY <1>5, <1>6, <1>7
<1> QED
  BY <1>1, <1>8 DEF G

\* No less than before has been heard of since.
LEMMA SinceAppend ==
  ASSUME NEW H \in Seq(Entry), NEW e \in Entry, NEW q \in Picture!LastHeard(H)
  PROVE  Since(H, q) <= Since(Append(H, e), q)
<1> DEFINE L == Picture!LastHeard(H)
           G == Append(H, e)
           S == {j \in L : j >= q}
           R == {j \in S : H[j].key # e.key}
           T == {j \in Picture!LastHeard(G) : j >= q}
           z == Len(H) + 1
<1>1. /\ L \in SUBSET (1..Len(H)) /\ Len(H) \in Nat /\ IsFiniteSet(L)
      /\ \A i, j \in L : H[i].key = H[j].key => i = j
  BY LastFacts
<1>2. Picture!LastHeard(G) = {i \in L : H[i].key # e.key} \cup {z}
  BY LastAppend
<1>3. IsFiniteSet(S) /\ Cardinality(S) \in Nat
  BY <1>1, FS_Subset, FS_CardinalityType
<1>4. q \in 1..Len(H) /\ z >= q /\ \A i \in L : i # z
  BY <1>1
<1>5. T = R \cup {z} /\ z \notin R
  BY <1>2, <1>4
<1>6. R = S \/ \E x \in S : R = S \ {x}
  <2>1. CASE R # S
    <3>1. PICK x \in S : H[x].key = e.key
      BY <2>1
    <3>2. \A j \in S : H[j].key = e.key => j = x
      BY <1>1, <3>1
    <3>3. R = S \ {x}
      BY <3>1, <3>2
    <3> QED
      BY <3>3
  <2> QED
    BY <2>1
<1> HIDE DEF S, R, T, z
<1>7. IsFiniteSet(R) /\ Cardinality(R) \in Nat /\ Cardinality(R) >= Cardinality(S) - 1
  <2>1. CASE R = S
    BY <1>3, <2>1
  <2>2. ASSUME NEW x \in S, R = S \ {x} PROVE IsFiniteSet(R) /\ Cardinality(R) = Cardinality(S) - 1
    BY <1>3, <2>2, FS_RemoveElement
  <2>3. IsFiniteSet(R) => Cardinality(R) \in Nat
    BY FS_CardinalityType
  <2> QED
    BY <1>3, <1>6, <2>1, <2>2, <2>3
<1>8. Cardinality(T) = Cardinality(R) + 1
  BY <1>5, <1>7, FS_AddElement
<1>9. Cardinality(S) <= Cardinality(T)
  BY <1>3, <1>7, <1>8
<1> QED
  BY <1>9 DEF S, T, Since

\* A source that is heard goes to the end, and leaves its old place if it had one.
LEMMA MovedShows ==
  ASSUME NEW E, NEW H, NEW k \in Picture!Kinds, Cap[k] \in Nat, Shown(E, H, k),
         NEW key \in Keys, NEW e \in Entry, e = [key |-> key, seen |-> coNow]
  PROVE  /\ Picture!Moved(E, key) \in Seq(Entry)
         /\ Len(Picture!Moved(E, key)) = IF Picture!Holds(E, key) THEN Len(E) ELSE Len(E) + 1
         /\ \E r \in [1..Len(Picture!Moved(E, key)) -> Picture!LastHeard(Append(H, e))] :
                /\ Placed(Picture!Moved(E, key), Append(H, e), r)
                /\ Missing(Picture!Moved(E, key), Append(H, e), k, r)
<1> DEFINE L == Picture!LastHeard(H)
           G == Append(H, e)
           A == {i \in 1..Len(E) : E[i].key # key}
           W == Picture!Without(E, key)
           M == Picture!Moved(E, key)
           at(n) == Picture!Nth(A, n)
           z == Len(H) + 1
<1>0. E \in Seq(Entry) /\ H \in Seq(Entry) /\ Len(E) <= Cap[k]
  BY DEF Shown
<1>1. PICK p : Placed(E, H, p) /\ Missing(E, H, k, p)
  BY DEF Shown
<1>2. /\ L \in SUBSET (1..Len(H)) /\ \A q \in L : q \in Int /\ H[q] \in Entry
      /\ \A i, j \in L : H[i].key = H[j].key => i = j
      /\ Len(E) \in Nat /\ DOMAIN E = 1..Len(E) /\ Len(H) \in Nat
      /\ A \in SUBSET (1..Len(E)) /\ e.key = key
      /\ z \in Int /\ \A i \in L : i < z
  <2>1. /\ L \in SUBSET (1..Len(H)) /\ \A q \in L : q \in Int /\ H[q] \in Entry
        /\ \A i, j \in L : H[i].key = H[j].key => i = j
    BY <1>0, LastFacts
  <2>2. Len(E) \in Nat /\ DOMAIN E = 1..Len(E) /\ Len(H) \in Nat
    BY <1>0, LenProperties
  <2>3. z \in Int /\ \A i \in L : i < z
    BY <2>1, <2>2
  <2> QED
    BY <2>1, <2>2, <2>3
<1>3. /\ \A i \in 1..Len(E) : p[i] \in L /\ E[i] = H[p[i]]
      /\ \A i, j \in 1..Len(E) : i < j => p[i] < p[j]
  BY <1>1 DEF Placed
<1>4. W = Picture!At(E, A) /\ M = Append(W, e)
  BY <1>2 DEF Picture!Without, Picture!Moved
<1>5. /\ \A i \in 1..Len(H) : G[i] = H[i]
      /\ G[z] = e
      /\ Picture!LastHeard(G) = {i \in L : H[i].key # key} \cup {z}
  BY <1>0, <1>2, LastAppend
<1>6. \A i, j \in A : i \in Int /\ j \in Int
  BY <1>2
\* At most one entry goes.
<1>7. /\ Cardinality(A) \in Nat
      /\ Cardinality(A) + 1 = IF Picture!Holds(E, key) THEN Len(E) ELSE Len(E) + 1
  <2>1. IsFiniteSet(1..Len(E)) /\ Cardinality(1..Len(E)) = Len(E)
    <3>1. Len(E) \in Int /\ 1 \in Int
      BY <1>2
    <3>2. /\ IsFiniteSet(1..Len(E))
          /\ Cardinality(1..Len(E)) = IF 1 > Len(E) THEN 0 ELSE Len(E) - 1 + 1
      BY <3>1, FS_Interval
    <3> QED
      BY <1>2, <3>2
  <2>2. CASE Picture!Holds(E, key)
    <3>1. PICK i \in 1..Len(E) : E[i].key = key
      BY <1>2, <2>2 DEF Picture!Holds
    <3>2. ASSUME NEW j \in 1..Len(E), E[j].key = key PROVE j = i
      <4>1. p[i] \in L /\ p[j] \in L /\ H[p[i]].key = H[p[j]].key
        BY <1>3, <3>1, <3>2
      <4>2. p[i] = p[j]
        BY <1>2, <4>1
      <4>3. i \in Int /\ j \in Int /\ p[i] \in Int /\ p[j] \in Int
        BY <1>2, <4>1
      <4>4. (i < j => p[i] < p[j]) /\ (j < i => p[j] < p[i])
        BY <1>3
      <4> QED
        BY <4>2, <4>3, <4>4
    <3>3. A = (1..Len(E)) \ {i}
      BY <3>1, <3>2
    <3> HIDE DEF A
    <3>4. Cardinality(A) = Cardinality(1..Len(E)) - 1
      BY <2>1, <3>3, FS_RemoveElement
    <3>5. Cardinality(A) + 1 = Len(E)
      BY <1>2, <2>1, <3>4
    <3>6. Len(E) >= 1 /\ Len(E) \in Int
      BY <1>2
    <3>7. Cardinality(A) \in Nat
      BY <2>1, <3>4, <3>6
    <3> QED
      BY <2>2, <3>5, <3>7
  <2>3. CASE ~Picture!Holds(E, key)
    <3>1. A = 1..Len(E)
      BY <1>2, <2>3 DEF Picture!Holds
    <3> QED
      BY <1>2, <2>1, <2>3, <3>1
  <2> QED
    BY <2>2, <2>3
<1> HIDE DEF A, W, M, G
<1>8. /\ W \in Seq(Entry) /\ Len(W) = Cardinality(A)
      /\ \A n \in 1..Cardinality(A) : at(n) \in A /\ W[n] = E[at(n)]
      /\ \A n, l \in 1..Cardinality(A) : n < l => at(n) < at(l)
      /\ \A i \in A : \E n \in 1..Cardinality(A) : at(n) = i
  BY <1>0, <1>2, <1>4, AtTakes
<1> HIDE DEF at
<1>9. /\ M \in Seq(Entry) /\ Len(M) = Len(W) + 1 /\ M[Len(W) + 1] = e
      /\ \A n \in 1..Len(W) : M[n] = W[n]
  BY <1>4, <1>8, AppendProperties
<1> DEFINE m == Len(W)
           r == [n \in 1 .. m + 1 |-> IF n \in 1..m THEN p[at(n)] ELSE z]
<1>10. m \in Nat /\ m + 1 \notin 1..m /\ m + 1 \in 1 .. m + 1 /\ 1..m \subseteq 1 .. m + 1
       /\ \A n \in 1 .. m + 1 : n \in 1..m \/ n = m + 1
  <2>1. m \in Nat
    BY <1>7, <1>8
  <2> HIDE DEF m
  <2> QED
    BY <2>1
<1>11. ASSUME NEW n \in 1..m
       PROVE  /\ at(n) \in 1..Len(E) /\ E[at(n)].key # key
              /\ r[n] = p[at(n)] /\ r[n] \in L /\ r[n] < z /\ r[n] \in Int /\ H[r[n]].key # key
              /\ M[n] = G[r[n]]
  <2>1. at(n) \in A /\ W[n] = E[at(n)]
    BY <1>8
  <2>2. at(n) \in 1..Len(E) /\ E[at(n)].key # key
    BY <2>1 DEF A
  <2>3. p[at(n)] \in L /\ E[at(n)] = H[p[at(n)]]
    BY <1>3, <2>2
  <2>4. r[n] = p[at(n)]
    BY <1>10
  <2>5. M[n] = W[n]
    BY <1>9
  <2>6. r[n] \in L /\ r[n] < z /\ r[n] \in Int /\ r[n] \in 1..Len(H)
    BY <1>2, <2>3, <2>4
  <2>7. G[r[n]] = H[r[n]]
    BY <1>5, <2>6
  <2> QED
    BY <2>1, <2>2, <2>3, <2>4, <2>5, <2>6, <2>7
<1>12. r[m + 1] = z /\ M[m + 1] = G[z]
  BY <1>5, <1>9, <1>10
<1>13. Placed(M, G, r)
  <2>1. r \in [1..Len(M) -> Picture!LastHeard(G)]
    <3>1. \A n \in 1 .. m + 1 : r[n] \in Picture!LastHeard(G)
      BY <1>5, <1>10, <1>11, <1>12
    <3> QED
      BY <1>9, <3>1
  <2>2. \A n \in 1..Len(M) : M[n] = G[r[n]]
    BY <1>9, <1>10, <1>11, <1>12
  <2>3. ASSUME NEW n \in 1..Len(M), NEW l \in 1..Len(M), n < l PROVE r[n] < r[l]
    <3>1. n \in 1 .. m + 1 /\ l \in 1 .. m + 1
      BY <1>9
    <3>2. n \in 1..m
      BY <1>10, <2>3, <3>1
    <3>3. CASE l = m + 1
      BY <1>11, <1>12, <3>2, <3>3
    <3>4. CASE l \in 1..m
      <4>1. at(n) < at(l)
        BY <1>8, <2>3, <3>2, <3>4
      <4>2. p[at(n)] < p[at(l)]
        BY <1>3, <1>11, <3>2, <3>4, <4>1
      <4> QED
        BY <1>11, <3>2, <3>4, <4>2
    <3> QED
      BY <1>10, <3>1, <3>3, <3>4
  <2> QED
    BY <2>1, <2>2, <2>3 DEF Placed
<1>14. Missing(M, G, k, r)
  <2> SUFFICES ASSUME NEW q \in Picture!LastHeard(G), \A n \in 1..Len(M) : r[n] # q
               PROVE  Gone(G, k, q) /\ \A n \in 1..Len(M) : q < r[n]
    BY DEF Missing
  <2>1. q # z
    BY <1>9, <1>10, <1>12
  <2>2. q \in L /\ H[q].key # key /\ q \in 1..Len(H) /\ q \in Int
    BY <1>2, <1>5, <2>1
  <2>3. ASSUME NEW i \in 1..Len(E), p[i] = q PROVE FALSE
    <3>1. i \in A
      BY <1>3, <2>2, <2>3 DEF A
    <3>2. PICK n \in 1..m : at(n) = i
      BY <1>8, <3>1
    <3>3. r[n] = q /\ n \in 1..Len(M)
      BY <1>9, <1>10, <1>11, <2>3, <3>2
    <3> QED
      BY <3>3
  <2>4. Gone(H, k, q) /\ \A i \in 1..Len(E) : q < p[i]
    BY <1>1, <2>2, <2>3 DEF Missing
  <2>5. \A n \in 1 .. m + 1 : q < r[n]
    BY <1>2, <1>10, <1>11, <1>12, <2>2, <2>4
  <2>6. Gone(G, k, q)
    <3>1. G[q] = H[q]
      BY <1>5, <2>2
    <3>2. CASE ~Picture!IsFresh(H[q], k)
      BY <3>1, <3>2 DEF Gone
    <3>3. CASE Since(H, q) > Cap[k]
      <4>1. Since(H, q) <= Since(G, q)
        BY <1>0, <2>2, SinceAppend DEF G
      <4>2. Since(H, q) \in Int
        BY <1>0, <2>2, LastFacts
      <4>3. G \in Seq(Entry)
        BY <1>0, LastAppend DEF G
      <4>4. Since(G, q) \in Int
        BY <2>2, <4>3, LastFacts
      <4>5. Cap[k] \in Int
        OBVIOUS
      <4> QED
        BY <3>3, <4>1, <4>2, <4>4, <4>5 DEF Gone
    <3> QED
      BY <2>4, <3>2, <3>3 DEF Gone
  <2> QED
    BY <1>9, <2>5, <2>6
<1>15. r \in [1..Len(M) -> Picture!LastHeard(G)]
  BY <1>13 DEF Placed
<1>16. Len(M) = IF Picture!Holds(E, key) THEN Len(E) ELSE Len(E) + 1
  BY <1>7, <1>8, <1>9
<1> HIDE DEF r
<1> QED
  BY <1>9, <1>13, <1>14, <1>15, <1>16 DEF M, G

\* The oldest make room: one at most, and it is one of too many.
LEMMA EvictShows ==
  ASSUME NEW M \in Seq(Entry), NEW H \in Seq(Entry), NEW k \in Picture!Kinds,
         NEW cap \in Nat \ {0}, cap = Cap[k], InOrder(H),
         NEW p, Placed(M, H, p), Missing(M, H, k, p),
         NEW over \in 0..1, IF over = 1 THEN Len(M) = cap + 1 ELSE Len(M) <= cap
  PROVE  /\ Shown(SubSeq(M, over + 1, Len(M)), H, k)
         /\ Len(SubSeq(M, over + 1, Len(M))) = Len(M) - over
<1> DEFINE F == SubSeq(M, over + 1, Len(M))
           L == Picture!LastHeard(H)
<1>0. /\ Len(M) \in Nat
      /\ over \in Nat /\ over <= 1 /\ over <= Len(M) /\ Len(M) - over <= cap
      /\ over = 1 => Len(M) = cap + 1
  <2>1. Len(M) \in Nat /\ cap >= 1
    BY LenProperties
  <2> QED
    BY <2>1
<1>1. /\ F \in Seq(Entry) /\ Len(F) = Len(M) - over
      /\ \A n \in 1 .. Len(M) - over : F[n] = M[n + over]
  <2>1. over + 1 \in Int /\ Len(M) \in Int /\ \A i \in over + 1 .. Len(M) : M[i] \in Entry
    <3>1. \A i \in over + 1 .. Len(M) : i \in 1..Len(M)
      BY <1>0
    <3> QED
      BY <1>0, <3>1, ElementOfSeq
  <2>2. \A n \in 1 .. Len(M) - over : (over + 1) + n - 1 = n + over
    BY <1>0
  <2>3. Len(M) - (over + 1) + 1 = Len(M) - over /\ (over + 1) - 1 = over
    BY <1>0
  <2>4. /\ F \in Seq(Entry)
        /\ Len(F) = IF over + 1 <= Len(M) THEN Len(M) - (over + 1) + 1 ELSE 0
        /\ \A i \in 1 .. Len(M) - (over + 1) + 1 : F[i] = M[(over + 1) + i - 1]
    BY <2>1, <2>3, SubSeqProperties
  <2> HIDE DEF F
  <2>5. Len(F) = Len(M) - over
    <3>1. CASE over + 1 <= Len(M)
      BY <2>3, <2>4, <3>1
    <3>2. CASE ~(over + 1 <= Len(M))
      <4>1. Len(M) - over = 0
        BY <1>0, <3>2
      <4> QED
        BY <2>4, <3>2, <4>1
    <3> QED
      BY <3>1, <3>2
  <2> QED
    BY <2>2, <2>3, <2>4, <2>5
<1> HIDE DEF F
<1>2. /\ \A i \in 1..Len(M) : p[i] \in L /\ M[i] = H[p[i]]
      /\ \A i, j \in 1..Len(M) : i < j => p[i] < p[j]
  BY DEF Placed
<1> DEFINE r == [n \in 1 .. Len(M) - over |-> p[n + over]]
<1>3. \A n \in 1 .. Len(M) - over : n + over \in 1..Len(M) /\ r[n] = p[n + over]
  BY <1>0
<1>4. Placed(F, H, r)
  <2>1. r \in [1..Len(F) -> L]
    BY <1>1, <1>2, <1>3
  <2>2. ASSUME NEW i \in 1..Len(F), NEW j \in 1..Len(F), i < j PROVE r[i] < r[j]
    <3>1. i + over < j + over
      BY <1>0, <1>1, <2>2
    <3> QED
      BY <1>1, <1>2, <1>3, <3>1
  <2>3. \A i \in 1..Len(F) : F[i] = H[r[i]]
    BY <1>1, <1>2, <1>3
  <2> QED
    BY <2>1, <2>2, <2>3 DEF Placed
<1>5. Missing(F, H, k, r)
  <2> SUFFICES ASSUME NEW q \in L, \A n \in 1..Len(F) : r[n] # q
               PROVE  Gone(H, k, q) /\ \A n \in 1..Len(F) : q < r[n]
    BY DEF Missing
  <2>1. CASE \E i \in 1..Len(M) : p[i] = q
    <3>1. PICK i \in 1..Len(M) : p[i] = q
      BY <2>1
    <3>2. i = 1 /\ over = 1
      <4>1. ASSUME i > over PROVE FALSE
        <5>1. i - over \in 1 .. Len(M) - over /\ (i - over) + over = i
          BY <1>0, <4>1
        <5>2. r[i - over] = q
          BY <1>3, <3>1, <5>1
        <5> QED
          BY <1>1, <5>1, <5>2
      <4> QED
        BY <1>0, <4>1
    <3>3. Since(H, q) = Len(M)
      <4>1. Since(H, p[i]) = Len(M) - i + 1
        BY SinceAt
      <4> QED
        BY <1>0, <3>1, <3>2, <4>1
    <3>4. Gone(H, k, q)
      <4>1. Since(H, q) > cap
        BY <1>0, <3>2, <3>3
      <4> QED
        BY <4>1 DEF Gone
    <3>5. ASSUME NEW n \in 1..Len(F) PROVE q < r[n]
      <4>1. i < n + over /\ n + over \in 1..Len(M)
        BY <1>0, <1>1, <3>2
      <4> QED
        BY <1>1, <1>2, <1>3, <3>1, <4>1
    <3> QED
      BY <3>4, <3>5
  <2>2. CASE ~\E i \in 1..Len(M) : p[i] = q
    <3>1. Gone(H, k, q) /\ \A i \in 1..Len(M) : q < p[i]
      BY <2>2 DEF Missing
    <3> QED
      BY <1>1, <1>3, <3>1
  <2> QED
    BY <2>1, <2>2
<1>6. r \in [1..Len(F) -> L]
  BY <1>4 DEF Placed
<1> HIDE DEF r
<1>7. Len(F) <= Cap[k]
  BY <1>0, <1>1
<1>8. Shown(F, H, k)
  BY <1>1, <1>4, <1>5, <1>6, <1>7 DEF Shown
<1> QED
  BY <1>1, <1>7, <1>8 DEF F

-----------------------------------------------------------------------------
(* Console: the inductive invariant.                                                        *)

PictureTypes ==
    /\ coNow \in 0..MaxClock
    /\ coCount \in [Picture!Counters -> Nat] /\ coNew \in [Picture!Kinds -> Nat]
    /\ coEntries \in [Picture!Kinds -> Seq(Entry)] /\ DOMAIN coHeard = Picture!Kinds
    /\ coLogged \in Seq(1..MaxEvents) /\ Len(coLogged) <= MaxEvents

PictureInv ==
    /\ PictureTypes
    /\ \A k \in Picture!Kinds : Shown(coEntries[k], coHeard[k], k)
    /\ Picture!EntriesAccounted /\ Picture!RingIsTail

LEMMA PictureConstants ==
  ASSUME Picture!ConstantsOK
  PROVE  /\ MaxClock \in Nat /\ MaxEvents \in Nat /\ RingSize \in Nat \ {0}
         /\ \A k \in Picture!Kinds : Cap[k] \in Nat \ {0} /\ StaleAfter[k] \in Nat \ {0}
BY DEF Picture!ConstantsOK

\* With the time the entries stay, in order, and what is gone is gone.
LEMMA TimeShows ==
  ASSUME NEW E, NEW H, NEW k \in Picture!Kinds, StaleAfter[k] \in Nat, coNow \in Nat,
         coNow' = coNow + 1, Shown(E, H, k)
  PROVE  Shown(E, H, k)'
<1> DEFINE L == Picture!LastHeard(H)
<1>0. E \in Seq(Entry) /\ H \in Seq(Entry) /\ Len(E) <= Cap[k] /\ InOrder(H)
  BY DEF Shown
<1>1. PICK p \in [1..Len(E) -> L] : Placed(E, H, p) /\ Missing(E, H, k, p)
  BY DEF Shown
<1>2. Len(H) \in Nat /\ \A i \in 1..Len(H) : H[i].seen \in Int
  <2>1. \A i \in 1..Len(H) : H[i] \in Entry
    BY <1>0, ElementOfSeq
  <2>2. Len(H) \in Nat
    BY <1>0, LenProperties
  <2> QED
    BY <2>1, <2>2 DEF Entry
<1>3. InOrder(H)'
  <2>1. \A i \in 1..Len(H) : H[i].seen <= coNow'
    BY <1>0, <1>2 DEF InOrder
  <2> QED
    BY <1>0, <2>1 DEF InOrder
<1>4. \A q \in 1..Len(H) : ~Picture!IsFresh(H[q], k) => ~Picture!IsFresh(H[q], k)'
  BY <1>2 DEF Picture!IsFresh
<1>5. \A q \in L : Gone(H, k, q) => Gone(H, k, q)'
  <2>1. L \in SUBSET (1..Len(H))
    BY <1>0, LastFacts
  <2> HIDE DEF L
  <2> QED
    BY <1>4, <2>1 DEF Gone, Since, Picture!LastHeard
<1>6. Missing(E, H, k, p)'
  BY <1>1, <1>5 DEF Missing, Picture!LastHeard
<1>7. Placed(E, H, p)'
  BY <1>1 DEF Placed, Picture!LastHeard
<1> QED
  BY <1>0, <1>1, <1>3, <1>6, <1>7 DEF Shown, Picture!LastHeard

\* Shown looks at no variable but the clock.
LEMMA SameTimeShows ==
  ASSUME NEW E, NEW H, NEW k, coNow' = coNow, Shown(E, H, k)
  PROVE  Shown(E, H, k)'
BY DEF Shown, Placed, Missing, Gone, Since, InOrder, Picture!IsFresh, Picture!LastHeard, Entry

LEMMA PictureTickKeeps == ASSUME Picture!ConstantsOK, PictureInv, Picture!Tick PROVE PictureInv'
<1>c. /\ MaxClock \in Nat
      /\ \A k \in Picture!Kinds : StaleAfter[k] \in Nat
  BY PictureConstants
<1>1. coNow \in Nat /\ coNow' = coNow + 1 /\ coNow' \in 0..MaxClock
  BY <1>c DEF PictureInv, PictureTypes, Picture!Tick
<1>2. UNCHANGED <<coEntries, coRing, coHeard, coNew, coLogged, coCount>>
  BY DEF Picture!Tick
<1>3. \A k \in Picture!Kinds : Shown(coEntries[k], coHeard[k], k)'
  <2> TAKE k \in Picture!Kinds
  <2>1. PICK E : E = coEntries[k]
    OBVIOUS
  <2>2. PICK H : H = coHeard[k]
    OBVIOUS
  <2>3. Shown(E, H, k)
    BY <2>1, <2>2 DEF PictureInv
  <2>4. Shown(E, H, k)'
    BY <1>1, <1>c, <2>3, TimeShows
  <2>5. E = coEntries'[k] /\ H = coHeard'[k]
    BY <1>2, <2>1, <2>2
  <2> QED
    BY <2>4, <2>5
<1>4. PictureTypes'
  BY <1>1, <1>2 DEF PictureInv, PictureTypes
<1>5. Picture!EntriesAccounted' /\ Picture!RingIsTail'
  BY <1>2 DEF PictureInv, Picture!EntriesAccounted, Picture!RingIsTail
<1> QED
  BY <1>3, <1>4, <1>5 DEF PictureInv

LEMMA PictureUpsertKeeps ==
  ASSUME Picture!ConstantsOK, PictureInv, NEW k \in Picture!Kinds, NEW key \in Keys,
         Picture!Upsert(k, key)
  PROVE  PictureInv'
<1> DEFINE over == IF Len(Picture!Moved(coEntries[k], key)) > Cap[k]
                   THEN Len(Picture!Moved(coEntries[k], key)) - Cap[k] ELSE 0
<1>1. PICK E : E = coEntries[k]
  OBVIOUS
<1>2. PICK H : H = coHeard[k]
  OBVIOUS
<1>3. PICK e : e = [key |-> key, seen |-> coNow]
  OBVIOUS
<1>4. PICK M : M = Picture!Moved(E, key)
  OBVIOUS
<1>5. PICK d : d = over
  OBVIOUS
<1>t. PictureTypes
  BY DEF PictureInv
<1>6. e \in Entry /\ coNow \in Nat
  <2>1. coNow \in 0..MaxClock
    BY <1>t DEF PictureTypes
  <2>2. MaxClock \in Nat
    BY PictureConstants
  <2> QED
    BY <1>3, <2>1, <2>2 DEF Entry
<1>7. /\ coNow' = coNow /\ coRing' = coRing /\ coLogged' = coLogged
      /\ coEntries' = [coEntries EXCEPT ![k] = SubSeq(M, d + 1, Len(M))]
      /\ coCount' = [coCount EXCEPT ![<<k, "evicted">>] = @ + d]
      /\ coHeard' = [coHeard EXCEPT ![k] = Append(@, e)]
      /\ coNew' = [coNew EXCEPT ![k] = @ + IF Picture!Holds(E, key) THEN 0 ELSE 1]
  BY <1>1, <1>3, <1>4, <1>5 DEF Picture!Upsert
<1>c. Cap[k] \in Nat \ {0}
  BY PictureConstants
<1>8. Shown(E, H, k)
  BY <1>1, <1>2 DEF PictureInv
<1>9. E \in Seq(Entry) /\ H \in Seq(Entry) /\ Len(E) <= Cap[k] /\ InOrder(H)
      /\ Len(E) \in Nat /\ Len(H) \in Nat
  <2>1. E \in Seq(Entry) /\ H \in Seq(Entry) /\ Len(E) <= Cap[k] /\ InOrder(H)
    BY <1>8 DEF Shown
  <2> QED
    BY <2>1, LenProperties
<1>10. /\ M \in Seq(Entry)
       /\ Len(M) = IF Picture!Holds(E, key) THEN Len(E) ELSE Len(E) + 1
       /\ \E r \in [1..Len(M) -> Picture!LastHeard(Append(H, e))] :
              Placed(M, Append(H, e), r) /\ Missing(M, Append(H, e), k, r)
  BY <1>3, <1>4, <1>6, <1>8, <1>c, MovedShows
<1>11. /\ d \in 0..1
       /\ IF d = 1 THEN Len(M) = Cap[k] + 1 ELSE Len(M) <= Cap[k]
       /\ Len(M) \in Nat /\ Len(M) <= Len(E) + 1
  <2>1. d = IF Len(M) > Cap[k] THEN Len(M) - Cap[k] ELSE 0
    BY <1>1, <1>4, <1>5
  <2>2. Len(M) \in Nat /\ Len(M) <= Len(E) + 1
    BY <1>9, <1>10
  <2>3. Len(M) <= Cap[k] + 1
    BY <1>9, <1>c, <2>2
  <2>4. CASE Len(M) > Cap[k]
    <3>1. Len(M) = Cap[k] + 1
      BY <1>c, <2>2, <2>3, <2>4
    <3>2. d = 1
      BY <1>c, <2>1, <2>4, <3>1
    <3> QED
      BY <2>2, <3>1, <3>2
  <2>5. CASE ~(Len(M) > Cap[k])
    <3>1. Len(M) <= Cap[k] /\ d = 0
      BY <1>c, <2>1, <2>2, <2>5
    <3> QED
      BY <2>2, <3>1
  <2> QED
    BY <2>4, <2>5
<1> HIDE DEF over
<1>12. /\ Append(H, e) \in Seq(Entry) /\ Len(Append(H, e)) = Len(H) + 1
       /\ Append(H, e)[Len(H) + 1] = e
       /\ \A i \in 1..Len(H) : Append(H, e)[i] = H[i]
  BY <1>6, <1>9, LastAppend
<1>13. PICK G : G = Append(H, e)
  OBVIOUS
<1>14. InOrder(G)
  <2>1. Len(G) = Len(H) + 1 /\ G[Len(H) + 1].seen = coNow /\ \A i \in 1..Len(H) : G[i] = H[i]
    BY <1>3, <1>12, <1>13
  <2>2. /\ \A i \in 1..Len(H) : H[i].seen <= coNow
        /\ \A i, j \in 1..Len(H) : i <= j => H[i].seen <= H[j].seen
    BY <1>9 DEF InOrder
  <2>3. \A i \in 1..Len(G) : i \in 1..Len(H) \/ i = Len(H) + 1
    BY <1>9, <2>1
  <2>4. \A i \in 1..Len(G) : G[i].seen <= coNow
    BY <1>6, <2>1, <2>2, <2>3
  <2>5. ASSUME NEW i \in 1..Len(G), NEW j \in 1..Len(G), i <= j PROVE G[i].seen <= G[j].seen
    <3>1. CASE j = Len(H) + 1
      BY <2>1, <2>4, <3>1
    <3>2. CASE j \in 1..Len(H)
      <4>1. i \in 1..Len(H)
        BY <1>9, <2>1, <2>5, <3>2
      <4> QED
        BY <2>1, <2>2, <2>5, <3>2, <4>1
    <3> QED
      BY <2>3, <3>1, <3>2
  <2> QED
    BY <2>4, <2>5 DEF InOrder
<1>15. PICK r \in [1..Len(M) -> Picture!LastHeard(G)] : Placed(M, G, r) /\ Missing(M, G, k, r)
  BY <1>10, <1>13
<1>16. PICK F : F = SubSeq(M, d + 1, Len(M))
  OBVIOUS
<1>17. Shown(F, G, k) /\ Len(F) = Len(M) - d
  <2>1. G \in Seq(Entry)
    BY <1>12, <1>13
  <2>2. PICK cap \in Nat \ {0} : cap = Cap[k]
    BY <1>c
  <2>3. IF d = 1 THEN Len(M) = cap + 1 ELSE Len(M) <= cap
    BY <1>11, <2>2
  <2>4. /\ Shown(SubSeq(M, d + 1, Len(M)), G, k)
        /\ Len(SubSeq(M, d + 1, Len(M))) = Len(M) - d
    BY <1>10, <1>11, <1>14, <1>15, <2>1, <2>2, <2>3, EvictShows
  <2> QED
    BY <1>16, <2>4
<1>18. \A l \in Picture!Kinds : Shown(coEntries[l], coHeard[l], l)'
  <2> TAKE l \in Picture!Kinds
  <2>1. PICK A : A = coEntries'[l]
    OBVIOUS
  <2>2. PICK B : B = coHeard'[l]
    OBVIOUS
  <2>3. Shown(A, B, l)
    <3>1. CASE l = k
      <4>1. A = F /\ B = G
        BY <1>2, <1>7, <1>13, <1>16, <1>t, <2>1, <2>2, <3>1 DEF PictureTypes
      <4> QED
        BY <1>17, <3>1, <4>1
    <3>2. CASE l # k
      <4>1. A = coEntries[l] /\ B = coHeard[l]
        BY <1>7, <1>t, <2>1, <2>2, <3>2 DEF PictureTypes
      <4> QED
        BY <4>1 DEF PictureInv
    <3> QED
      BY <3>1, <3>2
  <2>4. Shown(A, B, l)'
    BY <1>7, <2>3, SameTimeShows
  <2> QED
    BY <2>1, <2>2, <2>4
<1>19. PictureTypes'
  <2>1. d \in Nat
    BY <1>11
  <2>2. <<k, "evicted">> \in Picture!Counters
    BY DEF Picture!Counters
  <2>3. coCount' \in [Picture!Counters -> Nat]
    BY <1>7, <1>t, <2>1, <2>2 DEF PictureTypes
  <2>4. coNew' \in [Picture!Kinds -> Nat]
    <3>1. PICK a \in {0, 1} : a = IF Picture!Holds(E, key) THEN 0 ELSE 1
      OBVIOUS
    <3>2. coNew' = [coNew EXCEPT ![k] = @ + a]
      BY <1>7, <3>1
    <3> QED
      BY <1>t, <3>2 DEF PictureTypes
  <2>5. coEntries' \in [Picture!Kinds -> Seq(Entry)] /\ DOMAIN coHeard' = Picture!Kinds
    <3>1. F \in Seq(Entry)
      BY <1>17 DEF Shown
    <3> QED
      BY <1>7, <1>16, <1>t, <3>1 DEF PictureTypes
  <2> QED
    BY <1>7, <1>t, <2>3, <2>4, <2>5 DEF PictureTypes
<1>20. Picture!EntriesAccounted'
  <2> SUFFICES ASSUME NEW l \in Picture!Kinds
               PROVE  coNew'[l] = Len(coEntries'[l]) + coCount'[<<l, "evicted">>]
                                     + coCount'[<<l, "expired">>]
    BY DEF Picture!EntriesAccounted
  <2>1. coNew[l] = Len(coEntries[l]) + coCount[<<l, "evicted">>] + coCount[<<l, "expired">>]
    BY DEF PictureInv, Picture!EntriesAccounted
  <2>2. /\ <<l, "evicted">> \in Picture!Counters /\ <<l, "expired">> \in Picture!Counters
        /\ <<k, "evicted">> \in Picture!Counters /\ <<k, "evicted">> # <<l, "expired">>
    BY DEF Picture!Counters
  <2>3. coCount'[<<l, "expired">>] = coCount[<<l, "expired">>]
    BY <1>7, <1>t, <2>2 DEF PictureTypes
  <2>4. /\ coCount[<<l, "evicted">>] \in Nat /\ coCount[<<l, "expired">>] \in Nat
        /\ coCount[<<k, "evicted">>] \in Nat /\ coNew[k] \in Nat
    BY <1>t, <2>2 DEF PictureTypes
  <2>5. CASE l = k
    <3>1. coEntries'[l] = F /\ coCount'[<<l, "evicted">>] = coCount[<<l, "evicted">>] + d
      BY <1>7, <1>16, <1>t, <2>2, <2>5 DEF PictureTypes
    <3>2. coNew'[l] = coNew[l] + IF Picture!Holds(E, key) THEN 0 ELSE 1
      BY <1>7, <1>t, <2>5 DEF PictureTypes
    <3>3. Len(coEntries'[l]) = Len(M) - d
      BY <1>17, <3>1
    <3>4. coEntries[l] = E
      BY <1>1, <2>5
    <3>7. PICK v \in Nat : v = coCount[<<l, "evicted">>]
      BY <2>4
    <3>8. PICK x \in Nat : x = coCount[<<l, "expired">>]
      BY <2>4
    <3>9. coNew[l] = Len(E) + v + x
      BY <2>1, <3>4, <3>7, <3>8
    <3>10. Len(coEntries'[l]) + coCount'[<<l, "evicted">>] + coCount'[<<l, "expired">>]
              = (Len(M) - d) + (v + d) + x
      BY <2>3, <3>1, <3>3, <3>7, <3>8
    <3>11. (Len(M) - d) + (v + d) + x = Len(M) + v + x /\ d \in Int
      BY <1>11
    <3>5. CASE Picture!Holds(E, key)
      <4>1. Len(M) = Len(E) /\ coNew'[l] = coNew[l] + 0
        BY <1>10, <3>2, <3>5
      <4>2. coNew'[l] = Len(M) + v + x
        BY <1>9, <3>9, <4>1
      <4> QED
        BY <3>10, <3>11, <4>2
    <3>6. CASE ~Picture!Holds(E, key)
      <4>1. Len(M) = Len(E) + 1 /\ coNew'[l] = coNew[l] + 1
        BY <1>10, <3>2, <3>6
      <4>2. coNew'[l] = Len(M) + v + x
        BY <1>9, <3>9, <4>1
      <4> QED
        BY <3>10, <3>11, <4>2
    <3> QED
      BY <3>5, <3>6
  <2>6. CASE l # k
    <3>1. <<k, "evicted">> # <<l, "evicted">>
      BY <2>6
    <3>2. coEntries'[l] = coEntries[l] /\ coNew'[l] = coNew[l]
          /\ coCount'[<<l, "evicted">>] = coCount[<<l, "evicted">>]
      BY <1>7, <1>t, <2>2, <2>6, <3>1 DEF PictureTypes
    <3> QED
      BY <2>1, <2>3, <3>2
  <2> QED
    BY <2>5, <2>6
<1>21. Picture!RingIsTail'
  BY <1>7 DEF PictureInv, Picture!RingIsTail
<1> QED
  BY <1>18, <1>19, <1>20, <1>21 DEF PictureInv

\* The last R of a sequence, when one more is appended.
LEMMA RingAppend ==
  ASSUME NEW X, NEW s \in Seq(X), NEW e \in X, NEW R \in Nat \ {0}, Len(s) >= R
  PROVE  /\ Len(Append(SubSeq(s, Len(s) - R + 1, Len(s)), e)) = R + 1
         /\ Tail(Append(SubSeq(s, Len(s) - R + 1, Len(s)), e))
               = SubSeq(Append(s, e), Len(s) - R + 2, Len(s) + 1)
<1> DEFINE t == Append(s, e)
           b == Len(s) - R
<1>0. PICK ring : ring = SubSeq(s, Len(s) - R + 1, Len(s))
  OBVIOUS
<1> DEFINE u == Append(ring, e)
<1>1. /\ t \in Seq(X) /\ Len(t) = Len(s) + 1 /\ t[Len(s) + 1] = e
      /\ \A i \in 1..Len(s) : t[i] = s[i]
  BY AppendProperties
<1>2. Len(s) \in Nat
  BY LenProperties
<1> HIDE DEF t
<1>4. Len(u) = R + 1 /\ Tail(u) = SubSeq(t, Len(s) - R + 2, Len(s) + 1)
  <2>1. b \in Nat /\ Len(s) = b + R
    BY <1>2
  <2> HIDE DEF b
  <2>2. R >= 1 /\ R \in Nat
    OBVIOUS
  <2>3. /\ Len(t) = b + R + 1 /\ Len(s) + 1 = b + R + 1
        /\ Len(s) - R + 1 = b + 1 /\ Len(s) - R + 2 = b + 2
    BY <1>1, <2>1, <2>2
  <2>4. ring \in Seq(X) /\ Len(ring) = R /\ \A i \in 1..R : ring[i] = s[b + i]
    <3>1. ring = SubSeq(s, b + 1, b + R)
      BY <1>0, <2>1, <2>3
    <3>2. \A i \in b + 1 .. b + R : s[i] \in X
      <4>1. \A i \in b + 1 .. b + R : i \in 1..Len(s)
        BY <2>1, <2>2
      <4> QED
        BY <4>1, ElementOfSeq
    <3>3. PICK m \in Int, n \in Int : m = b + 1 /\ n = b + R
      BY <2>1, <2>2
    <3>a. \A i \in m..n : s[i] \in X
      BY <3>2, <3>3
    <3>b. /\ SubSeq(s, m, n) \in Seq(X)
          /\ Len(SubSeq(s, m, n)) = IF m <= n THEN n - m + 1 ELSE 0
          /\ \A i \in 1 .. n - m + 1 : SubSeq(s, m, n)[i] = s[m + i - 1]
      BY <3>a, SubSeqProperties
    <3>c. ring = SubSeq(s, m, n)
      BY <3>1, <3>3
    <3>4. n - m + 1 = R /\ m <= n /\ \A i \in 1..R : m + i - 1 = b + i
      BY <2>1, <2>2, <3>3
    <3> QED
      BY <3>4, <3>b, <3>c
  <2>5. u \in Seq(X) /\ Len(u) = R + 1 /\ u[R + 1] = e /\ \A i \in 1..R : u[i] = s[b + i]
    BY <2>4, AppendProperties
  <2> HIDE DEF u
  <2>6. u # <<>>
    BY <2>2, <2>5, EmptySeq
  <2>7. Tail(u) \in Seq(X) /\ Len(Tail(u)) = R /\ \A i \in 1..R : Tail(u)[i] = u[i + 1]
    <3>1. /\ Tail(u) \in Seq(X) /\ Len(Tail(u)) = Len(u) - 1
          /\ \A i \in 1 .. Len(Tail(u)) : Tail(u)[i] = u[i + 1]
      BY <2>5, <2>6, HeadTailProperties
    <3>2. Len(u) - 1 = R
      BY <2>2, <2>5
    <3> QED
      BY <3>1, <3>2
  <2> DEFINE w == SubSeq(t, b + 2, b + R + 1)
  <2>8. w \in Seq(X) /\ Len(w) = R /\ \A i \in 1..R : w[i] = t[b + 1 + i]
    <3>2. \A i \in b + 2 .. b + R + 1 : t[i] \in X
      <4>1. \A i \in b + 2 .. b + R + 1 : i \in 1..Len(t)
        BY <2>1, <2>2, <2>3
      <4> QED
        BY <1>1, <4>1, ElementOfSeq
    <3>3. PICK m \in Int, n \in Int : m = b + 2 /\ n = b + R + 1
      BY <2>1, <2>2
    <3>a. w = SubSeq(t, m, n) /\ \A i \in m..n : t[i] \in X
      BY <3>2, <3>3 DEF w
    <3>b. /\ w \in Seq(X) /\ Len(w) = IF m <= n THEN n - m + 1 ELSE 0
          /\ \A i \in 1 .. n - m + 1 : w[i] = t[m + i - 1]
      <4> HIDE DEF w
      <4> QED
        BY <3>a, SubSeqProperties
    <3>4. n - m + 1 = R /\ m <= n /\ \A i \in 1..R : m + i - 1 = b + 1 + i
      BY <2>1, <2>2, <3>3
    <3> QED
      BY <3>4, <3>b
  <2> HIDE DEF w
  <2>9. ASSUME NEW i \in 1..R PROVE Tail(u)[i] = w[i]
    <3>1. CASE i < R
      <4>1. i + 1 \in 1..R /\ b + 1 + i \in 1..Len(s) /\ b + (i + 1) = b + 1 + i
        BY <2>1, <2>2, <3>1
      <4> QED
        BY <1>1, <2>5, <2>7, <2>8, <4>1
    <3>2. CASE ~(i < R)
      <4>1. i = R /\ b + 1 + i = Len(s) + 1
        BY <2>1, <2>2, <3>2
      <4> QED
        BY <1>1, <2>5, <2>7, <2>8, <4>1
    <3> QED
      BY <3>1, <3>2
  <2>10. Tail(u) = w
    BY <2>7, <2>8, <2>9, SeqEqual
  <2> QED
    BY <2>3, <2>5, <2>10 DEF w
<1> QED
  BY <1>0, <1>4 DEF t, u

\* What is in the ring was logged.
LEMMA PictureRing == ASSUME Picture!ConstantsOK, PictureInv PROVE coRing \in Seq(1..MaxEvents)
<1>c. MaxEvents \in Nat /\ RingSize \in Nat \ {0}
  BY PictureConstants
<1> DEFINE f == IF Len(coLogged) > RingSize THEN Len(coLogged) - RingSize + 1 ELSE 1
<1>1. coLogged \in Seq(1..MaxEvents) /\ Len(coLogged) \in Nat
  BY LenProperties DEF PictureInv, PictureTypes
<1>2. f \in Int /\ \A i \in f..Len(coLogged) : i \in 1..Len(coLogged)
  BY <1>c, <1>1
<1> HIDE DEF f
<1>3. \A i \in f..Len(coLogged) : coLogged[i] \in 1..MaxEvents
  BY <1>1, <1>2, ElementOfSeq
<1>4. SubSeq(coLogged, f, Len(coLogged)) \in Seq(1..MaxEvents)
  BY <1>1, <1>2, <1>3, SubSeqProperties
<1> QED
  BY <1>4 DEF PictureInv, Picture!RingIsTail, f

LEMMA PictureLogKeeps == ASSUME Picture!ConstantsOK, PictureInv, Picture!Log PROVE PictureInv'
<1>1. PICK e : e = Len(coLogged) + 1
  OBVIOUS
<1>c. RingSize \in Nat \ {0} /\ MaxEvents \in Nat
  BY PictureConstants
<1>t. PictureTypes
  BY DEF PictureInv
<1>2. /\ UNCHANGED <<coNow, coEntries, coCount, coHeard, coNew>>
      /\ Len(coLogged) < MaxEvents
      /\ coRing' = Picture!Bounded(Append(coRing, e)) /\ coLogged' = Append(coLogged, e)
  BY <1>1 DEF Picture!Log
<1>3. coLogged \in Seq(1..MaxEvents) /\ Len(coLogged) \in Nat
  BY <1>t, LenProperties DEF PictureTypes
<1>4. e \in 1..MaxEvents
  BY <1>1, <1>2, <1>3, <1>c
<1>5. coLogged' \in Seq(1..MaxEvents) /\ Len(coLogged') <= MaxEvents
  <2>1. coLogged' \in Seq(1..MaxEvents) /\ Len(coLogged') = Len(coLogged) + 1
    BY <1>2, <1>3, <1>4, AppendProperties
  <2> QED
    BY <1>2, <1>3, <1>c, <2>1
<1>6. Picture!RingIsTail'
  <2>1. coRing = SubSeq(coLogged,
                        IF Len(coLogged) > RingSize THEN Len(coLogged) - RingSize + 1 ELSE 1,
                        Len(coLogged))
    BY DEF PictureInv, Picture!RingIsTail
  <2>2. PICK s \in Seq(1..MaxEvents) : s = coLogged
    BY <1>3
  <2>3. SubSeq(s, 1, Len(s)) = s
    BY SubSeqFull
  <2>4. PICK r : r = coRing
    OBVIOUS
  <2>5. Len(s) \in Nat /\ Len(s) + 1 \in Nat
    BY <1>3, <2>2
  <2>6. /\ Len(s) > RingSize => r = SubSeq(s, Len(s) - RingSize + 1, Len(s))
        /\ ~(Len(s) > RingSize) => r = s
    BY <2>1, <2>2, <2>3, <2>4
  <2>7. Len(s) < RingSize => r = s
    BY <1>c, <2>5, <2>6
  <2>8. Len(s) >= RingSize => r = SubSeq(s, Len(s) - RingSize + 1, Len(s))
    <3>1. CASE Len(s) > RingSize
      BY <2>6, <3>1
    <3>2. CASE Len(s) = RingSize
      <4>1. Len(s) - RingSize + 1 = 1 /\ ~(Len(s) > RingSize)
        BY <1>c, <2>5, <3>2
      <4> QED
        BY <2>3, <2>6, <4>1
    <3> QED
      BY <1>c, <2>5, <3>1, <3>2
  <2>9. r \in Seq(1..MaxEvents)
    BY <2>4, PictureRing
  <2>10. Append(s, e) \in Seq(1..MaxEvents) /\ Len(Append(s, e)) = Len(s) + 1
    BY <1>4, AppendProperties
  <2>11. PICK t \in Seq(1..MaxEvents) : t = Append(s, e)
    BY <2>10
  <2>12. /\ coLogged' = t
         /\ coRing' = IF Len(Append(r, e)) > RingSize THEN Tail(Append(r, e)) ELSE Append(r, e)
    BY <1>2, <2>2, <2>4, <2>11 DEF Picture!Bounded
  <2>13. CASE Len(s) < RingSize
    <3>1. Len(t) <= RingSize /\ ~(Len(t) > RingSize)
      BY <1>c, <2>5, <2>10, <2>11, <2>13
    <3>2. coRing' = t
      BY <2>7, <2>11, <2>12, <2>13, <3>1
    <3>3. SubSeq(t, 1, Len(t)) = t
      BY SubSeqFull
    <3> QED
      BY <2>12, <3>1, <3>2, <3>3 DEF Picture!RingIsTail
  <2>14. CASE Len(s) >= RingSize
    <3>1. /\ Len(t) = Len(s) + 1 /\ Len(t) > RingSize
          /\ Len(t) - RingSize + 1 = Len(s) - RingSize + 2 /\ RingSize + 1 > RingSize
      BY <1>c, <2>5, <2>10, <2>11, <2>14
    <3>4. PICK R \in Nat \ {0} : R = RingSize
      BY <1>c
    <3>5. Len(s) >= R /\ r = SubSeq(s, Len(s) - R + 1, Len(s))
      BY <2>8, <2>14, <3>4
    <3>6. /\ Len(Append(SubSeq(s, Len(s) - R + 1, Len(s)), e)) = R + 1
          /\ Tail(Append(SubSeq(s, Len(s) - R + 1, Len(s)), e))
                = SubSeq(Append(s, e), Len(s) - R + 2, Len(s) + 1)
      BY <1>4, <3>5, RingAppend
    <3>2. coRing' = Tail(Append(r, e))
      BY <2>12, <3>1, <3>4, <3>5, <3>6
    <3>3. coRing' = SubSeq(t, Len(t) - RingSize + 1, Len(t))
      BY <2>11, <3>1, <3>2, <3>4, <3>5, <3>6
    <3> QED
      BY <2>12, <3>1, <3>3 DEF Picture!RingIsTail
  <2> QED
    BY <1>c, <2>5, <2>13, <2>14
<1>7. \A k \in Picture!Kinds : Shown(coEntries[k], coHeard[k], k)'
  <2> TAKE k \in Picture!Kinds
  <2>1. PICK E : E = coEntries[k]
    OBVIOUS
  <2>2. PICK H : H = coHeard[k]
    OBVIOUS
  <2>3. Shown(E, H, k)
    BY <2>1, <2>2 DEF PictureInv
  <2>4. Shown(E, H, k)'
    BY <1>2, <2>3, SameTimeShows
  <2>5. E = coEntries'[k] /\ H = coHeard'[k]
    BY <1>2, <2>1, <2>2
  <2> QED
    BY <2>4, <2>5
<1>8. PictureTypes'
  BY <1>2, <1>5, <1>t DEF PictureTypes
<1>9. Picture!EntriesAccounted'
  BY <1>2 DEF PictureInv, Picture!EntriesAccounted
<1> QED
  BY <1>6, <1>7, <1>8, <1>9 DEF PictureInv

LEMMA PictureReadKeeps ==
  ASSUME Picture!ConstantsOK, PictureInv, NEW K, Picture!Read(K)
  PROVE  PictureInv'
<1>t. PictureTypes
  BY DEF PictureInv
<1>n. coNow \in Nat
  <2>1. MaxClock \in Nat
    BY PictureConstants
  <2> QED
    BY <1>t, <2>1 DEF PictureTypes
<1>1. /\ UNCHANGED <<coNow, coRing, coHeard, coNew, coLogged>>
      /\ coEntries' = [k \in Picture!Kinds |->
                           IF k \in K THEN Picture!Fresh(coEntries[k], k) ELSE coEntries[k]]
      /\ coCount' = [c \in Picture!Counters |->
                         IF c[2] = "expired"
                         THEN coCount[c] + Len(coEntries[c[1]]) - Len(coEntries'[c[1]])
                         ELSE coCount[c]]
  BY DEF Picture!Read
<1>2. ASSUME NEW k \in Picture!Kinds
      PROVE  /\ Shown(coEntries'[k], coHeard[k], k)
             /\ Len(coEntries[k]) \in Nat /\ Len(coEntries'[k]) \in Nat
             /\ Len(coEntries'[k]) <= Len(coEntries[k])
  <2>0. Cap[k] \in Nat /\ StaleAfter[k] \in Nat
    BY PictureConstants
  <2>1. PICK E : E = coEntries[k]
    OBVIOUS
  <2>2. PICK H : H = coHeard[k]
    OBVIOUS
  <2>3. Shown(E, H, k)
    BY <2>1, <2>2 DEF PictureInv
  <2>4. /\ Shown(Picture!Fresh(E, k), H, k)
        /\ Len(E) \in Nat /\ Len(Picture!Fresh(E, k)) \in Nat /\ Len(Picture!Fresh(E, k)) <= Len(E)
    BY <1>n, <2>0, <2>3, SweepShows
  <2>5. coEntries'[k] = IF k \in K THEN Picture!Fresh(E, k) ELSE E
    BY <1>1, <2>1
  <2>6. CASE k \in K
    BY <2>1, <2>2, <2>4, <2>5, <2>6
  <2>7. CASE k \notin K
    <3>1. coEntries'[k] = E /\ Len(E) <= Len(E)
      BY <2>4, <2>5, <2>7
    <3> QED
      BY <2>1, <2>2, <2>3, <2>4, <3>1
  <2> QED
    BY <2>6, <2>7
<1>3. \A k \in Picture!Kinds : Shown(coEntries[k], coHeard[k], k)'
  <2> TAKE k \in Picture!Kinds
  <2>1. PICK E : E = coEntries'[k]
    OBVIOUS
  <2>2. PICK H : H = coHeard[k]
    OBVIOUS
  <2>3. Shown(E, H, k)
    BY <1>2, <2>1, <2>2
  <2>4. Shown(E, H, k)'
    BY <1>1, <2>3, SameTimeShows
  <2>5. H = coHeard'[k]
    BY <1>1, <2>2
  <2> QED
    BY <2>1, <2>4, <2>5
\* What left is what the counter gained.
<1>4. ASSUME NEW k \in Picture!Kinds
      PROVE  /\ <<k, "evicted">> \in Picture!Counters /\ <<k, "expired">> \in Picture!Counters
             /\ coCount'[<<k, "evicted">>] = coCount[<<k, "evicted">>]
             /\ coCount'[<<k, "expired">>]
                   = coCount[<<k, "expired">>] + Len(coEntries[k]) - Len(coEntries'[k])
  <2>1. <<k, "evicted">> \in Picture!Counters /\ <<k, "expired">> \in Picture!Counters
    BY DEF Picture!Counters
  <2>2. /\ <<k, "evicted">>[2] # "expired"
        /\ <<k, "expired">>[2] = "expired" /\ <<k, "expired">>[1] = k
    OBVIOUS
  <2> QED
    BY <1>1, <2>1, <2>2
<1>5. coCount' \in [Picture!Counters -> Nat]
  <2>1. \A c \in Picture!Counters :
            c[1] \in Picture!Kinds /\ coCount[c] \in Nat /\ (c[2] = "evicted" \/ c[2] = "expired")
    BY <1>t DEF PictureTypes, Picture!Counters
  <2>2. ASSUME NEW c \in Picture!Counters PROVE coCount'[c] \in Nat
    <3>1. CASE c[2] = "expired"
      <4>1. coCount'[c] = coCount[c] + Len(coEntries[c[1]]) - Len(coEntries'[c[1]])
        BY <1>1, <3>1
      <4>2. /\ Len(coEntries[c[1]]) \in Nat /\ Len(coEntries'[c[1]]) \in Nat
            /\ Len(coEntries'[c[1]]) <= Len(coEntries[c[1]])
        BY <1>2, <2>1
      <4>3. PICK n \in Nat : n = coCount[c]
        BY <2>1
      <4>4. PICK l \in Nat : l = Len(coEntries[c[1]])
        BY <4>2
      <4>5. PICK m \in Nat : m = Len(coEntries'[c[1]])
        BY <4>2
      <4>6. coCount'[c] = n + l - m /\ m <= l
        BY <4>1, <4>2, <4>3, <4>4, <4>5
      <4>7. n + l - m \in Nat
        BY <4>6
      <4> QED
        BY <4>6, <4>7
    <3>2. CASE c[2] # "expired"
      BY <1>1, <2>1, <3>2
    <3> QED
      BY <3>1, <3>2
  <2>3. DOMAIN coCount' = Picture!Counters /\ coCount' = [c \in Picture!Counters |-> coCount'[c]]
    BY <1>1
  <2> QED
    BY <2>2, <2>3
<1>6. PictureTypes'
  <2>1. coEntries' \in [Picture!Kinds -> Seq(Entry)]
    <3>1. \A k \in Picture!Kinds : coEntries'[k] \in Seq(Entry)
      BY <1>2 DEF Shown
    <3>2. coEntries' = [k \in Picture!Kinds |-> coEntries'[k]]
      BY <1>1
    <3> QED
      BY <3>1, <3>2
  <2> QED
    BY <1>1, <1>5, <1>t, <2>1 DEF PictureTypes
<1>7. Picture!EntriesAccounted'
  <2> SUFFICES ASSUME NEW k \in Picture!Kinds
               PROVE  coNew'[k] = Len(coEntries'[k]) + coCount'[<<k, "evicted">>]
                                     + coCount'[<<k, "expired">>]
    BY DEF Picture!EntriesAccounted
  <2>1. coNew[k] = Len(coEntries[k]) + coCount[<<k, "evicted">>] + coCount[<<k, "expired">>]
    BY DEF PictureInv, Picture!EntriesAccounted
  <2>2. PICK v \in Nat : v = coCount[<<k, "evicted">>]
    BY <1>4, <1>t DEF PictureTypes
  <2>3. PICK x \in Nat : x = coCount[<<k, "expired">>]
    BY <1>4, <1>t DEF PictureTypes
  <2>4. PICK a \in Nat : a = Len(coEntries[k])
    BY <1>2
  <2>5. PICK b \in Nat : b = Len(coEntries'[k])
    BY <1>2
  <2>6. coNew'[k] = a + v + x
    BY <1>1, <2>1, <2>2, <2>3, <2>4
  <2>7. coCount'[<<k, "evicted">>] = v /\ coCount'[<<k, "expired">>] = x + a - b
    BY <1>4, <2>2, <2>3, <2>4, <2>5
  <2>8. a + v + x = b + v + (x + a - b)
    OBVIOUS
  <2> QED
    BY <2>5, <2>6, <2>7, <2>8
<1>8. Picture!RingIsTail'
  BY <1>1 DEF PictureInv, Picture!RingIsTail
<1> QED
  BY <1>3, <1>6, <1>7, <1>8 DEF PictureInv

LEMMA PictureInitInv == ASSUME Picture!ConstantsOK, Picture!Init PROVE PictureInv
<1>c. /\ MaxClock \in Nat /\ MaxEvents \in Nat /\ RingSize \in Nat \ {0}
      /\ \A k \in Picture!Kinds : Cap[k] \in Nat \ {0}
  BY PictureConstants
<1>1. Len(<<>>) = 0 /\ \A X : <<>> \in Seq(X)
  BY EmptySeq
<1>2. ASSUME NEW k \in Picture!Kinds PROVE Shown(<<>>, <<>>, k)
  <2>1. Picture!LastHeard(<<>>) = {}
    BY <1>1 DEF Picture!LastHeard
  <2> DEFINE p == [i \in 1..Len(<<>>) |-> i]
  <2>2. 1..Len(<<>>) = {}
    BY <1>1
  <2>3. p \in [1..Len(<<>>) -> Picture!LastHeard(<<>>)]
    BY <2>2
  <2>4. Placed(<<>>, <<>>, p) /\ Missing(<<>>, <<>>, k, p) /\ InOrder(<<>>)
    BY <2>1, <2>2, <2>3 DEF Placed, Missing, InOrder
  <2>5. Len(<<>>) <= Cap[k]
    BY <1>1, <1>c
  <2> HIDE DEF p
  <2> QED
    BY <1>1, <2>3, <2>4, <2>5 DEF Shown
<1>3. \A k \in Picture!Kinds : coEntries[k] = <<>> /\ coHeard[k] = <<>>
  BY DEF Picture!Init
<1>4. PictureTypes
  BY <1>1, <1>c DEF Picture!Init, PictureTypes
<1>5. Picture!EntriesAccounted
  <2> SUFFICES ASSUME NEW k \in Picture!Kinds
               PROVE  coNew[k] = Len(coEntries[k]) + coCount[<<k, "evicted">>]
                                    + coCount[<<k, "expired">>]
    BY DEF Picture!EntriesAccounted
  <2>1. <<k, "evicted">> \in Picture!Counters /\ <<k, "expired">> \in Picture!Counters
    BY DEF Picture!Counters
  <2> QED
    BY <1>1, <1>3, <2>1 DEF Picture!Init
<1>6. Picture!RingIsTail
  <2>1. ~(Len(<<>>) > RingSize)
    BY <1>1, <1>c
  <2>2. SubSeq(<<>>, 1, 0) = <<>>
    BY SubSeqEmpty
  <2> QED
    BY <1>1, <2>1, <2>2 DEF Picture!Init, Picture!RingIsTail
<1> QED
  BY <1>2, <1>3, <1>4, <1>5, <1>6 DEF PictureInv

LEMMA PictureInvariant ==
  ASSUME Picture!ConstantsOK
  PROVE  Picture!Init /\ [][Picture!Next]_Picture!vars => []PictureInv
<1>1. Picture!Init => PictureInv
  BY PictureInitInv
<1>2. PictureInv /\ [Picture!Next]_Picture!vars => PictureInv'
  <2> SUFFICES ASSUME PictureInv, [Picture!Next]_Picture!vars PROVE PictureInv'
    OBVIOUS
  <2>1. CASE UNCHANGED Picture!vars
    <3>1. UNCHANGED <<coNow, coEntries, coCount, coRing, coHeard, coNew, coLogged>>
      BY <2>1 DEF Picture!vars
    <3>2. \A k \in Picture!Kinds : Shown(coEntries[k], coHeard[k], k)'
      <4> TAKE k \in Picture!Kinds
      <4>1. PICK E : E = coEntries[k]
        OBVIOUS
      <4>2. PICK H : H = coHeard[k]
        OBVIOUS
      <4>3. Shown(E, H, k)
        BY <4>1, <4>2 DEF PictureInv
      <4>4. Shown(E, H, k)'
        BY <3>1, <4>3, SameTimeShows
      <4>5. E = coEntries'[k] /\ H = coHeard'[k]
        BY <3>1, <4>1, <4>2
      <4> QED
        BY <4>4, <4>5
    <3> QED
      BY <3>1, <3>2 DEF PictureInv, PictureTypes, Picture!EntriesAccounted, Picture!RingIsTail
  <2> QED
    BY <2>1, PictureTickKeeps, PictureUpsertKeeps, PictureLogKeeps, PictureReadKeeps
    DEF Picture!Next
<1> QED
  BY <1>1, <1>2, PTL

LEMMA PictureServed == ASSUME Picture!ConstantsOK, PictureInv PROVE PictureCurrent
<1>1. ASSUME NEW k \in Picture!Kinds
      PROVE  Picture!Fresh(coEntries[k], k)
                = Picture!At(coHeard[k], {i \in Picture!Newest(coHeard[k], k) :
                                              Picture!IsFresh(coHeard[k][i], k)})
  <2>1. Cap[k] \in Nat /\ Shown(coEntries[k], coHeard[k], k)
    BY PictureConstants DEF PictureInv
  <2> QED
    BY <2>1, ShownFresh
<1>2. Picture!PictureCurrent
  BY <1>1 DEF Picture!PictureCurrent
<1> QED
  BY <1>2 DEF PictureInv, PictureCurrent

\* Whatever is heard, evicted, expired and heard again, and however rarely the page polls, the
\* console serves just the last sources heard that are not stale, each once and as it was last
\* heard; its counters account for every entry that left, and the ring has the log's tail.
THEOREM PictureCurrentTheorem == ASSUME Picture!ConstantsOK PROVE Picture!Spec => []PictureCurrent
<1>1. PictureInv => PictureCurrent
  BY PictureServed
<1> QED
  BY <1>1, PictureInvariant, PTL DEF Picture!Spec

LEMMA PictureTyped == ASSUME Picture!ConstantsOK, PictureInv PROVE Picture!TypeOK
<1>1. coEntries \in [Picture!Kinds -> Seq([key : Keys, seen : 0..MaxClock])]
  BY DEF PictureInv, PictureTypes, Entry
<1>2. coRing \in Seq(1..MaxEvents)
  BY PictureRing
<1> QED
  BY <1>1, <1>2 DEF PictureInv, PictureTypes, Picture!TypeOK
=============================================================================
