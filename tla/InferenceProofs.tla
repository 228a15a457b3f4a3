--------------------------- MODULE InferenceProofs ---------------------------
(***************************************************************************)
(* Proofs about Inference: for any number of messages, permits, retries    *)
(* and any length of the offline queue, requests leave the spacing gate    *)
(* min_interval_s apart, the replay is FIFO, no insight goes out twice,    *)
(* and the offline queue accounts for every message it loses.              *)
(***************************************************************************)
EXTENDS Inference, SequenceTheorems, FiniteSetTheorems, TLAPS

Active == {"space", "sleep", "permit", "call", "backoff", "publish", "lock"}

\* States before an insight of the item is published.
Waiting == {"none", "ignored", "shed", "space", "sleep", "permit", "call", "backoff"}

\* Message a failed before b did.
Before(a, b) ==
    \E i, j \in 1..Len(entered) : i < j /\ entered[i] = a /\ entered[j] = b

\* A task at work is one that stop() would cancel.
TaskInv == \A m \in Msgs : task[m] \in Active => m \in bg

\* Whoever sleeps in the gate holds its lock, and wakes when the interval has passed.
GateInv == \A m \in Msgs : task[m] = "sleep" => spacer = m /\ left[m] + since >= MinInterval

\* Whoever backs off has a retry left.
RetryInv == \A m \in Msgs : task[m] = "backoff" => attempt[m] < MaxRetries

\* A replay is made under the drain lock, hence by one task at a time.
ReplayInv ==
    \A m \in Msgs : Replaying(m) => drainer = m /\ task[m] \in Active \ {"lock"}

\* A message is queued first when its own task ends, hence once; what is queued or replayed
\* was.
EnteredInv ==
    /\ \A i, j \in 1..Len(entered) : entered[i] = entered[j] => i = j
    /\ \A i \in 1..Len(entered) : task[entered[i]] = "done" /\ OfflineMax > 0
    /\ \A i \in 1..Len(queue) : \E k \in 1..Len(entered) : entered[k] = queue[i]
    /\ \A m \in Msgs : Replaying(m) => \E k \in 1..Len(entered) : entered[k] = item[m]

\* The queue is in the order of the first failures, and what is replayed is older.
OrderInv ==
    /\ \A i, j \in 1..Len(queue) : i < j => Before(queue[i], queue[j])
    /\ \A m \in Msgs : Replaying(m) => \A i \in 1..Len(queue) : Before(item[m], queue[i])

\* What is queued or on its way to the API has no insight yet.
PublishInv ==
    /\ \A m \in Msgs : published[m] \in {0, 1}
    /\ \A i \in 1..Len(queue) : published[queue[i]] = 0
    /\ \A m \in Msgs : task[m] \in Waiting => published[item[m]] = 0

HistoryInv == ReplayInv /\ EnteredInv /\ OrderInv /\ PublishInv

\* The inductive invariant.
IInv == TypeOK /\ TaskInv /\ GateInv /\ RetryInv /\ HistoryInv

-----------------------------------------------------------------------------
(* The queue *)

\* Nothing comes before itself.
LEMMA BeforeIrreflexive ==
  ASSUME EnteredInv, NEW a, Before(a, a)
  PROVE  FALSE
  BY DEF EnteredInv, Before

\* What put leaves of the queue, and what it adds.
LEMMA PutBackFacts ==
  ASSUME TypeOK, NEW x \in Msgs, OfflineMax > 0, Put(x, FALSE)
  PROVE  /\ queue' \in Seq(Msgs) /\ Len(queue') <= OfflineMax /\ dropped' \in Nat
         /\ \E d \in 0..1 :
                /\ d = IF Len(queue) = OfflineMax THEN 1 ELSE 0
                /\ dropped' = dropped + d
                /\ Len(queue') = Len(queue) - d + 1
                /\ \A i \in 1..Len(queue) - d : queue'[i] = queue[i + d]
                /\ queue'[Len(queue')] = x
<1>1. queue \in Seq(Msgs) /\ Len(queue) \in Nat /\ Len(queue) <= OfflineMax /\ OfflineMax \in Nat
      /\ dropped \in Nat
  BY LenProperties, InferenceAssumption DEF TypeOK
<1>2. dropped' \in Nat /\ dropped' = dropped + (IF Len(queue) = OfflineMax THEN 1 ELSE 0)
  BY <1>1 DEF Put
<1>3. CASE Len(queue) < OfflineMax
  <2>1. queue' = Append(queue, x)
    BY <1>3 DEF Put, Kept
  <2>2. /\ queue' \in Seq(Msgs) /\ Len(queue') = Len(queue) + 1
        /\ \A i \in 1..Len(queue) : queue'[i] = queue[i]
        /\ queue'[Len(queue) + 1] = x
    BY <1>1, <2>1, AppendProperties
  <2>3. /\ Len(queue') = Len(queue) - 0 + 1
        /\ \A i \in 1..Len(queue) - 0 : queue'[i] = queue[i + 0]
        /\ queue'[Len(queue')] = x
    BY <1>1, <2>2
  <2> QED
    BY <1>1, <1>2, <1>3, <2>2, <2>3
<1>4. CASE Len(queue) = OfflineMax
  <2>1. queue' = Append(Tail(queue), x) /\ queue # <<>>
    BY <1>1, <1>4, EmptySeq DEF Put, Kept
  <2>2. /\ Tail(queue) \in Seq(Msgs) /\ Len(Tail(queue)) = Len(queue) - 1
        /\ \A i \in 1..Len(Tail(queue)) : Tail(queue)[i] = queue[i + 1]
    BY <1>1, <2>1, HeadTailProperties
  <2> DEFINE tail == Tail(queue)
  <2> HIDE DEF tail
  <2>3. /\ tail \in Seq(Msgs) /\ Len(tail) = Len(queue) - 1 /\ queue' = Append(tail, x)
        /\ \A i \in 1..Len(tail) : tail[i] = queue[i + 1]
    BY <2>1, <2>2 DEF tail
  <2>4. /\ queue' \in Seq(Msgs) /\ Len(queue') = Len(tail) + 1
        /\ \A i \in 1..Len(tail) : queue'[i] = tail[i]
        /\ queue'[Len(tail) + 1] = x
    BY <2>3, AppendProperties
  <2>5. /\ Len(queue') = Len(queue) - 1 + 1
        /\ \A i \in 1..Len(queue) - 1 : queue'[i] = queue[i + 1]
        /\ queue'[Len(queue')] = x
    BY <1>1, <2>3, <2>4
  <2> QED
    BY <1>1, <1>2, <1>4, <2>4, <2>5
<1> QED
  BY <1>1, <1>3, <1>4

LEMMA PutFrontFacts ==
  ASSUME TypeOK, NEW x \in Msgs, OfflineMax > 0, Put(x, TRUE)
  PROVE  /\ queue' \in Seq(Msgs) /\ Len(queue') <= OfflineMax /\ dropped' \in Nat
         /\ Len(queue') = Len(queue) + (IF Len(queue) = OfflineMax THEN 0 ELSE 1)
         /\ dropped' = dropped + (IF Len(queue) = OfflineMax THEN 1 ELSE 0)
         /\ \A i \in 1..Len(queue') : queue'[i] = IF i = 1 THEN x ELSE queue[i - 1]
<1>1. queue \in Seq(Msgs) /\ Len(queue) \in Nat /\ Len(queue) <= OfflineMax /\ OfflineMax \in Nat
      /\ dropped \in Nat
  BY LenProperties, InferenceAssumption DEF TypeOK
<1> DEFINE kept == Kept(TRUE)
<1>2. /\ queue' = <<x>> \o kept /\ dropped' \in Nat
      /\ dropped' = dropped + (IF Len(queue) = OfflineMax THEN 1 ELSE 0)
  BY <1>1 DEF Put
<1>3. /\ kept \in Seq(Msgs) /\ Len(kept) <= Len(queue) /\ Len(kept) + 1 <= OfflineMax
      /\ Len(kept) = Len(queue) - (IF Len(queue) = OfflineMax THEN 1 ELSE 0)
      /\ \A i \in 1..Len(kept) : kept[i] = queue[i]
  <2>1. CASE Len(queue) < OfflineMax
    <3>1. kept = queue
      BY <2>1 DEF Kept
    <3> HIDE DEF kept
    <3> QED
      BY <1>1, <2>1, <3>1
  <2>2. CASE Len(queue) = OfflineMax
    <3>1. \A i \in 1..OfflineMax - 1 : queue[i] \in Msgs
      BY <1>1, <2>2, ElementOfSeq
    <3>2. kept = SubSeq(queue, 1, OfflineMax - 1)
      BY <1>1, <2>2 DEF Kept
    <3> HIDE DEF kept
    <3>3. 1 \in Int /\ OfflineMax - 1 \in Int
      BY <1>1
    <3>4. /\ kept \in Seq(Msgs)
          /\ Len(kept) = IF 1 <= OfflineMax - 1 THEN OfflineMax - 1 - 1 + 1 ELSE 0
          /\ \A i \in 1..OfflineMax - 1 - 1 + 1 : kept[i] = queue[1 + i - 1]
      BY <3>1, <3>2, <3>3, SubSeqProperties
    <3>5. Len(kept) = OfflineMax - 1
      BY <1>1, <3>4
    <3>6. \A i \in 1..Len(kept) : kept[i] = queue[i]
      BY <1>1, <3>4, <3>5
    <3> QED
      BY <1>1, <2>2, <3>4, <3>5, <3>6
  <2> HIDE DEF kept
  <2> QED
    BY <1>1, <2>1, <2>2
<1> HIDE DEF kept
<1>4. <<x>> \in Seq(Msgs) /\ Len(<<x>>) = 1 /\ <<x>>[1] = x
  OBVIOUS
<1>5. /\ <<x>> \o kept \in Seq(Msgs)
      /\ Len(<<x>> \o kept) = 1 + Len(kept)
      /\ \A i \in 1..1 + Len(kept) : (<<x>> \o kept)[i] = IF i <= 1 THEN x ELSE kept[i - 1]
  BY <1>3, <1>4, ConcatProperties
<1>6. Len(kept) \in Nat
  BY <1>3, LenProperties
<1>7. Len(queue') = 1 + Len(kept) /\ queue' \in Seq(Msgs)
  BY <1>2, <1>5
<1>8. \A i \in 1..Len(queue') : queue'[i] = IF i = 1 THEN x ELSE queue[i - 1]
  BY <1>2, <1>3, <1>5, <1>6, <1>7
<1> QED
  BY <1>1, <1>2, <1>3, <1>6, <1>7, <1>8

\* The oldest message is popped.
LEMMA PopFacts ==
  ASSUME TypeOK, queue # <<>>, queue' = Tail(queue)
  PROVE  /\ queue' \in Seq(Msgs) /\ Len(queue') = Len(queue) - 1 /\ Len(queue') <= OfflineMax
         /\ Head(queue) \in Msgs /\ Head(queue) = queue[1] /\ Len(queue) >= 1
         /\ \A i \in 1..Len(queue') : queue'[i] = queue[i + 1]
<1>1. queue \in Seq(Msgs) /\ Len(queue) \in Nat /\ Len(queue) <= OfflineMax /\ OfflineMax \in Nat
  BY LenProperties, InferenceAssumption DEF TypeOK
<1>2. /\ Head(queue) \in Msgs /\ Tail(queue) \in Seq(Msgs) /\ Len(Tail(queue)) = Len(queue) - 1
      /\ \A i \in 1..Len(Tail(queue)) : Tail(queue)[i] = queue[i + 1]
  BY <1>1, HeadTailProperties
<1>3. Len(queue) # 0
  BY <1>1, EmptySeq
<1> QED
  BY <1>1, <1>2, <1>3

-----------------------------------------------------------------------------
(* The history part of the invariant, by what a step does to a task *)

\* A message that was queued is one whose own task has ended.
LEMMA EndedIfEntered ==
  ASSUME IInv, NEW m \in Msgs, task[m] # "done"
  PROVE  /\ \A k \in 1..Len(entered) : entered[k] # m
         /\ \A i \in 1..Len(queue) : queue[i] # m
         /\ \A k \in Msgs : Replaying(k) => item[k] # m
  BY DEF IInv, HistoryInv, EnteredInv

\* A task moves on, and neither takes up nor gives up an item.
LEMMA MoveKeeps ==
  ASSUME IInv, NEW m \in Msgs, NEW s, task' = [task EXCEPT ![m] = s],
         UNCHANGED <<item, queue, drainer, entered, published>>,
         task[m] # "done", s \in Waiting => task[m] \in Waiting,
         Replaying(m) => s \in Active \ {"lock"}
  PROVE  HistoryInv'
<1>1. /\ task \in [Msgs -> Active \cup Waiting \cup {"done"}]
      /\ \A k \in Msgs : task'[k] = IF k = m THEN s ELSE task[k]
  BY DEF IInv, TypeOK, Active, Waiting
<1>2. ReplayInv'
  BY <1>1 DEF IInv, HistoryInv, ReplayInv, Replaying
<1>3. EnteredInv'
  <2>1. \A i \in 1..Len(entered) : entered[i] # m
    BY EndedIfEntered
  <2>2. \A i \in 1..Len(entered) : entered[i] \in Msgs
    BY ElementOfSeq DEF IInv, TypeOK
  <2> QED
    BY <1>1, <2>1, <2>2 DEF IInv, HistoryInv, EnteredInv, Replaying
<1>4. OrderInv'
  BY DEF IInv, HistoryInv, OrderInv, Before, Replaying
<1>5. PublishInv'
  BY <1>1 DEF IInv, HistoryInv, PublishInv
<1> QED
  BY <1>2, <1>3, <1>4, <1>5 DEF HistoryInv

\* A task ends without touching the queue.
LEMMA FinishKeeps ==
  ASSUME IInv, NEW m \in Msgs, task' = [task EXCEPT ![m] = "done"],
         item' = [item EXCEPT ![m] = m], UNCHANGED <<queue, entered, published>>,
         \A k \in Msgs : k # m /\ Replaying(k) => drainer' = drainer
  PROVE  HistoryInv'
<1>1. /\ \A k \in Msgs : task'[k] = IF k = m THEN "done" ELSE task[k]
      /\ \A k \in Msgs : item'[k] = IF k = m THEN m ELSE item[k]
  BY DEF IInv, TypeOK
<1>2. ReplayInv'
  BY <1>1 DEF IInv, HistoryInv, ReplayInv, Replaying
<1>3. EnteredInv'
  <2>1. \A i \in 1..Len(entered) : entered[i] \in Msgs
    BY ElementOfSeq DEF IInv, TypeOK
  <2> QED
    BY <1>1, <2>1 DEF IInv, HistoryInv, EnteredInv, Replaying
<1>4. OrderInv'
  BY <1>1 DEF IInv, HistoryInv, OrderInv, Before, Replaying
<1>5. PublishInv'
  BY <1>1 DEF IInv, HistoryInv, PublishInv, Waiting
<1> QED
  BY <1>2, <1>3, <1>4, <1>5 DEF HistoryInv

\* The head of the drain loop, for the one task that may be in it.
LEMMA DrainLoopKeeps ==
  ASSUME IInv, NEW m \in Msgs, DrainLoop(m), UNCHANGED <<entered, published>>,
         task[m] # "done", \A k \in Msgs : k # m => ~Replaying(k)
  PROVE  HistoryInv'
<1>1. CASE queue = <<>>
  BY <1>1, FinishKeeps DEF DrainLoop, Goto
<1>2. CASE queue # <<>>
  <2>1. /\ task' = [task EXCEPT ![m] = "space"] /\ item' = [item EXCEPT ![m] = Head(queue)]
        /\ drainer' = m /\ queue' = Tail(queue)
    BY <1>2 DEF DrainLoop, Goto
  <2>2. /\ Len(queue') = Len(queue) - 1 /\ Head(queue) \in Msgs /\ Len(queue) \in Nat
        /\ Head(queue) = queue[1] /\ Len(queue) >= 1
        /\ \A i \in 1..Len(queue') : queue'[i] = queue[i + 1]
    BY <1>2, <2>1, PopFacts, LenProperties DEF IInv, TypeOK
  <2>3. /\ \A k \in Msgs : task'[k] = IF k = m THEN "space" ELSE task[k]
        /\ \A k \in Msgs : item'[k] = IF k = m THEN queue[1] ELSE item[k]
    BY <2>1, <2>2 DEF IInv, TypeOK
  <2>4. /\ \A i \in 1..Len(queue') : i + 1 \in 1..Len(queue)
        /\ 1 \in 1..Len(queue)
    BY <2>2
  <2>5. ReplayInv'
    BY <2>1, <2>3 DEF ReplayInv, Replaying, Active
  <2>6. EnteredInv'
    <3>1. \A i \in 1..Len(entered) : entered[i] \in Msgs /\ entered[i] # m
      BY ElementOfSeq, EndedIfEntered DEF IInv, TypeOK
    <3>2. \A i, j \in 1..Len(entered) : entered[i] = entered[j] => i = j
      BY DEF IInv, HistoryInv, EnteredInv
    <3>3. \A i \in 1..Len(entered) : task'[entered[i]] = "done" /\ OfflineMax > 0
      BY <2>3, <3>1 DEF IInv, HistoryInv, EnteredInv
    <3>4. \A i \in 1..Len(queue) : \E k \in 1..Len(entered) : entered[k] = queue[i]
      BY DEF IInv, HistoryInv, EnteredInv
    <3>5. \A i \in 1..Len(queue') : \E k \in 1..Len(entered) : entered[k] = queue'[i]
      BY <2>2, <2>4, <3>4
    <3>6. \A k \in Msgs : item'[k] # k => \E j \in 1..Len(entered) : entered[j] = item'[k]
      BY <2>3, <2>4, <3>4 DEF Replaying
    <3> QED
      BY <3>2, <3>3, <3>5, <3>6 DEF EnteredInv, Replaying
  <2>7. OrderInv'
    <3>1. \A a, b \in Msgs : Before(a, b)' <=> Before(a, b)
      BY DEF Before
    <3>2. \A i \in 1..Len(queue) : queue[i] \in Msgs
      BY ElementOfSeq DEF IInv, TypeOK
    <3>3. \A i, j \in 1..Len(queue') : i < j => Before(queue'[i], queue'[j])
      BY <2>2, <2>4 DEF IInv, HistoryInv, OrderInv
    <3>4. \A i \in 1..Len(queue') : Before(queue[1], queue'[i])
      BY <2>2, <2>4 DEF IInv, HistoryInv, OrderInv
    <3>5. \A i \in 1..Len(queue') : queue'[i] \in Msgs
      BY <2>2, <2>4, <3>2
    <3>6. \A i, j \in 1..Len(queue') : i < j => Before(queue[i], queue[j])'
      BY <3>1, <3>3, <3>5
    <3>7. \A i \in 1..Len(queue') : Before(item[m], queue[i])'
      <4>1. item'[m] = queue[1] /\ queue[1] \in Msgs
        BY <2>3, <2>4, <3>2
      <4> QED
        BY <3>1, <3>4, <3>5, <4>1
    <3>8. \A k \in Msgs : Replaying(k)' => k = m
      BY <2>3 DEF Replaying
    <3> QED
      BY <3>6, <3>7, <3>8 DEF OrderInv
  <2>8. PublishInv'
    BY <2>2, <2>3, <2>4 DEF IInv, HistoryInv, PublishInv
  <2> QED
    BY <2>5, <2>6, <2>7, <2>8 DEF HistoryInv
<1> QED
  BY <1>1, <1>2

\* A message that could not be analysed joins the queue as the youngest.
LEMMA QueuedKeeps ==
  ASSUME IInv, NEW m \in Msgs, task' = [task EXCEPT ![m] = "done"],
         task[m] \in Waiting, ~Replaying(m), OfflineMax > 0, Put(m, FALSE),
         item' = item, drainer' = drainer, published' = published,
         entered' = Append(entered, m)
  PROVE  HistoryInv'
<1>1. /\ \A k \in Msgs : task'[k] = IF k = m THEN "done" ELSE task[k]
      /\ task[m] # "done" /\ published[m] = 0 /\ item[m] = m
  BY DEF IInv, TypeOK, Waiting, HistoryInv, PublishInv, Replaying
<1> DEFINE n == Len(entered)
<1>2. /\ n \in Nat /\ Len(entered') = n + 1 /\ entered'[n + 1] = m
      /\ \A i \in 1..n : entered'[i] = entered[i] /\ entered[i] \in Msgs /\ entered[i] # m
  BY LenProperties, AppendProperties, ElementOfSeq, EndedIfEntered, <1>1 DEF IInv, TypeOK
<1>3. PICK d \in 0..1 :
          /\ Len(queue') = Len(queue) - d + 1
          /\ \A i \in 1..Len(queue) - d : queue'[i] = queue[i + d]
          /\ queue'[Len(queue')] = m
  BY PutBackFacts DEF IInv
<1> DEFINE q == Len(queue)
<1>4. q \in Nat /\ Len(queue') = q - d + 1 /\ queue'[q - d + 1] = m /\ Len(queue') \in Nat
      /\ \A i \in 1..q : queue[i] \in Msgs /\ queue[i] # m
  BY <1>1, <1>3, PutBackFacts, LenProperties, ElementOfSeq, EndedIfEntered DEF IInv, TypeOK
<1>5. \A i \in 1..Len(queue') :
          \/ i = Len(queue') /\ queue'[i] = m
          \/ i \in 1..q - d /\ i + d \in 1..q /\ queue'[i] = queue[i + d]
  BY <1>3, <1>4
<1>6. ReplayInv'
  BY <1>1 DEF IInv, HistoryInv, ReplayInv, Replaying
<1>7. EnteredInv'
  <2>1. \A i, j \in 1..Len(entered') : entered'[i] = entered'[j] => i = j
    BY <1>2 DEF IInv, HistoryInv, EnteredInv
  <2>2. \A i \in 1..Len(entered') : task'[entered'[i]] = "done" /\ OfflineMax > 0
    BY <1>1, <1>2 DEF IInv, HistoryInv, EnteredInv
  <2>3. \A x \in Msgs : (\E k \in 1..n : entered[k] = x) =>
                        (\E k \in 1..Len(entered') : entered'[k] = x)
    BY <1>2
  <2>4. \A i \in 1..q : \E k \in 1..n : entered[k] = queue[i]
    BY DEF IInv, HistoryInv, EnteredInv
  <2>5. \A i \in 1..Len(queue') : \E k \in 1..Len(entered') : entered'[k] = queue'[i]
    <3> SUFFICES ASSUME NEW i \in 1..Len(queue')
                 PROVE  \E k \in 1..Len(entered') : entered'[k] = queue'[i]
      OBVIOUS
    <3>1. CASE queue'[i] = m
      BY <1>2, <3>1
    <3>2. CASE i + d \in 1..q /\ queue'[i] = queue[i + d]
      BY <1>4, <2>3, <2>4, <3>2
    <3> QED
      BY <1>5, <3>1, <3>2
  <2>6. \A k \in Msgs : item[k] # k => \E j \in 1..Len(entered') : entered'[j] = item[k]
    BY <2>3 DEF IInv, TypeOK, HistoryInv, EnteredInv, Replaying
  <2> QED
    BY <2>1, <2>2, <2>5, <2>6 DEF EnteredInv, Replaying
<1>8. OrderInv'
  <2>1. \A a, b \in Msgs : Before(a, b) => Before(a, b)'
    BY <1>2 DEF Before
  <2>2. \A a \in Msgs : (\E k \in 1..n : entered[k] = a) => Before(a, m)'
    <3> SUFFICES ASSUME NEW a \in Msgs, NEW k \in 1..n, entered[k] = a
                 PROVE  \E i, j \in 1..Len(entered') :
                            i < j /\ entered'[i] = a /\ entered'[j] = m
      BY DEF Before
    <3>1. k \in 1..Len(entered') /\ n + 1 \in 1..Len(entered') /\ k < n + 1
      BY <1>2
    <3>2. entered'[k] = a /\ entered'[n + 1] = m
      BY <1>2
    <3> QED
      BY <3>1, <3>2
  <2>3. \A i, j \in 1..Len(queue') : i < j => Before(queue[i], queue[j])'
    <3> SUFFICES ASSUME NEW i \in 1..Len(queue'), NEW j \in 1..Len(queue'), i < j
                 PROVE  Before(queue[i], queue[j])'
      OBVIOUS
    <3>1. i \in 1..q - d /\ i + d \in 1..q /\ queue'[i] = queue[i + d] /\ queue[i + d] \in Msgs
      <4>1. i \in 1..q - d /\ i + d \in 1..q
        BY <1>4
      <4> QED
        BY <1>3, <1>4, <4>1
    <3>2. CASE queue'[j] = m
      <4>1. \E k \in 1..n : entered[k] = queue[i + d]
        BY <3>1 DEF IInv, HistoryInv, EnteredInv
      <4> QED
        BY <2>2, <3>1, <3>2, <4>1
    <3>3. CASE j + d \in 1..q /\ queue'[j] = queue[j + d]
      <4>1. Before(queue[i + d], queue[j + d]) /\ queue[j + d] \in Msgs
        <5>1. i + d < j + d
          OBVIOUS
        <5> QED
          BY <1>4, <3>1, <3>3, <5>1 DEF IInv, HistoryInv, OrderInv
      <4> QED
        BY <2>1, <3>1, <3>3, <4>1
    <3> QED
      BY <1>5, <3>2, <3>3
  <2>4. \A k \in Msgs : Replaying(k) => \A i \in 1..Len(queue') : Before(item[k], queue[i])'
    <3> SUFFICES ASSUME NEW k \in Msgs, Replaying(k), NEW i \in 1..Len(queue')
                 PROVE  Before(item[k], queue[i])'
      OBVIOUS
    <3>1. item[k] \in Msgs /\ \E j \in 1..n : entered[j] = item[k]
      BY DEF IInv, TypeOK, HistoryInv, EnteredInv
    <3>2. CASE queue'[i] = m
      BY <2>2, <3>1, <3>2
    <3>3. CASE i + d \in 1..q /\ queue'[i] = queue[i + d]
      <4>1. Before(item[k], queue[i + d]) /\ queue[i + d] \in Msgs
        BY <1>4, <3>3 DEF IInv, HistoryInv, OrderInv
      <4> QED
        BY <2>1, <3>1, <3>3, <4>1
    <3> QED
      BY <1>5, <3>2, <3>3
  <2>5. \A k \in Msgs : Replaying(k)' <=> Replaying(k)
    BY DEF Replaying
  <2> QED
    BY <2>3, <2>4, <2>5 DEF OrderInv
<1>9. PublishInv'
  BY <1>1, <1>4, <1>5 DEF IInv, HistoryInv, PublishInv, Waiting
<1> QED
  BY <1>6, <1>7, <1>8, <1>9 DEF HistoryInv

\* A replay that failed goes back to the front, and its task ends.
LEMMA RequeuedKeeps ==
  ASSUME IInv, NEW m \in Msgs, task' = [task EXCEPT ![m] = "done"], Replaying(m),
         Put(item[m], TRUE), item' = [item EXCEPT ![m] = m], task[m] # "publish",
         UNCHANGED <<entered, published>>
  PROVE  HistoryInv'
<1>1. /\ \A k \in Msgs : task'[k] = IF k = m THEN "done" ELSE task[k]
      /\ \A k \in Msgs : item'[k] = IF k = m THEN m ELSE item[k]
      /\ item[m] \in Msgs
  BY DEF IInv, TypeOK
<1>2. /\ task[m] \in Waiting /\ published[item[m]] = 0
      /\ \A k \in Msgs : Replaying(k) => k = m
  BY DEF IInv, HistoryInv, ReplayInv, PublishInv, Active, Waiting
<1>3. OfflineMax > 0
  BY DEF IInv, HistoryInv, EnteredInv
<1> DEFINE q == Len(queue)
<1>4. /\ q \in Nat /\ Len(queue') \in Nat /\ Len(queue') <= q + 1
      /\ \A i \in 1..Len(queue') : queue'[i] = IF i = 1 THEN item[m] ELSE queue[i - 1]
      /\ \A i \in 1..q : queue[i] \in Msgs
  <2>1. queue \in Seq(Msgs)
    BY DEF IInv, TypeOK
  <2>2. /\ queue' \in Seq(Msgs)
        /\ Len(queue') = q + (IF q = OfflineMax THEN 0 ELSE 1)
        /\ \A i \in 1..Len(queue') : queue'[i] = IF i = 1 THEN item[m] ELSE queue[i - 1]
    BY <1>1, <1>3, PutFrontFacts DEF IInv
  <2>3. q \in Nat /\ Len(queue') \in Nat /\ \A i \in 1..q : queue[i] \in Msgs
    BY <2>1, <2>2, LenProperties, ElementOfSeq
  <2> QED
    BY <2>2, <2>3
<1>5. \A k \in Msgs : ~Replaying(k)'
  BY <1>1, <1>2 DEF Replaying
<1>6. \A i \in 1..Len(queue') :
          \/ i = 1 /\ queue'[i] = item[m]
          \/ i - 1 \in 1..q /\ queue'[i] = queue[i - 1]
  BY <1>4
<1>7. EnteredInv'
  <2>1. \A i \in 1..Len(queue') : \E k \in 1..Len(entered) : entered[k] = queue'[i]
    BY <1>6 DEF IInv, HistoryInv, EnteredInv
  <2>2. \A i \in 1..Len(entered) : entered[i] \in Msgs
    BY ElementOfSeq DEF IInv, TypeOK
  <2>3. \A i \in 1..Len(entered) : task'[entered[i]] = "done" /\ OfflineMax > 0
    BY <1>1, <2>2 DEF IInv, HistoryInv, EnteredInv
  <2>4. \A i, j \in 1..Len(entered) : entered[i] = entered[j] => i = j
    BY DEF IInv, HistoryInv, EnteredInv
  <2> QED
    BY <1>5, <2>1, <2>3, <2>4 DEF EnteredInv
<1>8. OrderInv'
  <2>1. \A a, b \in Msgs : Before(a, b) => Before(a, b)'
    BY DEF Before
  <2>2. \A i, j \in 1..Len(queue') : i < j => Before(queue[i], queue[j])'
    <3> SUFFICES ASSUME NEW i \in 1..Len(queue'), NEW j \in 1..Len(queue'), i < j
                 PROVE  Before(queue[i], queue[j])'
      OBVIOUS
    <3>1. j - 1 \in 1..q /\ queue'[j] = queue[j - 1] /\ queue[j - 1] \in Msgs
      BY <1>4
    <3>2. CASE i = 1 /\ queue'[i] = item[m]
      <4>1. Before(item[m], queue[j - 1])
        BY <3>1 DEF IInv, HistoryInv, OrderInv
      <4> QED
        BY <1>1, <2>1, <3>1, <3>2, <4>1
    <3>3. CASE i - 1 \in 1..q /\ queue'[i] = queue[i - 1]
      <4>1. Before(queue[i - 1], queue[j - 1]) /\ queue[i - 1] \in Msgs
        <5>1. i - 1 < j - 1
          OBVIOUS
        <5> QED
          BY <1>4, <3>1, <3>3, <5>1 DEF IInv, HistoryInv, OrderInv
      <4> QED
        BY <2>1, <3>1, <3>3, <4>1
    <3> QED
      BY <1>6, <3>2, <3>3
  <2> QED
    BY <1>5, <2>2 DEF OrderInv
<1>9. PublishInv'
  <2>1. \A i \in 1..Len(queue') : published[queue'[i]] = 0
    BY <1>2, <1>6 DEF IInv, HistoryInv, PublishInv
  <2>2. \A k \in Msgs : task'[k] \in Waiting => published[item'[k]] = 0
    BY <1>1 DEF IInv, HistoryInv, PublishInv, Waiting
  <2> QED
    BY <2>1, <2>2 DEF IInv, HistoryInv, PublishInv
<1> QED
  BY <1>5, <1>7, <1>8, <1>9 DEF HistoryInv, ReplayInv

\* An insight: its message is in nobody else's hands.
LEMMA SummaryKeeps ==
  ASSUME IInv, NEW m \in Msgs, task' = [task EXCEPT ![m] = "publish"], task[m] = "call",
         published' = [published EXCEPT ![item[m]] = @ + 1],
         UNCHANGED <<item, queue, drainer, entered>>
  PROVE  HistoryInv'
<1>1. /\ task \in [Msgs -> Active \cup Waiting \cup {"done"}]
      /\ \A k \in Msgs : task'[k] = IF k = m THEN "publish" ELSE task[k]
      /\ item[m] \in Msgs /\ published[item[m]] = 0
      /\ \A k \in Msgs : published'[k] = IF k = item[m] THEN 1 ELSE published[k]
  BY DEF IInv, TypeOK, HistoryInv, PublishInv, Active, Waiting
<1>2. ReplayInv'
  BY <1>1 DEF IInv, HistoryInv, ReplayInv, Replaying, Active
<1>3. EnteredInv'
  <2>1. \A i \in 1..Len(entered) : entered[i] \in Msgs /\ entered[i] # m
    BY ElementOfSeq, EndedIfEntered DEF IInv, TypeOK
  <2> QED
    BY <1>1, <2>1 DEF IInv, HistoryInv, EnteredInv, Replaying
<1>4. OrderInv'
  BY DEF IInv, HistoryInv, OrderInv, Before, Replaying
<1>5. PublishInv'
  <2>1. \A i \in 1..Len(queue) : queue[i] \in Msgs /\ queue[i] # item[m]
    <3> SUFFICES ASSUME NEW i \in 1..Len(queue), queue[i] = item[m] PROVE FALSE
      BY ElementOfSeq DEF IInv, TypeOK
    <3>1. CASE Replaying(m)
      BY <3>1, BeforeIrreflexive DEF IInv, HistoryInv, OrderInv
    <3>2. CASE ~Replaying(m)
      BY <3>2, EndedIfEntered DEF Replaying
    <3> QED
      BY <3>1, <3>2
  <2>2. \A k \in Msgs : k # m /\ task[k] \in Waiting => item[k] \in Msgs /\ item[k] # item[m]
    <3> SUFFICES ASSUME NEW k \in Msgs, k # m, task[k] \in Waiting, item[k] = item[m] PROVE FALSE
      BY DEF IInv, TypeOK
    <3>1. CASE Replaying(m) /\ Replaying(k)
      BY <3>1 DEF IInv, HistoryInv, ReplayInv
    <3>2. CASE ~Replaying(m)
      BY <3>2, EndedIfEntered DEF Replaying
    <3>3. CASE ~Replaying(k)
      <4>1. task[k] # "done"
        BY DEF Waiting
      <4> QED
        BY <3>3, <4>1, EndedIfEntered DEF Replaying
    <3> QED
      BY <3>1, <3>2, <3>3
  <2>3. \A i \in 1..Len(queue) : published'[queue[i]] = 0
    BY <1>1, <2>1 DEF IInv, HistoryInv, PublishInv
  <2>4. \A k \in Msgs : task'[k] \in Waiting => published'[item[k]] = 0
    BY <1>1, <2>2 DEF IInv, HistoryInv, PublishInv, Waiting
  <2> QED
    BY <1>1, <2>3, <2>4 DEF IInv, HistoryInv, PublishInv
<1> QED
  BY <1>2, <1>3, <1>4, <1>5 DEF HistoryInv

\* stop() leaves no replay.
LEMMA StopKeeps == ASSUME IInv, Stop PROVE HistoryInv'
<1>1. /\ \A k \in Msgs : task'[k] = IF k \in bg THEN "done" ELSE task[k]
      /\ \A k \in Msgs : item'[k] = k
      /\ UNCHANGED <<queue, entered, published>>
  BY DEF Stop
<1>2. ReplayInv'
  BY <1>1 DEF ReplayInv, Replaying
<1>3. EnteredInv'
  <2>1. \A i \in 1..Len(entered) : entered[i] \in Msgs
    BY ElementOfSeq DEF IInv, TypeOK
  <2> QED
    BY <1>1, <2>1 DEF IInv, HistoryInv, EnteredInv, Replaying
<1>4. OrderInv'
  BY <1>1 DEF IInv, HistoryInv, OrderInv, Before, Replaying
<1>5. PublishInv'
  <2>1. \A k \in Msgs : task'[k] \in Waiting => task[k] \in Waiting /\ ~Replaying(k)
    BY <1>1 DEF IInv, TaskInv, HistoryInv, ReplayInv, Waiting
  <2> QED
    BY <1>1, <2>1 DEF IInv, HistoryInv, PublishInv, Replaying
<1> QED
  BY <1>2, <1>3, <1>4, <1>5 DEF HistoryInv

-----------------------------------------------------------------------------
(* Every action keeps the history part *)

LEMMA AnswerKeeps == ASSUME IInv, NEW m \in Msgs, Answer(m) PROVE HistoryInv'
<1>1. task[m] = "call" /\ task[m] \in Waiting /\ task[m] \in Active \ {"lock"}
  BY DEF Answer, Waiting, Active
<1>2. ASSUME Replaying(m) PROVE \A k \in Msgs : k # m => ~Replaying(k)
  BY <1>2 DEF IInv, HistoryInv, ReplayInv
<1>3. CASE Summary(m)
  BY <1>1, <1>3, SummaryKeeps DEF Summary, Goto, queueVars
<1>4. CASE EmptySummary(m)
  <2>1. CASE Replaying(m)
    BY <1>1, <1>2, <1>4, <2>1, DrainLoopKeeps DEF EmptySummary
  <2>2. CASE ~Replaying(m)
    BY <1>1, <1>4, <2>2, MoveKeeps DEF EmptySummary, Goto, Waiting
  <2> QED
    BY <2>1, <2>2
<1>5. CASE Permanent(m)
  <2>1. CASE Replaying(m)
    BY <1>1, <1>2, <1>5, <2>1, DrainLoopKeeps DEF Permanent
  <2>2. CASE ~Replaying(m)
    BY <1>1, <1>5, <2>2, MoveKeeps DEF Permanent, Goto, Waiting
  <2> QED
    BY <2>1, <2>2
<1>6. CASE Raise(m)
  BY <1>6, FinishKeeps DEF Raise, Goto, IInv, HistoryInv, ReplayInv
<1>7. CASE Unreachable(m)
  <2>1. CASE Replaying(m)
    BY <1>1, <1>7, <2>1, RequeuedKeeps DEF Unreachable, Goto
  <2>2. CASE ~Replaying(m) /\ OfflineMax > 0
    <3>1. item' = item
      BY <1>7, <2>2 DEF Unreachable, Replaying, IInv, TypeOK
    <3> QED
      BY <1>1, <1>7, <2>2, <3>1, QueuedKeeps DEF Unreachable, Goto
  <2>3. CASE ~Replaying(m) /\ ~(OfflineMax > 0)
    BY <1>7, <2>3, FinishKeeps DEF Unreachable, Goto
  <2> QED
    BY <2>1, <2>2, <2>3
<1> QED
  BY <1>3, <1>4, <1>5, <1>6, <1>7 DEF Answer

LEMMA PublishedKeeps == ASSUME IInv, NEW m \in Msgs, Published(m) PROVE HistoryInv'
<1>1. task[m] = "publish" /\ UNCHANGED published
  BY DEF Published
<1>2. CASE Replaying(m) /\ DrainLoop(m) /\ UNCHANGED entered
  <2>1. \A k \in Msgs : k # m => ~Replaying(k)
    BY <1>2 DEF IInv, HistoryInv, ReplayInv
  <2> QED
    BY <1>1, <1>2, <2>1, DrainLoopKeeps
<1>3. CASE ~Replaying(m) /\ Goto(m, IF queue = <<>> THEN "done" ELSE "lock")
           /\ UNCHANGED <<item, queueVars>>
  <2>1. \E s \in {"done", "lock"} : task' = [task EXCEPT ![m] = s]
    BY <1>3 DEF Goto
  <2>2. PICK s \in {"done", "lock"} : task' = [task EXCEPT ![m] = s]
    BY <2>1
  <2> QED
    BY <1>1, <1>3, <2>2, MoveKeeps DEF queueVars, Waiting
<1>4. CASE Raise(m)
  BY <1>1, <1>4, FinishKeeps DEF Raise, Goto, IInv, HistoryInv, ReplayInv
<1> QED
  BY <1>2, <1>3, <1>4 DEF Published

LEMMA RunKeeps == ASSUME IInv, NEW m \in Msgs, Run(m) PROVE HistoryInv'
<1>1. CASE Lock(m)
  <2>1. drainer \notin Msgs /\ task[m] # "done"
    BY <1>1, InferenceAssumption DEF Lock
  <2>2. \A k \in Msgs : ~Replaying(k)
    BY <2>1 DEF IInv, HistoryInv, ReplayInv
  <2> QED
    BY <1>1, <2>1, <2>2, DrainLoopKeeps DEF Lock
<1>2. CASE Reap(m)
  BY <1>2 DEF Reap, gateVars, queueVars, IInv, HistoryInv, ReplayInv, EnteredInv, OrderInv,
              PublishInv, Before, Replaying
<1>3. CASE Space(m) \/ Wake(m) \/ Permit(m) \/ Backoff(m) \/ Retry(m)
  <2>1. /\ \E s \in {"permit", "sleep", "call", "backoff"} : task' = [task EXCEPT ![m] = s]
        /\ task[m] \in {"space", "sleep", "permit", "call", "backoff"}
        /\ UNCHANGED <<item, queue, drainer, entered, published>>
    BY <1>3 DEF Space, Wake, Permit, Backoff, Retry, Goto, queueVars
  <2>2. PICK s \in {"permit", "sleep", "call", "backoff"} : task' = [task EXCEPT ![m] = s]
    BY <2>1
  <2> QED
    BY <2>1, <2>2, MoveKeeps DEF Waiting, Active
<1> QED
  BY <1>1, <1>2, <1>3, AnswerKeeps, PublishedKeeps DEF Run

LEMMA HandleKeeps == ASSUME IInv, NEW m \in Msgs, Handle(m) PROVE HistoryInv'
<1>1. /\ \E s \in {"ignored", "shed", "space"} : task' = [task EXCEPT ![m] = s]
      /\ task[m] = "none" /\ UNCHANGED <<item, queue, drainer, entered, published>>
  BY DEF Handle, Goto, queueVars
<1>2. PICK s \in {"ignored", "shed", "space"} : task' = [task EXCEPT ![m] = s]
  BY <1>1
<1>3. ~Replaying(m)
  BY <1>1 DEF IInv, HistoryInv, ReplayInv, Active
<1> QED
  BY <1>1, <1>2, <1>3, MoveKeeps DEF Waiting

-----------------------------------------------------------------------------
(* The other parts *)

\* Tasks at work are in bg until their last step.
LEMMA TaskKeeps == ASSUME IInv, Next PROVE TaskInv'
<1>1. CASE Start \/ Tick
  BY <1>1 DEF Start, Tick, taskVars, IInv, TaskInv
<1>2. CASE Stop
  BY <1>2 DEF Stop, IInv, TaskInv, Active
<1>3. CASE Stopped
  BY <1>3 DEF Stopped, IInv, TaskInv, Active
<1>4. ASSUME NEW m \in Msgs, Handle(m) PROVE TaskInv'
  BY <1>4 DEF Handle, Goto, IInv, TypeOK, TaskInv, Active
<1>5. ASSUME NEW m \in Msgs, Reap(m) PROVE TaskInv'
  BY <1>5 DEF Reap, IInv, TaskInv, Active
<1>6. ASSUME NEW m \in Msgs, Space(m) \/ Wake(m) \/ Permit(m) \/ Backoff(m) \/ Retry(m)
      PROVE  TaskInv'
  BY <1>6 DEF Space, Wake, Permit, Backoff, Retry, Goto, IInv, TypeOK, TaskInv, Active
<1>7. ASSUME NEW m \in Msgs, Answer(m) \/ Published(m) \/ Lock(m) PROVE TaskInv'
  <2>1. task[m] \in Active /\ bg' = bg /\ \E s : task' = [task EXCEPT ![m] = s]
    BY <1>7 DEF Answer, Summary, EmptySummary, Unreachable, Permanent, Raise, Published, Lock,
                DrainLoop, Goto, Active
  <2> QED
    BY <2>1 DEF IInv, TypeOK, TaskInv
<1> QED
  BY <1>1, <1>2, <1>3, <1>4, <1>5, <1>6, <1>7 DEF Next, Run

\* While a task sleeps in the gate nobody else gets into it, and time does its part.
LEMMA GateKeeps == ASSUME IInv, Next PROVE GateInv'
<1>1. /\ since \in 0..MinInterval /\ MinInterval \in Nat /\ left \in [Msgs -> 0..MinInterval]
      /\ GateInv
  BY InferenceAssumption DEF IInv, TypeOK
<1>2. CASE Start \/ Stopped
  BY <1>1, <1>2 DEF Start, Stopped, taskVars, gateVars, GateInv
<1>3. CASE Tick
  BY <1>1, <1>3 DEF Tick, taskVars, GateInv
<1>4. CASE Stop
  BY <1>4 DEF Stop, IInv, TaskInv, Active, GateInv
<1>5. ASSUME NEW m \in Msgs, Space(m) PROVE GateInv'
  <2>1. CASE MinInterval = 0 /\ Goto(m, "permit") /\ UNCHANGED gateVars
    BY <1>1, <2>1 DEF Goto, gateVars, GateInv, IInv, TypeOK
  <2>2. CASE spacer = NoTask /\ Goto(m, "permit")
    BY <1>1, <2>2, InferenceAssumption DEF Goto, GateInv, IInv, TypeOK
  <2>3. CASE /\ spacer = NoTask /\ spacer' = m /\ UNCHANGED since
             /\ left' = [left EXCEPT ![m] = MinInterval - since] /\ Goto(m, "sleep")
    BY <1>1, <2>3, InferenceAssumption DEF Goto, GateInv, IInv, TypeOK
  <2> QED
    BY <1>5, <2>1, <2>2, <2>3 DEF Space
<1>6. ASSUME NEW m \in Msgs, Wake(m) PROVE GateInv'
  BY <1>1, <1>6 DEF Wake, Goto, GateInv, IInv, TypeOK
<1>7. ASSUME NEW m \in Msgs,
             \/ Permit(m) \/ Backoff(m) \/ Retry(m) \/ Handle(m) \/ Reap(m)
             \/ Answer(m) \/ Published(m) \/ Lock(m)
      PROVE  GateInv'
  <2>1. /\ UNCHANGED gateVars
        /\ \/ task' = task
           \/ \E s : task' = [task EXCEPT ![m] = s] /\ s # "sleep"
    BY <1>7 DEF Permit, Backoff, Retry, Handle, Reap, Answer, Summary, EmptySummary, Unreachable,
                Permanent, Raise, Published, Lock, DrainLoop, Goto
  <2> QED
    BY <1>1, <2>1 DEF gateVars, GateInv, IInv, TypeOK
<1> QED
  BY <1>2, <1>3, <1>4, <1>5, <1>6, <1>7 DEF Next, Run

\* What an item joins or leaves, put and the drain loop keep typed.
LEMMA DrainLoopTypes ==
  ASSUME TypeOK, NEW m \in Msgs, DrainLoop(m)
  PROVE  /\ queue' \in Seq(Msgs) /\ Len(queue') <= OfflineMax
         /\ item' \in [Msgs -> Msgs] /\ drainer' \in Msgs \cup {NoTask}
         /\ task' \in [Msgs -> {"none", "ignored", "shed", "space", "sleep", "permit", "call",
                               "backoff", "publish", "lock", "done"}]
<1>1. CASE queue = <<>>
  BY <1>1 DEF DrainLoop, Goto, TypeOK
<1>2. CASE queue # <<>>
  <2>1. /\ task' = [task EXCEPT ![m] = "space"] /\ item' = [item EXCEPT ![m] = Head(queue)]
        /\ drainer' = m /\ queue' = Tail(queue)
    BY <1>2 DEF DrainLoop, Goto
  <2>2. queue' \in Seq(Msgs) /\ Len(queue') <= OfflineMax /\ Head(queue) \in Msgs
    BY <1>2, <2>1, PopFacts
  <2> QED
    BY <2>1, <2>2 DEF TypeOK
<1> QED
  BY <1>1, <1>2

LEMMA AnswerTypes == ASSUME IInv, NEW m \in Msgs, Answer(m) PROVE TypeOK'
<1>1. TypeOK /\ attempt' \in [Msgs -> 0..MaxRetries]
      /\ UNCHANGED <<service, bg, since, left, spacer>>
  BY InferenceAssumption DEF Answer, gateVars, IInv, TypeOK
<1>2. CASE Summary(m)
  <2>1. published' \in [Msgs -> Nat] /\ task' = [task EXCEPT ![m] = "publish"]
    BY <1>1, <1>2 DEF Summary, Goto, TypeOK
  <2>2. UNCHANGED <<item, queue, drainer, dropped, entered, resolved, faults>>
    BY <1>2 DEF Summary, queueVars
  <2> QED
    BY <1>1, <2>1, <2>2 DEF TypeOK
<1>3. CASE EmptySummary(m)
  <2>1. CASE Replaying(m)
    <3>1. resolved' \subseteq Msgs
      BY <1>1, <1>3, <2>1 DEF EmptySummary, TypeOK
    <3>2. DrainLoop(m) /\ UNCHANGED <<dropped, entered, faults, published>>
      BY <1>3, <2>1 DEF EmptySummary
    <3> QED
      BY <1>1, <3>1, <3>2, DrainLoopTypes DEF TypeOK
  <2>2. CASE ~Replaying(m)
    BY <1>1, <1>3, <2>2 DEF EmptySummary, Goto, TypeOK
  <2> QED
    BY <2>1, <2>2
<1>4. CASE Permanent(m)
  <2>1. CASE Replaying(m)
    <3>1. dropped' \in Nat
      BY <1>1, <1>4, <2>1 DEF Permanent, TypeOK
    <3>2. DrainLoop(m) /\ UNCHANGED <<entered, resolved, faults, published>>
      BY <1>4, <2>1 DEF Permanent
    <3> QED
      BY <1>1, <3>1, <3>2, DrainLoopTypes DEF TypeOK
  <2>2. CASE ~Replaying(m)
    BY <1>1, <1>4, <2>2 DEF Permanent, Goto, TypeOK
  <2> QED
    BY <2>1, <2>2
<1>5. CASE Raise(m)
  BY <1>1, <1>5, SMTT(30) DEF Raise, Goto, TypeOK
<1>6. CASE Unreachable(m)
  <2>1. CASE Replaying(m)
    <3>1. OfflineMax > 0 /\ item[m] \in Msgs
      BY <2>1 DEF IInv, TypeOK, HistoryInv, EnteredInv
    <3>2. Put(item[m], TRUE) /\ drainer' = NoTask /\ UNCHANGED entered
      BY <1>6, <2>1 DEF Unreachable
    <3>3. queue' \in Seq(Msgs) /\ Len(queue') <= OfflineMax /\ dropped' \in Nat
      BY <1>1, <3>1, <3>2, PutFrontFacts
    <3> QED
      BY <1>1, <1>6, <3>2, <3>3 DEF Unreachable, Goto, TypeOK
  <2>2. CASE ~Replaying(m) /\ OfflineMax > 0
    <3>1. Put(m, FALSE) /\ drainer' = drainer /\ entered' = Append(entered, m)
      BY <1>6, <2>2 DEF Unreachable
    <3>2. queue' \in Seq(Msgs) /\ Len(queue') <= OfflineMax /\ dropped' \in Nat
      BY <1>1, <2>2, <3>1, PutBackFacts
    <3>3. entered' \in Seq(Msgs)
      BY <1>1, <3>1, AppendProperties DEF TypeOK
    <3> QED
      BY <1>1, <1>6, <3>1, <3>2, <3>3 DEF Unreachable, Goto, TypeOK
  <2>3. CASE ~Replaying(m) /\ ~(OfflineMax > 0)
    BY <1>1, <1>6, <2>3 DEF Unreachable, Goto, TypeOK
  <2> QED
    BY <2>1, <2>2, <2>3
<1> QED
  BY <1>2, <1>3, <1>4, <1>5, <1>6 DEF Answer

LEMMA TypeKeeps == ASSUME IInv, Next PROVE TypeOK'
<1>1. TypeOK
  BY DEF IInv
<1>2. CASE Start
  BY <1>1, <1>2 DEF Start, taskVars, gateVars, queueVars, TypeOK
<1>3. CASE Stop
  BY <1>1, <1>3, InferenceAssumption DEF Stop, TypeOK
<1>4. CASE Stopped
  BY <1>1, <1>4 DEF Stopped, gateVars, queueVars, TypeOK
<1>5. CASE Tick
  BY <1>1, <1>5, InferenceAssumption DEF Tick, taskVars, queueVars, TypeOK
<1>6. ASSUME NEW m \in Msgs, Handle(m) PROVE TypeOK'
  BY <1>1, <1>6 DEF Handle, Goto, gateVars, queueVars, TypeOK
<1>7. ASSUME NEW m \in Msgs, Space(m) \/ Wake(m) PROVE TypeOK'
  <2>1. UNCHANGED <<service, item, attempt, bg, queue, drainer, dropped, entered, resolved,
                    faults, published>>
    BY <1>7 DEF Space, Wake, queueVars
  <2>2. \E s \in {"permit", "sleep"} : task' = [task EXCEPT ![m] = s]
    BY <1>7 DEF Space, Wake, Goto
  <2>3. since' \in 0..MinInterval /\ spacer' \in Msgs \cup {NoTask}
    BY <1>1, <1>7, InferenceAssumption DEF Space, Wake, gateVars, TypeOK
  <2>4. left' \in [Msgs -> 0..MinInterval]
    <3>1. \/ left' = left
          \/ since < MinInterval /\ left' = [left EXCEPT ![m] = MinInterval - since]
      BY <1>7 DEF Space, Wake, gateVars
    <3>2. since \in 0..MinInterval /\ MinInterval \in Nat /\ left \in [Msgs -> 0..MinInterval]
      BY <1>1, InferenceAssumption DEF TypeOK
    <3> QED
      BY <3>1, <3>2
  <2>5. PICK s \in {"permit", "sleep"} : task' = [task EXCEPT ![m] = s]
    BY <2>2
  <2>6. task' \in [Msgs -> {"none", "ignored", "shed", "space", "sleep", "permit", "call",
                           "backoff", "publish", "lock", "done"}]
    BY <1>1, <2>5 DEF TypeOK
  <2> QED
    BY <1>1, <2>1, <2>3, <2>4, <2>6 DEF TypeOK
<1>8. ASSUME NEW m \in Msgs, Permit(m) \/ Backoff(m) \/ Reap(m) PROVE TypeOK'
  <2>1. UNCHANGED <<service, item, attempt, since, left, spacer, queue, drainer, dropped, entered,
                    resolved, faults, published>>
    BY <1>8 DEF Permit, Backoff, Reap, gateVars, queueVars
  <2>2. bg' \subseteq Msgs
    BY <1>1, <1>8 DEF Permit, Backoff, Reap, TypeOK
  <2>3. task' = task \/ \E s \in {"call", "backoff"} : task' = [task EXCEPT ![m] = s]
    BY <1>8 DEF Permit, Backoff, Reap, Goto
  <2> QED
    BY <1>1, <2>1, <2>2, <2>3, SMTT(30) DEF TypeOK
<1>9. ASSUME NEW m \in Msgs, Retry(m) PROVE TypeOK'
  <2>1. attempt[m] < MaxRetries
    BY <1>9 DEF Retry, IInv, RetryInv
  <2>2. attempt' \in [Msgs -> 0..MaxRetries] /\ task' = [task EXCEPT ![m] = "call"]
    BY <1>1, <1>9, <2>1, InferenceAssumption DEF Retry, Goto, TypeOK
  <2>3. UNCHANGED <<service, item, bg, since, left, spacer, queue, drainer, dropped, entered,
                    resolved, faults, published>>
    BY <1>9 DEF Retry, gateVars, queueVars
  <2> QED
    BY <1>1, <2>2, <2>3 DEF TypeOK
<1>10. ASSUME NEW m \in Msgs, Published(m) PROVE TypeOK'
  <2>1. UNCHANGED <<service, attempt, bg, gateVars, published>>
    BY <1>10 DEF Published
  <2>2. CASE /\ Replaying(m) /\ DrainLoop(m) /\ resolved' = resolved \cup {item[m]}
             /\ UNCHANGED <<dropped, entered, faults>>
    BY <1>1, <2>1, <2>2, DrainLoopTypes DEF gateVars, TypeOK
  <2>3. CASE /\ Goto(m, IF queue = <<>> THEN "done" ELSE "lock")
             /\ UNCHANGED <<item, queueVars, faults>>
    BY <1>1, <2>1, <2>3 DEF Goto, gateVars, queueVars, TypeOK
  <2>4. CASE Raise(m)
    BY <1>1, <2>1, <2>4 DEF Raise, Goto, gateVars, TypeOK
  <2> QED
    BY <1>10, <2>2, <2>3, <2>4 DEF Published
<1>11. ASSUME NEW m \in Msgs, Lock(m) PROVE TypeOK'
  BY <1>1, <1>11, DrainLoopTypes DEF Lock, gateVars, TypeOK
<1> QED
  BY <1>2, <1>3, <1>4, <1>5, <1>6, <1>7, <1>8, <1>9, <1>10, <1>11, AnswerTypes DEF Next, Run

\* Only a task with a retry left backs off, and it alone counts its retries.
LEMMA RetryKeeps == ASSUME IInv, Next PROVE RetryInv'
<1>1. RetryInv /\ TypeOK
  BY DEF IInv
<1>2. CASE Start \/ Stopped \/ Tick
  BY <1>1, <1>2 DEF Start, Stopped, Tick, taskVars, RetryInv
<1>3. CASE Stop
  BY <1>3 DEF Stop, IInv, TaskInv, Active, RetryInv
<1>4. ASSUME NEW m \in Msgs, Backoff(m) PROVE RetryInv'
  BY <1>1, <1>4 DEF Backoff, Goto, TypeOK, RetryInv
<1>5. ASSUME NEW m \in Msgs, Answer(m) \/ Retry(m) PROVE RetryInv'
  <2>1. /\ \E s : task' = [task EXCEPT ![m] = s] /\ s # "backoff"
        /\ \E n : attempt' = [attempt EXCEPT ![m] = n]
    BY <1>5 DEF Answer, Summary, EmptySummary, Unreachable, Permanent, Raise, DrainLoop, Retry, Goto
  <2> QED
    BY <1>1, <2>1 DEF TypeOK, RetryInv
<1>6. ASSUME NEW m \in Msgs,
             \/ Space(m) \/ Wake(m) \/ Permit(m) \/ Handle(m) \/ Reap(m)
             \/ Published(m) \/ Lock(m)
      PROVE  RetryInv'
  <2>1. /\ UNCHANGED attempt
        /\ \/ task' = task
           \/ \E s : task' = [task EXCEPT ![m] = s] /\ s # "backoff"
    BY <1>6 DEF Space, Wake, Permit, Handle, Reap, Published, Raise, Lock, DrainLoop, Goto
  <2> QED
    BY <1>1, <2>1 DEF TypeOK, RetryInv
<1> QED
  BY <1>2, <1>3, <1>4, <1>5, <1>6 DEF Next, Run

-----------------------------------------------------------------------------

\* As the service is constructed.
LEMMA InitIInv == Init => IInv
<1> SUFFICES ASSUME Init PROVE IInv
  OBVIOUS
<1>1. <<>> \in Seq(Msgs) /\ Len(<<>>) = 0 /\ queue = <<>> /\ entered = <<>>
  BY EmptySeq DEF Init
<1>2. TypeOK
  BY <1>1, InferenceAssumption DEF Init, TypeOK
<1>3. TaskInv /\ GateInv /\ RetryInv
  BY DEF Init, TaskInv, GateInv, RetryInv, Active
<1>4. HistoryInv
  <2>1. Len(queue) = 0 /\ Len(entered) = 0
    BY <1>1
  <2> QED
    BY <2>1 DEF Init, HistoryInv, ReplayInv, EnteredInv, OrderInv, PublishInv, Replaying
<1> QED
  BY <1>2, <1>3, <1>4 DEF IInv

\* The history rests on the tasks, the queue and what was published.
LEMMA HistoryStays ==
  ASSUME IInv, UNCHANGED <<task, item, queue, drainer, entered, published>>
  PROVE  HistoryInv'
<1>1. \A m \in Msgs : Replaying(m)' <=> Replaying(m)
  BY DEF Replaying
<1>2. \A a, b : Before(a, b)' <=> Before(a, b)
  BY DEF Before
<1>3. ReplayInv'
  BY <1>1 DEF IInv, HistoryInv, ReplayInv
<1>4. EnteredInv'
  BY <1>1 DEF IInv, HistoryInv, EnteredInv
<1>5. OrderInv'
  BY <1>1, <1>2 DEF IInv, HistoryInv, OrderInv
<1>6. PublishInv'
  BY DEF IInv, HistoryInv, PublishInv
<1> QED
  BY <1>3, <1>4, <1>5, <1>6 DEF HistoryInv

\* Every step keeps the invariant.
LEMMA NextIInv == IInv /\ [Next]_vars => IInv'
<1> SUFFICES ASSUME IInv, [Next]_vars PROVE IInv'
  OBVIOUS
<1>1. CASE UNCHANGED vars
  <2>1. UNCHANGED <<service, task, item, attempt, bg, since, left, spacer, queue, drainer,
                    dropped, entered, resolved, faults, published>>
    BY <1>1 DEF vars, taskVars, gateVars, queueVars
  <2>2. TypeOK'
    BY <2>1 DEF IInv, TypeOK
  <2>3. TaskInv' /\ GateInv' /\ RetryInv'
    BY <2>1 DEF IInv, TaskInv, GateInv, RetryInv
  <2>4. HistoryInv'
    BY <2>1, HistoryStays
  <2> QED
    BY <2>2, <2>3, <2>4 DEF IInv
<1>2. CASE Next
  <2>1. HistoryInv'
    <3>1. CASE Start \/ Stopped \/ Tick
      <4>1. UNCHANGED <<task, item, queue, drainer, entered, published>>
        BY <3>1 DEF Start, Stopped, Tick, taskVars, gateVars, queueVars
      <4> QED
        BY <4>1, HistoryStays
    <3> QED
      BY <1>2, <3>1, StopKeeps, HandleKeeps, RunKeeps DEF Next
  <2> QED
    BY <1>2, <2>1, TypeKeeps, TaskKeeps, GateKeeps, RetryKeeps DEF IInv
<1> QED
  BY <1>1, <1>2

LEMMA Invariant == Spec => []IInv
  BY InitIInv, NextIInv, PTL DEF Spec

\* The variables keep their types, and the offline queue its length.
THEOREM TypeCorrect == Spec => []TypeOK
<1>1. IInv => TypeOK
  BY DEF IInv
<1> QED
  BY <1>1, Invariant, PTL

\* Live or replayed, and whatever was cancelled before: a request leaves the spacing gate
\* min_interval_s or more after the one before it.
THEOREM GateSpacedTheorem == Spec => GateSpaced
<1>1. IInv /\ [Next]_vars => [LeavesSpaced]_vars
  <2> SUFFICES ASSUME IInv, Next, NEW m \in Msgs, task[m] \in {"space", "sleep"},
                      task'[m] = "permit"
               PROVE  since >= MinInterval
    BY DEF LeavesSpaced
  <2>1. since \in 0..MinInterval /\ MinInterval \in Nat /\ left \in [Msgs -> 0..MinInterval]
    BY InferenceAssumption DEF IInv, TypeOK
  <2>2. Space(m) \/ Wake(m)
    <3>1. task' # task
      OBVIOUS
    <3>2. CASE Stop
      BY <3>2 DEF Stop
    <3>3. ASSUME NEW k \in Msgs, Handle(k) \/ Run(k) PROVE k = m /\ (Space(m) \/ Wake(m))
      <4>1. \E s : task' = [task EXCEPT ![k] = s]
        BY <3>1, <3>3 DEF Handle, Run, Space, Wake, Permit, Answer, Summary, EmptySummary,
             Unreachable, Permanent, Raise, Backoff, Retry, Published, Lock, Reap, DrainLoop, Goto
      <4>2. k = m
        BY <4>1 DEF IInv, TypeOK
      <4> QED
        BY <3>3, <4>2 DEF Handle, Run, Permit, Answer, Backoff, Retry, Published, Lock, Reap
    <3> QED
      BY <3>1, <3>2, <3>3 DEF Next, Start, Stopped, Tick, taskVars
  <2>3. CASE Space(m)
    BY <2>1, <2>3 DEF Space, Goto, IInv, TypeOK
  <2>4. CASE Wake(m)
    BY <2>1, <2>4 DEF Wake, IInv, GateInv
  <2> QED
    BY <2>2, <2>3, <2>4
<1> QED
  BY <1>1, Invariant, PTL DEF Spec, GateSpaced

\* Where a message stands, when it stands there once.
LEMMA RankBefore ==
  ASSUME IInv, NEW a, NEW b, Before(a, b)
  PROVE  Rank(a) < Rank(b)
<1>1. PICK i, j \in 1..Len(entered) : i < j /\ entered[i] = a /\ entered[j] = b
  BY DEF Before
<1>2. DOMAIN entered = 1..Len(entered) /\ Len(entered) \in Nat
  BY LenProperties DEF IInv, TypeOK
<1>3. Rank(a) \in 1..Len(entered) /\ entered[Rank(a)] = a
  BY <1>1, <1>2 DEF Rank
<1>4. Rank(b) \in 1..Len(entered) /\ entered[Rank(b)] = b
  BY <1>1, <1>2 DEF Rank
<1>5. Rank(a) = i /\ Rank(b) = j
  BY <1>1, <1>3, <1>4 DEF IInv, HistoryInv, EnteredInv
<1> QED
  BY <1>1, <1>5

\* Whatever fails during a replay, and however many tasks come to drain the queue: messages
\* are replayed in the order they failed in, and each insight goes out once.
THEOREM ReplayInOrderTheorem == Spec => []ReplayInOrder
<1>1. IInv => ReplayInOrder
  <2> SUFFICES ASSUME IInv PROVE ReplayInOrder
    OBVIOUS
  <2>1. DOMAIN queue = 1..Len(queue) /\ queue \in Seq(Msgs)
    BY LenProperties DEF IInv, TypeOK
  <2>2. QueueInOrder
    <3>1. \A i, j \in DOMAIN queue : i < j => Rank(queue[i]) < Rank(queue[j])
      BY <2>1, RankBefore DEF IInv, HistoryInv, OrderInv
    <3>2. \A m \in Replayed, i \in DOMAIN queue : Rank(m) < Rank(queue[i])
      BY <2>1, RankBefore DEF IInv, HistoryInv, OrderInv, Replayed
    <3> QED
      BY <3>1, <3>2 DEF QueueInOrder
  <2>3. PublishedOnce
    BY <2>1 DEF IInv, HistoryInv, PublishInv, PublishedOnce, Range
  <2> QED
    BY <2>2, <2>3 DEF ReplayInOrder
<1> QED
  BY <1>1, Invariant, PTL

-----------------------------------------------------------------------------
(* The accounts: what the offline queue has lost *)

\* What waits for a replay or is replayed.
Held == Range(queue) \cup Replayed

\* What is held or answered was queued, and nothing is both.
ResolvedInv ==
    /\ Held \subseteq Range(entered)
    /\ resolved \subseteq Range(entered) \ Held

\* Whether a stop may have taken a message out of a replay's hands.
AfterStop == IF service \in {"stopping", "stopped"} THEN 1 ELSE 0

LossInv == IsFiniteSet(Lost) /\ Accounted

AccountInv == ResolvedInv /\ LossInv

\* The elements of a sequence, by position.
LEMMA ByPosition ==
  ASSUME NEW S, NEW s \in Seq(S)
  PROVE  /\ \A x : x \in Range(s) <=> \E i \in 1..Len(s) : s[i] = x
         /\ Range(s) \subseteq S
<1>1. DOMAIN s = 1..Len(s)
  BY LenProperties
<1>2. \A i \in 1..Len(s) : s[i] \in S
  BY ElementOfSeq
<1> QED
  BY <1>1, <1>2 DEF Range

LEMMA LostSplit == Lost = Range(entered) \ (Held \cup resolved)
BY DEF Lost, Held

\* A step that loses nothing.
LEMMA NothingLost ==
  ASSUME LossInv, Lost' = Lost, dropped' = dropped, TypeOK, TypeOK',
         faults' \in {faults, faults + 1}, AfterStop' \in {AfterStop, AfterStop + 1}
  PROVE  LossInv'
<1>1. Cardinality(Lost) \in Nat /\ dropped \in Nat /\ faults \in Nat /\ AfterStop \in Nat
  BY FS_CardinalityType DEF LossInv, TypeOK, AfterStop
<1>2. dropped <= Cardinality(Lost) /\ Cardinality(Lost) <= dropped + faults + AfterStop
  BY DEF LossInv, Accounted, AfterStop
<1>3. dropped' <= Cardinality(Lost)' /\ Cardinality(Lost)' <= dropped' + faults' + AfterStop'
  BY <1>1, <1>2
<1> QED
  BY <1>3 DEF LossInv, Accounted, AfterStop

\* A step that loses one message, which dropped, a fault or the stop accounts for.
LEMMA OneLost ==
  ASSUME LossInv, NEW x, x \notin Lost, Lost' = Lost \cup {x}, TypeOK, TypeOK',
         \/ dropped' = dropped + 1 /\ faults' = faults /\ AfterStop' = AfterStop
         \/ dropped' = dropped /\ faults' = faults + 1 /\ AfterStop' = AfterStop
         \/ dropped' = dropped /\ faults' = faults /\ AfterStop' = AfterStop + 1
  PROVE  LossInv'
<1>1. Cardinality(Lost) \in Nat /\ dropped \in Nat /\ faults \in Nat /\ AfterStop \in Nat
  BY FS_CardinalityType DEF LossInv, TypeOK, AfterStop
<1>2. dropped <= Cardinality(Lost) /\ Cardinality(Lost) <= dropped + faults + AfterStop
  BY DEF LossInv, Accounted, AfterStop
<1>3. IsFiniteSet(Lost \cup {x}) /\ Cardinality(Lost \cup {x}) = Cardinality(Lost) + 1
  BY FS_AddElement DEF LossInv
<1>4. IsFiniteSet(Lost)' /\ Cardinality(Lost)' = Cardinality(Lost) + 1
  BY <1>3
<1>5. dropped' <= Cardinality(Lost)' /\ Cardinality(Lost)' <= dropped' + faults' + AfterStop'
  BY <1>1, <1>2, <1>4
<1> QED
  BY <1>4, <1>5 DEF LossInv, Accounted, AfterStop

\* What is let go of without an answer is lost.
LEMMA LetGo ==
  ASSUME ResolvedInv, NEW x \in Held, Held' = Held \ {x}, UNCHANGED <<entered, resolved>>
  PROVE  ResolvedInv' /\ x \notin Lost /\ Lost' = Lost \cup {x}
<1>1. Range(entered)' = Range(entered)
  OBVIOUS
<1>2. Lost' = Range(entered)' \ (Held' \cup resolved')
  BY DEF Lost, Held
<1> QED
  BY <1>1, <1>2, LostSplit DEF ResolvedInv

\* What is let go of with an answer is resolved.
LEMMA LetGoAnswered ==
  ASSUME ResolvedInv, NEW x \in Held, Held' = Held \ {x}, UNCHANGED entered,
         resolved' = resolved \cup {x}
  PROVE  ResolvedInv' /\ Lost' = Lost
<1>1. Range(entered)' = Range(entered)
  OBVIOUS
<1>2. Lost' = Range(entered)' \ (Held' \cup resolved')
  BY DEF Lost, Held
<1> QED
  BY <1>1, <1>2, LostSplit DEF ResolvedInv

LEMMA HoldsOn ==
  ASSUME ResolvedInv, Held' = Held, UNCHANGED <<entered, resolved>>
  PROVE  ResolvedInv' /\ Lost' = Lost
<1>1. Range(entered)' = Range(entered)
  OBVIOUS
<1>2. Lost' = Range(entered)' \ (Held' \cup resolved')
  BY DEF Lost, Held
<1> QED
  BY <1>1, <1>2, LostSplit DEF ResolvedInv

\* The drain loop lets go of the message it has replayed, and of no other.
LEMMA DrainLoopHeld ==
  ASSUME IInv, NEW m \in Msgs, DrainLoop(m), task[m] # "done",
         \A k \in Msgs : k # m => ~Replaying(k)
  PROVE  Held' = Held \ (IF Replaying(m) THEN {item[m]} ELSE {})
<1> DEFINE mine == IF Replaying(m) THEN {item[m]} ELSE {}
<1>1. Replayed = mine
  BY DEF Replayed
<1>2. \A i \in 1..Len(queue) : queue[i] \notin mine /\ queue[i] \in Msgs
  <2>1. queue \in Seq(Msgs)
    BY DEF IInv, TypeOK
  <2> QED
    BY <2>1, BeforeIrreflexive, ElementOfSeq DEF IInv, HistoryInv, OrderInv
<1>3. queue \in Seq(Msgs) /\ \A x : x \in Range(queue) <=> \E i \in 1..Len(queue) : queue[i] = x
  BY ByPosition DEF IInv, TypeOK
<1>4. CASE queue = <<>>
  <2>1. \A k \in Msgs : item'[k] = IF k = m THEN m ELSE item[k]
    BY <1>4 DEF DrainLoop, IInv, TypeOK
  <2>2. Replayed' = {}
    BY <2>1 DEF Replayed, Replaying
  <2>3. queue' = queue /\ Range(queue) = {}
    BY <1>3, <1>4 DEF DrainLoop
  <2> QED
    BY <1>1, <2>2, <2>3 DEF Held
<1>5. CASE queue # <<>>
  <2>1. queue' = Tail(queue) /\ item' = [item EXCEPT ![m] = Head(queue)]
    BY <1>5 DEF DrainLoop
  <2>2. /\ queue' \in Seq(Msgs) /\ Len(queue') = Len(queue) - 1
        /\ Head(queue) = queue[1] /\ Len(queue) >= 1 /\ Len(queue) \in Nat
        /\ \A i \in 1..Len(queue') : queue'[i] = queue[i + 1]
    BY <1>5, <2>1, PopFacts, LenProperties DEF IInv, TypeOK
  <2>3. \A k \in Msgs : item'[k] = IF k = m THEN queue[1] ELSE item[k]
    BY <2>1, <2>2 DEF IInv, TypeOK
  <2>4. queue[1] # m
    <3>1. 1 \in 1..Len(queue) /\ queue[1] \in Msgs
      BY <1>2, <2>2
    <3> QED
      BY <3>1, EndedIfEntered
  <2>5. Replayed' = {queue[1]}
    BY <2>3, <2>4 DEF Replayed, Replaying
  <2>6. \A x : x \in Range(queue)' <=> \E i \in 1..Len(queue') : queue'[i] = x
    BY <2>2, ByPosition
  <2>7. Range(queue)' \cup {queue[1]} = Range(queue)
    <3>1. \A x : x \in Range(queue)' => x \in Range(queue)
      <4>1. \A i \in 1..Len(queue') : i + 1 \in 1..Len(queue)
        BY <2>2
      <4> QED
        BY <1>3, <2>2, <2>6, <4>1
    <3>2. \A i \in 1..Len(queue) : i # 1 => queue[i] \in Range(queue)'
      <4>1. \A i \in 1..Len(queue) : i # 1 => i - 1 \in 1..Len(queue') /\ queue'[i - 1] = queue[i]
        BY <2>2
      <4> QED
        BY <2>6, <4>1
    <3>3. queue[1] \in Range(queue)
      BY <1>3, <2>2
    <3> QED
      BY <1>3, <3>1, <3>2, <3>3
  <2>8. Range(queue) \cap mine = {}
    BY <1>2, <1>3
  <2> HIDE DEF mine
  <2>9. Held' = Range(queue) /\ Held = Range(queue) \cup mine
    BY <1>1, <2>5, <2>7 DEF Held
  <2> QED
    BY <2>8, <2>9 DEF mine
<1> QED
  BY <1>4, <1>5

\* A replay that failed goes back to the front of the queue, which drops its youngest if
\* it is full.
LEMMA PutFrontHeld ==
  ASSUME IInv, NEW m \in Msgs, Replaying(m), Put(item[m], TRUE),
         item' = [item EXCEPT ![m] = m]
  PROVE  \/ dropped' = dropped /\ Held' = Held
         \/ dropped' = dropped + 1 /\ \E y \in Held : Held' = Held \ {y}
<1> DEFINE x == item[m]
           q == Len(queue)
<1>1. x \in Msgs /\ OfflineMax > 0 /\ OfflineMax \in Nat /\ queue \in Seq(Msgs) /\ q \in Nat
      /\ q <= OfflineMax
  BY LenProperties, InferenceAssumption DEF IInv, TypeOK, HistoryInv, EnteredInv
<1>2. /\ queue' \in Seq(Msgs)
      /\ Len(queue') = q + (IF q = OfflineMax THEN 0 ELSE 1)
      /\ dropped' = dropped + (IF q = OfflineMax THEN 1 ELSE 0)
      /\ \A i \in 1..Len(queue') : queue'[i] = IF i = 1 THEN x ELSE queue[i - 1]
  BY <1>1, PutFrontFacts DEF IInv
<1>3. Replayed = {x} /\ Replayed' = {}
  <2>1. \A k \in Msgs : item'[k] = IF k = m THEN m ELSE item[k]
    BY DEF IInv, TypeOK
  <2>2. \A k \in Msgs : Replaying(k) => k = m
    BY DEF IInv, HistoryInv, ReplayInv
  <2> QED
    BY <2>1, <2>2 DEF Replayed, Replaying
<1>4. /\ \A z : z \in Range(queue) <=> \E i \in 1..q : queue[i] = z
      /\ \A z : z \in Range(queue)' <=> \E i \in 1..Len(queue') : queue'[i] = z
  BY <1>1, <1>2, ByPosition
<1>5. /\ \A i \in 1..q : queue[i] # x
      /\ \A i, j \in 1..q : i < j => queue[i] # queue[j]
  <2>1. \A i \in 1..q : queue[i] \in Msgs
    BY <1>1, ElementOfSeq
  <2> QED
    BY <2>1, BeforeIrreflexive DEF IInv, HistoryInv, OrderInv
<1> HIDE DEF x
<1>6. x \in Range(queue)'
  <2>1. 1 \in 1..Len(queue') /\ queue'[1] = x
    BY <1>1, <1>2
  <2> QED
    BY <1>4, <2>1
<1>7. \A i \in 1..Len(queue') : i = 1 \/ (i - 1 \in 1..q /\ queue'[i] = queue[i - 1])
  BY <1>1, <1>2
<1>8. \A i \in 1..Len(queue') : queue'[i] = x \/ \E j \in 1..q : queue[j] = queue'[i]
  BY <1>2, <1>7
<1>9. CASE q # OfflineMax
  <2>1. \A i \in 1..q : i + 1 \in 1..Len(queue') /\ queue'[i + 1] = queue[i]
    BY <1>1, <1>2, <1>9
  <2>2. Range(queue)' = Range(queue) \cup {x}
    BY <1>4, <1>6, <1>8, <2>1
  <2>3. Held' = Held
    BY <1>3, <2>2 DEF Held
  <2>4. dropped \in Nat /\ dropped' = dropped + 0
    BY <1>2, <1>9 DEF IInv, TypeOK
  <2> QED
    BY <2>3, <2>4
<1>10. CASE q = OfflineMax
  <2> DEFINE y == queue[q]
  <2>1. q \in 1..q /\ y \in Range(queue) /\ y # x
    BY <1>1, <1>4, <1>5, <1>10
  <2>2. \A i \in 1..q : i # q => i + 1 \in 1..Len(queue') /\ queue'[i + 1] = queue[i]
    BY <1>1, <1>2, <1>10
  <2>3. y \notin Range(queue)'
    <3>1. \A i \in 1..Len(queue') : queue'[i] # y
      <4> SUFFICES ASSUME NEW i \in 1..Len(queue') PROVE queue'[i] # y
        OBVIOUS
      <4>1. CASE i = 1
        BY <1>2, <2>1, <4>1
      <4>2. CASE i # 1
        <5>1. i - 1 \in 1..q /\ queue'[i] = queue[i - 1] /\ i - 1 < q
          BY <1>1, <1>2, <1>10, <4>2
        <5> QED
          BY <1>5, <2>1, <5>1
      <4> QED
        BY <4>1, <4>2
    <3> QED
      BY <1>4, <3>1
  <2>4. \A z \in Range(queue) : z # y => z \in Range(queue)'
    BY <1>4, <2>2
  <2> HIDE DEF y
  <2>5. Range(queue)' = (Range(queue) \cup {x}) \ {y}
    BY <1>4, <1>6, <1>8, <2>3, <2>4
  <2>6. Held' = Held \ {y} /\ y \in Held
    BY <1>3, <2>1, <2>5 DEF Held
  <2>7. dropped' = dropped + 1
    BY <1>2, <1>10
  <2> QED
    BY <2>6, <2>7
<1> QED
  BY <1>9, <1>10

\* A message queued for the first time joins what is held; a full queue drops its oldest.
LEMMA PutBackHeld ==
  ASSUME IInv, ResolvedInv, NEW m \in Msgs, task[m] # "done", OfflineMax > 0, Put(m, FALSE),
         item' = item, entered' = Append(entered, m), resolved' = resolved
  PROVE  /\ ResolvedInv'
         /\ \/ dropped' = dropped /\ Lost' = Lost
            \/ dropped' = dropped + 1 /\ \E y : y \notin Lost /\ Lost' = Lost \cup {y}
<1> DEFINE q == Len(queue)
<1>1. queue \in Seq(Msgs) /\ q \in Nat /\ entered \in Seq(Msgs) /\ dropped \in Nat
  BY LenProperties DEF IInv, TypeOK
<1>2. PICK d \in 0..1 :
          /\ d = IF q = OfflineMax THEN 1 ELSE 0
          /\ dropped' = dropped + d
          /\ Len(queue') = q - d + 1
          /\ \A i \in 1..q - d : queue'[i] = queue[i + d]
          /\ queue'[Len(queue')] = m
  BY PutBackFacts DEF IInv
<1>3. queue' \in Seq(Msgs)
  BY PutBackFacts DEF IInv
<1>4. /\ \A z : z \in Range(queue) <=> \E i \in 1..q : queue[i] = z
      /\ \A z : z \in Range(queue)' <=> \E i \in 1..Len(queue') : queue'[i] = z
  BY <1>1, <1>3, ByPosition
<1>5. Range(entered)' = Range(entered) \cup {m} /\ m \notin Range(entered)
  <2>1. /\ entered' \in Seq(Msgs) /\ Len(entered') = Len(entered) + 1 /\ Len(entered) \in Nat
        /\ \A i \in 1..Len(entered) : entered'[i] = entered[i]
        /\ entered'[Len(entered) + 1] = m
    BY <1>1, AppendProperties, LenProperties
  <2>2. /\ \A z : z \in Range(entered) <=> \E i \in 1..Len(entered) : entered[i] = z
        /\ \A z : z \in Range(entered)' <=> \E i \in 1..Len(entered') : entered'[i] = z
    <3>1. entered \in Seq(Msgs) /\ entered' \in Seq(Msgs)
      BY <1>1, <2>1
    <3>2. \A z : z \in Range(entered) <=> \E i \in 1..Len(entered) : entered[i] = z
      BY <3>1, ByPosition
    <3>3. \A z : z \in Range(entered)' <=> \E i \in 1..Len(entered') : entered'[i] = z
      BY <3>1, ByPosition
    <3> QED
      BY <3>2, <3>3
  <2>3. m \notin Range(entered)
    BY <2>2, EndedIfEntered
  <2>4. \A i \in 1..Len(entered') : i \in 1..Len(entered) \/ i = Len(entered) + 1
    BY <2>1
  <2>5. \A i \in 1..Len(entered) : i \in 1..Len(entered')
    BY <2>1
  <2>6. Len(entered) + 1 \in 1..Len(entered')
    BY <2>1
  <2> QED
    BY <2>1, <2>2, <2>3, <2>4, <2>5, <2>6
<1>6. Replayed' = Replayed
  BY DEF Replayed, Replaying
<1>7. m \in Range(queue)'
  <2>1. Len(queue') \in 1..Len(queue')
    BY <1>1, <1>2
  <2> QED
    BY <1>2, <1>4, <2>1
<1>8. \A i \in 1..Len(queue') : i = Len(queue') \/ (i \in 1..q - d /\ i + d \in 1..q)
  BY <1>1, <1>2
<1>9. CASE d = 0
  <2>1. \A i \in 1..q : i \in 1..Len(queue') /\ queue'[i] = queue[i]
    BY <1>1, <1>2, <1>9
  <2>2. \A i \in 1..Len(queue') : queue'[i] = m \/ (i \in 1..q /\ queue'[i] = queue[i])
    BY <1>2, <1>8, <1>9, <2>1
  <2>3. Range(queue)' = Range(queue) \cup {m}
    BY <1>4, <1>7, <2>1, <2>2
  <2>4. Held' = Held \cup {m}
    BY <1>6, <2>3 DEF Held
  <2>5. Lost' = Range(entered)' \ (Held' \cup resolved')
    BY DEF Lost, Held
  <2>6. Lost' = Lost /\ ResolvedInv'
    BY <1>5, <2>4, <2>5, LostSplit DEF ResolvedInv
  <2>7. dropped' = dropped
    BY <1>1, <1>2, <1>9
  <2> QED
    BY <2>6, <2>7
<1>10. CASE d = 1
  <2> DEFINE y == queue[1]
  <2>1. 1 \in 1..q /\ y \in Range(queue)
    BY <1>1, <1>2, <1>4, <1>10
  <2>2. \A i \in 1..Len(queue') :
            queue'[i] = m \/ (i + 1 \in 1..q /\ 1 < i + 1 /\ queue'[i] = queue[i + 1])
    BY <1>2, <1>8, <1>10
  <2>3. \A i \in 1..q : i = 1 \/ (i - 1 \in 1..Len(queue') /\ queue'[i - 1] = queue[i])
    <3> SUFFICES ASSUME NEW i \in 1..q, i # 1
                 PROVE  i - 1 \in 1..Len(queue') /\ queue'[i - 1] = queue[i]
      OBVIOUS
    <3>1. i - 1 \in 1..q - d /\ i - 1 + d = i
      BY <1>1, <1>10
    <3>2. queue'[i - 1] = queue[i - 1 + d]
      BY <1>2, <3>1
    <3> QED
      BY <1>1, <1>2, <1>10, <3>1, <3>2
  <2>4. \A j \in 1..q : 1 < j => queue[j] # y
    <3>1. \A i \in 1..q : queue[i] \in Msgs
      BY <1>1, ElementOfSeq
    <3> QED
      BY <2>1, <3>1, BeforeIrreflexive DEF IInv, HistoryInv, OrderInv
  <2>5. \A k \in Msgs : Replaying(k) => item[k] # y
    <3>1. y \in Msgs
      BY <1>1, <2>1, ElementOfSeq
    <3> QED
      BY <2>1, <3>1, BeforeIrreflexive DEF IInv, HistoryInv, OrderInv
  <2>6. y \notin Replayed
    BY <2>5 DEF Replayed
  <2>7. y # m
    BY <1>5, <2>1 DEF ResolvedInv, Held
  <2> HIDE DEF y
  <2>8. y \notin Range(queue)'
    BY <1>4, <2>2, <2>4, <2>7
  <2>9. \A i \in 1..q : queue[i] = y \/ queue[i] \in Range(queue)'
    BY <1>4, <2>3 DEF y
  <2>10. \A i \in 1..Len(queue') : queue'[i] \in Range(queue) \cup {m}
    BY <1>4, <2>2
  <2>11. Range(queue)' = (Range(queue) \cup {m}) \ {y}
    BY <1>4, <1>7, <2>8, <2>9, <2>10
  <2>12. Held' = (Held \cup {m}) \ {y} /\ y \in Held
    BY <1>6, <2>1, <2>6, <2>7, <2>11 DEF Held
  <2>13. Lost' = Range(entered)' \ (Held' \cup resolved')
    BY DEF Lost, Held
  <2>14. y \notin Lost /\ Lost' = Lost \cup {y} /\ ResolvedInv'
    BY <1>5, <2>7, <2>12, <2>13, LostSplit DEF ResolvedInv
  <2>15. dropped' = dropped + 1
    BY <1>1, <1>2, <1>10
  <2> QED
    BY <2>14, <2>15
<1> QED
  BY <1>9, <1>10

\* The message in a task's hands when it replays.
LEMMA ReplayedHeld ==
  ASSUME IInv, NEW m \in Msgs, Replaying(m)
  PROVE  item[m] \in Held /\ Replayed = {item[m]} /\ \A k \in Msgs : k # m => ~Replaying(k)
<1>1. \A k \in Msgs : k # m => ~Replaying(k)
  BY DEF IInv, HistoryInv, ReplayInv
<1> QED
  BY <1>1 DEF Held, Replayed

\* A step that leaves the messages where they are.
LEMMA Moves ==
  ASSUME IInv, IInv', AccountInv, UNCHANGED <<item, queue, entered, resolved, dropped>>,
         faults' \in {faults, faults + 1}, AfterStop' \in {AfterStop, AfterStop + 1}
  PROVE  AccountInv'
<1>1. Held' = Held
  BY DEF Held, Replayed, Replaying
<1>2. ResolvedInv' /\ Lost' = Lost
  BY <1>1, HoldsOn DEF AccountInv
<1>3. LossInv'
  BY <1>2, NothingLost DEF AccountInv, IInv
<1> QED
  BY <1>2, <1>3 DEF AccountInv

\* A task that ends with an exception drops at most the message it replays.
LEMMA RaiseAccounts ==
  ASSUME IInv, IInv', AccountInv, NEW m \in Msgs, Raise(m), AfterStop' = AfterStop
  PROVE  AccountInv'
<1>1. /\ faults' = faults + 1 /\ item' = [item EXCEPT ![m] = m]
      /\ UNCHANGED <<queue, entered, resolved, dropped>>
  BY DEF Raise
<1>2. item \in [Msgs -> Msgs]
  BY DEF IInv, TypeOK
<1>3. CASE ~Replaying(m)
  <2>1. item' = item
    BY <1>1, <1>2, <1>3 DEF Replaying
  <2> QED
    BY <1>1, <2>1, Moves
<1>4. CASE Replaying(m)
  <2>1. Replayed' = {}
    BY <1>1, <1>2, <1>4, ReplayedHeld DEF Replayed, Replaying
  <2>2. item[m] \notin Range(queue)
    <3>1. queue \in Seq(Msgs) /\ \A i \in 1..Len(queue) : queue[i] # item[m]
      BY <1>4, BeforeIrreflexive DEF IInv, TypeOK, HistoryInv, OrderInv
    <3> QED
      BY <3>1, ByPosition
  <2>3. Range(queue)' = Range(queue)
    BY <1>1
  <2>4. Held' = Held \ {item[m]} /\ item[m] \in Held
    BY <1>4, <2>1, <2>2, <2>3, ReplayedHeld DEF Held
  <2>5. ResolvedInv' /\ item[m] \notin Lost /\ Lost' = Lost \cup {item[m]}
    BY <1>1, <2>4, LetGo DEF AccountInv
  <2>6. LossInv'
    BY <1>1, <2>5, OneLost DEF AccountInv, IInv
  <2> QED
    BY <2>5, <2>6 DEF AccountInv
<1> QED
  BY <1>3, <1>4

\* A replay that was answered leaves the accounts alone.
LEMMA AnsweredAccounts ==
  ASSUME IInv, IInv', AccountInv, NEW m \in Msgs, Replaying(m), DrainLoop(m), task[m] # "done",
         resolved' = resolved \cup {item[m]}, UNCHANGED <<entered, dropped, faults>>,
         AfterStop' = AfterStop
  PROVE  AccountInv'
<1>1. Held' = Held \ {item[m]} /\ item[m] \in Held
  BY DrainLoopHeld, ReplayedHeld
<1>2. ResolvedInv' /\ Lost' = Lost
  BY <1>1, LetGoAnswered DEF AccountInv
<1>3. LossInv'
  BY <1>2, NothingLost DEF AccountInv, IInv
<1> QED
  BY <1>2, <1>3 DEF AccountInv

LEMMA AnswerAccounts ==
  ASSUME IInv, IInv', AccountInv, NEW m \in Msgs, Answer(m)
  PROVE  AccountInv'
<1>1. task[m] # "done" /\ AfterStop' = AfterStop
  BY DEF Answer, AfterStop
<1>2. CASE Summary(m)
  BY <1>1, <1>2, Moves DEF Summary, queueVars
<1>3. CASE EmptySummary(m)
  <2>1. CASE Replaying(m)
    BY <1>1, <1>3, <2>1, AnsweredAccounts DEF EmptySummary
  <2>2. CASE ~Replaying(m)
    BY <1>1, <1>3, <2>2, Moves DEF EmptySummary
  <2> QED
    BY <2>1, <2>2
<1>4. CASE Permanent(m)
  <2>1. CASE Replaying(m)
    <3>1. /\ DrainLoop(m) /\ dropped' = dropped + 1
          /\ UNCHANGED <<entered, resolved, faults>>
      BY <1>4, <2>1 DEF Permanent
    <3>2. Held' = Held \ {item[m]} /\ item[m] \in Held
      BY <1>1, <2>1, <3>1, DrainLoopHeld, ReplayedHeld
    <3>3. ResolvedInv' /\ item[m] \notin Lost /\ Lost' = Lost \cup {item[m]}
      BY <3>1, <3>2, LetGo DEF AccountInv
    <3>4. LossInv'
      BY <1>1, <3>1, <3>3, OneLost DEF AccountInv, IInv
    <3> QED
      BY <3>3, <3>4 DEF AccountInv
  <2>2. CASE ~Replaying(m)
    BY <1>1, <1>4, <2>2, Moves DEF Permanent
  <2> QED
    BY <2>1, <2>2
<1>5. CASE Raise(m)
  BY <1>1, <1>5, RaiseAccounts
<1>6. CASE Unreachable(m)
  <2>1. item' = [item EXCEPT ![m] = m] /\ UNCHANGED <<resolved, faults>>
    BY <1>6 DEF Unreachable
  <2>2. CASE Replaying(m)
    <3>1. Put(item[m], TRUE) /\ UNCHANGED entered
      BY <1>6, <2>2 DEF Unreachable
    <3>2. CASE dropped' = dropped /\ Held' = Held
      <4>1. ResolvedInv' /\ Lost' = Lost
        BY <2>1, <3>1, <3>2, HoldsOn DEF AccountInv
      <4>2. LossInv'
        BY <1>1, <2>1, <3>2, <4>1, NothingLost DEF AccountInv, IInv
      <4> QED
        BY <4>1, <4>2 DEF AccountInv
    <3>3. ASSUME dropped' = dropped + 1, NEW y \in Held, Held' = Held \ {y} PROVE AccountInv'
      <4>1. ResolvedInv' /\ y \notin Lost /\ Lost' = Lost \cup {y}
        BY <2>1, <3>1, <3>3, LetGo DEF AccountInv
      <4>2. LossInv'
        BY <1>1, <2>1, <3>3, <4>1, OneLost DEF AccountInv, IInv
      <4> QED
        BY <4>1, <4>2 DEF AccountInv
    <3> QED
      BY <2>1, <2>2, <3>1, <3>2, <3>3, PutFrontHeld
  <2>3. ASSUME ~Replaying(m) PROVE item' = item
    BY <2>1, <2>3 DEF Replaying, IInv, TypeOK
  <2>4. CASE ~Replaying(m) /\ OfflineMax > 0
    <3>1. Put(m, FALSE) /\ entered' = Append(entered, m)
      BY <1>6, <2>4 DEF Unreachable
    <3>2. /\ ResolvedInv'
          /\ \/ dropped' = dropped /\ Lost' = Lost
             \/ dropped' = dropped + 1 /\ \E y : y \notin Lost /\ Lost' = Lost \cup {y}
      BY <1>1, <2>1, <2>3, <2>4, <3>1, PutBackHeld DEF AccountInv
    <3>3. CASE dropped' = dropped /\ Lost' = Lost
      BY <1>1, <2>1, <3>2, <3>3, NothingLost DEF AccountInv, IInv
    <3>4. ASSUME dropped' = dropped + 1, NEW y, y \notin Lost, Lost' = Lost \cup {y}
          PROVE  AccountInv'
      BY <1>1, <2>1, <3>2, <3>4, OneLost DEF AccountInv, IInv
    <3> QED
      BY <3>2, <3>3, <3>4
  <2>5. CASE ~Replaying(m) /\ ~(OfflineMax > 0)
    BY <1>1, <1>6, <2>1, <2>3, <2>5, Moves DEF Unreachable
  <2> QED
    BY <2>2, <2>4, <2>5
<1> QED
  BY <1>2, <1>3, <1>4, <1>5, <1>6 DEF Answer

LEMMA RunAccounts ==
  ASSUME IInv, IInv', AccountInv, NEW m \in Msgs, Run(m)
  PROVE  AccountInv'
<1>1. service' = service /\ AfterStop' = AfterStop
  BY DEF Run, Space, Wake, Permit, Answer, Backoff, Retry, Published, Lock, Reap, AfterStop
<1>2. CASE Space(m) \/ Wake(m) \/ Permit(m) \/ Backoff(m) \/ Retry(m) \/ Reap(m)
  <2>1. UNCHANGED <<item, queue, entered, resolved, dropped, faults>>
    BY <1>2 DEF Space, Wake, Permit, Backoff, Retry, Reap, queueVars
  <2> QED
    BY <1>1, <2>1, Moves
<1>3. CASE Lock(m)
  <2>1. /\ DrainLoop(m) /\ task[m] # "done" /\ drainer \notin Msgs
        /\ UNCHANGED <<dropped, entered, resolved, faults>>
    BY <1>3, InferenceAssumption DEF Lock
  <2>2. \A k \in Msgs : ~Replaying(k)
    BY <2>1 DEF IInv, HistoryInv, ReplayInv
  <2>3. Held' = Held
    BY <2>1, <2>2, DrainLoopHeld
  <2>4. ResolvedInv' /\ Lost' = Lost
    BY <2>1, <2>3, HoldsOn DEF AccountInv
  <2>5. LossInv'
    BY <1>1, <2>1, <2>4, NothingLost DEF AccountInv, IInv
  <2> QED
    BY <2>4, <2>5 DEF AccountInv
<1>4. CASE Published(m)
  <2>1. CASE /\ Replaying(m) /\ DrainLoop(m) /\ resolved' = resolved \cup {item[m]}
             /\ UNCHANGED <<dropped, entered, faults>>
    BY <1>1, <1>4, <2>1, AnsweredAccounts DEF Published
  <2>2. CASE UNCHANGED <<item, queueVars, faults>>
    BY <1>1, <2>2, Moves DEF queueVars
  <2>3. CASE Raise(m)
    BY <1>1, <2>3, RaiseAccounts
  <2> QED
    BY <1>4, <2>1, <2>2, <2>3 DEF Published
<1> QED
  BY <1>2, <1>3, <1>4, AnswerAccounts DEF Run

\* stop() takes at most one message out of a replay's hands.
LEMMA StopAccounts ==
  ASSUME IInv, IInv', AccountInv, Stop
  PROVE  AccountInv'
<1>1. /\ AfterStop' = AfterStop + 1 /\ item' = [m \in Msgs |-> m]
      /\ UNCHANGED <<queue, dropped, entered, resolved, faults>>
  BY DEF Stop, AfterStop
<1>2. Replayed' = {}
  BY <1>1 DEF Replayed, Replaying
<1>3. CASE \A m \in Msgs : ~Replaying(m)
  <2>1. Replayed = {}
    BY <1>3 DEF Replayed
  <2>2. Held' = Held
    BY <1>1, <1>2, <2>1 DEF Held
  <2>3. ResolvedInv' /\ Lost' = Lost
    BY <1>1, <2>2, HoldsOn DEF AccountInv
  <2>4. LossInv'
    BY <1>1, <2>3, NothingLost DEF AccountInv, IInv
  <2> QED
    BY <2>3, <2>4 DEF AccountInv
<1>4. ASSUME NEW m \in Msgs, Replaying(m) PROVE AccountInv'
  <2>1. item[m] \notin Range(queue)
    <3>1. queue \in Seq(Msgs) /\ \A i \in 1..Len(queue) : queue[i] # item[m]
      BY <1>4, BeforeIrreflexive DEF IInv, TypeOK, HistoryInv, OrderInv
    <3> QED
      BY <3>1, ByPosition
  <2>2. Range(queue)' = Range(queue)
    BY <1>1
  <2>3. Held' = Held \ {item[m]} /\ item[m] \in Held
    BY <1>2, <1>4, <2>1, <2>2, ReplayedHeld DEF Held
  <2>4. ResolvedInv' /\ item[m] \notin Lost /\ Lost' = Lost \cup {item[m]}
    BY <1>1, <2>3, LetGo DEF AccountInv
  <2>5. LossInv'
    BY <1>1, <2>4, OneLost DEF AccountInv, IInv
  <2> QED
    BY <2>4, <2>5 DEF AccountInv
<1> QED
  BY <1>3, <1>4

LEMMA NextAccounts == IInv /\ IInv' /\ AccountInv /\ [Next]_vars => AccountInv'
<1> SUFFICES ASSUME IInv, IInv', AccountInv, [Next]_vars PROVE AccountInv'
  OBVIOUS
<1>1. CASE UNCHANGED vars
  <2>1. UNCHANGED <<item, queue, entered, resolved, dropped, faults, service>>
    BY <1>1 DEF vars, taskVars, queueVars
  <2>2. AfterStop' = AfterStop
    BY <2>1 DEF AfterStop
  <2> QED
    BY <2>1, <2>2, Moves
<1>2. CASE Start \/ Stopped \/ Tick
  <2>1. UNCHANGED <<item, queue, entered, resolved, dropped, faults>> /\ AfterStop' = AfterStop
    BY <1>2 DEF Start, Stopped, Tick, taskVars, queueVars, AfterStop
  <2> QED
    BY <2>1, Moves
<1>3. ASSUME NEW m \in Msgs, Handle(m) PROVE AccountInv'
  <2>1. UNCHANGED <<item, queue, entered, resolved, dropped, faults>> /\ AfterStop' = AfterStop
    BY <1>3 DEF Handle, queueVars, AfterStop
  <2> QED
    BY <2>1, Moves
<1> QED
  BY <1>1, <1>2, <1>3, StopAccounts, RunAccounts DEF Next

\* However failures, replays, new failures during a replay and a stop interleave, whatever
\* the lengths: the offline queue counts each message it loses, and loses none that it does
\* not count, but for what an exception or the stop took out of a replay's hands.
THEOREM AccountedTheorem == Spec => []Accounted
<1>1. Init => AccountInv
  <2> SUFFICES ASSUME Init PROVE AccountInv
    OBVIOUS
  <2>1. <<>> \in Seq(Msgs) /\ Len(<<>>) = 0 /\ queue = <<>> /\ entered = <<>> /\ resolved = {}
    BY EmptySeq DEF Init
  <2>2. Range(queue) = {} /\ Range(entered) = {}
    <3>1. queue \in Seq(Msgs) /\ Len(queue) = 0 /\ entered \in Seq(Msgs) /\ Len(entered) = 0
      BY <2>1
    <3>2. \A i \in 1..0 : FALSE
      OBVIOUS
    <3>3. \A x : x \notin Range(queue)
      BY <3>1, <3>2, ByPosition
    <3>4. \A x : x \notin Range(entered)
      BY <3>1, <3>2, ByPosition
    <3> QED
      BY <3>3, <3>4
  <2>3. Replayed = {}
    BY DEF Init, Replayed, Replaying
  <2>4. Held = {} /\ Lost = {}
    BY <2>1, <2>2, <2>3 DEF Held, Lost
  <2>5. IsFiniteSet(Lost) /\ Cardinality(Lost) = 0
    BY <2>4, FS_EmptySet
  <2>6. dropped = 0 /\ faults = 0 /\ AfterStop = 0
    BY DEF Init, AfterStop
  <2>7. LossInv
    BY <2>5, <2>6 DEF LossInv, Accounted, AfterStop
  <2> QED
    BY <2>1, <2>4, <2>7 DEF AccountInv, ResolvedInv
<1>2. AccountInv => Accounted
  BY DEF AccountInv, LossInv
<1> QED
  BY <1>1, <1>2, NextAccounts, Invariant, PTL DEF Spec
=============================================================================
