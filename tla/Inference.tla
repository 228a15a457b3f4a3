------------------------------ MODULE Inference ------------------------------
(***************************************************************************)
(* The inference bridge (meshsa.inference.service and its client): each    *)
(* message the router delivers is analysed by a background task, which     *)
(* publishes the insight and then replays the messages that failed while   *)
(* the API was unreachable.                                                *)
(*                                                                         *)
(* All tasks run on one event loop; an action is what a task does between  *)
(* two awaits that can suspend it.  task[m] is the control state of the    *)
(* task created for message m and item[m] the message it analyses: m       *)
(* itself, or one it replays.  The API may answer anything.                *)
(***************************************************************************)
EXTENDS Naturals, Sequences, FiniteSets, Functions

CONSTANTS
    Msgs,            \* envelopes that pass the filters on source and prefix
    NoTask,
    MaxConcurrent,   \* NemotronConfig.max_concurrent_requests, 0 = unbounded
    MinInterval,     \* NemotronConfig.min_interval_s, in ticks
    MaxRetries,      \* NemotronConfig.max_retries
    OfflineMax,      \* NemotronConfig.offline_queue_max, 0 = disabled
    MaxPending,      \* NemotronConfig.max_pending_tasks, 0 = unbounded
    MaxFaults        \* bound on exceptions other than InferenceError

ASSUME InferenceAssumption ==
    /\ NoTask \notin Msgs
    /\ MaxConcurrent \in Nat /\ MinInterval \in Nat /\ MaxRetries \in Nat
    /\ OfflineMax \in Nat /\ MaxPending \in Nat /\ MaxFaults \in Nat

VARIABLES
    service,         \* "new", "running", "stopping" or "stopped"
    task,            \* control state of each message's task
    item,            \* the message the task is analysing
    attempt,         \* retries the client has made for it
    bg,              \* InferenceService._bg_tasks
    since,           \* time since _RateGate._last_request_at
    left,            \* what is left of the sleep in _space
    spacer,          \* holder of _RateGate._interval_lock
    queue,           \* _OfflineQueue._queue
    drainer,         \* holder of _OfflineQueue.drain_lock
    dropped,         \* _OfflineQueue._dropped
    faults,          \* exceptions other than InferenceError so far
    entered,         \* history: messages in the order they first were queued
    resolved,        \* history: messages whose replay has succeeded
    published        \* history: insights published for each message

taskVars == <<task, item, attempt, bg>>
gateVars == <<since, left, spacer>>
queueVars == <<queue, drainer, dropped, entered, resolved>>
vars == <<service, taskVars, gateVars, queueVars, faults, published>>

Init ==
    /\ service = "new"
    /\ task = [m \in Msgs |-> "none"]
    /\ item = [m \in Msgs |-> m]
    /\ attempt = [m \in Msgs |-> 0]
    /\ bg = {}
    /\ since = MinInterval
    /\ left = [m \in Msgs |-> 0]
    /\ spacer = NoTask
    /\ queue = <<>>
    /\ drainer = NoTask
    /\ dropped = 0
    /\ faults = 0
    /\ entered = <<>>
    /\ resolved = {}
    /\ published = [m \in Msgs |-> 0]

Goto(m, state) == task' = [task EXCEPT ![m] = state]

Replaying(m) == item[m] # m

-----------------------------------------------------------------------------
(* InferenceService: intake and lifecycle *)

\* start() subscribes once; a service that was stopped stays subscribed, and start()
\* returns early.
Start ==
    /\ service = "new"
    /\ service' = "running"
    /\ UNCHANGED <<taskVars, gateVars, queueVars, faults, published>>

\* handle_message: ignored unless running, shed at the cap, else a new task.
Handle(m) ==
    /\ service # "new"
    /\ task[m] = "none"
    /\ IF service # "running"
       THEN Goto(m, "ignored") /\ UNCHANGED bg
       ELSE IF MaxPending > 0 /\ Cardinality(bg) >= MaxPending
       THEN Goto(m, "shed") /\ UNCHANGED bg
       ELSE Goto(m, "space") /\ bg' = bg \cup {m}
    /\ UNCHANGED <<service, item, attempt, gateVars, queueVars, faults, published>>

\* The done callback of a finished task.
Reap(m) ==
    /\ task[m] = "done"
    /\ m \in bg
    /\ bg' = bg \ {m}
    /\ UNCHANGED <<service, task, item, attempt, gateVars, queueVars, faults, published>>

\* stop() cancels every task.  Each of them is suspended at an await, where it raises
\* and gives back its locks; a message popped for replay is gone.
Stop ==
    /\ service = "running"
    /\ service' = "stopping"
    /\ task' = [m \in Msgs |-> IF m \in bg THEN "done" ELSE task[m]]
    /\ item' = [m \in Msgs |-> m]
    /\ attempt' = [m \in Msgs |-> 0]
    /\ left' = [m \in Msgs |-> 0]
    /\ spacer' = NoTask
    /\ drainer' = NoTask
    /\ UNCHANGED <<bg, since, queue, dropped, entered, resolved, faults, published>>

\* ... and gathers them.
Stopped ==
    /\ service = "stopping"
    /\ \A m \in bg : task[m] = "done"
    /\ service' = "stopped"
    /\ bg' = {}
    /\ UNCHANGED <<task, item, attempt, gateVars, queueVars, faults, published>>

-----------------------------------------------------------------------------
(* _RateGate *)

SpaceUnlocked(m) ==
    /\ task[m] = "space"
    /\ IF since < MinInterval
       THEN /\ left' = [left EXCEPT ![m] = MinInterval - since]
            /\ Goto(m, "sleep")
            /\ UNCHANGED since
       ELSE /\ since' = 0
            /\ Goto(m, "permit")
            /\ UNCHANGED left
    /\ UNCHANGED <<service, spacer, item, attempt, bg, queueVars, faults, published>>

\* _space: the wait between two requests is slept under the interval lock.
Space(m) ==
    /\ task[m] = "space"
    /\ \/ /\ MinInterval = 0
          /\ Goto(m, "permit")
          /\ UNCHANGED gateVars
       \/ /\ MinInterval > 0
          /\ spacer = NoTask
          /\ IF since < MinInterval
             THEN /\ spacer' = m
                  /\ left' = [left EXCEPT ![m] = MinInterval - since]
                  /\ Goto(m, "sleep")
                  /\ UNCHANGED since
             ELSE /\ since' = 0
                  /\ Goto(m, "permit")
                  /\ UNCHANGED <<spacer, left>>
    /\ UNCHANGED <<service, item, attempt, bg, queueVars, faults, published>>

Wake(m) ==
    /\ task[m] = "sleep"
    /\ left[m] = 0
    /\ since' = 0
    /\ spacer' = NoTask
    /\ Goto(m, "permit")
    /\ UNCHANGED <<service, item, attempt, bg, left, queueVars, faults, published>>

\* Time passes.
Tick ==
    /\ since' = IF since < MinInterval THEN since + 1 ELSE since
    /\ left' = [m \in Msgs |-> IF left[m] > 0 THEN left[m] - 1 ELSE 0]
    /\ <<since', left'>> # <<since, left>>
    /\ UNCHANGED <<service, taskVars, spacer, queueVars, faults, published>>

HoldingThroughDrain ==
    {m \in Msgs : task[m] \in {"call", "backoff", "publish", "lock"} \/ Replaying(m)}

\* Tasks that hold a permit: it is kept through the client's retries.
Holding == {m \in Msgs : task[m] \in {"call", "backoff"}}

Permit(m) ==
    /\ task[m] = "permit"
    /\ MaxConcurrent > 0 => Cardinality(Holding) < MaxConcurrent
    /\ Goto(m, "call")
    /\ UNCHANGED <<service, item, attempt, bg, gateVars, queueVars, faults, published>>

-----------------------------------------------------------------------------
(* _OfflineQueue *)

\* What a full deque keeps when an item is added at one end.
Kept(front) ==
    IF Len(queue) < OfflineMax THEN queue
    ELSE IF front THEN SubSeq(queue, 1, OfflineMax - 1) ELSE Tail(queue)

PutUnbounded(m, front) ==
    /\ queue' = IF front THEN <<m>> \o queue ELSE Append(Kept(FALSE), m)
    /\ dropped' = IF Len(queue) = OfflineMax /\ ~front THEN dropped + 1 ELSE dropped

PutCountsBack(m, front) ==
    /\ queue' = IF front THEN <<m>> \o Kept(front) ELSE Append(Kept(front), m)
    /\ dropped' = IF Len(queue) = OfflineMax /\ ~front THEN dropped + 1 ELSE dropped

PutBack(m, front) ==
    /\ queue' = Append(Kept(FALSE), m)
    /\ dropped' = IF Len(queue) = OfflineMax THEN dropped + 1 ELSE dropped

\* put: a full deque loses the item at the other end, which is counted.
Put(m, front) ==
    /\ queue' = IF front THEN <<m>> \o Kept(front) ELSE Append(Kept(front), m)
    /\ dropped' = IF Len(queue) = OfflineMax THEN dropped + 1 ELSE dropped

\* The head of the drain loop, entered with the lock held: pop the oldest message and
\* analyse it, or give the lock back and finish.
DrainLoop(m) ==
    IF queue = <<>>
    THEN /\ Goto(m, "done")
         /\ item' = [item EXCEPT ![m] = m]
         /\ drainer' = NoTask
         /\ UNCHANGED queue
    ELSE /\ Goto(m, "space")
         /\ item' = [item EXCEPT ![m] = Head(queue)]
         /\ drainer' = m
         /\ queue' = Tail(queue)

\* A task waits for the drain lock.
Lock(m) ==
    /\ task[m] = "lock"
    /\ drainer = NoTask
    /\ DrainLoop(m)
    /\ UNCHANGED <<service, attempt, bg, gateVars, dropped, entered, resolved, faults, published>>

-----------------------------------------------------------------------------
(* NemotronClient.analyze, and what the service does with its outcome *)

\* A summary: the insight is handed to the router.
Summary(m) ==
    /\ published' = [published EXCEPT ![item[m]] = @ + 1]
    /\ Goto(m, "publish")
    /\ UNCHANGED <<item, queueVars, faults>>

\* An empty summary: a live task returns, a replay goes on to the next message.
EmptySummary(m) ==
    /\ IF Replaying(m)
       THEN DrainLoop(m) /\ resolved' = resolved \cup {item[m]}
       ELSE Goto(m, "done") /\ UNCHANGED <<item, queue, drainer, resolved>>
    /\ UNCHANGED <<dropped, entered, faults, published>>

\* A transient failure that outlived the retries: the message is queued, a replay
\* goes back to the front and stops the drain.
Unreachable(m) ==
    /\ IF Replaying(m)
       THEN /\ Put(item[m], TRUE)
            /\ drainer' = NoTask
            /\ UNCHANGED entered
       ELSE /\ IF OfflineMax > 0
               THEN Put(m, FALSE) /\ entered' = Append(entered, m)
               ELSE UNCHANGED <<queue, dropped, entered>>
            /\ UNCHANGED drainer
    /\ item' = [item EXCEPT ![m] = m]
    /\ Goto(m, "done")
    /\ UNCHANGED <<resolved, faults, published>>

\* A client error or a malformed body: a replay is counted as dropped and the next one
\* tried, a live message is only logged.
Permanent(m) ==
    /\ IF Replaying(m)
       THEN DrainLoop(m) /\ dropped' = dropped + 1
       ELSE Goto(m, "done") /\ UNCHANGED <<item, queue, drainer, dropped>>
    /\ UNCHANGED <<entered, resolved, faults, published>>

\* Any other exception ends the task; a message popped for replay is gone.
Raise(m) ==
    /\ faults < MaxFaults
    /\ faults' = faults + 1
    /\ drainer' = IF drainer = m THEN NoTask ELSE drainer
    /\ item' = [item EXCEPT ![m] = m]
    /\ Goto(m, "done")
    /\ UNCHANGED <<queue, dropped, entered, resolved, published>>

\* The API answers, or fails until the retries are used up.
Answer(m) ==
    /\ task[m] = "call"
    /\ \/ Summary(m) \/ EmptySummary(m) \/ Permanent(m) \/ Raise(m)
       \/ attempt[m] = MaxRetries /\ Unreachable(m)
    /\ attempt' = [attempt EXCEPT ![m] = 0]
    /\ UNCHANGED <<service, bg, gateVars>>

\* A transient failure with retries left: back off, permit in hand.
Backoff(m) ==
    /\ task[m] = "call"
    /\ attempt[m] < MaxRetries
    /\ Goto(m, "backoff")
    /\ UNCHANGED <<service, item, attempt, bg, gateVars, queueVars, faults, published>>

Retry(m) ==
    /\ task[m] = "backoff"
    /\ attempt' = [attempt EXCEPT ![m] = @ + 1]
    /\ Goto(m, "call")
    /\ UNCHANGED <<service, item, bg, gateVars, queueVars, faults, published>>

\* publish() returns.  A live task then drains the queue, outside any permit; a replay
\* goes on to the next message.  Or publish() raises.
Published(m) ==
    /\ task[m] = "publish"
    /\ \/ /\ Replaying(m)
          /\ DrainLoop(m)
          /\ resolved' = resolved \cup {item[m]}
          /\ UNCHANGED <<dropped, entered, faults>>
       \/ /\ ~Replaying(m)
          /\ Goto(m, IF queue = <<>> THEN "done" ELSE "lock")
          /\ UNCHANGED <<item, queueVars, faults>>
       \/ Raise(m)
    /\ UNCHANGED <<service, attempt, bg, gateVars, published>>

-----------------------------------------------------------------------------

Run(m) ==
    \/ Space(m) \/ Wake(m) \/ Permit(m) \/ Answer(m) \/ Backoff(m) \/ Retry(m)
    \/ Published(m) \/ Lock(m) \/ Reap(m)

Next ==
    \/ Start \/ Stop \/ Stopped \/ Tick
    \/ \E m \in Msgs : Handle(m) \/ Run(m)

Spec == Init /\ [][Next]_vars

\* The event loop runs every task that can run, every request is answered or times out,
\* and sleeps end.
Fairness == (\A m \in Msgs : WF_vars(Run(m))) /\ WF_vars(Tick) /\ WF_vars(Stopped)

FairSpec == Spec /\ Fairness

-----------------------------------------------------------------------------
(* Properties *)

TypeOK ==
    /\ service \in {"new", "running", "stopping", "stopped"}
    /\ task \in [Msgs -> {"none", "ignored", "shed", "space", "sleep", "permit", "call",
                          "backoff", "publish", "lock", "done"}]
    /\ item \in [Msgs -> Msgs]
    /\ attempt \in [Msgs -> 0..MaxRetries]
    /\ bg \subseteq Msgs
    /\ since \in 0..MinInterval
    /\ left \in [Msgs -> 0..MinInterval]
    /\ spacer \in Msgs \cup {NoTask}
    /\ queue \in Seq(Msgs) /\ Len(queue) <= OfflineMax
    /\ drainer \in Msgs \cup {NoTask}
    /\ dropped \in Nat
    /\ faults \in Nat
    /\ entered \in Seq(Msgs)
    /\ resolved \subseteq Msgs
    /\ published \in [Msgs -> Nat]

Replayed == {item[m] : m \in {k \in Msgs : Replaying(k)}}

\* Messages that were queued and are neither waiting, being replayed nor answered.
Lost == Range(entered) \ (Range(queue) \cup Replayed \cup resolved)

\* Drop-and-count: the offline queue loses no message silently, however failures, replays
\* and new failures during a replay interleave.  Each loss is counted in offline_dropped,
\* except the one message a stop or an unexpected exception takes out of a replay's hands.
Accounted ==
    /\ dropped <= Cardinality(Lost)
    /\ Cardinality(Lost) <= dropped + faults + (IF service \in {"stopping", "stopped"} THEN 1 ELSE 0)

\* Where a message stands in the order of the first failures.
Rank(m) == CHOOSE i \in DOMAIN entered : entered[i] = m

\* The replay is FIFO: messages wait in the order they failed in, and the one being
\* replayed is older than all that wait, whatever is re-queued in front.
QueueInOrder ==
    /\ \A i, j \in DOMAIN queue : i < j => Rank(queue[i]) < Rank(queue[j])
    /\ \A m \in Replayed, i \in DOMAIN queue : Rank(m) < Rank(queue[i])

\* One insight per message: none is published twice by a replay, and no message waits
\* for a replay whose insight was published.
PublishedOnce ==
    \A m \in Msgs : published[m] <= 1 /\ (m \in Range(queue) => published[m] = 0)

\* Replay neither reorders nor repeats: the queue is FIFO and each insight goes out once.
ReplayInOrder == QueueInOrder /\ PublishedOnce

\* What a step that lets a request out of the spacing gate keeps to.
LeavesSpaced ==
    \A m \in Msgs : task[m] \in {"space", "sleep"} /\ task'[m] = "permit" =>
        since >= MinInterval

\* Rate: requests leave the spacing gate min_interval_s apart, live ones and replays.
GateSpaced == [][LeavesSpaced]_vars

\* When stop() has returned, no analysis runs and none starts, whatever the router
\* still delivers.
StopIsFinal ==
    service = "stopped" => bg = {} /\ \A m \in Msgs : task[m] \in {"none", "ignored", "shed", "done"}

\* No task hangs: the permits, the interval lock and the drain lock never leave a task
\* waiting for ever.
TasksFinish == \A m \in Msgs : m \in bg ~> m \notin bg

\* Every analysis ends, and after stop() there is none.
Finishes == []StopIsFinal /\ TasksFinish
=============================================================================
