------------------------------ MODULE HostProofs ------------------------------
(***************************************************************************)
(* Proofs about the host, for any services, deaths, signals, records and   *)
(* losses: the start and stop scripts keep their order, a process ends     *)
(* clean, and a session that broke off reads as its first records.         *)
(* StackInv, ProcessInv and FilesInv are the inductive invariants; the     *)
(* lemmas ...Invariant say that a component that starts and steps as it    *)
(* should keeps its own.                                                   *)
(***************************************************************************)
EXTENDS Host, SequenceTheorems, FiniteSetTheorems, TLAPS

-----------------------------------------------------------------------------
(* EdgeStack: while it stops, what it has passed is down; while it starts, what it has       *)
(* passed is settled, and a consumer it has passed listens, or did not come up, or died.     *)

\* A service that a start need not worry about any more.
Settled(s) == esProc[s] # "down" \/ s \in esDied \cup Optional \/ esFile[s] = "other"

StackTypes ==
    /\ Stack!TypeOK
    /\ esCmd # "none" => esAt \in 1..Len(Order)
    /\ esPc = "wait" => esCmd = "start"
    /\ esReboots \in Nat

StackPassed ==
    /\ esCmd = "stop" => \A j \in 1..Len(Order) : j > esAt => esProc[Order[j]] = "down"
    /\ esCmd = "start" =>
           \A j \in 1..Len(Order) : j < esAt \/ (j = esAt /\ esPc = "wait") => Settled(Order[j])
    /\ esCmd = "start" =>
           \A j \in 1..Len(Order) : j < esAt /\ Order[j] \in Consumers =>
               esProc[Order[j]] = "listening" \/ Order[j] \in esGaveUp \cup esDied

StackInv == StackTypes /\ Stack!OneProcessEach /\ StackPassed

\* The services are those of Order, in their places.
LEMMA OrderFacts ==
  ASSUME Stack!ConstantsOK
  PROVE  /\ Len(Order) \in Nat /\ Len(Order) > 0 /\ Proxy \in Stack!Services
         /\ \A j \in 1..Len(Order) : Order[j] \in Stack!Services
         /\ \A s \in Stack!Services : \E j \in 1..Len(Order) : Order[j] = s
<1>1. /\ Order \in Seq(Stack!Services) /\ Proxy \in Stack!Services
  BY DEF Stack!ConstantsOK
<1>2. Len(Order) \in Nat /\ DOMAIN Order = 1..Len(Order)
  BY <1>1, LenProperties
<1>3. \A s \in Stack!Services : \E j \in 1..Len(Order) : Order[j] = s
  BY <1>2 DEF Stack!Services
<1>4. \A j \in 1..Len(Order) : Order[j] \in Stack!Services
  BY <1>2 DEF Stack!Services
<1>5. Len(Order) > 0
  BY <1>1, <1>2, <1>3
<1> QED
  BY <1>1, <1>2, <1>3, <1>4, <1>5

LEMMA StackInitInv == ASSUME Stack!ConstantsOK PROVE Stack!Init => StackInv
<1>1. Len(Order) \in Nat
  BY OrderFacts
<1>2. Stack!Init => esRestart \in BOOLEAN
  BY DEF Stack!Init
<1> QED
  BY <1>1, <1>2 DEF Stack!Init, StackInv, StackTypes, StackPassed, Stack!TypeOK,
                    Stack!OneProcessEach

\* start_svc leaves the service settled and touches no other, and the process it starts is the
\* only one.
LEMMA StartSvcSettles ==
  ASSUME StackInv, NEW s \in Stack!Services, Stack!StartSvc(s)
  PROVE  /\ esFile' \in [Stack!Services -> {"none", "pid", "other"}]
         /\ esProc' \in [Stack!Services -> {"down", "up", "listening"}]
         /\ esExtra' \in [Stack!Services -> Nat]
         /\ esProc'[s] # "down" \/ esFile'[s] = "other"
         /\ \A r \in Stack!Services : r # s =>
                esProc'[r] = esProc[r] /\ esFile'[r] = esFile[r] /\ esExtra'[r] = esExtra[r]
         /\ esExtra'[s] = 0 /\ (esProc'[s] # "down" => esFile'[s] = "pid")
<1>t. /\ esFile \in [Stack!Services -> {"none", "pid", "other"}]
      /\ esProc \in [Stack!Services -> {"down", "up", "listening"}]
      /\ esExtra \in [Stack!Services -> Nat]
      /\ esExtra[s] = 0 /\ (esProc[s] # "down" => esFile[s] = "pid")
  BY DEF StackInv, StackTypes, Stack!TypeOK, Stack!OneProcessEach
<1>1. CASE Stack!Running(s)
  BY <1>t, <1>1 DEF Stack!StartSvc, Stack!Running
<1>2. CASE ~Stack!Running(s)
  <2>1. esProc[s] = "down"
    BY <1>t, <1>2 DEF Stack!Running
  <2>2. Stack!Spawned(s)
    BY <1>2 DEF Stack!StartSvc
  <2>3. esExtra' = [esExtra EXCEPT ![s] = esExtra[s] + 0]
    BY <2>1, <2>2 DEF Stack!Spawned
  <2>4. esExtra' = esExtra
    BY <1>t, <2>3
  <2> QED
    BY <1>t, <2>2, <2>4 DEF Stack!Spawned
<1> QED
  BY <1>1, <1>2

\* A step of do_start settles the service it is at, and the ones before it stay as they were.
LEMMA StartStep ==
  ASSUME Stack!ConstantsOK, StackInv, Stack!Start
  PROVE  /\ esCmd = "start" /\ esAt \in 1..Len(Order) /\ esPc = "svc"
         /\ esFile' \in [Stack!Services -> {"none", "pid", "other"}]
         /\ esProc' \in [Stack!Services -> {"down", "up", "listening"}]
         /\ esExtra' \in [Stack!Services -> Nat]
         /\ Stack!OneProcessEach'
         /\ esDied' = esDied /\ esGaveUp' = esGaveUp /\ esRestart' = esRestart
         /\ \A j \in 1..Len(Order) : j <= esAt => Settled(Order[j])'
         /\ \A r \in Stack!Services : r # Order[esAt] => esProc'[r] = esProc[r]
         /\ \/ esPc' = "wait" /\ esCmd' = esCmd /\ esAt' = esAt
            \/ Order[esAt] \in Unwaited \cup Optional /\ Stack!Advance
<1> DEFINE s == Order[esAt]
<1>t. /\ esCmd = "start" /\ esAt \in 1..Len(Order) /\ esPc = "svc" /\ s \in Stack!Services
      /\ esFile \in [Stack!Services -> {"none", "pid", "other"}]
      /\ esProc \in [Stack!Services -> {"down", "up", "listening"}]
      /\ esExtra \in [Stack!Services -> Nat]
  BY OrderFacts DEF Stack!Start, StackInv, StackTypes, Stack!TypeOK
<1>1. Stack!StartSvc(s) \/ Stack!Skip(s)
  BY DEF Stack!Start
<1>2. /\ \/ esPc' = "wait" /\ UNCHANGED <<esCmd, esRestart, esAt, esDied>>
         \/ (s \in Unwaited \/ Stack!Skip(s)) /\ Stack!Advance
      /\ esGaveUp' = esGaveUp
  BY DEF Stack!Start
<1>3. /\ esDied' = esDied /\ esGaveUp' = esGaveUp /\ esRestart' = esRestart
      /\ \/ esPc' = "wait" /\ esCmd' = esCmd /\ esAt' = esAt
         \/ s \in Unwaited \cup Optional /\ Stack!Advance
  BY <1>2 DEF Stack!Advance, Stack!Skip
<1>4. /\ esFile' \in [Stack!Services -> {"none", "pid", "other"}]
      /\ esProc' \in [Stack!Services -> {"down", "up", "listening"}]
      /\ esExtra' \in [Stack!Services -> Nat]
      /\ esProc'[s] # "down" \/ esFile'[s] = "other" \/ s \in Optional
      /\ \A r \in Stack!Services : r # s =>
             esProc'[r] = esProc[r] /\ esFile'[r] = esFile[r] /\ esExtra'[r] = esExtra[r]
      /\ esExtra'[s] = 0 /\ (esProc'[s] # "down" => esFile'[s] = "pid")
  <2>1. CASE Stack!StartSvc(s)
    BY <1>t, <2>1, StartSvcSettles
  <2>2. CASE Stack!Skip(s)
    BY <1>t, <2>2 DEF Stack!Skip, StackInv, Stack!OneProcessEach
  <2> QED
    BY <1>1, <2>1, <2>2
<1> HIDE DEF s
<1>5. Stack!OneProcessEach'
  BY <1>4 DEF StackInv, Stack!OneProcessEach
<1>6. ASSUME NEW j \in 1..Len(Order), j <= esAt PROVE Settled(Order[j])'
  <2>1. CASE Order[j] = s
    BY <1>4, <2>1 DEF Settled
  <2>2. CASE Order[j] # s
    <3>1. Order[j] \in Stack!Services /\ j # esAt
      BY <2>2, OrderFacts DEF s
    <3>2. j < esAt
      BY <1>t, <1>6, <3>1, OrderFacts
    <3>3. Settled(Order[j])
      BY <1>t, <3>2 DEF StackInv, StackPassed
    <3> QED
      BY <1>3, <1>4, <2>2, <3>1, <3>3 DEF Settled
  <2> QED
    BY <2>1, <2>2
<1> QED
  BY <1>t, <1>3, <1>4, <1>5, <1>6 DEF s

\* do_start goes on, or ends.
LEMMA AdvanceFacts ==
  ASSUME Stack!ConstantsOK, StackInv, esCmd = "start", Stack!Advance
  PROVE  /\ esPc' = "svc"
         /\ \/ esAt < Len(Order) /\ esAt' = esAt + 1 /\ esCmd' = "start"
            \/ esAt = Len(Order) /\ esAt' = 0 /\ esCmd' = "none"
         /\ esAt' \in 0..Len(Order) /\ (esCmd' # "none" => esAt' \in 1..Len(Order))
<1>1. Len(Order) \in Nat /\ esAt \in 1..Len(Order)
  BY OrderFacts DEF StackInv, StackTypes
<1> QED
  BY <1>1 DEF Stack!Advance

\* Between steps of the script services bind their ports and die.
LEMMA ServiceStep ==
  ASSUME Stack!ConstantsOK, StackInv, NEW s \in Stack!Services, Stack!Binds(s) \/ Stack!Dies(s)
  PROVE  StackInv'
<1>t. /\ esProc \in [Stack!Services -> {"down", "up", "listening"}]
      /\ \A r \in Stack!Services : esExtra[r] = 0 /\ (esProc[r] # "down" => esFile[r] = "pid")
      /\ \A j \in 1..Len(Order) : Order[j] \in Stack!Services
  BY OrderFacts DEF StackInv, StackTypes, Stack!TypeOK, Stack!OneProcessEach
<1>1. /\ UNCHANGED <<esCmd, esRestart, esAt, esPc, esGaveUp, esFile, esExtra>>
      /\ esProc' \in [Stack!Services -> {"down", "up", "listening"}]
      /\ \A r \in Stack!Services : r # s => esProc'[r] = esProc[r]
      /\ esProc[s] # "down"
      /\ \/ esProc'[s] = "listening" /\ esDied' = esDied
         \/ esProc'[s] = "down" /\ esDied' = esDied \cup {s}
  <2>1. CASE Stack!Binds(s)
    BY <1>t, <2>1 DEF Stack!Binds, Stack!script
  <2>2. CASE Stack!Dies(s)
    BY <1>t, <2>2 DEF Stack!Dies
  <2> QED
    BY <2>1, <2>2
<1>2. StackTypes'
  <2>1. esReboots' = esReboots
    BY DEF Stack!Binds, Stack!Dies, Stack!bounds
  <2> QED
    BY <1>1, <2>1 DEF StackInv, StackTypes, Stack!TypeOK
<1>3. Stack!OneProcessEach'
  BY <1>t, <1>1 DEF Stack!OneProcessEach
<1>4. \A r \in Stack!Services : Settled(r) => Settled(r)'
  BY <1>1 DEF Settled
<1>5. \A r \in Stack!Services :
          esProc[r] = "listening" \/ r \in esGaveUp \cup esDied =>
              esProc'[r] = "listening" \/ r \in esGaveUp' \cup esDied'
  BY <1>1
<1>6. \A r \in Stack!Services : esProc[r] = "down" => esProc'[r] = "down"
  BY <1>1
<1>7. StackPassed'
  <2>1. esCmd = "stop" => \A j \in 1..Len(Order) : j > esAt => esProc'[Order[j]] = "down"
    BY <1>t, <1>6 DEF StackInv, StackPassed
  <2>2. esCmd = "start" =>
            \A j \in 1..Len(Order) :
                j < esAt \/ (j = esAt /\ esPc = "wait") => Settled(Order[j])'
    BY <1>t, <1>4 DEF StackInv, StackPassed
  <2>3. esCmd = "start" =>
            \A j \in 1..Len(Order) : j < esAt /\ Order[j] \in Consumers =>
                esProc'[Order[j]] = "listening" \/ Order[j] \in esGaveUp' \cup esDied'
    BY <1>t, <1>5 DEF StackInv, StackPassed
  <2> QED
    BY <1>1, <2>1, <2>2, <2>3 DEF StackPassed
<1> QED
  BY <1>2, <1>3, <1>7 DEF StackInv

LEMMA StartKeeps ==
  ASSUME Stack!ConstantsOK, StackInv, Stack!Start
  PROVE  StackInv'
<1>r. esReboots' \in Nat
  BY DEF Stack!Start, Stack!bounds, StackInv, StackTypes
<1>t. /\ esCmd = "start" /\ esAt \in 1..Len(Order) /\ esPc = "svc" /\ Len(Order) \in Nat
      /\ esRestart \in BOOLEAN /\ esGaveUp \subseteq Stack!Services
      /\ esDied \subseteq Stack!Services
      /\ \A j \in 1..Len(Order) : Order[j] \in Stack!Services
  BY StartStep, OrderFacts DEF StackInv, StackTypes, Stack!TypeOK
<1>1. /\ esFile' \in [Stack!Services -> {"none", "pid", "other"}]
      /\ esProc' \in [Stack!Services -> {"down", "up", "listening"}]
      /\ esExtra' \in [Stack!Services -> Nat]
      /\ Stack!OneProcessEach'
      /\ esDied' = esDied /\ esGaveUp' = esGaveUp /\ esRestart' = esRestart
      /\ \A j \in 1..Len(Order) : j <= esAt => Settled(Order[j])'
  BY StartStep
<1>c. \A c \in Consumers : c \notin Unwaited \cup Optional
  BY DEF Stack!ConstantsOK
<1>2. \A j \in 1..Len(Order) : j < esAt /\ Order[j] \in Consumers =>
          esProc'[Order[j]] = "listening" \/ Order[j] \in esGaveUp' \cup esDied'
  <2> SUFFICES ASSUME NEW j \in 1..Len(Order), j < esAt, Order[j] \in Consumers
               PROVE  esProc'[Order[j]] = "listening" \/ Order[j] \in esGaveUp' \cup esDied'
    OBVIOUS
  <2>1. esProc[Order[j]] = "listening" \/ Order[j] \in esGaveUp \cup esDied
    BY <1>t DEF StackInv, StackPassed
  <2>2. CASE Order[j] = Order[esAt]
    <3>1. esProc[Order[esAt]] = "listening" => esProc' = esProc
      <4>1. ASSUME esProc[Order[esAt]] = "listening" PROVE esProc' = esProc
        <5>1. Stack!StartSvc(Order[esAt]) \/ Stack!Skip(Order[esAt])
          BY DEF Stack!Start
        <5>2. esFile[Order[esAt]] = "pid"
          BY <1>t, <4>1 DEF StackInv, Stack!OneProcessEach
        <5> QED
          BY <4>1, <5>1, <5>2 DEF Stack!StartSvc, Stack!Skip, Stack!Running
      <4> QED
        BY <4>1
    <3> QED
      BY <1>1, <2>1, <2>2, <3>1
  <2>3. CASE Order[j] # Order[esAt]
    <3>1. esProc'[Order[j]] = esProc[Order[j]]
      BY <1>t, <2>3, StartStep
    <3> QED
      BY <1>1, <2>1, <3>1
  <2> QED
    BY <2>2, <2>3
<1>3. CASE esPc' = "wait" /\ esCmd' = esCmd /\ esAt' = esAt
  <2>1. StackTypes'
    BY <1>r, <1>t, <1>1, <1>3 DEF StackTypes, Stack!TypeOK
  <2>2. StackPassed'
    BY <1>t, <1>1, <1>2, <1>3 DEF StackPassed
  <2> QED
    BY <1>1, <2>1, <2>2 DEF StackInv
<1>4. CASE Order[esAt] \in Unwaited \cup Optional /\ Stack!Advance
  <2>1. /\ esPc' = "svc"
        /\ \/ esAt < Len(Order) /\ esAt' = esAt + 1 /\ esCmd' = "start"
           \/ esAt = Len(Order) /\ esAt' = 0 /\ esCmd' = "none"
        /\ esAt' \in 0..Len(Order) /\ (esCmd' # "none" => esAt' \in 1..Len(Order))
    BY <1>t, <1>4, AdvanceFacts
  <2>2. StackTypes'
    BY <1>r, <1>t, <1>1, <2>1 DEF StackTypes, Stack!TypeOK
  <2>3. Order[esAt] \notin Consumers
    BY <1>c, <1>4
  <2>4. \A j \in 1..Len(Order) : j < esAt + 1 => j <= esAt /\ (j = esAt \/ j < esAt)
    BY <1>t
  <2>5. StackPassed'
    BY <1>1, <1>2, <2>1, <2>3, <2>4 DEF StackPassed
  <2> QED
    BY <1>1, <2>2, <2>5 DEF StackInv
<1> QED
  BY <1>3, <1>4, StartStep

LEMMA WaitPortKeeps ==
  ASSUME Stack!ConstantsOK, StackInv, Stack!WaitPort
  PROVE  StackInv' /\ \A j \in 1..Len(Order) : j <= esAt => Settled(Order[j])'
<1>t. /\ esCmd = "start" /\ esAt \in 1..Len(Order) /\ esPc = "wait" /\ Len(Order) \in Nat
      /\ esRestart \in BOOLEAN /\ esGaveUp \subseteq Stack!Services
      /\ esDied \subseteq Stack!Services
      /\ \A j \in 1..Len(Order) : Order[j] \in Stack!Services
  BY OrderFacts DEF Stack!WaitPort, StackInv, StackTypes, Stack!TypeOK
<1>1. /\ UNCHANGED <<esFile, esProc, esExtra, esRestart, esDied>> /\ Stack!Advance
      /\ esProc[Order[esAt]] = "listening" \/ Order[esAt] \in esGaveUp'
      /\ esGaveUp \subseteq esGaveUp' /\ esGaveUp' \subseteq Stack!Services
  BY <1>t DEF Stack!WaitPort, Stack!Advance
<1>2. /\ esPc' = "svc"
      /\ \/ esAt < Len(Order) /\ esAt' = esAt + 1 /\ esCmd' = "start"
         \/ esAt = Len(Order) /\ esAt' = 0 /\ esCmd' = "none"
      /\ esAt' \in 0..Len(Order) /\ (esCmd' # "none" => esAt' \in 1..Len(Order))
  BY <1>t, <1>1, AdvanceFacts
<1>3. \A j \in 1..Len(Order) : j <= esAt => (j = esAt \/ j < esAt)
  BY <1>t
<1>4. \A j \in 1..Len(Order) : j <= esAt => Settled(Order[j])'
  <2>1. \A j \in 1..Len(Order) : j <= esAt => Settled(Order[j])
    BY <1>t, <1>3 DEF StackInv, StackPassed
  <2> QED
    BY <1>1, <2>1 DEF Settled
<1>5. \A j \in 1..Len(Order) : j <= esAt /\ Order[j] \in Consumers =>
          esProc'[Order[j]] = "listening" \/ Order[j] \in esGaveUp' \cup esDied'
  BY <1>t, <1>1, <1>3 DEF StackInv, StackPassed
<1>r. esReboots' \in Nat
  BY DEF Stack!WaitPort, Stack!bounds, StackInv, StackTypes
<1>6. StackTypes'
  BY <1>r, <1>t, <1>1, <1>2 DEF StackInv, StackTypes, Stack!TypeOK
<1>7. Stack!OneProcessEach'
  BY <1>1 DEF StackInv, Stack!OneProcessEach
<1>8. \A j \in 1..Len(Order) : j < esAt + 1 => j <= esAt
  BY <1>t
<1>9. StackPassed'
  BY <1>2, <1>4, <1>5, <1>8 DEF StackPassed
<1> QED
  BY <1>4, <1>6, <1>7, <1>9 DEF StackInv

\* A step of do_stop takes its service down, and when it was the last one all are.
LEMMA StopKeeps ==
  ASSUME Stack!ConstantsOK, StackInv, Stack!Stop
  PROVE  /\ StackInv'
         /\ esCmd' # "stop" => \A s \in Stack!Services : esProc'[s] = "down"
<1>t. /\ esCmd = "stop" /\ esAt \in 1..Len(Order) /\ Len(Order) \in Nat /\ Len(Order) > 0
      /\ esRestart \in BOOLEAN /\ esPc = "svc"
      /\ esFile \in [Stack!Services -> {"none", "pid", "other"}]
      /\ esProc \in [Stack!Services -> {"down", "up", "listening"}]
      /\ \A s \in Stack!Services : esProc[s] # "down" => esFile[s] = "pid"
      /\ \A j \in 1..Len(Order) : Order[j] \in Stack!Services
      /\ \A s \in Stack!Services : \E j \in 1..Len(Order) : Order[j] = s
  <2>1. /\ esCmd = "stop" /\ esAt \in 1..Len(Order) /\ esRestart \in BOOLEAN /\ esPc = "svc"
        /\ esFile \in [Stack!Services -> {"none", "pid", "other"}]
        /\ esProc \in [Stack!Services -> {"down", "up", "listening"}]
        /\ \A s \in Stack!Services : esProc[s] # "down" => esFile[s] = "pid"
    BY DEF Stack!Stop, StackInv, StackTypes, Stack!TypeOK, Stack!OneProcessEach
  <2> QED
    BY <2>1, OrderFacts
<1> DEFINE s == Order[esAt]
<1>1. /\ esFile' \in [Stack!Services -> {"none", "pid", "other"}]
      /\ esProc' \in [Stack!Services -> {"down", "up", "listening"}]
      /\ esProc'[s] = "down"
      /\ \A r \in Stack!Services : r # s => esProc'[r] = esProc[r] /\ esFile'[r] = esFile[r]
  BY <1>t DEF Stack!Stop, Stack!StopSvc
<1>2. /\ UNCHANGED <<esPc, esGaveUp, esDied, esExtra>>
      /\ \/ esAt > 1 /\ esAt' = esAt - 1 /\ UNCHANGED <<esCmd, esRestart>>
         \/ /\ ~(esAt > 1)
            /\ esCmd' = IF esRestart THEN "start" ELSE "none"
            /\ esAt' = IF esRestart THEN 1 ELSE 0
            /\ esRestart' = FALSE
  BY DEF Stack!Stop
<1>3. Stack!OneProcessEach'
  BY <1>t, <1>1, <1>2 DEF StackInv, Stack!OneProcessEach
<1>4. \A j \in 1..Len(Order) : j >= esAt => esProc'[Order[j]] = "down"
  <2> SUFFICES ASSUME NEW j \in 1..Len(Order), j >= esAt PROVE esProc'[Order[j]] = "down"
    OBVIOUS
  <2>1. j > esAt => esProc[Order[j]] = "down"
    BY <1>t DEF StackInv, StackPassed
  <2>2. j = esAt \/ j > esAt
    BY <1>t
  <2> QED
    BY <1>1, <1>t, <2>1, <2>2
<1> HIDE DEF s
<1>r. esReboots' \in Nat
  BY DEF Stack!Stop, Stack!bounds, StackInv, StackTypes
<1>5. CASE esAt > 1 /\ esAt' = esAt - 1 /\ UNCHANGED <<esCmd, esRestart>>
  <2>1. StackTypes'
    BY <1>r, <1>t, <1>1, <1>2, <1>5 DEF StackInv, StackTypes, Stack!TypeOK
  <2>2. \A j \in 1..Len(Order) : j > esAt - 1 => j >= esAt
    BY <1>t
  <2>3. StackPassed'
    BY <1>t, <1>4, <1>5, <2>2 DEF StackPassed
  <2> QED
    BY <1>t, <1>3, <1>5, <2>1, <2>3 DEF StackInv
<1>6. CASE /\ ~(esAt > 1)
           /\ esCmd' = IF esRestart THEN "start" ELSE "none"
           /\ esAt' = IF esRestart THEN 1 ELSE 0
           /\ esRestart' = FALSE
  <2>1. \A r \in Stack!Services : esProc'[r] = "down"
    <3>1. \A j \in 1..Len(Order) : j >= esAt
      BY <1>t, <1>6
    <3> QED
      BY <1>t, <1>4, <3>1
  <2>0. esRestart' \in BOOLEAN
    BY <1>6
  <2>2. StackTypes'
    BY <1>r, <1>t, <1>1, <1>2, <1>6, <2>0 DEF StackInv, StackTypes, Stack!TypeOK
  <2>3. esCmd' # "stop" /\ (esCmd' = "start" => esAt' = 1 /\ esPc' = "svc")
    BY <1>t, <1>2, <1>6
  <2>4. \A j \in 1..Len(Order) : ~(j < 1)
    BY <1>t
  <2>5. StackPassed'
    BY <2>3, <2>4 DEF StackPassed
  <2> QED
    BY <1>3, <2>1, <2>2, <2>5 DEF StackInv
<1> QED
  BY <1>2, <1>5, <1>6

LEMMA CommandOrRebootKeeps ==
  ASSUME Stack!ConstantsOK, StackInv, Stack!Command \/ Stack!Reboot
  PROVE  StackInv'
<1>t. /\ Len(Order) \in Nat /\ Len(Order) > 0 /\ esRestart \in BOOLEAN
      /\ esFile \in [Stack!Services -> {"none", "pid", "other"}]
      /\ \A j \in 1..Len(Order) : ~(j < 1) /\ ~(j > Len(Order))
  BY OrderFacts DEF StackInv, StackTypes, Stack!TypeOK
<1>1. CASE Stack!Command
  <2>1. /\ UNCHANGED <<esFile, esProc, esExtra>> /\ esPc' = "svc" /\ esGaveUp' = {} /\ esDied' = {}
        /\ \/ esCmd' = "start" /\ esAt' = 1
           \/ esCmd' = "stop" /\ esAt' = Len(Order)
    BY <1>1 DEF Stack!Command
  <2>2. esRestart' \in BOOLEAN /\ esReboots' = esReboots
    BY <1>1 DEF Stack!Command
  <2>3. StackTypes'
    BY <1>t, <2>1, <2>2 DEF StackInv, StackTypes, Stack!TypeOK
  <2>4. StackPassed'
    BY <1>t, <2>1 DEF StackPassed
  <2>5. Stack!OneProcessEach'
    BY <2>1 DEF StackInv, Stack!OneProcessEach
  <2> QED
    BY <2>3, <2>4, <2>5 DEF StackInv
<1>2. CASE Stack!Reboot
  <2>1. /\ esCmd' = "none" /\ esAt' = 0 /\ esPc' = "svc" /\ esGaveUp' = {} /\ esDied' = {}
        /\ esProc' = [s \in Stack!Services |-> "down"]
        /\ esExtra' = [s \in Stack!Services |-> 0]
    BY <1>2 DEF Stack!Reboot
  <2>2. esRestart' \in BOOLEAN
    BY <1>2 DEF Stack!Reboot
  <2>4. esReboots' \in Nat
    BY <1>2 DEF Stack!Reboot, StackInv, StackTypes
  <2>3. esFile' \in [Stack!Services -> {"none", "pid", "other"}]
    BY <1>t, <1>2 DEF Stack!Reboot
  <2> QED
    BY <1>t, <2>1, <2>2, <2>3, <2>4 DEF StackInv, StackTypes, StackPassed, Stack!TypeOK,
                                  Stack!OneProcessEach
<1> QED
  BY <1>1, <1>2

\* Every step keeps the invariant.
LEMMA StackKeeps ==
  ASSUME Stack!ConstantsOK, StackInv, [Stack!Next]_Stack!vars
  PROVE  StackInv'
<1>1. CASE UNCHANGED Stack!vars
  BY <1>1 DEF Stack!vars, Stack!script, Stack!bounds, StackInv, StackTypes, StackPassed,
              Stack!TypeOK,
              Stack!OneProcessEach, Settled
<1>2. CASE Stack!Next
  BY <1>2, ServiceStep, StartKeeps, WaitPortKeeps, StopKeeps, CommandOrRebootKeeps
     DEF Stack!Next, Stack!Script
<1> QED
  BY <1>1, <1>2

\* The invariant holds of every run.
LEMMA StackInvariant ==
  ASSUME Stack!ConstantsOK
  PROVE  Stack!Init /\ [][Stack!Next]_Stack!vars => []StackInv
  BY StackInitInv, StackKeeps, PTL

\* When a start ends it has passed every service.
LEMMA StartEnds ==
  ASSUME Stack!ConstantsOK, StackInv, [Stack!Next]_Stack!vars,
         esCmd = "start", esCmd' = "none", esReboots' = esReboots
  PROVE  \A s \in Stack!Services : \/ esProc'[s] # "down"
                                   \/ s \in esDied \cup Optional
                                   \/ esFile'[s] = "other"
<1>t. /\ Len(Order) \in Nat /\ esAt \in 1..Len(Order)
      /\ \A s \in Stack!Services : \E j \in 1..Len(Order) : Order[j] = s
  BY OrderFacts DEF StackInv, StackTypes
<1>1. Stack!Start \/ Stack!WaitPort
  <2>1. esReboots \in Nat
    BY DEF StackInv, StackTypes
  <2>2. ~Stack!Reboot
    BY <2>1 DEF Stack!Reboot
  <2>3. ~UNCHANGED Stack!vars
    BY DEF Stack!vars, Stack!script
  <2>4. ~Stack!Command /\ ~Stack!Stop
    BY DEF Stack!Command, Stack!Stop
  <2>5. \A s \in Stack!Services : ~Stack!Binds(s) /\ ~Stack!Dies(s)
    BY DEF Stack!Binds, Stack!Dies, Stack!script
  <2> QED
    BY <2>2, <2>3, <2>4, <2>5 DEF Stack!Next, Stack!Script
<1>2. esAt = Len(Order) /\ esDied' = esDied
  <2>1. Stack!Advance
    BY <1>1, StartStep DEF Stack!WaitPort
  <2> QED
    BY <2>1, AdvanceFacts DEF Stack!Advance
<1>3. \A j \in 1..Len(Order) : j <= esAt => Settled(Order[j])'
  BY <1>1, StartStep, WaitPortKeeps
<1>4. \A j \in 1..Len(Order) : Settled(Order[j])'
  BY <1>t, <1>2, <1>3
<1>5. \A s \in Stack!Services : Settled(s)'
  BY <1>t, <1>4
<1> QED
  BY <1>2, <1>5 DEF Settled

\* A proxy is started by a step of do_start, which has passed the consumers.
LEMMA ProxyStarts ==
  ASSUME Stack!ConstantsOK, StackInv, [Stack!Next]_Stack!vars,
         esCmd = "start", esProc[Proxy] = "down", esProc'[Proxy] = "up"
  PROVE  \A c \in Consumers : esProc[c] = "listening" \/ c \in esGaveUp \cup esDied
<1>t. /\ Len(Order) \in Nat /\ Proxy \in Stack!Services /\ DOMAIN Order = 1..Len(Order)
      /\ \A c \in Consumers : \A i \in 1..Len(Order) :
             Order[i] = Proxy => \E j \in 1 .. i - 1 : Order[j] = c
      /\ esProc \in [Stack!Services -> {"down", "up", "listening"}]
  <2>1. DOMAIN Order = 1..Len(Order)
    BY LenProperties DEF Stack!ConstantsOK
  <2>2. \A c \in Consumers : \A i \in DOMAIN Order :
            Order[i] = Proxy => \E j \in 1 .. i - 1 : Order[j] = c
    BY DEF Stack!ConstantsOK
  <2>3. esProc \in [Stack!Services -> {"down", "up", "listening"}]
    BY DEF StackInv, StackTypes, Stack!TypeOK
  <2> QED
    BY <2>1, <2>2, <2>3, OrderFacts
<1>1. Stack!Start
  <2>1. ~UNCHANGED esProc
    OBVIOUS
  <2>2. ~UNCHANGED Stack!vars /\ ~Stack!Command /\ ~Stack!WaitPort /\ ~Stack!Stop
    BY <2>1 DEF Stack!vars, Stack!Command, Stack!WaitPort, Stack!Stop
  <2>3. ~Stack!Reboot
    BY <1>t DEF Stack!Reboot
  <2>4. \A s \in Stack!Services : ~Stack!Binds(s) /\ ~Stack!Dies(s)
    BY <1>t DEF Stack!Binds, Stack!Dies
  <2> QED
    BY <2>2, <2>3, <2>4 DEF Stack!Next, Stack!Script
<1>2. Order[esAt] = Proxy /\ esAt \in 1..Len(Order)
  BY <1>1, <1>t, StartStep
<1> SUFFICES ASSUME NEW c \in Consumers
             PROVE  esProc[c] = "listening" \/ c \in esGaveUp \cup esDied
  OBVIOUS
<1>3. PICK j \in 1 .. esAt - 1 : Order[j] = c
  BY <1>t, <1>2
<1>4. j \in 1..Len(Order) /\ j < esAt
  BY <1>t, <1>2, <1>3
<1> QED
  BY <1>3, <1>4 DEF StackInv, StackPassed

\* start_all.sh, over any runs, deaths and reboots: the proxy is started after its consumers
\* listen, did not come up in their time or died, a stop leaves nothing running, a start leaves
\* everything running that did not die, was not skipped and has no stranger's pid, and no
\* service runs twice or without a pid file.
THEOREM StackInOrderTheorem == ASSUME Stack!ConstantsOK PROVE Stack!Spec => StackInOrder
<1>1. StackInv => Stack!OneProcessEach
  BY DEF StackInv
<1>2. StackInv /\ [Stack!Next]_Stack!vars =>
          [esCmd = "start" /\ esProc[Proxy] = "down" /\ esProc'[Proxy] = "up" =>
               \A c \in Consumers :
                   esProc[c] = "listening" \/ c \in esGaveUp \cup esDied]_Stack!vars
  BY ProxyStarts
<1>3. StackInv /\ [Stack!Next]_Stack!vars =>
          [esCmd = "start" /\ esCmd' = "none" /\ esReboots' = esReboots =>
               \A s \in Stack!Services : \/ esProc'[s] # "down"
                                         \/ s \in esDied \cup Optional
                                         \/ esFile'[s] = "other"]_Stack!vars
  BY StartEnds
<1>4. StackInv /\ [Stack!Next]_Stack!vars =>
          [esCmd = "stop" /\ esCmd' # "stop" =>
               \A s \in Stack!Services : esProc'[s] = "down"]_Stack!vars
  <2> SUFFICES ASSUME StackInv, Stack!Next, esCmd = "stop", esCmd' # "stop"
               PROVE  \A s \in Stack!Services : esProc'[s] = "down"
    OBVIOUS
  <2>1. CASE Stack!Stop
    BY <2>1, StopKeeps
  <2>2. CASE Stack!Reboot
    BY <2>2 DEF Stack!Reboot
  <2>3. ~Stack!Command /\ ~Stack!Start /\ ~Stack!WaitPort
    BY DEF Stack!Command, Stack!Start, Stack!WaitPort
  <2>4. \A s \in Stack!Services : ~Stack!Binds(s) /\ ~Stack!Dies(s)
    BY DEF Stack!Binds, Stack!Dies, Stack!script
  <2> QED
    BY <2>1, <2>2, <2>3, <2>4 DEF Stack!Next, Stack!Script
<1> QED
  BY <1>1, <1>2, <1>3, <1>4, StackInvariant, PTL
     DEF Stack!Spec, StackInOrder, Stack!ConsumersFirst, Stack!StopStops, Stack!StartStarts

-----------------------------------------------------------------------------
(* NodeProcess: once a base node or gateway runs its handlers are installed, so that no     *)
(* signal keeps it from its finally.                                                        *)

Steps == {"handlers", "check", "start", "serve", "run", "stop", "release"}

\* What may be left to do before the process runs.
BeforeRun(kind) ==
    IF kind = "base"
    THEN {<<"handlers", "check", "start", "serve", "run">>, <<"check", "start", "serve", "run">>,
          <<"start", "serve", "run">>, <<"serve", "run">>}
    ELSE {<<"start", "handlers", "run">>, <<"handlers", "run">>}

ProcessInv ==
    /\ Process!TypeOK
    /\ npKind # "console" =>
           /\ \/ /\ npTodo \in BeforeRun(npKind) /\ ~npRan
                 /\ npKind = "base" /\ Head(npTodo) # "handlers" => npHandled
              \/ npTodo = <<"run">> /\ npHandled
              \/ npTodo = Process!Down[npKind] /\ npHandled
              \/ npTodo = <<"release">> /\ npKind = "base" /\ npHandled /\ npNode = "stopped"
              \/ npTodo = <<>> /\ Process!EndsClean
           /\ npKind = "gateway" => npListener = "none"

\* The lists of steps, one step shorter.
LEMMA Tails ==
  /\ Tail(<<"handlers", "check", "start", "serve", "run">>) = <<"check", "start", "serve", "run">>
  /\ Tail(<<"check", "start", "serve", "run">>) = <<"start", "serve", "run">>
  /\ Tail(<<"start", "serve", "run">>) = <<"serve", "run">>
  /\ Tail(<<"serve", "run">>) = <<"run">>
  /\ Tail(<<"start", "handlers", "run">>) = <<"handlers", "run">>
  /\ Tail(<<"handlers", "run">>) = <<"run">>
  /\ Tail(<<"stop", "release">>) = <<"release">>
  /\ Tail(<<"stop">>) = <<>> /\ Tail(<<"release">>) = <<>>
OBVIOUS

LEMMA Heads ==
  /\ Head(<<"handlers", "check", "start", "serve", "run">>) = "handlers"
  /\ Head(<<"check", "start", "serve", "run">>) = "check"
  /\ Head(<<"start", "serve", "run">>) = "start"
  /\ Head(<<"serve", "run">>) = "serve"
  /\ Head(<<"run">>) = "run"
  /\ Head(<<"start", "handlers", "run">>) = "start"
  /\ Head(<<"handlers", "run">>) = "handlers"
  /\ Head(<<"stop", "release">>) = "stop"
  /\ Head(<<"stop">>) = "stop" /\ Head(<<"release">>) = "release"
OBVIOUS

LEMMA UpAndDown ==
  /\ \A kind \in {"base", "gateway", "console"} :
         Process!Up[kind] \in Seq(Steps) /\ Process!Down[kind] \in Seq(Steps)
  /\ Process!Down["base"] = <<"stop", "release">> /\ Process!Down["gateway"] = <<"stop">>
<1>1. /\ Process!Up["base"] = <<"handlers", "check", "start", "serve", "run">>
      /\ Process!Up["gateway"] = <<"start", "handlers", "run">>
      /\ Process!Up["console"] = <<"check", "start", "serve", "run">>
  BY DEF Process!Up
<1>2. /\ Process!Down["base"] = <<"stop", "release">> /\ Process!Down["gateway"] = <<"stop">>
      /\ Process!Down["console"] = <<"release", "stop">>
  BY DEF Process!Down
<1>3. /\ <<"handlers", "check", "start", "serve", "run">> \in Seq(Steps)
      /\ <<"start", "handlers", "run">> \in Seq(Steps)
      /\ <<"check", "start", "serve", "run">> \in Seq(Steps)
  BY DEF Steps
<1>4. /\ <<"stop", "release">> \in Seq(Steps) /\ <<"stop">> \in Seq(Steps)
      /\ <<"release", "stop">> \in Seq(Steps)
  BY DEF Steps
<1> QED
  BY <1>1, <1>2, <1>3, <1>4

\* In any state of a base node or gateway the next step is known.
LEMMA ProcessPlaces ==
  ASSUME ProcessInv, npKind # "console", npTodo # <<>>
  PROVE  \/ Head(npTodo) \in {"handlers", "check", "start", "serve"} /\ ~npRan
            /\ npTodo \in BeforeRun(npKind)
            /\ (Head(npTodo) # "handlers" /\ npKind = "base" => npHandled)
         \/ Head(npTodo) = "run" /\ npTodo = <<"run">> /\ npHandled
         \/ Head(npTodo) = "stop" /\ npTodo = Process!Down[npKind] /\ npHandled
         \/ /\ Head(npTodo) = "release" /\ npTodo = <<"release">>
            /\ npKind = "base" /\ npHandled /\ npNode = "stopped"
<1>1. npKind \in {"base", "gateway"}
  BY DEF ProcessInv, Process!TypeOK, Process!Kinds
<1>2. npTodo \in BeforeRun(npKind) => Head(npTodo) \in {"handlers", "check", "start", "serve"}
  BY <1>1, Heads DEF BeforeRun
<1>3. Head(Process!Down[npKind]) = "stop"
  BY <1>1, Heads DEF Process!Down
<1> QED
  BY <1>2, <1>3, Heads DEF ProcessInv

LEMMA ProcessTypes ==
  ASSUME Process!TypeOK, [Process!Next]_Process!vars
  PROVE  Process!TypeOK'
<1>t. /\ npKind \in Process!Kinds /\ npTodo \in Seq(Steps)
      /\ npFinally \in BOOLEAN /\ npHandled \in BOOLEAN /\ npStop \in BOOLEAN
      /\ npRan \in BOOLEAN /\ npRaised \in BOOLEAN
      /\ npNode \in {"new", "started", "stopped"} /\ npListener \in {"none", "up", "released"}
  BY DEF Process!TypeOK, Steps
<1>1. npTodo' \in Seq(Steps)
  <2>1. Process!Down[npKind] \in Seq(Steps) /\ <<>> \in Seq(Steps)
    BY <1>t, UpAndDown, EmptySeq DEF Process!Kinds
  <2>2. npTodo # <<>> => Tail(npTodo) \in Seq(Steps)
    BY <1>t, HeadTailProperties
  <2>3. \/ npTodo' = npTodo \/ npTodo' = <<>> \/ npTodo' = Process!Down[npKind]
        \/ npTodo # <<>> /\ npTodo' = Tail(npTodo)
    BY DEF Process!Next, Process!Process, Process!InstallHandlers, Process!Check, Process!Start,
           Process!Serve, Process!Run, Process!StopNode, Process!Release, Process!Signal,
           Process!At, Process!Done, Process!Exit, Process!EnterFinally, Process!vars
  <2> QED
    BY <1>t, <2>1, <2>2, <2>3
<1>2. npFinally' \in BOOLEAN /\ npHandled' \in BOOLEAN /\ npStop' \in BOOLEAN
  <2>1. /\ npFinally' = npFinally \/ npFinally' = TRUE
        /\ npHandled' = npHandled \/ npHandled' = TRUE
        /\ (npStop' = npStop \/ npStop' = TRUE)
    BY DEF Process!Next, Process!Process, Process!InstallHandlers, Process!Check, Process!Start,
           Process!Serve, Process!Run, Process!StopNode, Process!Release, Process!Signal,
           Process!Done, Process!Exit, Process!EnterFinally, Process!vars
  <2> QED
    BY <1>t, <2>1, Zenon
<1>3. npRan' \in BOOLEAN /\ npRaised' \in BOOLEAN /\ npKind' = npKind
  <2>1. (npRan' = npRan \/ npRan' = TRUE) /\ (npRaised' = npRaised \/ npRaised' = TRUE)
        /\ npKind' = npKind
    BY DEF Process!Next, Process!Process, Process!InstallHandlers, Process!Check, Process!Start,
           Process!Serve, Process!Run, Process!StopNode, Process!Release, Process!Signal,
           Process!Raises, Process!vars
  <2> QED
    BY <1>t, <2>1, Zenon
<1>4. npNode' \in {"new", "started", "stopped"} /\ npListener' \in {"none", "up", "released"}
  BY <1>t DEF Process!Next, Process!Process, Process!InstallHandlers, Process!Check, Process!Start,
              Process!Serve, Process!Run, Process!StopNode, Process!Release, Process!Signal,
              Process!vars
<1> QED
  BY <1>t, <1>1, <1>2, <1>3, <1>4 DEF Process!TypeOK, Steps

\* Every step keeps the invariant.
LEMMA ProcessKeeps ==
  ASSUME ProcessInv, [Process!Next]_Process!vars
  PROVE  ProcessInv'
<1>t. Process!TypeOK'
  BY ProcessTypes DEF ProcessInv
<1>k. npKind' = npKind /\ npKind \in {"base", "gateway", "console"}
  <2>1. npKind' = npKind
    BY DEF Process!Next, Process!Process, Process!InstallHandlers, Process!Check, Process!Start,
           Process!Serve, Process!Run, Process!StopNode, Process!Release, Process!Signal,
           Process!vars
  <2> QED
    BY <2>1 DEF ProcessInv, Process!TypeOK, Process!Kinds
<1> SUFFICES ASSUME npKind # "console"
             PROVE  /\ \/ /\ npTodo' \in BeforeRun(npKind) /\ ~npRan'
                          /\ npKind = "base" /\ Head(npTodo') # "handlers" => npHandled'
                       \/ npTodo' = <<"run">> /\ npHandled'
                       \/ npTodo' = Process!Down[npKind] /\ npHandled'
                       \/ /\ npTodo' = <<"release">> /\ npKind = "base" /\ npHandled'
                          /\ npNode' = "stopped"
                       \/ npTodo' = <<>> /\ Process!EndsClean'
                    /\ npKind = "gateway" => npListener' = "none"
  BY <1>t, <1>k DEF ProcessInv
<1>1. CASE UNCHANGED Process!vars
  BY <1>1, <1>k DEF Process!vars, ProcessInv, Process!EndsClean
<1>2. CASE Process!InstallHandlers
  <2>1. npTodo \in BeforeRun(npKind) /\ ~npRan /\ Head(npTodo) = "handlers"
    BY <1>2, ProcessPlaces DEF Process!InstallHandlers, Process!At
  <2>2. /\ npTodo' = Tail(npTodo) /\ npHandled' = TRUE
        /\ UNCHANGED <<npRan, npListener>>
    BY <1>2 DEF Process!InstallHandlers, Process!Done
  <2>3. npTodo' \in BeforeRun(npKind) \/ npTodo' = <<"run">>
    BY <1>k, <2>1, <2>2, Heads, Tails DEF BeforeRun
  <2> QED
    BY <2>1, <2>2, <2>3 DEF ProcessInv
<1>3. CASE Process!Check \/ Process!Start \/ Process!Serve
  <2>1. /\ npTodo \in BeforeRun(npKind) /\ ~npRan /\ Head(npTodo) \in {"check", "start", "serve"}
        /\ (npKind = "base" => npHandled)
    BY <1>3, ProcessPlaces DEF Process!Check, Process!Start, Process!Serve, Process!At
  <2>2. /\ npTodo' = Tail(npTodo) \/ npTodo' = <<>>
        /\ UNCHANGED <<npRan, npHandled>>
    BY <1>3 DEF Process!Check, Process!Start, Process!Serve, Process!Done, Process!Exit
  <2>3. npTodo' \in BeforeRun(npKind) \/ (npTodo' = <<"run">> /\ npKind = "base") \/ npTodo' = <<>>
    BY <1>k, <2>1, <2>2, Heads, Tails DEF BeforeRun
  <2>4. npKind = "gateway" => npListener' = "none"
    <3>1. npKind = "gateway" => ~Process!Serve
      BY <2>1, Heads DEF BeforeRun, Process!Serve, Process!At
    <3> QED
      BY <1>3, <3>1 DEF ProcessInv, Process!Check, Process!Start
  <2> QED
    BY <1>k, <2>1, <2>2, <2>3, <2>4 DEF Process!EndsClean
<1>4. CASE Process!Run
  <2>1. npTodo = <<"run">> /\ npHandled
    BY <1>4, ProcessPlaces DEF Process!Run, Process!At
  <2>2. /\ npTodo' = Process!Down[npKind] \/ npTodo' = npTodo
        /\ UNCHANGED <<npHandled, npListener>>
    BY <1>4 DEF Process!Run, Process!EnterFinally
  <2> QED
    BY <2>1, <2>2 DEF ProcessInv
<1>5. CASE Process!StopNode
  <2>1. npTodo = Process!Down[npKind] /\ npHandled
    BY <1>5, ProcessPlaces DEF Process!StopNode, Process!At
  <2>2. /\ npNode' = "stopped" /\ UNCHANGED <<npHandled, npListener>>
        /\ \/ npTodo' = Tail(npTodo)
           \/ npTodo' = <<>> /\ npRaised' = TRUE
    BY <1>5 DEF Process!StopNode, Process!Done, Process!Exit, Process!Raises
  <2>3. npTodo' = Tail(npTodo) =>
            IF npKind = "base" THEN npTodo' = <<"release">> ELSE npTodo' = <<>>
    BY <1>k, <2>1, Tails, UpAndDown
  <2> QED
    BY <1>k, <2>1, <2>2, <2>3 DEF ProcessInv, Process!EndsClean
<1>6. CASE Process!Release
  <2>1. npTodo = <<"release">> /\ npKind = "base" /\ npHandled /\ npNode = "stopped"
    BY <1>6, ProcessPlaces DEF Process!Release, Process!At
  <2>2. /\ npTodo' = Tail(npTodo) \/ npTodo' = <<>>
        /\ UNCHANGED <<npHandled, npNode>> /\ npListener' # "up"
    BY <1>6 DEF Process!Release, Process!Done, Process!Exit
  <2> QED
    BY <2>1, <2>2, Tails DEF Process!EndsClean
<1>7. CASE Process!Signal
  <2>1. npTodo # <<>> /\ UNCHANGED <<npKind, npHandled, npNode, npListener, npRan, npRaised>>
    BY <1>7 DEF Process!Signal
  <2>2. CASE npHandled /\ UNCHANGED npTodo
    BY <2>1, <2>2 DEF ProcessInv
  <2>3. CASE ~npHandled /\ npTodo' = <<>>
    <3>1. ~npRan
      BY <2>1, <2>3, ProcessPlaces
    <3> QED
      BY <2>1, <2>3, <3>1 DEF ProcessInv, Process!EndsClean
  <2>4. CASE ~npHandled /\ Process!At("run")
    BY <2>1, <2>4, ProcessPlaces DEF Process!At
  <2> QED
    BY <1>7, <2>2, <2>3, <2>4 DEF Process!Signal, Process!Exit
<1> QED
  BY <1>1, <1>2, <1>3, <1>4, <1>5, <1>6, <1>7 DEF Process!Next, Process!Process

LEMMA ProcessInitInv == Process!Init => ProcessInv
<1> SUFFICES ASSUME Process!Init PROVE ProcessInv
  OBVIOUS
<1>1. /\ npKind \in {"base", "gateway", "console"} /\ npTodo = Process!Up[npKind]
      /\ npNode = "new" /\ npListener = "none"
  BY DEF Process!Init, Process!Kinds
<1>2. /\ npFinally = FALSE /\ npHandled = FALSE /\ npStop = FALSE
      /\ npRan = FALSE /\ npRaised = FALSE
  BY DEF Process!Init
<1>3. /\ npFinally \in BOOLEAN /\ npHandled \in BOOLEAN /\ npStop \in BOOLEAN
      /\ npRan \in BOOLEAN /\ npRaised \in BOOLEAN
  BY <1>2
<1>4. npTodo \in Seq(Steps)
  BY <1>1, UpAndDown
<1>5. Process!TypeOK
  BY <1>1, <1>3, <1>4 DEF Process!TypeOK, Process!Kinds, Steps
<1>6. npKind # "console" =>
          npTodo \in BeforeRun(npKind) /\ (npKind = "base" => Head(npTodo) = "handlers")
  BY <1>1, Heads DEF Process!Up, BeforeRun
<1> QED
  BY <1>1, <1>2, <1>5, <1>6 DEF ProcessInv

\* The invariant holds of every run.
LEMMA ProcessInvariant == Process!Init /\ [][Process!Next]_Process!vars => []ProcessInv
  BY ProcessInitInv, ProcessKeeps, PTL

\* meshsa-base and the gateway: however many signals come, and whatever raises, a process that
\* ran has stopped its node when it ends, and released its listener if nothing raised.
THEOREM EndsCleanTheorem == Process!Spec => []Process!EndsClean
<1>1. ProcessInv => Process!EndsClean
  <2> SUFFICES ASSUME ProcessInv, npTodo = <<>>, npKind # "console" PROVE Process!EndsClean
    BY DEF Process!EndsClean
  <2>1. npKind \in {"base", "gateway"}
    BY DEF ProcessInv, Process!TypeOK, Process!Kinds
  <2>2. npTodo \notin BeforeRun(npKind) /\ npTodo # Process!Down[npKind]
    BY <2>1 DEF BeforeRun, Process!Down
  <2> QED
    BY <2>2 DEF ProcessInv
<1> QED
  BY <1>1, ProcessInvariant, PTL DEF Process!Spec

-----------------------------------------------------------------------------
(* Dataset: what is on file is the beginning of what was written, and read_jsonl gets of any *)
(* beginning the records that are whole in it.                                              *)

Cells == [line : 0..MaxRecords, part : {"half", "rest", "nl"}]

\* The cells of all lines, one after the other.
CellAt(i) ==
    [line |-> (i - 1) \div 3,
     part |-> IF (i - 1) % 3 = 0 THEN "half" ELSE IF (i - 1) % 3 = 1 THEN "rest" ELSE "nl"]

FilesInv ==
    /\ dsSchema \in Schemas /\ dsState \in {"open", "closed", "dead"}
    /\ dsFile \in Seq(Cells) /\ dsBuffer \in Seq(Cells)
    /\ dsLines \in 1 .. MaxRecords + 1 /\ dsFlushed \in 1..dsLines
    /\ \A i \in 1..Len(dsFile) : dsFile[i] = CellAt(i)
    /\ \A i \in 1..Len(dsBuffer) : dsBuffer[i] = CellAt(Len(dsFile) + i)
    /\ dsState = "open" => dsKept /\ Len(dsFile) + Len(dsBuffer) = 3 * dsLines
    /\ dsKept => Len(dsFile) >= 3 * dsFlushed
    /\ dsState = "closed" => Len(dsFile) = 3 * dsLines

\* The cells of a line are those of its place.
LEMMA LineCells ==
  ASSUME NEW n \in Nat, n <= MaxRecords, MaxRecords \in Nat
  PROVE  /\ Files!Line(n) \in Seq(Cells) /\ Len(Files!Line(n)) = 3
         /\ \A i \in 1..3 : Files!Line(n)[i] = CellAt(3 * n + i)
<1>1. /\ CellAt(3 * n + 1) = [line |-> n, part |-> "half"]
      /\ CellAt(3 * n + 2) = [line |-> n, part |-> "rest"]
      /\ CellAt(3 * n + 3) = [line |-> n, part |-> "nl"]
  <2>1. /\ (3 * n + 1 - 1) \div 3 = n /\ (3 * n + 1 - 1) % 3 = 0
        /\ (3 * n + 2 - 1) \div 3 = n /\ (3 * n + 2 - 1) % 3 = 1
        /\ (3 * n + 3 - 1) \div 3 = n /\ (3 * n + 3 - 1) % 3 = 2
    OBVIOUS
  <2> QED
    BY <2>1 DEF CellAt
<1>2. /\ [line |-> n, part |-> "half"] \in Cells /\ [line |-> n, part |-> "rest"] \in Cells
      /\ [line |-> n, part |-> "nl"] \in Cells
  BY DEF Cells
<1>3. Files!Line(n) = <<CellAt(3 * n + 1), CellAt(3 * n + 2), CellAt(3 * n + 3)>>
  BY <1>1 DEF Files!Line
<1>4. CellAt(3 * n + 1) \in Cells /\ CellAt(3 * n + 2) \in Cells /\ CellAt(3 * n + 3) \in Cells
  BY <1>1, <1>2
<1> HIDE DEF CellAt, Cells
<1> QED
  BY <1>3, <1>4

\* A part of the buffer moves to the file.
LEMMA MoveCells ==
  ASSUME NEW S, NEW f \in Seq(S), NEW b \in Seq(S), NEW k \in 0..Len(b)
  PROVE  /\ f \o SubSeq(b, 1, k) \in Seq(S) /\ Len(f \o SubSeq(b, 1, k)) = Len(f) + k
         /\ \A i \in 1..Len(f) : (f \o SubSeq(b, 1, k))[i] = f[i]
         /\ \A i \in 1..k : (f \o SubSeq(b, 1, k))[Len(f) + i] = b[i]
         /\ SubSeq(b, k + 1, Len(b)) \in Seq(S) /\ Len(SubSeq(b, k + 1, Len(b))) = Len(b) - k
         /\ \A i \in 1 .. Len(b) - k : SubSeq(b, k + 1, Len(b))[i] = b[k + i]
<1>1. Len(f) \in Nat /\ Len(b) \in Nat /\ \A i \in 1..Len(b) : b[i] \in S
  BY LenProperties, ElementOfSeq
<1>2. /\ SubSeq(b, 1, k) \in Seq(S) /\ Len(SubSeq(b, 1, k)) = k
      /\ \A i \in 1..k : SubSeq(b, 1, k)[i] = b[i]
  <2>1. \A i \in 1..k : b[i] \in S
    BY <1>1
  <2>2. Len(SubSeq(b, 1, k)) = k /\ \A i \in 1..k : SubSeq(b, 1, k)[i] = b[i]
    BY <1>1, SubSeqProperties
  <2>3. SubSeq(b, 1, k) \in Seq(S)
    BY <1>1, <2>1, SubSeqProperties
  <2> QED
    BY <2>2, <2>3
<1>3. /\ SubSeq(b, k + 1, Len(b)) \in Seq(S) /\ Len(SubSeq(b, k + 1, Len(b))) = Len(b) - k
      /\ \A i \in 1 .. Len(b) - k : SubSeq(b, k + 1, Len(b))[i] = b[k + i]
  BY <1>1, SubSeqProperties
<1>4. /\ f \o SubSeq(b, 1, k) \in Seq(S)
      /\ Len(f \o SubSeq(b, 1, k)) = Len(f) + k
      /\ \A i \in 1 .. Len(f) + k :
             (f \o SubSeq(b, 1, k))[i] = IF i <= Len(f) THEN f[i] ELSE SubSeq(b, 1, k)[i - Len(f)]
  BY <1>2, ConcatProperties
<1>5. \A i \in 1..k : (f \o SubSeq(b, 1, k))[Len(f) + i] = b[i]
  <2> TAKE i \in 1..k
  <2>1. Len(f) + i \in 1 .. Len(f) + k /\ ~(Len(f) + i <= Len(f)) /\ Len(f) + i - Len(f) = i
    BY <1>1
  <2> QED
    BY <1>2, <1>4, <2>1
<1> QED
  BY <1>1, <1>3, <1>4, <1>5

\* What was moved to the file, or kept back, is what was written.
LEMMA FilesMove ==
  ASSUME FilesInv, NEW k \in 0..Len(dsBuffer),
         dsFile' = dsFile \o SubSeq(dsBuffer, 1, k),
         dsBuffer' = SubSeq(dsBuffer, k + 1, Len(dsBuffer))
  PROVE  /\ dsFile' \in Seq(Cells) /\ dsBuffer' \in Seq(Cells)
         /\ Len(dsFile') = Len(dsFile) + k /\ Len(dsBuffer') = Len(dsBuffer) - k
         /\ \A i \in 1..Len(dsFile') : dsFile'[i] = CellAt(i)
         /\ \A i \in 1..Len(dsBuffer') : dsBuffer'[i] = CellAt(Len(dsFile') + i)
<1>t. /\ dsFile \in Seq(Cells) /\ dsBuffer \in Seq(Cells)
      /\ Len(dsFile) \in Nat /\ Len(dsBuffer) \in Nat
      /\ \A i \in 1..Len(dsFile) : dsFile[i] = CellAt(i)
      /\ \A i \in 1..Len(dsBuffer) : dsBuffer[i] = CellAt(Len(dsFile) + i)
  BY LenProperties DEF FilesInv
<1>1. /\ dsFile' \in Seq(Cells) /\ Len(dsFile') = Len(dsFile) + k
      /\ \A i \in 1..Len(dsFile) : dsFile'[i] = dsFile[i]
      /\ \A i \in 1..k : dsFile'[Len(dsFile) + i] = dsBuffer[i]
      /\ dsBuffer' \in Seq(Cells) /\ Len(dsBuffer') = Len(dsBuffer) - k
      /\ \A i \in 1 .. Len(dsBuffer) - k : dsBuffer'[i] = dsBuffer[k + i]
  BY <1>t, MoveCells
<1>2. \A i \in 1..Len(dsFile') : dsFile'[i] = CellAt(i)
  <2> TAKE i \in 1..Len(dsFile')
  <2>1. CASE i <= Len(dsFile)
    BY <1>t, <1>1, <2>1
  <2>2. CASE i > Len(dsFile)
    <3>1. i - Len(dsFile) \in 1..k /\ i - Len(dsFile) \in 1..Len(dsBuffer)
          /\ Len(dsFile) + (i - Len(dsFile)) = i
      BY <1>t, <1>1, <2>2
    <3>2. dsFile'[i] = dsBuffer[i - Len(dsFile)]
      BY <1>1, <3>1
    <3>3. dsBuffer[i - Len(dsFile)] = CellAt(i)
      BY <1>t, <3>1
    <3> QED
      BY <3>2, <3>3
  <2> QED
    BY <1>t, <1>1, <2>1, <2>2
<1>3. \A i \in 1..Len(dsBuffer') : dsBuffer'[i] = CellAt(Len(dsFile') + i)
  <2> TAKE i \in 1..Len(dsBuffer')
  <2>0. /\ Len(dsFile) \in Nat /\ Len(dsBuffer) \in Nat
        /\ Len(dsFile') = Len(dsFile) + k /\ Len(dsBuffer') = Len(dsBuffer) - k
    BY <1>t, <1>1
  <2>1. i \in 1 .. Len(dsBuffer) - k
    BY <2>0
  <2>4. k + i \in 1..Len(dsBuffer) /\ Len(dsFile) + (k + i) = Len(dsFile') + i
    BY <2>0, <2>1
  <2>2. dsBuffer'[i] = dsBuffer[k + i]
    BY <1>1, <2>1
  <2>3. dsBuffer[k + i] = CellAt(Len(dsFile) + (k + i))
    BY <1>t, <2>4
  <2> QED
    BY <2>2, <2>3, <2>4
<1> QED
  BY <1>1, <1>2, <1>3

\* Every step keeps the invariant.
LEMMA FilesKeeps == ASSUME Files!ConstantsOK, FilesInv, [Files!Next]_Files!vars PROVE FilesInv'
<1>t. /\ dsSchema \in Schemas /\ dsState \in {"open", "closed", "dead"}
      /\ dsFile \in Seq(Cells) /\ dsBuffer \in Seq(Cells)
      /\ Len(dsFile) \in Nat /\ Len(dsBuffer) \in Nat /\ MaxRecords \in Nat
      /\ dsLines \in 1 .. MaxRecords + 1 /\ dsFlushed \in 1..dsLines
      /\ \A i \in 1..Len(dsFile) : dsFile[i] = CellAt(i)
      /\ \A i \in 1..Len(dsBuffer) : dsBuffer[i] = CellAt(Len(dsFile) + i)
      /\ dsState = "open" => dsKept /\ Len(dsFile) + Len(dsBuffer) = 3 * dsLines
      /\ dsKept => Len(dsFile) >= 3 * dsFlushed
      /\ dsState = "closed" => Len(dsFile) = 3 * dsLines
  BY LenProperties DEF FilesInv, Files!ConstantsOK
<1>n. /\ Len(dsFile) \in Nat /\ Len(dsBuffer) \in Nat /\ MaxRecords \in Nat
      /\ dsLines \in Nat /\ dsLines <= MaxRecords + 1 /\ dsFlushed \in Nat
      /\ 1 <= dsFlushed /\ dsFlushed <= dsLines
  BY <1>t
<1>o. dsState = "open" => Len(dsFile) + Len(dsBuffer) = 3 * dsLines /\ Len(dsFile) >= 3 * dsFlushed
  <2>1. dsState = "open" => dsKept
    BY <1>t
  <2> QED
    BY <1>t, <2>1
<1>1. CASE Files!Write
  <2>1. /\ dsState = "open" /\ dsLines <= MaxRecords /\ dsLines' = dsLines + 1
        /\ dsBuffer' = dsBuffer \o Files!Line(dsLines)
        /\ UNCHANGED <<dsSchema, dsState, dsFile, dsFlushed, dsKept>>
    BY <1>1 DEF Files!Write
  <2>2. dsLines \in Nat
    BY <1>t
  <2>3. /\ Files!Line(dsLines) \in Seq(Cells) /\ Len(Files!Line(dsLines)) = 3
        /\ \A i \in 1..3 : Files!Line(dsLines)[i] = CellAt(3 * dsLines + i)
    BY <1>t, <2>1, <2>2, LineCells
  <2>4. /\ dsBuffer' \in Seq(Cells) /\ Len(dsBuffer') = Len(dsBuffer) + 3
        /\ \A i \in 1 .. Len(dsBuffer) + 3 :
               dsBuffer'[i] = IF i <= Len(dsBuffer) THEN dsBuffer[i]
                              ELSE Files!Line(dsLines)[i - Len(dsBuffer)]
    <3>1. /\ dsBuffer \o Files!Line(dsLines) \in Seq(Cells)
          /\ Len(dsBuffer \o Files!Line(dsLines)) = Len(dsBuffer) + Len(Files!Line(dsLines))
          /\ \A i \in 1 .. Len(dsBuffer) + Len(Files!Line(dsLines)) :
                 (dsBuffer \o Files!Line(dsLines))[i] =
                     IF i <= Len(dsBuffer) THEN dsBuffer[i]
                     ELSE Files!Line(dsLines)[i - Len(dsBuffer)]
      <4>1. dsBuffer \in Seq(Cells)
        BY <1>t
      <4>2. Files!Line(dsLines) \in Seq(Cells)
        BY <2>3
      <4> QED
        BY <4>1, <4>2, ConcatProperties
    <3> QED
      BY <2>1, <2>3, <3>1
  <2>5. \A i \in 1..Len(dsBuffer') : dsBuffer'[i] = CellAt(Len(dsFile) + i)
    <3> TAKE i \in 1..Len(dsBuffer')
    <3>1. CASE i <= Len(dsBuffer)
      BY <1>t, <2>4, <3>1
    <3>2. CASE i > Len(dsBuffer)
      <4>1. i - Len(dsBuffer) \in 1..3 /\ 3 * dsLines + (i - Len(dsBuffer)) = Len(dsFile) + i
        <5>1. Len(dsBuffer') = Len(dsBuffer) + 3 /\ Len(dsFile) + Len(dsBuffer) = 3 * dsLines
          BY <1>o, <2>1, <2>4
        <5> QED
          BY <1>n, <3>2, <5>1
      <4>2. dsBuffer'[i] = Files!Line(dsLines)[i - Len(dsBuffer)]
        BY <1>t, <2>4, <3>2
      <4> QED
        BY <2>3, <4>1, <4>2
    <3> QED
      BY <1>t, <2>4, <3>1, <3>2
  <2>6. dsLines' \in 1 .. MaxRecords + 1 /\ dsFlushed' \in 1..dsLines'
        /\ Len(dsFile) + (Len(dsBuffer) + 3) = 3 * (dsLines + 1)
    <3>1. dsLines' = dsLines + 1 /\ dsFlushed' = dsFlushed /\ dsLines <= MaxRecords
          /\ Len(dsFile) + Len(dsBuffer) = 3 * dsLines
      BY <1>o, <2>1
    <3> QED
      BY <1>n, <3>1
  <2> QED
    BY <1>t, <2>1, <2>4, <2>5, <2>6 DEF FilesInv
<1>2. CASE Files!Spill
  <2>1. PICK k \in 1 .. Len(dsBuffer) - 1 :
            /\ dsFile' = dsFile \o SubSeq(dsBuffer, 1, k)
            /\ dsBuffer' = SubSeq(dsBuffer, k + 1, Len(dsBuffer))
    BY <1>2 DEF Files!Spill
  <2>2. k \in 0..Len(dsBuffer)
    BY <1>t, <2>1
  <2>3. /\ dsFile' \in Seq(Cells) /\ dsBuffer' \in Seq(Cells)
        /\ Len(dsFile') = Len(dsFile) + k /\ Len(dsBuffer') = Len(dsBuffer) - k
        /\ \A i \in 1..Len(dsFile') : dsFile'[i] = CellAt(i)
        /\ \A i \in 1..Len(dsBuffer') : dsBuffer'[i] = CellAt(Len(dsFile') + i)
    BY <2>1, <2>2, FilesMove
  <2>4. dsState = "open" /\ UNCHANGED <<dsSchema, dsState, dsLines, dsFlushed, dsKept>>
    BY <1>2 DEF Files!Spill
  <2>5. Len(dsFile') + Len(dsBuffer') = 3 * dsLines /\ Len(dsFile') >= 3 * dsFlushed
    <3>1. /\ Len(dsFile') = Len(dsFile) + k /\ Len(dsBuffer') = Len(dsBuffer) - k
          /\ Len(dsFile) + Len(dsBuffer) = 3 * dsLines /\ Len(dsFile) >= 3 * dsFlushed
      BY <1>o, <2>3, <2>4
    <3> QED
      BY <1>n, <2>2, <3>1
  <2> QED
    BY <1>t, <2>3, <2>4, <2>5 DEF FilesInv
<1>3. CASE Files!Flush
  <2>1. /\ dsState = "open" /\ dsState' \in {"open", "closed"} /\ dsFile' = dsFile \o dsBuffer
        /\ dsBuffer' = <<>> /\ dsFlushed' = dsLines /\ UNCHANGED <<dsSchema, dsLines, dsKept>>
    BY <1>3 DEF Files!Flush
  <2>2. /\ dsFile' \in Seq(Cells) /\ Len(dsFile') = Len(dsFile) + Len(dsBuffer)
        /\ \A i \in 1 .. Len(dsFile) + Len(dsBuffer) :
               dsFile'[i] = IF i <= Len(dsFile) THEN dsFile[i] ELSE dsBuffer[i - Len(dsFile)]
    BY <1>t, <2>1, ConcatProperties
  <2>3. \A i \in 1..Len(dsFile') : dsFile'[i] = CellAt(i)
    <3> TAKE i \in 1..Len(dsFile')
    <3>1. CASE i <= Len(dsFile)
      BY <1>t, <2>2, <3>1
    <3>2. CASE i > Len(dsFile)
      <4>1. i - Len(dsFile) \in 1..Len(dsBuffer) /\ Len(dsFile) + (i - Len(dsFile)) = i
        BY <1>t, <2>2, <3>2
      <4>2. dsFile'[i] = dsBuffer[i - Len(dsFile)]
        BY <1>t, <2>2, <3>2
      <4>3. dsBuffer[i - Len(dsFile)] = CellAt(i)
        BY <1>t, <4>1
      <4> QED
        BY <4>2, <4>3
    <3> QED
      BY <1>t, <2>2, <3>1, <3>2
  <2>4. dsBuffer' \in Seq(Cells) /\ Len(dsBuffer') = 0
    BY <2>1, EmptySeq
  <2>5. Len(dsFile') = 3 * dsLines /\ dsFlushed' \in 1..dsLines
    BY <1>t, <2>1, <2>2
  <2> QED
    BY <1>t, <2>1, <2>2, <2>3, <2>4, <2>5 DEF FilesInv
<1>4. CASE Files!Dies
  <2>1. /\ dsState' = "dead" /\ dsBuffer' = <<>>
        /\ UNCHANGED <<dsSchema, dsFile, dsLines, dsFlushed, dsKept>>
    BY <1>4 DEF Files!Dies
  <2>2. dsBuffer' \in Seq(Cells) /\ Len(dsBuffer') = 0
    BY <2>1, EmptySeq
  <2> QED
    BY <1>t, <2>1, <2>2 DEF FilesInv
<1>5. CASE Files!PowerLoss
  <2>1. /\ dsState = "open" /\ dsState' = "dead" /\ dsBuffer' = <<>>
        /\ dsKept' = (dsFile' = dsFile)
        /\ UNCHANGED <<dsSchema, dsLines, dsFlushed>>
    BY <1>5 DEF Files!PowerLoss
  <2>2. PICK k \in 0..Len(dsFile) : dsFile' = SubSeq(dsFile, 1, k)
    BY <1>5 DEF Files!PowerLoss
  <2>3. \A i \in 1..k : dsFile[i] \in Cells
    BY <1>t, <2>2, ElementOfSeq
  <2>4. /\ dsFile' \in Seq(Cells) /\ Len(dsFile') = k
        /\ \A i \in 1..k : dsFile'[i] = dsFile[i]
    <3>1. k \in Int /\ (1 <= k => k - 1 + 1 = k) /\ (~(1 <= k) => k = 0)
      BY <2>2
    <3>2. \A i \in 1 .. k - 1 + 1 : 1 + i - 1 = i
      BY <3>1
    <3>3. /\ dsFile' \in Seq(Cells) /\ Len(dsFile') = IF 1 <= k THEN k - 1 + 1 ELSE 0
          /\ \A i \in 1 .. k - 1 + 1 : dsFile'[i] = dsFile[1 + i - 1]
      BY <2>2, <2>3, <3>1, SubSeqProperties
    <3> QED
      BY <3>1, <3>2, <3>3
  <2>5. \A i \in 1..Len(dsFile') : dsFile'[i] = CellAt(i)
    BY <1>t, <2>2, <2>4
  <2>6. dsBuffer' \in Seq(Cells) /\ Len(dsBuffer') = 0
    BY <2>1, EmptySeq
  <2>7. dsKept' => Len(dsFile') >= 3 * dsFlushed
    BY <1>t, <2>1
  <2> QED
    BY <1>t, <2>1, <2>4, <2>5, <2>6, <2>7 DEF FilesInv
<1>6. CASE UNCHANGED Files!writerVars
  BY <1>t, <1>6 DEF FilesInv, Files!writerVars
<1>7. UNCHANGED Files!vars \/ Files!Open \/ Files!ReadLine \/ Files!Finish =>
          UNCHANGED Files!writerVars
  BY DEF Files!vars, Files!Open, Files!ReadLine, Files!Finish
<1> QED
  BY <1>1, <1>2, <1>3, <1>4, <1>5, <1>6, <1>7 DEF Files!Next

LEMMA FilesInitInv == ASSUME Files!ConstantsOK PROVE Files!Init => FilesInv
<1> SUFFICES ASSUME Files!Init PROVE FilesInv
  OBVIOUS
<1>1. MaxRecords \in Nat
  BY DEF Files!ConstantsOK
<1>2. /\ Files!Line(0) \in Seq(Cells) /\ Len(Files!Line(0)) = 3
      /\ \A i \in 1..3 : Files!Line(0)[i] = CellAt(3 * 0 + i)
  BY <1>1, LineCells
<1>3. \A i \in 1..3 : 3 * 0 + i = i
  OBVIOUS
<1>4. /\ dsSchema \in Schemas /\ dsState = "open" /\ dsBuffer = <<>> /\ dsFile = Files!Line(0)
      /\ dsLines = 1 /\ dsFlushed = 1 /\ dsKept = TRUE
  BY DEF Files!Init
<1>5. dsBuffer \in Seq(Cells) /\ Len(dsBuffer) = 0
  BY <1>4, EmptySeq
<1> QED
  BY <1>1, <1>2, <1>3, <1>4, <1>5 DEF FilesInv

\* The cells of the line that begins behind the first n.
LEMMA CellParts ==
  ASSUME NEW n \in Nat
  PROVE  /\ CellAt(3 * n + 1) = [line |-> n, part |-> "half"]
         /\ CellAt(3 * n + 2) = [line |-> n, part |-> "rest"]
         /\ CellAt(3 * n + 3) = [line |-> n, part |-> "nl"]
<1>1. /\ (3 * n + 1 - 1) \div 3 = n /\ (3 * n + 1 - 1) % 3 = 0
      /\ (3 * n + 2 - 1) \div 3 = n /\ (3 * n + 2 - 1) % 3 = 1
      /\ (3 * n + 3 - 1) \div 3 = n /\ (3 * n + 3 - 1) % 3 = 2
  OBVIOUS
<1> QED
  BY <1>1 DEF CellAt

LEMMA NotEmpty == \A s : Len(s) = 1 \/ Len(s) = 2 => s # <<>>
<1>1. Len(<<>>) = 0
  OBVIOUS
<1> QED
  BY <1>1

\* The line readline() returns to a reader that has read whole lines, the last perhaps
\* without its newline: what is left of that line, the torn end of the file, or a whole line.
LEMMA NextLine ==
  ASSUME FilesInv, NEW g \in Nat, dsAt \in {3 * g, 3 * g - 1}, dsAt \in 0..Len(dsFile),
         NEW e \in dsAt + 1 .. Len(dsFile), Files!EndsLine(e)
  PROVE  \/ /\ Files!Stripped(e) = <<>>
            /\ e = 3 * g
         \/ /\ ~Files!Parses(Files!Stripped(e)) /\ Files!Stripped(e) # <<>>
            /\ e = 3 * g + 1 /\ e = Len(dsFile)
         \/ /\ Files!Parses(Files!Stripped(e)) /\ Files!Stripped(e) # <<>>
            /\ Files!Stripped(e)[1].line = g /\ g \in 0..MaxRecords
            /\ e = 3 * g + 2 \/ e = 3 * g + 3
<1> DEFINE N == Len(dsFile)
           s == Files!Stripped(e)
<1>1. /\ N \in Nat /\ dsAt \in Nat /\ e \in Nat /\ dsAt < e /\ e <= N
      /\ dsFile \in Seq(Cells) /\ \A i \in 1..N : dsFile[i] = CellAt(i) /\ dsFile[i] \in Cells
  <2>1. dsFile \in Seq(Cells) /\ \A i \in 1..N : dsFile[i] = CellAt(i)
    BY DEF FilesInv
  <2>2. N \in Nat /\ \A i \in 1..N : dsFile[i] \in Cells
    BY <2>1, LenProperties, ElementOfSeq
  <2> QED
    BY <2>1, <2>2
<1>2. s = SubSeq(dsFile, dsAt + 1, IF dsFile[e].part = "nl" THEN e - 1 ELSE e)
  BY DEF Files!Stripped
<1>3. /\ \A i \in dsAt + 1 .. e - 1 : dsFile[i].part # "nl"
      /\ dsFile[e].part = "nl" \/ e = N
  BY DEF Files!EndsLine
<1> HIDE DEF N, s
<1>4. ASSUME dsAt = 3 * g - 1
      PROVE  s = <<>> /\ e = 3 * g
  <2>1. g - 1 \in Nat /\ 3 * g = 3 * (g - 1) + 3
    BY <1>1, <1>4
  <2>2. CellAt(3 * g).part = "nl"
    <3>1. CellAt(3 * (g - 1) + 3) = [line |-> g - 1, part |-> "nl"]
      BY <2>1, CellParts
    <3> QED
      BY <2>1, <3>1
  <2>3. 3 * g \in 1..N
    BY <1>1, <1>4
  <2>4. dsFile[3 * g].part = "nl"
    BY <1>1, <2>2, <2>3
  <2>5. e = 3 * g
    <3>1. 3 * g \notin dsAt + 1 .. e - 1
      BY <1>3, <2>4
    <3> QED
      BY <1>1, <1>4, <3>1
  <2>6. s = SubSeq(dsFile, dsAt + 1, e - 1)
    BY <1>2, <2>4, <2>5
  <2>7. dsAt + 1 \in Int /\ e - 1 \in Int /\ e - 1 < dsAt + 1
    BY <1>1, <1>4, <2>5
  <2> QED
    BY <2>5, <2>6, <2>7, SubSeqEmpty
<1>5. ASSUME dsAt = 3 * g
      PROVE  \/ /\ ~Files!Parses(s) /\ s # <<>>
                /\ e = 3 * g + 1 /\ e = N
             \/ /\ Files!Parses(s) /\ s # <<>>
                /\ s[1].line = g /\ g \in 0..MaxRecords
                /\ e = 3 * g + 2 \/ e = 3 * g + 3
  <2>1. /\ 3 * g + 1 <= N => dsFile[3 * g + 1] = [line |-> g, part |-> "half"]
        /\ 3 * g + 2 <= N => dsFile[3 * g + 2] = [line |-> g, part |-> "rest"]
        /\ 3 * g + 3 <= N => dsFile[3 * g + 3] = [line |-> g, part |-> "nl"]
    <3>1. /\ 3 * g + 1 <= N => dsFile[3 * g + 1] = CellAt(3 * g + 1)
          /\ 3 * g + 2 <= N => dsFile[3 * g + 2] = CellAt(3 * g + 2)
          /\ 3 * g + 3 <= N => dsFile[3 * g + 3] = CellAt(3 * g + 3)
      BY <1>1
    <3>2. /\ CellAt(3 * g + 1) = [line |-> g, part |-> "half"]
          /\ CellAt(3 * g + 2) = [line |-> g, part |-> "rest"]
          /\ CellAt(3 * g + 3) = [line |-> g, part |-> "nl"]
      BY CellParts
    <3> QED
      BY <3>1, <3>2
  <2>2. e <= 3 * g + 3
    <3>1. 3 * g + 3 \notin dsAt + 1 .. e - 1
      <4>1. 3 * g + 3 <= N => dsFile[3 * g + 3].part = "nl"
        BY <2>1
      <4> QED
        BY <1>1, <1>3, <4>1
    <3> QED
      BY <1>1, <1>5, <3>1
  <2>3. e = 3 * g + 1 \/ e = 3 * g + 2 \/ e = 3 * g + 3
    BY <1>1, <1>5, <2>2
  <2>4. CASE e = 3 * g + 1
    <3>1. dsFile[e].part # "nl"
      BY <1>1, <2>1, <2>4
    <3>2. s = SubSeq(dsFile, e, e) /\ e = N
      BY <1>2, <1>3, <1>5, <2>4, <3>1
    <3>3. \A i \in e..e : dsFile[i] \in Cells
      BY <1>1
    <3>4. e \in Int /\ e <= e /\ e - e + 1 = 1
      BY <1>1
    <3>5. s \in Seq(Cells) /\ Len(s) = 1
      BY <3>2, <3>3, <3>4, SubSeqProperties
    <3>6. s # <<>> /\ ~Files!Parses(s)
      <4>1. ~Files!Parses(s)
        BY <3>5 DEF Files!Parses
      <4>2. s # <<>>
        BY <3>5, NotEmpty
      <4> QED
        BY <4>1, <4>2
    <3> QED
      BY <2>4, <3>2, <3>6
  <2>5. CASE e = 3 * g + 2 \/ e = 3 * g + 3
    <3> DEFINE a == 3 * g + 1
               b == 3 * g + 2
    <3>0. a \in 1..N /\ b \in 1..N /\ a \in Int /\ b \in Int /\ a <= b /\ b - a + 1 = 2
      BY <1>1, <2>5
    <3>1. dsFile[a] = [line |-> g, part |-> "half"] /\ dsFile[b] = [line |-> g, part |-> "rest"]
      BY <2>1, <3>0 DEF a, b
    <3>2. s = SubSeq(dsFile, a, b)
      <4>0. dsAt + 1 = a
        BY <1>5
      <4>1. CASE e = 3 * g + 2
        <5>1. dsFile[e].part # "nl" /\ e = b
          BY <3>1, <4>1
        <5> QED
          BY <1>2, <4>0, <5>1
      <4>2. CASE e = 3 * g + 3
        <5>1. dsFile[e].part = "nl"
          BY <1>1, <2>1, <4>2
        <5>2. e - 1 = b
          BY <4>2
        <5> QED
          BY <1>2, <4>0, <5>1, <5>2
      <4> QED
        BY <2>5, <4>1, <4>2
    <3> HIDE DEF a, b
    <3>3. \A i \in a..b : dsFile[i] \in Cells
      <4>1. \A i \in a..b : i \in 1..N
        BY <1>1, <3>0
      <4> QED
        BY <1>1, <4>1
    <3>4. /\ s \in Seq(Cells) /\ Len(s) = IF a <= b THEN b - a + 1 ELSE 0
          /\ \A i \in 1 .. b - a + 1 : s[i] = dsFile[a + i - 1]
      BY <3>0, <3>2, <3>3, SubSeqProperties
    <3>5. Len(s) = 2 /\ s[1] = dsFile[a] /\ s[2] = dsFile[b]
      <4>1. a + 1 - 1 = a /\ a + 2 - 1 = b /\ 1 \in 1..2 /\ 2 \in 1..2
        BY <3>0 DEF a, b
      <4> QED
        BY <3>0, <3>4, <4>1
    <3>6. Files!Parses(s) /\ s # <<>> /\ s[1].line = g
      <4>1. s[1].line = g /\ s[1].part = "half" /\ s[2].line = g /\ s[2].part = "rest"
        BY <3>1, <3>5
      <4>2. Files!Parses(s)
        BY <3>5, <4>1 DEF Files!Parses
      <4>3. s # <<>>
        BY <3>5, NotEmpty
      <4> QED
        BY <4>1, <4>2, <4>3
    <3>7. g \in 0..MaxRecords
      BY <1>1, <3>0, <3>1 DEF Cells
    <3> QED
      BY <2>5, <3>6, <3>7
  <2> QED
    BY <2>3, <2>4, <2>5
<1> QED
  BY <1>4, <1>5 DEF N, s

\* A reader that has met a torn end and finds more gets the rest of that line.
LEMMA NextTorn ==
  ASSUME FilesInv, NEW g \in Nat, dsAt = 3 * g + 1, NEW e \in dsAt + 1 .. Len(dsFile),
         Files!EndsLine(e)
  PROVE  Files!Stripped(e) # <<>>
<1> DEFINE last == IF dsFile[e].part = "nl" THEN e - 1 ELSE e
<1>1. /\ Len(dsFile) \in Nat /\ \A i \in 1..Len(dsFile) : dsFile[i] = CellAt(i)
      /\ \A i \in 1..Len(dsFile) : dsFile[i] \in Cells
  BY LenProperties, ElementOfSeq DEF FilesInv
<1>2. dsAt + 1 \in 1..Len(dsFile) /\ dsAt + 1 = 3 * g + 2 /\ e \in Int /\ e >= dsAt + 1
  BY <1>1
<1>3. dsFile[dsAt + 1].part # "nl"
  <2>1. CellAt(3 * g + 2) = [line |-> g, part |-> "rest"]
    BY CellParts
  <2>2. dsFile[dsAt + 1] = CellAt(3 * g + 2)
    BY <1>1, <1>2
  <2> QED
    BY <2>1, <2>2
<1>4. last \in Int /\ dsAt + 1 <= last /\ last <= Len(dsFile)
  <2>1. e = dsAt + 1 => last = e
    BY <1>3
  <2> QED
    BY <1>1, <1>2, <2>1
<1>5. Files!Stripped(e) = SubSeq(dsFile, dsAt + 1, last)
  BY DEF Files!Stripped
<1> HIDE DEF last
<1>6. \A i \in dsAt + 1 .. last : dsFile[i] \in Cells
  <2>1. \A i \in dsAt + 1 .. last : i \in 1..Len(dsFile)
    BY <1>1, <1>2, <1>4
  <2> QED
    BY <1>1, <2>1
<1>7. Len(SubSeq(dsFile, dsAt + 1, last)) = last - (dsAt + 1) + 1
  BY <1>2, <1>4, <1>6, SubSeqProperties
<1>8. last - (dsAt + 1) + 1 # 0
  BY <1>2, <1>4
<1> QED
  BY <1>5, <1>7, <1>8, EmptySeq

\* What has been read are the header and records from the first on; a reader that met a torn
\* end stands behind it.
ReaderInv ==
    /\ dsReader \in {"idle", "reading", "read", "JSONDecodeError", "IncompatibleDatasetError"}
    /\ dsAt \in 0..Len(dsFile)
    /\ dsTorn \in BOOLEAN /\ dsRaced \in BOOLEAN
    /\ dsGot \in Seq(0..MaxRecords)
    /\ \A i \in 1..Len(dsGot) : dsGot[i] = i - 1
    /\ dsReader = "reading" /\ ~dsTorn => dsAt \in {3 * Len(dsGot), 3 * Len(dsGot) - 1}
    /\ dsReader = "reading" /\ dsTorn =>
           dsAt = 3 * Len(dsGot) + 1 /\ (dsRaced \/ dsAt = Len(dsFile))

\* One line read.
LEMMA ReadLineKeeps ==
  ASSUME FilesInv, ReaderInv, Files!ReadLine
  PROVE  ReaderInv' /\ (dsReader' # "reading" => dsReader' = "JSONDecodeError" /\ dsRaced)
<1> DEFINE g == Len(dsGot)
<1>1. PICK e \in dsAt + 1 .. Len(dsFile) :
          Files!EndsLine(e) /\ dsAt' = e /\ Files!Consume(Files!Stripped(e))
  BY DEF Files!ReadLine
<1>2. dsReader = "reading" /\ UNCHANGED <<dsFile, dsRaced>>
  BY DEF Files!ReadLine, Files!writerVars
<1>3. /\ Len(dsFile) \in Nat /\ g \in Nat /\ dsAt \in 0..Len(dsFile) /\ dsAt \in Nat
      /\ dsGot \in Seq(0..MaxRecords) /\ \A i \in 1..g : dsGot[i] = i - 1
      /\ dsTorn \in BOOLEAN /\ dsRaced \in BOOLEAN
      /\ ~dsTorn => dsAt \in {3 * g, 3 * g - 1}
      /\ dsTorn => dsAt = 3 * g + 1 /\ (dsRaced \/ dsAt = Len(dsFile))
  BY <1>2, LenProperties DEF FilesInv, ReaderInv
<1>4. dsAt' \in 0..Len(dsFile') /\ dsAt' = e /\ e \in Nat /\ e <= Len(dsFile) /\ dsAt < e
  BY <1>1, <1>2, <1>3
<1> DEFINE s == Files!Stripped(e)
<1> HIDE DEF g, s
<1>5. CASE dsTorn
  <2>1. s # <<>>
    BY <1>1, <1>3, <1>5, NextTorn DEF s
  <2>2. dsReader' = "JSONDecodeError" /\ UNCHANGED <<dsTorn, dsGot>>
    BY <1>1, <1>5, <2>1, Zenon DEF Files!Consume, s
  <2>3. dsRaced
    BY <1>3, <1>4, <1>5
  <2> QED
    BY <1>2, <1>3, <1>4, <2>2, <2>3 DEF ReaderInv, g
<1>6. CASE ~dsTorn
  <2>1. \/ s = <<>> /\ e = 3 * g
        \/ ~Files!Parses(s) /\ s # <<>> /\ e = 3 * g + 1 /\ e = Len(dsFile)
        \/ /\ Files!Parses(s) /\ s # <<>> /\ s[1].line = g /\ g \in 0..MaxRecords
           /\ e = 3 * g + 2 \/ e = 3 * g + 3
    BY <1>1, <1>3, <1>6, NextLine DEF s
  <2>2. CASE s = <<>> /\ e = 3 * g
    <3>1. ~Files!Parses(s)
      <4>1. Len(s) = 0
        BY <2>2, EmptySeq
      <4> QED
        BY <4>1 DEF Files!Parses
    <3>2. UNCHANGED <<dsReader, dsTorn, dsGot>>
      BY <1>1, <2>2, <3>1, Zenon DEF Files!Consume, s
    <3> QED
      BY <1>2, <1>3, <1>4, <1>6, <2>2, <3>2 DEF ReaderInv, g
  <2>3. CASE ~Files!Parses(s) /\ s # <<>> /\ e = 3 * g + 1 /\ e = Len(dsFile)
    <3>1. dsTorn' = TRUE /\ UNCHANGED <<dsReader, dsGot>>
      BY <1>1, <1>6, <2>3, Zenon DEF Files!Consume, s
    <3> QED
      BY <1>2, <1>3, <1>4, <2>3, <3>1 DEF ReaderInv, g
  <2>4. CASE /\ Files!Parses(s) /\ s # <<>> /\ s[1].line = g /\ g \in 0..MaxRecords
             /\ e = 3 * g + 2 \/ e = 3 * g + 3
    <3>1. dsGot' = Append(dsGot, s[1].line) /\ UNCHANGED <<dsReader, dsTorn>>
      BY <1>1, <1>6, <2>4, Zenon DEF Files!Consume, s
    <3>2. dsGot' = Append(dsGot, g)
      BY <2>4, <3>1
    <3>3. /\ dsGot' \in Seq(0..MaxRecords) /\ Len(dsGot') = g + 1
          /\ \A i \in 1..g : dsGot'[i] = dsGot[i]
          /\ dsGot'[g + 1] = g
      BY <1>3, <2>4, <3>2, AppendProperties DEF g
    <3>4. \A i \in 1..Len(dsGot') : dsGot'[i] = i - 1
      <4> TAKE i \in 1..Len(dsGot')
      <4>1. i \in 1..g \/ i = g + 1
        BY <1>3, <3>3
      <4> QED
        BY <1>3, <3>3, <4>1
    <3>5. dsAt' \in {3 * Len(dsGot'), 3 * Len(dsGot') - 1}
      BY <1>3, <1>4, <2>4, <3>3
    <3> QED
      BY <1>2, <1>3, <1>4, <1>6, <3>1, <3>3, <3>4, <3>5 DEF ReaderInv
  <2> QED
    BY <2>1, <2>2, <2>3, <2>4
<1> QED
  BY <1>3, <1>5, <1>6

\* Every step keeps what is known of the reader.
LEMMA ReaderKeeps ==
  ASSUME Files!ConstantsOK, FilesInv, ReaderInv, [Files!Next]_Files!vars
  PROVE  ReaderInv'
<1>0. Len(dsFile) \in Nat /\ Len(dsBuffer) \in Nat /\ dsFile \in Seq(Cells) /\ dsBuffer \in Seq(Cells)
      /\ dsAt \in 0..Len(dsFile)
  BY LenProperties DEF FilesInv, ReaderInv
<1>1. ASSUME UNCHANGED <<dsFile, Files!readerVars>> PROVE ReaderInv'
  BY <1>1 DEF ReaderInv, Files!readerVars
<1>2. ASSUME Len(dsFile') \in Nat, Len(dsFile') >= Len(dsFile), Files!Grown PROVE ReaderInv'
  <2>1. UNCHANGED <<dsReader, dsAt, dsTorn, dsGot>>
    BY <1>2 DEF Files!Grown
  <2>2. dsRaced' = (dsRaced \/ (dsReader = "reading" /\ dsTorn))
    BY <1>2 DEF Files!Grown
  <2>3. dsRaced' \in BOOLEAN /\ (dsReader = "reading" /\ dsTorn => dsRaced')
    BY <2>2, Zenon
  <2>4. dsAt \in 0..Len(dsFile')
    BY <1>0, <1>2
  <2>5. dsReader' = "reading" /\ dsTorn' => dsAt' = 3 * Len(dsGot') + 1 /\ dsRaced'
    BY <2>1, <2>3 DEF ReaderInv
  <2> QED
    BY <2>1, <2>3, <2>4, <2>5 DEF ReaderInv
<1>3. ASSUME NEW r \in {"idle", "reading"}, Files!Afresh(r), Len(dsFile') \in Nat PROVE ReaderInv'
  <2>1. dsReader' = r /\ dsAt' = 0 /\ dsTorn' = FALSE /\ dsGot' = <<>> /\ dsRaced' = FALSE
    BY <1>3 DEF Files!Afresh
  <2>2. dsGot' \in Seq(0..MaxRecords) /\ Len(dsGot') = 0
    BY <2>1, EmptySeq
  <2>3. dsAt' \in 0..Len(dsFile')
    BY <1>3, <2>1
  <2>4. dsReader' = "reading" => dsAt' = 3 * Len(dsGot')
    BY <2>1, <2>2
  <2>5. /\ dsTorn' \in BOOLEAN /\ dsRaced' \in BOOLEAN /\ ~dsTorn'
        /\ \A i \in 1..Len(dsGot') : dsGot'[i] = i - 1
    <3>1. dsTorn' \in BOOLEAN /\ dsRaced' \in BOOLEAN /\ ~dsTorn'
      BY <2>1, Zenon
    <3>2. \A i \in 1..Len(dsGot') : FALSE
      BY <2>2
    <3> QED
      BY <3>1, <3>2
  <2> QED
    BY <2>1, <2>2, <2>3, <2>4, <2>5 DEF ReaderInv
<1>4. CASE Files!Write \/ Files!Dies
  BY <1>1, <1>4 DEF Files!Write, Files!Dies
<1>5. CASE Files!Spill
  <2>1. PICK k \in 1 .. Len(dsBuffer) - 1 :
            /\ dsFile' = dsFile \o SubSeq(dsBuffer, 1, k)
            /\ dsBuffer' = SubSeq(dsBuffer, k + 1, Len(dsBuffer))
    BY <1>5 DEF Files!Spill
  <2>2. k \in 0..Len(dsBuffer) /\ k \in Nat
    BY <1>0, <2>1
  <2>3. Len(dsFile') = Len(dsFile) + k
    BY <2>1, <2>2, FilesMove
  <2>4. Files!Grown
    BY <1>5 DEF Files!Spill
  <2> QED
    BY <1>0, <1>2, <2>2, <2>3, <2>4
<1>6. CASE Files!Flush
  <2>1. dsFile' = dsFile \o dsBuffer
    BY <1>6 DEF Files!Flush
  <2>2. Len(dsFile') = Len(dsFile) + Len(dsBuffer)
    BY <1>0, <2>1, ConcatProperties
  <2>3. CASE dsBuffer = <<>>
    <3>1. dsFile' = dsFile
      BY <1>0, <2>1, <2>3, ConcatEmptySeq
    <3>2. UNCHANGED Files!readerVars
      BY <1>6, <2>3 DEF Files!Flush
    <3> QED
      BY <1>1, <3>1, <3>2
  <2>4. CASE dsBuffer # <<>>
    <3>1. Files!Grown
      BY <1>6, <2>4 DEF Files!Flush
    <3> QED
      BY <1>0, <1>2, <2>2, <3>1
  <2> QED
    BY <2>3, <2>4
<1>7. CASE Files!PowerLoss
  <2>1. Files!Afresh("idle")
    BY <1>7 DEF Files!PowerLoss
  <2>2. FilesInv'
    BY <1>7, FilesKeeps DEF Files!Next
  <2>3. Len(dsFile') \in Nat
    BY <2>2, LenProperties DEF FilesInv
  <2> QED
    BY <1>3, <2>1, <2>3
<1>8. CASE Files!Open
  <2>1. Files!Afresh("reading") /\ dsFile' = dsFile
    BY <1>8 DEF Files!Open, Files!writerVars
  <2> QED
    BY <1>0, <1>3, <2>1
<1>9. CASE Files!ReadLine
  BY <1>9, ReadLineKeeps
<1>10. CASE Files!Finish
  <2>1. /\ UNCHANGED <<dsFile, dsAt, dsTorn, dsGot, dsRaced>>
        /\ dsReader' \in {"read", "IncompatibleDatasetError"}
    BY <1>10 DEF Files!Finish, Files!writerVars
  <2> QED
    BY <2>1 DEF ReaderInv
<1>11. CASE UNCHANGED Files!vars
  BY <1>1, <1>11 DEF Files!vars, Files!writerVars
<1> QED
  BY <1>4, <1>5, <1>6, <1>7, <1>8, <1>9, <1>10, <1>11 DEF Files!Next

\* Writer and reader together.
LEMMA ReaderInvariant ==
  ASSUME Files!ConstantsOK
  PROVE  Files!Init /\ [][Files!Next]_Files!vars => [](FilesInv /\ ReaderInv)
<1>1. Files!Init => FilesInv /\ ReaderInv
  <2> SUFFICES ASSUME Files!Init PROVE FilesInv /\ ReaderInv
    OBVIOUS
  <2>1. FilesInv
    BY FilesInitInv
  <2>2. dsReader = "idle" /\ dsAt = 0 /\ dsTorn = FALSE /\ dsGot = <<>> /\ dsRaced = FALSE
    BY DEF Files!Init
  <2>3. dsGot \in Seq(0..MaxRecords) /\ Len(dsGot) = 0
    BY <2>2, EmptySeq
  <2>4. dsAt \in 0..Len(dsFile)
    BY <2>1, <2>2, LenProperties DEF FilesInv
  <2>5. /\ dsTorn \in BOOLEAN /\ dsRaced \in BOOLEAN
        /\ \A i \in 1..Len(dsGot) : dsGot[i] = i - 1
    <3>1. dsTorn \in BOOLEAN /\ dsRaced \in BOOLEAN
      BY <2>2, Zenon
    <3>2. \A i \in 1..Len(dsGot) : FALSE
      BY <2>3
    <3> QED
      BY <3>1, <3>2
  <2>6. ReaderInv
    BY <2>2, <2>3, <2>4, <2>5 DEF ReaderInv
  <2> QED
    BY <2>1, <2>6
<1>2. FilesInv /\ ReaderInv /\ [Files!Next]_Files!vars => (FilesInv /\ ReaderInv)'
  BY FilesKeeps, ReaderKeeps
<1> QED
  BY <1>1, <1>2, PTL

\* read_jsonl: however a session is read while it goes on, or after it ended or broke off,
\* its first records come out in order, the flushed ones among them; damage is reported only
\* if the file grew behind a torn end the reader had met.
THEOREM RecordsKeptTheorem == ASSUME Files!ConstantsOK PROVE Files!Spec => RecordsKept
<1> DEFINE Ends == dsReader = "reading" /\ dsReader' \notin {"reading", "idle"}
           Kept == /\ dsReader' = "JSONDecodeError" => dsRaced
                   /\ Files!Compatible(dsSchema) /\ dsKept /\ dsReader' # "JSONDecodeError" =>
                          dsReader' = "read" /\ Len(dsGot) >= dsFlushed
                   /\ dsReader' = "read" =>
                          /\ dsGot = [i \in 1..Len(dsGot) |-> i - 1]
                          /\ dsState = "closed" => Len(dsGot) = dsLines
<1>1. ASSUME FilesInv, ReaderInv, [Files!Next]_Files!vars, Ends PROVE Kept
  <2>1. CASE Files!ReadLine
    BY <1>1, <2>1, ReadLineKeeps
  <2>2. CASE Files!Finish
    <3> DEFINE g == Len(dsGot)
               N == Len(dsFile)
    <3>1. dsGot \in Seq(0..MaxRecords) /\ g \in Nat /\ N \in Nat /\ dsAt = N
      BY <1>1, <2>2, LenProperties DEF Files!Finish, ReaderInv, FilesInv
    <3>2. N = 3 * g \/ N = 3 * g - 1 \/ N = 3 * g + 1
      BY <1>1, <2>2, <3>1 DEF Files!Finish, ReaderInv
    <3>3. /\ dsFlushed \in Nat /\ dsFlushed >= 1 /\ dsLines \in Nat
          /\ dsKept => N >= 3 * dsFlushed
          /\ dsState = "closed" => N = 3 * dsLines
      BY <1>1 DEF FilesInv
    <3>4. dsReader' = IF dsGot = <<>> \/ ~Files!Compatible(dsSchema)
                      THEN "IncompatibleDatasetError" ELSE "read"
      BY <2>2 DEF Files!Finish
    <3>5. dsGot = [i \in 1..g |-> i - 1]
      <4>1. dsGot = [i \in 1..g |-> dsGot[i]]
        BY <3>1, LenProperties
      <4>2. \A i \in 1..g : dsGot[i] = i - 1
        BY <1>1 DEF ReaderInv
      <4> QED
        BY <4>1, <4>2
    <3>6. dsKept => g >= dsFlushed /\ g # 0
      <4> HIDE DEF g, N
      <4> QED
        BY <3>1, <3>2, <3>3
    <3>7. dsState = "closed" => g = dsLines
      <4> HIDE DEF g, N
      <4> QED
        BY <3>1, <3>2, <3>3
    <3>8. g # 0 => dsGot # <<>>
      BY EmptySeq
    <3> QED
      BY <3>4, <3>5, <3>6, <3>7, <3>8
  <2>3. Files!ReadLine \/ Files!Finish
    BY <1>1 DEF Files!Next, Files!vars, Files!readerVars, Files!Write, Files!Spill, Files!Flush,
                Files!Dies, Files!PowerLoss, Files!Open, Files!Grown, Files!Afresh
  <2> QED
    BY <2>1, <2>2, <2>3
<1>2. FilesInv /\ ReaderInv /\ [Files!Next]_Files!vars => [Ends => Kept]_Files!vars
  BY <1>1
<1> QED
  BY <1>2, ReaderInvariant, PTL DEF Files!Spec, RecordsKept, Files!RecordsKept

LEMMA FilesTyped == FilesInv /\ ReaderInv => Files!TypeOK
<1> SUFFICES ASSUME FilesInv, ReaderInv PROVE Files!TypeOK
  OBVIOUS
<1>1. ASSUME NEW c \in Seq(Cells) PROVE \A i \in DOMAIN c : c[i] \in Cells
  BY LenProperties, ElementOfSeq
<1>2. \A c \in {dsBuffer, dsFile} : \A i \in DOMAIN c : c[i] \in Cells
  BY <1>1 DEF FilesInv
<1>3. \A i \in DOMAIN dsGot : dsGot[i] \in 0..MaxRecords
  BY LenProperties, ElementOfSeq DEF ReaderInv
<1> QED
  BY <1>2, <1>3 DEF FilesInv, ReaderInv, Files!TypeOK, Cells
=============================================================================
