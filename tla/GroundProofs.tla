----------------------------- MODULE GroundProofs -----------------------------
(***************************************************************************)
(* Proofs about the ground side as it is run: whichever component is       *)
(* active starts and steps as its module says and the others stand still,  *)
(* so what LinksProofs, SurfacesProofs and HostProofs prove of each holds  *)
(* of GroundSpec, for all values of the constants.  What is computed of    *)
(* its input alone takes no step, so what is true of every input is true   *)
(* for ever: the second half proves that of the survey, the settings, the  *)
(* TAK endpoint, the web surfaces and what the assistant is told.          *)
(***************************************************************************)
EXTENDS MCGround, LinksProofs, SurfacesProofs, HostProofs

\* Every component starts as it should.
LEMMA GroundStarts ==
  GroundInit => /\ Init /\ Cast!Init /\ Radio!Init /\ Source!Init /\ Pace!Init
                /\ Scout!Init /\ Picture!Init /\ Chat!Init
                /\ Stack!Init /\ Files!Init /\ Process!Init
  BY DEF GroundInit

\* The variables of a component by the name of its group and by its own.
LEMMA GroundVars ==
  /\ UNCHANGED takVars => UNCHANGED vars
  /\ UNCHANGED castVars => UNCHANGED Cast!vars
  /\ UNCHANGED radioVars => UNCHANGED Radio!vars
  /\ UNCHANGED sourceVars => UNCHANGED Source!vars
  /\ UNCHANGED paceVars => UNCHANGED Pace!vars
  /\ UNCHANGED scoutVars => UNCHANGED Scout!vars
  /\ UNCHANGED pictureVars => UNCHANGED Picture!vars
  /\ UNCHANGED chatVars => UNCHANGED Chat!vars
  /\ UNCHANGED stackVars => UNCHANGED Stack!vars
  /\ UNCHANGED filesVars => UNCHANGED Files!vars
  /\ UNCHANGED processVars => UNCHANGED Process!vars
<1>1. UNCHANGED takVars => UNCHANGED vars
  BY DEF takVars
<1>2. UNCHANGED castVars => UNCHANGED Cast!vars
  BY DEF castVars, Cast!vars
<1>3. UNCHANGED radioVars => UNCHANGED Radio!vars
  BY DEF radioVars, Radio!vars, Radio!ifaceVars, Radio!counters
<1>4. UNCHANGED sourceVars => UNCHANGED Source!vars
  BY DEF sourceVars, Source!vars, Source!process, Source!inbox
<1>5. UNCHANGED paceVars => UNCHANGED Pace!vars
  BY DEF paceVars, Pace!vars
<1>6. UNCHANGED scoutVars => UNCHANGED Scout!vars
  BY DEF scoutVars, Scout!vars, Scout!pipeline, Scout!operator
<1>7. UNCHANGED pictureVars => UNCHANGED Picture!vars
  BY DEF pictureVars, Picture!vars
<1>8. UNCHANGED chatVars => UNCHANGED Chat!vars
  BY DEF chatVars, Chat!vars
<1>9. UNCHANGED stackVars => UNCHANGED Stack!vars
  BY DEF stackVars, Stack!vars, Stack!script, Stack!bounds
<1>10. UNCHANGED filesVars => UNCHANGED Files!vars
  BY DEF filesVars, Files!vars, Files!writerVars, Files!readerVars
<1>11. UNCHANGED processVars => UNCHANGED Process!vars
  BY DEF processVars, Process!vars
<1> QED
  BY <1>1, <1>2, <1>3, <1>4, <1>5, <1>6, <1>7, <1>8, <1>9, <1>10, <1>11

\* Every step is one of each component, or none of its.
LEMMA GroundSteps ==
  ASSUME [GroundNext]_groundVars
  PROVE  /\ [Next]_vars /\ [Cast!Next]_Cast!vars /\ [Radio!Next]_Radio!vars
         /\ [Source!Next]_Source!vars /\ [Pace!Next]_Pace!vars
         /\ [Scout!Next]_Scout!vars /\ [Picture!Next]_Picture!vars /\ [Chat!Next]_Chat!vars
         /\ [Stack!Next]_Stack!vars /\ [Files!Next]_Files!vars
         /\ [Process!Next]_Process!vars
<1>1. /\ Next \/ UNCHANGED takVars
      /\ Cast!Next \/ UNCHANGED castVars
      /\ Radio!Next \/ UNCHANGED radioVars
      /\ Source!Next \/ UNCHANGED sourceVars
      /\ Pace!Next \/ UNCHANGED paceVars
  BY DEF GroundNext, LinkNext, UiNext, HostNext, groundVars, linkVars
<1>2. /\ Scout!Next \/ UNCHANGED scoutVars
      /\ Picture!Next \/ UNCHANGED pictureVars
      /\ Chat!Next \/ UNCHANGED chatVars
  BY DEF GroundNext, LinkNext, UiNext, HostNext, groundVars, uiVars
<1>3. /\ Stack!Next \/ UNCHANGED stackVars
      /\ Files!Next \/ UNCHANGED filesVars
      /\ Process!Next \/ UNCHANGED processVars
  BY DEF GroundNext, LinkNext, UiNext, HostNext, groundVars, hostVars
<1> QED
  BY <1>1, <1>2, <1>3, GroundVars

\* The ground side is, of each component, what its module allows.
LEMMA GroundImplements ==
  GroundSpec => /\ Spec /\ Cast!Spec /\ Radio!Spec /\ Source!Spec /\ Pace!Spec
                /\ Scout!Spec /\ Picture!Spec /\ Chat!Spec
                /\ Stack!Spec /\ Files!Spec /\ Process!Spec
<1>1. GroundInit => /\ Init /\ Cast!Init /\ Radio!Init /\ Source!Init /\ Pace!Init
                    /\ Scout!Init /\ Picture!Init /\ Chat!Init
                    /\ Stack!Init /\ Files!Init /\ Process!Init
  BY GroundStarts
<1>2. [GroundNext]_groundVars =>
          /\ [Next]_vars /\ [Cast!Next]_Cast!vars /\ [Radio!Next]_Radio!vars
          /\ [Source!Next]_Source!vars /\ [Pace!Next]_Pace!vars
          /\ [Scout!Next]_Scout!vars /\ [Picture!Next]_Picture!vars /\ [Chat!Next]_Chat!vars
          /\ [Stack!Next]_Stack!vars /\ [Files!Next]_Files!vars
          /\ [Process!Next]_Process!vars
  BY GroundSteps
<1> QED
  BY <1>1, <1>2, PTL
  DEF GroundSpec, Spec, Cast!Spec, Radio!Spec, Source!Spec, Pace!Spec, Scout!Spec,
      Picture!Spec, Chat!Spec, Stack!Spec, Files!Spec, Process!Spec

\* The constants are those of every component.
LEMMA GroundConstants ==
  /\ ConstantsOK /\ Cast!ConstantsOK /\ Radio!ConstantsOK
  /\ Source!ConstantsOK /\ Pace!ConstantsOK
  /\ Scout!ConstantsOK /\ Picture!ConstantsOK /\ Chat!ConstantsOK
  /\ Stack!ConstantsOK /\ Files!ConstantsOK /\ Process!ConstantsOK
  BY LinksConstantsOK, SurfacesConstantsOK, HostConstantsOK

-----------------------------------------------------------------------------
(* What each component promises holds of the ground side. *)

\* Whatever fails, reconnects or is stopped: one connection, one socket, one interface, and
\* after stop() none; a process that ran has stopped its node and released its listener.
THEOREM NothingLeaksTheorem == GroundSpec => []NothingLeaks
<1>1. /\ Spec => []OneConnection
      /\ Cast!Spec => []Cast!OneSocket
      /\ Radio!Spec => [](Radio!OneInterface /\ Radio!StopReleases)
      /\ Process!Spec => []Process!EndsClean
  BY GroundConstants, OneConnectionTheorem, OneSocketTheorem, OneInterfaceTheorem,
     EndsCleanTheorem
<1>2. NothingLeaks <=> /\ OneConnection /\ Cast!OneSocket
                       /\ Radio!OneInterface /\ Radio!StopReleases /\ Process!EndsClean
  BY DEF NothingLeaks
<1> QED
  BY <1>1, <1>2, GroundImplements, PTL

\* A fix that a reader hands over is ingested once and in order, or counted as dropped from a
\* full inbox; and only the device ends a reader.
THEOREM GroundSourcesInOrder == GroundSpec => []SourcesInOrder
<1>1. Source!Spec => []SourcesInOrder
  BY GroundConstants, SourcesInOrderTheorem
<1> QED
  BY <1>1, GroundImplements, PTL

\* No caller of the pacer sends more than the burst and the rate allow.
THEOREM GroundCallerPaced == GroundSpec => []CallerPaced
<1>1. Pace!Spec => []CallerPaced
  BY GroundConstants, CallerPacedTheorem
<1> QED
  BY <1>1, GroundImplements, PTL

\* The scout pipeline keeps its clusters and its own store in step, also in the composition.
THEOREM GroundPinsKept == GroundSpec => []PinsKept
<1>1. Scout!Spec => []PinsKept
  BY GroundConstants, PinsKeptTheorem
<1> QED
  BY <1>1, GroundImplements, PTL

\* The assistant never sends the model a tool_use without its result.
THEOREM GroundTurnsMatch == GroundSpec => []TurnsMatch
<1>1. Chat!Spec => []TurnsMatch
  BY GroundConstants, TurnsMatchTheorem
<1> QED
  BY <1>1, GroundImplements, PTL

\* A session that goes on or broke off reads as its first records; damage is reported only if
\* the file grew behind a torn end the reader had met.
THEOREM GroundRecordsKept == GroundSpec => RecordsKept
<1>1. Files!Spec => RecordsKept
  BY GroundConstants, RecordsKeptTheorem
<1> QED
  BY <1>1, GroundImplements, PTL

\* Services start and stop in their order.
THEOREM GroundStackInOrder == GroundSpec => StackInOrder
<1>1. Stack!Spec => StackInOrder
  BY GroundConstants, StackInOrderTheorem
<1> QED
  BY <1>1, GroundImplements, PTL

\* A frame that waited for the pacer never goes out on a connection its caller did not mean.
THEOREM GroundNoStraySends == GroundSpec => NoStraySends
  BY NoStraySendsTheorem, GroundImplements, PTL

\* The console serves what was last heard and is not stale, and counts what it drops.
THEOREM GroundPictureCurrent == GroundSpec => []PictureCurrent
<1>1. Picture!Spec => []PictureCurrent
  BY GroundConstants, PictureCurrentTheorem
<1> QED
  BY <1>1, GroundImplements, PTL

\* Every variable of the ground side keeps its type: connections, queues and readers, pins,
\* entries and turns, services, records and teardown steps.
THEOREM GroundTypes == GroundSpec => []TypesOK
<1>1. Spec => []TypeOK
  BY GroundConstants, TakTypesInvariant, PTL DEF Spec
<1>2. Cast!Spec => []Cast!TypeOK
  <2>1. CastInv => Cast!TypeOK
    BY DEF CastInv
  <2> QED
    BY <2>1, GroundConstants, CastInvariant, PTL DEF Cast!Spec
<1>3. Radio!Spec => []Radio!TypeOK
  <2>1. RadioInv => Radio!TypeOK
    BY DEF RadioInv
  <2> QED
    BY <2>1, GroundConstants, RadioInvariant, PTL DEF Radio!Spec
<1>4. Source!Spec => []Source!TypeOK
  <2>1. SourceInv => Source!TypeOK
    BY DEF SourceInv, SourceTypeInv
  <2> QED
    BY <2>1, GroundConstants, SourceInvariant, PTL DEF Source!Spec
<1>5. Pace!Spec => []Pace!TypeOK
  <2>1. PaceInv => Pace!TypeOK
    BY DEF PaceInv
  <2> QED
    BY <2>1, GroundConstants, PaceInvariant, PTL DEF Pace!Spec
<1>6. Scout!Spec => []Scout!TypeOK
  <2>1. ScoutInv => Scout!TypeOK
    BY GroundConstants, ScoutTyped
  <2> QED
    BY <2>1, GroundConstants, ScoutInvariant, PTL DEF Scout!Spec
<1>7. Picture!Spec => []Picture!TypeOK
  <2>1. PictureInv => Picture!TypeOK
    BY GroundConstants, PictureTyped
  <2> QED
    BY <2>1, GroundConstants, PictureInvariant, PTL DEF Picture!Spec
<1>8. Chat!Spec => []Chat!TypeOK
  BY GroundConstants, ChatTypesInvariant, PTL DEF Chat!Spec
<1>9. Stack!Spec => []Stack!TypeOK
  <2>1. StackInv => Stack!TypeOK
    BY DEF StackInv, StackTypes
  <2> QED
    BY <2>1, GroundConstants, StackInvariant, PTL DEF Stack!Spec
<1>10. Files!Spec => []Files!TypeOK
  BY FilesTyped, GroundConstants, ReaderInvariant, PTL DEF Files!Spec
<1>11. Process!Spec => []Process!TypeOK
  <2>1. ProcessInv => Process!TypeOK
    BY DEF ProcessInv
  <2> QED
    BY <2>1, ProcessInvariant, PTL DEF Process!Spec
<1>12. TypesOK <=> /\ TypeOK /\ Cast!TypeOK /\ Radio!TypeOK /\ Source!TypeOK /\ Pace!TypeOK
                   /\ Scout!TypeOK /\ Picture!TypeOK /\ Chat!TypeOK
                   /\ Stack!TypeOK /\ Files!TypeOK /\ Process!TypeOK
  BY DEF TypesOK
<1> QED
  BY <1>1, <1>2, <1>3, <1>4, <1>5, <1>6, <1>7, <1>8, <1>9, <1>10, <1>11, <1>12,
     GroundImplements, PTL

-----------------------------------------------------------------------------
(* Survey: what is planned, exported, aligned and interpolated. *)

\* Multiplication by a natural number keeps the order.
LEMMA TimesMonotone ==
    ASSUME NEW a \in Nat, NEW b \in Nat, NEW s \in Nat, a <= b
    PROVE  a * s <= b * s
<1>1. (b - a) * s >= 0 /\ b - a \in Nat
  BY SMT
<1>2. b * s = a * s + (b - a) * s
  BY SMT
<1> QED BY <1>1, <1>2

\* What remains of a division.
LEMMA Divides ==
    ASSUME NEW n \in Nat, NEW s \in Nat \ {0}
    PROVE  /\ n \div s \in Nat
           /\ (n \div s) * s <= n /\ n < (n \div s) * s + s
           /\ n \div s <= n
  BY SMT

\* The rows of a block: from the first to the last that starts inside of it.
LEMMA RowsOfBlock ==
    ASSUME NEW span \in Nat, NEW step \in Nat \ {0}
    PROVE  /\ {k \in 0..span : Plan!IsRow(k, span, step)} = 0 .. span \div step
           /\ Cardinality({k \in 0..span : Plan!IsRow(k, span, step)}) = (span \div step) + 1
<1> DEFINE n == span \div step
<1>1. n \in Nat /\ n * step <= span /\ span < n * step + step /\ n <= span
  BY Divides
<1> HIDE DEF n
<1>2. ASSUME NEW k \in Nat
      PROVE  Plan!IsRow(k, span, step) <=> k * step <= span
  <2>1. (2 * k + 1) * step = 2 * (k * step) + step
    BY SMT
  <2>2. k * step \in Nat
    BY SMT
  <2> QED BY <2>1, <2>2 DEF Plan!IsRow
<1>3. ASSUME NEW k \in Nat PROVE k * step <= span <=> k <= n
  <2>1. CASE k <= n
    BY <1>1, <2>1, TimesMonotone
  <2>2. CASE ~(k <= n)
    <3>1. (n + 1) * step <= k * step
      BY <1>1, <2>2, TimesMonotone
    <3>2. (n + 1) * step = n * step + step
      BY <1>1, SMT
    <3>3. n * step \in Nat /\ k * step \in Nat
      BY <1>1, SMT
    <3> QED BY <1>1, <2>2, <3>1, <3>2, <3>3
  <2> QED BY <2>1, <2>2
<1>4. {k \in 0..span : Plan!IsRow(k, span, step)} = 0..n
  BY <1>1, <1>2, <1>3
<1>5. Cardinality(0..n) = n + 1
  BY <1>1, FS_Interval
<1> QED BY <1>4, <1>5 DEF n

\* The path: two waypoints a row, from one end of the block to the other and back.
LEMMA PathByRows ==
    ASSUME NEW span \in Nat, NEW step \in Nat \ {0}
    PROVE  /\ Plan!Plan(span, step) \in Seq([u : Int, v : Int])
           /\ Len(Plan!Plan(span, step)) = 2 * ((span \div step) + 1)
           /\ \A k \in 0 .. span \div step :
                 /\ Plan!Plan(span, step)[2 * k + 1]
                       = [u |-> Plan!From(k, span), v |-> Plan!V2(k, step)]
                 /\ Plan!Plan(span, step)[2 * k + 2]
                       = [u |-> Plan!To(k, span), v |-> Plan!V2(k, step)]
<1> DEFINE n == (span \div step) + 1
           at(i) == [u |-> IF i % 2 = 1 THEN Plan!From((i - 1) \div 2, span)
                           ELSE Plan!To((i - 1) \div 2, span),
                     v |-> Plan!V2((i - 1) \div 2, step)]
           path == Plan!Plan(span, step)
<1>1. n \in Nat \ {0}
  BY Divides
<1> DEFINE rows == Plan!Cardinality({k \in 0..span : Plan!IsRow(k, span, step)})
<1>0. rows = n
  BY RowsOfBlock DEF Plan!Cardinality, Cardinality
<1>2. path = [i \in 1 .. 2 * n |-> at(i)]
  <2>1. path = [i \in 1 .. 2 * rows |-> at(i)]
    BY Zenon DEF Plan!Plan
  <2> QED BY <1>0, <2>1
<1>3. \A i \in 1 .. 2 * n : at(i) \in [u : Int, v : Int]
  <2> SUFFICES ASSUME NEW i \in 1 .. 2 * n PROVE at(i) \in [u : Int, v : Int]
    OBVIOUS
  <2> DEFINE k == (i - 1) \div 2
  <2>1. k \in Nat
    BY <1>1
  <2> HIDE DEF k
  <2>2. (2 * k + 1) * step \in Int
    BY <2>1, SMT
  <2>3. Plan!From(k, span) \in Int /\ Plan!To(k, span) \in Int /\ Plan!V2(k, step) \in Int
    BY <2>1, <2>2 DEF Plan!From, Plan!To, Plan!V2
  <2> QED BY <2>3 DEF k
<1>4. ASSUME NEW k \in 0 .. n - 1
      PROVE  /\ at(2 * k + 1) = [u |-> Plan!From(k, span), v |-> Plan!V2(k, step)]
             /\ at(2 * k + 2) = [u |-> Plan!To(k, span), v |-> Plan!V2(k, step)]
             /\ 2 * k + 1 \in 1 .. 2 * n /\ 2 * k + 2 \in 1 .. 2 * n
  <2>1. k \in Nat
    BY <1>1
  <2> HIDE DEF n
  <2>2. (2 * k + 1) % 2 = 1 /\ (2 * k + 1 - 1) \div 2 = k
    BY <2>1
  <2>3. (2 * k + 2) % 2 # 1 /\ (2 * k + 2 - 1) \div 2 = k
    BY <2>1
  <2> QED BY <1>1, <2>1, <2>2, <2>3
<1> HIDE DEF n, at, path
<1>5. path \in Seq([u : Int, v : Int]) /\ Len(path) = 2 * n
  BY <1>1, <1>2, <1>3, IsASeq
<1>6. \A k \in 0 .. n - 1 : path[2 * k + 1] = at(2 * k + 1) /\ path[2 * k + 2] = at(2 * k + 2)
  BY <1>1, <1>2, <1>4
<1>7. 0 .. n - 1 = 0 .. span \div step
  BY Divides DEF n
<1> QED BY <1>4, <1>5, <1>6, <1>7 DEF n, path

\* The spacing of the rows is no more than the footprint, and no less than a metre.
LEMMA Spacing ==
    ASSUME Plan!ConstantsOK, NEW cross \in Nat, NEW overlap \in Nat,
           overlap < cross
    PROVE  /\ Plan!RowStep(cross, overlap) \in Nat \ {0}
           /\ Metre <= cross => Plan!RowStep(cross, overlap) <= cross
  BY DEF Plan!ConstantsOK, Plan!RowStep

\* The path that is planned covers the block, and turns at its edges.
LEMMA Covers == ASSUME Plan!Init PROVE Plan!PlanCovers
<1> DEFINE span == svQuery.span
           cross == svQuery.cross
           step == Plan!RowStep(cross, svQuery.overlap)
           path == Plan!Plan(span, step)
<1> SUFFICES ASSUME svQuery.ask = "plan", svQuery.overlap < cross, Metre <= cross
             PROVE  /\ \A u, v \in 0..span : Plan!Covered(path, cross, u, v)
                    /\ \A i \in 1 .. Len(path) - 1 :
                           (path[i].u = path[i + 1].u) \/ (path[i].v = path[i + 1].v)
  BY DEF Plan!PlanCovers
<1>c. Plan!ConstantsOK
  BY QueriesConstantsOK
<1>q. span \in Nat /\ cross \in Nat /\ svQuery.overlap \in Nat
  BY <1>c DEF Plan!Init, Plan!Queries, Plan!ConstantsOK
<1>s. step \in Nat \ {0} /\ step <= cross
  BY <1>c, <1>q, Spacing
<1> HIDE DEF span, cross, step
<1> DEFINE n == span \div step
<1>n. n \in Nat /\ n * step <= span /\ span < n * step + step
  BY <1>q, <1>s, Divides
<1>p. /\ path \in Seq([u : Int, v : Int]) /\ Len(path) = 2 * (n + 1)
      /\ \A k \in 0..n :
            /\ path[2 * k + 1] = [u |-> Plan!From(k, span), v |-> Plan!V2(k, step)]
            /\ path[2 * k + 2] = [u |-> Plan!To(k, span), v |-> Plan!V2(k, step)]
  BY <1>q, <1>s, PathByRows
<1> HIDE DEF n, path
<1>1. ASSUME NEW u \in 0..span, NEW v \in 0..span
      PROVE  Plan!Covered(path, cross, u, v)
  <2>1. PICK k \in Nat : k * step <= v /\ v < k * step + step
    <3>1. v \in Nat
      BY <1>q
    <3>2. /\ v \div step \in Nat /\ (v \div step) * step <= v
          /\ v < (v \div step) * step + step
      BY <1>s, <3>1, Divides
    <3> QED BY <3>2
  <2>2. k <= n
    <3> SUFFICES ASSUME n + 1 <= k PROVE FALSE
      BY <1>n, <2>1
    <3>1. (n + 1) * step <= k * step
      BY <1>n, <1>s, <2>1, TimesMonotone
    <3>2. (n + 1) * step = n * step + step
      BY <1>n, <1>s, SMT
    <3>3. n * step \in Nat /\ k * step \in Nat
      BY <1>n, <1>s, <2>1, SMT
    <3> QED BY <1>n, <1>q, <1>s, <2>1, <3>1, <3>2, <3>3
  <2>3. /\ path[2 * (k + 1) - 1] = [u |-> Plan!From(k, span), v |-> Plan!V2(k, step)]
        /\ path[2 * (k + 1)] = [u |-> Plan!To(k, span), v |-> Plan!V2(k, step)]
    <3>1. 2 * (k + 1) - 1 = 2 * k + 1 /\ 2 * (k + 1) = 2 * k + 2
      BY <2>1
    <3> QED BY <1>n, <1>p, <2>1, <2>2, <3>1
  <2>4. Plan!V2(k, step) = 2 * (k * step) + step /\ k * step \in Nat
    BY <1>s, <2>1, SMT DEF Plan!V2
  <2>5. Plan!Abs(2 * v - Plan!V2(k, step)) <= cross
    <3> DEFINE m == k * step
    <3>1. m \in Nat /\ m <= v /\ v < m + step /\ Plan!V2(k, step) = 2 * m + step
      BY <2>1, <2>4
    <3> HIDE DEF m
    <3> QED BY <1>q, <1>s, <3>1 DEF Plan!Abs
  <2>6. k + 1 \in 1 .. Len(path) \div 2
    BY <1>n, <1>p, <2>1, <2>2
  <2>7. \/ Plan!From(k, span) = 0 /\ Plan!To(k, span) = span
        \/ Plan!From(k, span) = span /\ Plan!To(k, span) = 0
    BY DEF Plan!From, Plan!To
  <2>8. LET a == path[2 * (k + 1) - 1]
            b == path[2 * (k + 1)]
            least == IF a.u < b.u THEN a.u ELSE b.u
            greatest == IF a.u < b.u THEN b.u ELSE a.u
        IN  /\ Plan!Abs(2 * v - a.v) <= cross
            /\ 2 * least - cross <= 2 * u /\ 2 * u <= 2 * greatest + cross
    BY <1>q, <2>3, <2>5, <2>7
  <2> QED BY <2>6, <2>8 DEF Plan!Covered
<1>2. ASSUME NEW i \in 1 .. Len(path) - 1
      PROVE  (path[i].u = path[i + 1].u) \/ (path[i].v = path[i + 1].v)
  <2>1. i \in 1 .. 2 * n + 1
    BY <1>n, <1>p
  <2>2. PICK k \in 0..n : i = 2 * k + 1 \/ (i = 2 * k + 2 /\ k < n)
    <3>1. (i - 1) \div 2 \in 0..n
      BY <1>n, <2>1
    <3>2. i = 2 * ((i - 1) \div 2) + 1 \/ i = 2 * ((i - 1) \div 2) + 2
      BY <2>1
    <3> QED BY <1>n, <2>1, <3>1, <3>2
  <2>e. /\ path[2 * k + 1] = [u |-> Plan!From(k, span), v |-> Plan!V2(k, step)]
        /\ path[2 * k + 2] = [u |-> Plan!To(k, span), v |-> Plan!V2(k, step)]
    BY <1>p
  <2>3. CASE i = 2 * k + 1
    <3>1. i + 1 = 2 * k + 2
      BY <2>3, <1>n
    <3>2. /\ path[i].v = Plan!V2(k, step)
          /\ path[i + 1].v = Plan!V2(k, step)
      BY <2>e, <2>3, <3>1
    <3> QED BY <3>2
  <2>4. CASE i = 2 * k + 2 /\ k < n
    <3>1. i + 1 = 2 * (k + 1) + 1 /\ k + 1 \in 0..n
      BY <2>4, <1>n
    <3>2. k % 2 = 0 <=> (k + 1) % 2 # 0
      BY <1>n
    <3>3. Plan!To(k, span) = Plan!From(k + 1, span)
      BY <3>2 DEF Plan!To, Plan!From
    <3>4. path[i].u = Plan!To(k, span)
      BY <2>e, <2>4
    <3>5. path[i + 1].u = Plan!From(k + 1, span)
      <4>1. path[2 * (k + 1) + 1]
                = [u |-> Plan!From(k + 1, span), v |-> Plan!V2(k + 1, step)]
        BY <1>p, <3>1
      <4> QED BY <3>1, <4>1
    <3> QED BY <3>3, <3>4, <3>5
  <2> QED BY <2>2, <2>3, <2>4
<1> QED BY <1>1, <1>2

\* Both files hold the path that was planned.
LEMMA ExportsKeepPath == ASSUME Plan!Init PROVE Plan!ExportsAgree
<1> DEFINE step == Plan!RowStep(svQuery.cross, svQuery.overlap)
           path == Plan!Plan(svQuery.span, step)
           rows == Plan!Waypoints(path)
           plan == Plan!QgcPlan(path)
<1> SUFFICES ASSUME svQuery.ask = "plan", svQuery.overlap < svQuery.cross
             PROVE  /\ Plan!LoadPlan(plan) = Plan!LoadWaypoints(rows)
                    /\ Plan!LoadWaypoints(rows).path = path
                    /\ \A i \in DOMAIN path : plan.items[i].jump = rows[i + 1].seq
                    /\ \A i \in DOMAIN rows : rows[i].frame = "absolute" <=> rows[i].current
  BY DEF Plan!ExportsAgree
<1>c. Plan!ConstantsOK
  BY QueriesConstantsOK
<1>q. svQuery.span \in Nat /\ svQuery.cross \in Nat /\ svQuery.overlap \in Nat
  BY <1>c DEF Plan!Init, Plan!Queries, Plan!ConstantsOK
<1>1. path \in Seq([u : Int, v : Int])
  <2>1. step \in Nat \ {0}
    BY <1>c, <1>q, Spacing
  <2> HIDE DEF step
  <2> QED BY <1>q, <2>1, PathByRows
<1> HIDE DEF path
<1>2. Len(path) \in Nat /\ DOMAIN path = 1 .. Len(path) /\ path = [i \in 1 .. Len(path) |-> path[i]]
  BY <1>1
<1> DEFINE row(i) == [seq |-> i - 1, current |-> i = 1,
                      frame |-> IF i = 1 THEN "absolute" ELSE "relative",
                      at |-> IF i = 1 THEN Plan!Home(path) ELSE path[i - 1]]
<1>3. /\ DOMAIN rows = 1 .. Len(path) + 1
      /\ \A i \in 1 .. Len(path) + 1 : rows[i] = row(i)
  BY DEF Plan!Waypoints
<1>4. Len(rows) = Len(path) + 1
  BY <1>2, <1>3, LenProperties DEF Plan!Waypoints
<1>5. plan = [home |-> Plan!Home(path),
              items |-> [i \in DOMAIN path |-> [jump |-> i, at |-> path[i]]]]
  BY DEF Plan!QgcPlan
<1> HIDE DEF rows, plan
<1>6. rows[1].at = Plan!Home(path)
  BY <1>2, <1>3
<1>7. \A i \in 1 .. Len(path) :
          /\ i + 1 \in 1 .. Len(path) + 1
          /\ rows[i + 1].at = path[i] /\ rows[i + 1].seq = i
  BY <1>2, <1>3
<1>8. [i \in 1 .. Len(rows) - 1 |-> rows[i + 1].at] = path
  <2>1. Len(rows) - 1 = Len(path)
    BY <1>2, <1>4
  <2> QED BY <1>2, <1>7, <2>1
<1>9. [i \in DOMAIN plan.items |-> plan.items[i].at] = path
  BY <1>2, <1>5
<1>10. Plan!LoadWaypoints(rows) = [home |-> Plan!Home(path), path |-> path]
  BY <1>6, <1>8 DEF Plan!LoadWaypoints
<1>11. Plan!LoadPlan(plan) = [home |-> Plan!Home(path), path |-> path]
  BY <1>5, <1>9 DEF Plan!LoadPlan
<1>12. \A i \in DOMAIN path : plan.items[i].jump = rows[i + 1].seq
  BY <1>2, <1>5, <1>7
<1>13. ASSUME NEW i \in DOMAIN rows PROVE rows[i].frame = "absolute" <=> rows[i].current
  <2>1. rows[i].frame = (IF i = 1 THEN "absolute" ELSE "relative")
    BY <1>3
  <2>2. rows[i].current = (i = 1)
    BY <1>3
  <2> QED BY <2>1, <2>2
<1> QED BY <1>10, <1>11, <1>12, <1>13

\* The terrain goes through its samples and stays between its neighbours.
LEMMA BetweenSamples == ASSUME Plan!Init PROVE Plan!TerrainBetween
<1> DEFINE g == svQuery.grid
           at == svQuery.at
           nearest(i) == g[Plan!Clampi(i, Len(g) - 1) + 1]
<1> SUFFICES ASSUME svQuery.ask = "terrain"
             PROVE  IF at % 2 = 0 THEN Plan!Elevation2(g, at) = 2 * nearest(at \div 2)
                    ELSE Plan!Elevation2(g, at) = nearest(at \div 2) + nearest(at \div 2 + 1)
  BY DEF Plan!TerrainBetween
<1>c. MaxElev \in Nat
  BY QueriesConstantsOK DEF Plan!ConstantsOK
<1>1. PICK n \in 1..3 : g \in [1..n -> 0..MaxElev]
  BY DEF Plan!Init, Plan!Queries
<1>2. at \in -4..10
  BY DEF Plan!Init, Plan!Queries
<1>3. Len(g) = n
  BY <1>1, LenProperties
<1> HIDE DEF g, at
<1> DEFINE last == n - 1
           h == at \div 2
           i0 == Plan!Clampi(h, last)
           i1 == Plan!Clampi(i0 + 1, last)
           weight == IF at <= 0 THEN 0 ELSE IF at >= 2 * last THEN 2 ELSE at - 2 * i0
<1>4. Plan!Elevation2(g, at) = g[i0 + 1] * (2 - weight) + g[i1 + 1] * weight
  BY <1>3 DEF Plan!Elevation2
<1>5. /\ last \in 0..2 /\ h \in Int /\ at = 2 * h + (at % 2) /\ at % 2 \in {0, 1}
  <2>1. last \in 0..2
    BY <1>1
  <2>2. at \in Int
    BY <1>2
  <2>3. h \in Int /\ at = 2 * h + (at % 2) /\ at % 2 \in {0, 1}
    BY <2>2, SMT
  <2> QED BY <2>1, <2>3
<1>6. /\ i0 \in 0..last
      /\ h < 0 => i0 = 0
      /\ h > last => i0 = last
      /\ 0 <= h /\ h <= last => i0 = h
  BY <1>5 DEF Plan!Clampi
<1> DEFINE i2 == Plan!Clampi(h + 1, last)
<1>i1. i1 = IF i0 = last THEN i0 ELSE i0 + 1
  BY <1>5, <1>6 DEF Plan!Clampi
<1>i2. /\ i2 \in 0..last
       /\ h + 1 < 0 => i2 = 0
       /\ h + 1 > last => i2 = last
       /\ 0 <= h + 1 /\ h + 1 <= last => i2 = h + 1
  BY <1>5 DEF Plan!Clampi
<1>7. g[i0 + 1] \in Nat /\ g[i1 + 1] \in Nat /\ g[i2 + 1] \in Nat
  <2> HIDE DEF i0, i1, i2
  <2>1. i0 + 1 \in 1..n /\ i1 + 1 \in 1..n /\ i2 + 1 \in 1..n
    BY <1>1, <1>6, <1>i1, <1>i2
  <2> QED BY <1>1, <1>c, <2>1
<1> HIDE DEF i0, i1, i2, h, last
<1>8. CASE at % 2 = 0
  <2>1. weight = 0 \/ (weight = 2 /\ i1 = i0)
    BY <1>5, <1>6, <1>i1, <1>8
  <2> HIDE DEF weight
  <2>2. Plan!Elevation2(g, at) = 2 * g[i0 + 1]
    BY <1>4, <1>7, <2>1
  <2> QED BY <1>3, <1>8, <2>2 DEF i0, h, last
<1>9. CASE at % 2 = 1
  <2>1. \/ weight = 1 /\ i1 = i2
        \/ weight = 0 /\ i2 = i0
        \/ weight = 2 /\ i1 = i0 /\ i2 = i0
    BY <1>5, <1>6, <1>i1, <1>i2, <1>9
  <2> HIDE DEF weight
  <2>2. Plan!Elevation2(g, at) = g[i0 + 1] + g[i2 + 1]
    BY <1>4, <1>7, <2>1
  <2> QED BY <1>3, <1>9, <2>2 DEF i0, i2, h, last
<1> QED BY <1>5, <1>8, <1>9

\* In whatever order the poses came, they have one by time: a permutation of at most three.
LEMMA TimeOrder ==
    ASSUME NEW n \in 0..3, NEW poses \in [1..n -> Nat]
    PROVE  \E p \in Bijection(1..n, 1..n) :
              \A i, j \in 1..n : i < j => poses[p[i]] <= poses[p[j]]
<1>1. CASE n \in {0, 1}
  <2> DEFINE p == [i \in 1..n |-> i]
  <2>1. p \in Bijection(1..n, 1..n)
    BY DEF Bijection, Injection, Surjection, IsInjective
  <2>2. \A i, j \in 1..n : ~(i < j)
    BY <1>1
  <2> QED BY <2>1, <2>2
<1>2. CASE n = 2
  <2>1. PICK a \in 1..2, b \in 1..2 : a # b /\ poses[a] <= poses[b]
    <3>1. poses[1] <= poses[2] \/ poses[2] <= poses[1]
      BY <1>2
    <3> QED BY <3>1
  <2> DEFINE p == [i \in 1..n |-> IF i = 1 THEN a ELSE b]
  <2>2. p \in Bijection(1..n, 1..n)
    BY <1>2, <2>1 DEF Bijection, Injection, Surjection, IsInjective
  <2>3. ASSUME NEW i \in 1..n, NEW j \in 1..n, i < j
        PROVE  poses[p[i]] <= poses[p[j]]
    <3>1. i = 1 /\ j = 2
      BY <1>2, <2>3
    <3>2. p[i] = a /\ p[j] = b
      BY <3>1, <2>3
    <3> QED BY <2>1, <3>2
  <2> QED BY <2>2, <2>3
<1>3. CASE n = 3
  <2>1. PICK a \in 1..3, b \in 1..3, c \in 1..3 :
            /\ a # b /\ b # c /\ a # c
            /\ poses[a] <= poses[b] /\ poses[b] <= poses[c]
    <3>1. poses[1] \in Nat /\ poses[2] \in Nat /\ poses[3] \in Nat
      BY <1>3
    <3>2. \/ poses[1] <= poses[2] /\ poses[2] <= poses[3]
          \/ poses[1] <= poses[3] /\ poses[3] <= poses[2]
          \/ poses[2] <= poses[1] /\ poses[1] <= poses[3]
          \/ poses[2] <= poses[3] /\ poses[3] <= poses[1]
          \/ poses[3] <= poses[1] /\ poses[1] <= poses[2]
          \/ poses[3] <= poses[2] /\ poses[2] <= poses[1]
      BY <3>1
    <3> QED BY <3>2
  <2> DEFINE p == [i \in 1..n |-> IF i = 1 THEN a ELSE IF i = 2 THEN b ELSE c]
  <2>2. p[1] = a /\ p[2] = b /\ p[3] = c
    BY <1>3
  <2>3. p \in Bijection(1..n, 1..n)
    <3>1. p \in [1..n -> 1..n]
      BY <1>3
    <3>2. \A i, j \in 1..n : p[i] = p[j] => i = j
      BY <1>3, <2>1
    <3>3. \A t \in 1..n : \E i \in 1..n : p[i] = t
      BY <1>3, <2>1, <2>2
    <3> HIDE DEF p
    <3> QED BY <3>1, <3>2, <3>3 DEF Bijection, Injection, Surjection, IsInjective
  <2> HIDE DEF p
  <2>4. \A i, j \in 1..n : i < j => poses[p[i]] <= poses[p[j]]
    <3>1. poses[a] \in Nat /\ poses[b] \in Nat /\ poses[c] \in Nat
      BY <1>3
    <3> QED BY <1>3, <2>1, <2>2, <3>1
  <2> QED BY <2>3, <2>4
<1> QED BY <1>1, <1>2, <1>3

\* What align sorts is in order of time, and as many of each.
LEMMA SortedSorts ==
    ASSUME Plan!ConstantsOK, NEW n \in 0..3, NEW poses \in [1..n -> 0..MaxTime]
    PROVE  /\ Plan!Sorted(poses) \in [1..n -> 0..MaxTime]
           /\ \A i, j \in 1..n : i < j => Plan!Sorted(poses)[i] <= Plan!Sorted(poses)[j]
           /\ \A t \in 0..MaxTime :
                 Cardinality({i \in 1..n : Plan!Sorted(poses)[i] = t})
                     = Cardinality({i \in 1..n : poses[i] = t})
<1>1. MaxTime \in Nat
  BY DEF Plan!ConstantsOK
<1>2. PICK p \in Bijection(1..n, 1..n) :
          \A i, j \in 1..n : i < j => poses[p[i]] <= poses[p[j]]
  <2>1. poses \in [1..n -> Nat]
    BY <1>1
  <2> QED BY <2>1, TimeOrder
<1>3. p \in [1..n -> 1..n]
  BY DEF Bijection, Injection
<1> DEFINE fits(s) == /\ \A i, j \in DOMAIN s : i < j => s[i] <= s[j]
                      /\ \A t \in 0..MaxTime : Plan!Cardinality({i \in DOMAIN s : s[i] = t})
                                     = Plan!Cardinality({i \in DOMAIN poses : poses[i] = t})
           some == [i \in 1..n |-> poses[p[i]]]
<1>4. some \in [1..n -> 0..MaxTime]
  BY <1>3
<1>k. ASSUME NEW t
      PROVE  Cardinality({i \in 1..n : poses[p[i]] = t}) = Cardinality({i \in 1..n : poses[i] = t})
  <2> DEFINE A == {i \in 1..n : poses[p[i]] = t}
             B == {i \in 1..n : poses[i] = t}
             f == [i \in A |-> p[i]]
  <2>1. /\ p \in [1..n -> 1..n]
        /\ \A i, j \in 1..n : p[i] = p[j] => i = j
        /\ \A k \in 1..n : \E i \in 1..n : p[i] = k
    BY DEF Bijection, Injection, Surjection, IsInjective
  <2>2. f \in Bijection(A, B)
    <3>1. f \in [A -> B]
      BY <2>1
    <3>2. \A i, j \in A : f[i] = f[j] => i = j
      BY <2>1
    <3>3. \A k \in B : \E i \in A : f[i] = k
      BY <2>1
    <3> HIDE DEF f
    <3> QED BY <3>1, <3>2, <3>3 DEF Bijection, Injection, Surjection, IsInjective
  <2>3. IsFiniteSet(A)
    <3>1. IsFiniteSet(1..n) /\ A \subseteq 1..n
      BY FS_Interval
    <3> QED BY <3>1, FS_Subset
  <2> HIDE DEF A, B, f
  <2>4. Cardinality(A) = Cardinality(B)
    BY <2>2, <2>3, FS_Bijection DEF ExistsBijection
  <2> QED BY <2>4 DEF A, B
<1>5. fits(some)
  <2>1. DOMAIN some = 1..n /\ \A i \in 1..n : some[i] = poses[p[i]]
    OBVIOUS
  <2>2. ASSUME NEW t \in 0..MaxTime
        PROVE  Plan!Cardinality({i \in DOMAIN some : some[i] = t})
                   = Plan!Cardinality({i \in DOMAIN poses : poses[i] = t})
    <3>1. {i \in DOMAIN some : some[i] = t} = {i \in 1..n : poses[p[i]] = t}
      BY <2>1
    <3>2. {i \in DOMAIN poses : poses[i] = t} = {i \in 1..n : poses[i] = t}
      OBVIOUS
    <3>5. Plan!Cardinality({i \in 1..n : poses[p[i]] = t})
              = Plan!Cardinality({i \in 1..n : poses[i] = t})
      BY <1>k DEF Plan!Cardinality, Cardinality
    <3> HIDE DEF some
    <3> QED BY <3>1, <3>2, <3>5
  <2> HIDE DEF some
  <2> QED BY <1>2, <2>1, <2>2
<1>6. DOMAIN poses = 1..n
  OBVIOUS
<1> DEFINE s == Plan!Sorted(poses)
<1>7. s = CHOOSE x \in [1..n -> 0..MaxTime] : fits(x)
  BY <1>6, Zenon DEF Plan!Sorted
<1> HIDE DEF fits, some, s
<1>8. s \in [1..n -> 0..MaxTime] /\ fits(s)
  BY <1>4, <1>5, <1>7, Zenon
<1>9. DOMAIN s = 1..n
  BY <1>8
<1>10. \A i, j \in 1..n : i < j => s[i] <= s[j]
  BY <1>8, <1>9 DEF fits
<1>11. ASSUME NEW t \in 0..MaxTime
       PROVE  Cardinality({i \in 1..n : s[i] = t}) = Cardinality({i \in 1..n : poses[i] = t})
  <2>1. Plan!Cardinality({i \in 1..n : s[i] = t}) = Plan!Cardinality({i \in 1..n : poses[i] = t})
    BY <1>6, <1>8, <1>9, Zenon DEF fits
  <2> QED BY <2>1 DEF Plan!Cardinality, Cardinality
<1> QED BY <1>8, <1>10, <1>11 DEF s

\* The same times are there before and after.
LEMMA SortedSame ==
    ASSUME Plan!ConstantsOK, NEW n \in 0..3, NEW poses \in [1..n -> 0..MaxTime]
    PROVE  /\ \A i \in 1..n : \E j \in 1..n : Plan!Sorted(poses)[j] = poses[i]
           /\ \A j \in 1..n : \E i \in 1..n : poses[i] = Plan!Sorted(poses)[j]
<1> DEFINE s == Plan!Sorted(poses)
           A(t) == {i \in 1..n : s[i] = t}
           B(t) == {i \in 1..n : poses[i] = t}
<1>1. s \in [1..n -> 0..MaxTime] /\ \A t \in 0..MaxTime : Cardinality(A(t)) = Cardinality(B(t))
  BY SortedSorts
<1> HIDE DEF s
<1>2. ASSUME NEW t \in 0..MaxTime PROVE A(t) = {} <=> B(t) = {}
  <2>1. A(t) \subseteq 1..n /\ B(t) \subseteq 1..n
    OBVIOUS
  <2> HIDE DEF A, B
  <2>i. IsFiniteSet(1..n)
    BY FS_Interval
  <2>2. IsFiniteSet(A(t)) /\ IsFiniteSet(B(t))
    BY <2>1, <2>i, FS_Subset
  <2> QED BY <1>1, <2>2, FS_EmptySet
<1>3. ASSUME NEW i \in 1..n PROVE \E j \in 1..n : s[j] = poses[i]
  <2>1. B(poses[i]) # {} /\ poses[i] \in 0..MaxTime
    OBVIOUS
  <2> QED BY <1>2, <2>1
<1>4. ASSUME NEW j \in 1..n PROVE \E i \in 1..n : poses[i] = s[j]
  <2>1. A(s[j]) # {} /\ s[j] \in 0..MaxTime
    BY <1>1
  <2> QED BY <1>2, <2>1
<1> QED BY <1>3, <1>4 DEF s

\* Of what is sorted, the first few are smaller, and bisect_left says how many.
LEMMA BisectSplits ==
    ASSUME NEW n \in 0..3, NEW s \in [1..n -> Nat], NEW ts \in Nat,
           \A i, j \in 1..n : i < j => s[i] <= s[j]
    PROVE  /\ Plan!BisectLeft(s, ts) \in 0..n
           /\ \A i \in 1..n : s[i] < ts <=> i <= Plan!BisectLeft(s, ts)
<1>1. PICK m \in 0..n : \A i \in 1..n : s[i] < ts <=> i <= m
  <2>1. CASE n = 0
    BY <2>1
  <2>2. CASE n \in 1..3
    <3>1. \A i \in 1..n : s[i] \in Nat
      OBVIOUS
    <3>2. CASE s[1] >= ts
      <4> SUFFICES \A i \in 1..n : s[i] < ts <=> i <= 0
        OBVIOUS
      <4> QED BY <2>2, <3>1, <3>2
    <3>3. CASE s[1] < ts /\ (n = 1 \/ s[2] >= ts)
      <4>1. \A i \in 1..n : s[i] < ts <=> i <= 1
        BY <2>2, <3>1, <3>3
      <4>2. 1 \in 0..n
        BY <2>2
      <4> QED BY <4>1, <4>2
    <3>4. CASE s[1] < ts /\ n # 1 /\ s[2] < ts /\ (n = 2 \/ s[3] >= ts)
      <4>1. \A i \in 1..n : s[i] < ts <=> i <= 2
        BY <2>2, <3>1, <3>4
      <4>2. 2 \in 0..n
        BY <2>2, <3>4
      <4> QED BY <4>1, <4>2
    <3>5. CASE n = 3 /\ s[1] < ts /\ s[2] < ts /\ s[3] < ts
      <4> SUFFICES \A i \in 1..n : s[i] < ts <=> i <= 3
        BY <3>5
      <4> QED BY <3>1, <3>5
    <3> QED BY <2>2, <3>1, <3>2, <3>3, <3>4, <3>5
  <2> QED BY <2>1, <2>2
<1>2. {i \in DOMAIN s : s[i] < ts} = 1..m
  BY <1>1
<1>3. Cardinality(1..m) = m
  BY <1>1, FS_Interval
<1>4. Plan!BisectLeft(s, ts) = m
  <2>1. Plan!Cardinality(1..m) = Cardinality(1..m)
    BY DEF Plan!Cardinality, Cardinality
  <2> QED BY <1>2, <1>3, <2>1 DEF Plan!BisectLeft
<1> QED BY <1>1, <1>4

\* The pose that is found is the nearest, unless none is near enough.
LEMMA NearestFound == ASSUME Plan!Init PROVE Plan!AlignNearest
<1> SUFFICES ASSUME svQuery.ask = "align"
             PROVE  LET skews == {Plan!Abs(svQuery.poses[i] - svQuery.ts) :
                                      i \in DOMAIN svQuery.poses}
                        found == Plan!Align(svQuery.poses, svQuery.ts, svQuery.skew)
                    IN  /\ found = {} <=> \A x \in skews : x > svQuery.skew
                        /\ \A t \in found : /\ Plan!Abs(t - svQuery.ts) \in skews
                                            /\ \A x \in skews : Plan!Abs(t - svQuery.ts) <= x
  BY DEF Plan!AlignNearest
<1>c. Plan!ConstantsOK
  BY QueriesConstantsOK
<1> DEFINE poses == svQuery.poses
           ts == svQuery.ts
           skew == svQuery.skew
<1>1. PICK n \in 0..3 : poses \in [1..n -> 0..MaxTime]
  BY DEF Plan!Init, Plan!Queries
<1>2. ts \in Nat /\ skew \in Nat
  BY <1>c DEF Plan!Init, Plan!Queries, Plan!ConstantsOK
<1> HIDE DEF poses, ts, skew
<1> DEFINE s == Plan!Sorted(poses)
           m == Plan!BisectLeft(s, ts)
           near == {m, m + 1} \cap DOMAIN s
           off(j) == Plan!Abs(s[j] - ts)
           best == {j \in near : \A h \in near : off(j) <= off(h)}
           found == {s[j] : j \in {j \in best : off(j) <= skew /\ \A h \in best : j <= h}}
           skews == {Plan!Abs(poses[i] - ts) : i \in DOMAIN poses}
<1>3. Plan!Align(poses, ts, skew) = found
  BY DEF Plan!Align
<1>4. /\ s \in [1..n -> 0..MaxTime]
      /\ \A i, j \in 1..n : i < j => s[i] <= s[j]
  BY <1>1, <1>c, SortedSorts
<1>5. /\ \A i \in 1..n : \E j \in 1..n : s[j] = poses[i]
      /\ \A j \in 1..n : \E i \in 1..n : poses[i] = s[j]
  BY <1>1, <1>c, SortedSame
<1> HIDE DEF s
<1>6. s \in [1..n -> Nat]
  BY <1>4, <1>c DEF Plan!ConstantsOK
<1>7. m \in 0..n /\ \A i \in 1..n : s[i] < ts <=> i <= m
  BY <1>2, <1>4, <1>6, BisectSplits
<1> HIDE DEF m
<1>8. near = {m, m + 1} \cap 1..n
  BY <1>4
<1>9. \A j \in 1..n : off(j) \in Nat
  BY <1>2, <1>6 DEF Plan!Abs
<1>10. skews = {off(j) : j \in 1..n}
  BY <1>1, <1>5
<1>11. ASSUME NEW k \in 1..n
       PROVE  \E h \in near : off(h) <= off(k)
  <2>1. /\ s[k] \in Nat /\ ts \in Nat /\ m \in 0..n
        /\ s[k] < ts <=> k <= m
    BY <1>2, <1>6, <1>7
  <2>2. CASE k <= m
    <3>1. m \in near /\ m \in 1..n
      BY <1>8, <2>1, <2>2
    <3>2. s[m] \in Nat /\ s[k] <= s[m] /\ s[m] < ts
      BY <1>4, <1>6, <1>7, <2>1, <2>2, <3>1
    <3>3. off(m) <= off(k)
      BY <2>1, <3>2 DEF Plan!Abs
    <3> HIDE DEF off, near
    <3> QED BY <3>1, <3>3
  <2>3. CASE m < k
    <3>1. m + 1 \in near /\ m + 1 \in 1..n /\ m + 1 <= k
      BY <1>8, <2>1, <2>3
    <3>2. s[m + 1] \in Nat /\ s[m + 1] <= s[k] /\ ~(s[m + 1] < ts)
      BY <1>4, <1>6, <1>7, <2>1, <2>3, <3>1
    <3>3. off(m + 1) <= off(k)
      BY <2>1, <3>2 DEF Plan!Abs
    <3> HIDE DEF off, near
    <3> QED BY <3>1, <3>3
  <2> QED BY <2>1, <2>2, <2>3
<1> HIDE DEF off
<1>12. ASSUME near # {}
       PROVE  \E j \in best : \A h \in best : j <= h
  <2>1. m \in Nat /\ near \subseteq {m, m + 1} /\ \A h \in near : off(h) \in Nat
    BY <1>7, <1>8, <1>9
  <2> HIDE DEF near
  <2>2. best # {} /\ best \subseteq {m, m + 1}
    <3>1. best \subseteq near
      OBVIOUS
    <3>2. CASE m \in near /\ m + 1 \in near
      <4>1. m \in best \/ m + 1 \in best
        BY <2>1, <3>2
      <4> HIDE DEF best
      <4> QED BY <2>1, <3>1, <4>1
    <3>3. CASE near = {m} \/ near = {m + 1}
      <4>1. m \in best \/ m + 1 \in best
        BY <2>1, <3>3
      <4> HIDE DEF best
      <4> QED BY <2>1, <3>1, <4>1
    <3> HIDE DEF best
    <3> QED BY <1>12, <2>1, <3>2, <3>3
  <2> HIDE DEF best
  <2>3. CASE m \in best
    BY <2>1, <2>2, <2>3
  <2>4. CASE m \notin best
    <3>1. best = {m + 1}
      BY <2>2, <2>4
    <3> QED BY <2>1, <3>1
  <2> QED BY <2>3, <2>4
<1>13. ASSUME NEW j \in best, NEW k \in 1..n PROVE off(j) <= off(k) /\ j \in 1..n
  <2>1. PICK h \in near : off(h) <= off(k)
    BY <1>11
  <2>2. j \in near /\ off(j) <= off(h) /\ j \in 1..n /\ h \in 1..n
    BY <1>8, <2>1
  <2> HIDE DEF near, best
  <2> QED BY <1>9, <2>1, <2>2
<1>14. near = {} => n = 0
  BY <1>7, <1>8
<1>15. best \subseteq 1..n
  BY <1>8
<1> HIDE DEF near, best
<1>16. ASSUME NEW t \in found
       PROVE  /\ Plan!Abs(t - ts) \in skews
              /\ \A x \in skews : Plan!Abs(t - ts) <= x
              /\ Plan!Abs(t - ts) <= skew
  <2>1. PICK j \in best : t = s[j] /\ off(j) <= skew
    OBVIOUS
  <2>2. Plan!Abs(t - ts) = off(j)
    BY <2>1 DEF off
  <2> QED BY <1>10, <1>13, <1>15, <2>1, <2>2
<1>17. ASSUME found = {}
       PROVE  \A x \in skews : x > skew
  <2> SUFFICES ASSUME NEW k \in 1..n PROVE off(k) > skew
    BY <1>10
  <2>1. near # {}
    BY <1>14
  <2>2. PICK j \in best : \A h \in best : j <= h
    BY <1>12, <2>1
  <2>3. ~(off(j) <= skew)
    BY <1>17, <2>2
  <2>4. off(j) \in Nat /\ off(k) \in Nat /\ off(j) <= off(k)
    BY <1>9, <1>13, <1>15, <2>2
  <2> QED BY <1>2, <2>3, <2>4
<1>18. ASSUME found # {}
       PROVE  ~ \A x \in skews : x > skew
  <2>1. PICK t \in found : TRUE
    BY <1>18
  <2>2. Plan!Abs(t - ts) \in skews /\ Plan!Abs(t - ts) <= skew
    BY <1>16
  <2>3. Plan!Abs(t - ts) \in Nat
    BY <1>9, <1>10, <2>2
  <2> QED BY <1>2, <2>2, <2>3
<1> HIDE DEF found, skews
<1>19. /\ found = {} <=> \A x \in skews : x > skew
       /\ \A t \in found : /\ Plan!Abs(t - ts) \in skews
                           /\ \A x \in skews : Plan!Abs(t - ts) <= x
  BY <1>16, <1>17, <1>18
<1> QED BY <1>3, <1>19 DEF skews, poses, ts, skew

-----------------------------------------------------------------------------
(* Settings: the layers a setting may come from. *)

\* A field of a section that is filled comes from the environment, else from what the section
\* was laid over, else it is the default.
LEMMA FilledField ==
    ASSUME NEW data, NEW keys, NEW env, NEW k \in keys
    PROVE  Config!Filled(Config!Overlaid(data, keys, env), keys)[k] =
               IF k \in DOMAIN env THEN [from |-> "env", of |-> env[k]]
               ELSE IF k \in DOMAIN data THEN data[k] ELSE Config!Default
<1> DEFINE d == Config!Overlaid(data, keys, env)
<1>1. /\ DOMAIN d = DOMAIN data \cup (keys \cap DOMAIN env)
      /\ k \in DOMAIN d => d[k] = IF k \in DOMAIN env THEN [from |-> "env", of |-> env[k]]
                                  ELSE data[k]
  BY DEF Config!Overlaid
<1> HIDE DEF d
<1>2. Config!Filled(d, keys)[k] = IF k \in DOMAIN d THEN d[k] ELSE Config!Default
  BY DEF Config!Filled
<1> QED BY <1>1, <1>2 DEF d

\* The same of the section of a blob.
LEMMA SectionField ==
    ASSUME NEW q, NEW k \in Config!Fields
    PROVE  LET field == Config!Filled(Config!Section(q), Config!Fields)[k]
           IN  IF k \in DOMAIN q.env THEN field = [from |-> "env", of |-> q.env[k]]
               ELSE IF k \in DOMAIN q.blob.section
                    THEN field = [from |-> "blob", of |-> q.blob.section[k]]
                    ELSE field = Config!Default
<1> DEFINE data == Config!FromBlob(q.blob)
<1>1. /\ DOMAIN data = DOMAIN q.blob.section
      /\ k \in DOMAIN data => data[k] = [from |-> "blob", of |-> q.blob.section[k]]
  BY DEF Config!FromBlob
<1> HIDE DEF data
<1>2. Config!Filled(Config!Overlaid(data, Config!Fields, q.env), Config!Fields)[k] =
          IF k \in DOMAIN q.env THEN [from |-> "env", of |-> q.env[k]]
          ELSE IF k \in DOMAIN data THEN data[k] ELSE Config!Default
  BY FilledField
<1> QED BY <1>1, <1>2 DEF Config!Section, data

\* The layer it comes from, and what is in it if the environment sets it.
LEMMA SectionWinner ==
    ASSUME NEW q, NEW k \in Config!Fields
    PROVE  LET field == Config!Filled(Config!Section(q), Config!Fields)[k]
           IN  /\ field.from = Config!Winner(q, k, k \in DOMAIN q.blob.section)
               /\ k \in DOMAIN q.env => field.of = q.env[k]
<1>1. PICK field : field = Config!Filled(Config!Section(q), Config!Fields)[k]
  OBVIOUS
<1>2. CASE k \in DOMAIN q.env
  <2>1. field = [from |-> "env", of |-> q.env[k]]
    BY <1>1, <1>2, SectionField
  <2> QED BY <1>1, <1>2, <2>1 DEF Config!Winner
<1>3. CASE k \notin DOMAIN q.env /\ k \in DOMAIN q.blob.section
  <2>1. field = [from |-> "blob", of |-> q.blob.section[k]]
    BY <1>1, <1>3, SectionField
  <2> QED BY <1>1, <1>3, <2>1 DEF Config!Winner
<1>4. CASE k \notin DOMAIN q.env /\ k \notin DOMAIN q.blob.section
  <2>1. field = Config!Default
    BY <1>1, <1>4, SectionField
  <2> QED BY <1>1, <1>4, <2>1 DEF Config!Winner, Config!Default
<1> QED BY <1>2, <1>3, <1>4

\* What the loaders return, if they return anything.
LEMMA NodeConfigIs ==
    ASSUME NEW q, NEW c \in Config!NodeConfig(q)
    PROVE  /\ c.top = Config!Top(q)
           /\ c.section = Config!Filled(Config!Section(q), Config!Fields)
           /\ ~Config!SectionFails(q) /\ Config!CastsAll(q, {"top"}) /\ Config!TopValid(q)
<1>1. ~Config!SectionFails(q) /\ Config!CastsAll(q, {"top"}) /\ Config!TopValid(q)
  BY DEF Config!NodeConfig
<1>2. c = [top |-> Config!Top(q), section |-> Config!Filled(Config!Section(q), Config!Fields)]
  BY <1>1 DEF Config!NodeConfig
<1> QED BY <1>1, <1>2

\* The topmost layer that sets a field is the one it comes from.
LEMMA TopmostWins == Config!LayersKept
<1> DEFINE q == seQuery
<1>1. ASSUME NEW c \in Config!NodeConfig(q)
      PROVE  /\ c.top.from = Config!Winner(q, "top", q.blob.top # "absent")
             /\ \A k \in Config!Fields :
                    c.section[k].from = Config!Winner(q, k, k \in DOMAIN q.blob.section)
  <2>1. Config!Top(q).from = Config!Winner(q, "top", q.blob.top # "absent")
    BY DEF Config!Top, Config!Winner, Config!Default
  <2> QED BY <1>1, <2>1, NodeConfigIs, SectionWinner
<1>2. ASSUME NEW c \in Config!ServerConfig(q), NEW k \in Config!Fields
      PROVE  c[k].from = Config!Winner(q, k, FALSE)
  <2> DEFINE data == Config!Filled(Config!Overlaid(<<>>, Config!Fields, q.env), Config!Fields)
  <2>1. c = data
    BY <1>2 DEF Config!ServerConfig
  <2>2. k \notin DOMAIN <<>>
    OBVIOUS
  <2>3. PICK none : none = <<>> /\ k \notin DOMAIN none
    BY <2>2
  <2>4. Config!Filled(Config!Overlaid(none, Config!Fields, q.env), Config!Fields)[k] =
            IF k \in DOMAIN q.env THEN [from |-> "env", of |-> q.env[k]]
            ELSE IF k \in DOMAIN none THEN none[k] ELSE Config!Default
    BY FilledField
  <2>5. data[k] = IF k \in DOMAIN q.env THEN [from |-> "env", of |-> q.env[k]]
                  ELSE Config!Default
    BY <2>3, <2>4
  <2> HIDE DEF data
  <2> QED BY <2>1, <2>5 DEF Config!Winner, Config!Default
<1>3. ASSUME NEW c \in Config!JetsonSettings(q), NEW k \in Config!Fields
      PROVE  c[k].from = Config!Winner(q, k, k \in DOMAIN q.blob.section)
  <2>1. c = Config!Filled(Config!Section(q), Config!Fields)
    BY <1>3 DEF Config!JetsonSettings
  <2> QED BY <2>1, SectionWinner
<1> QED BY <1>1, <1>2, <1>3 DEF Config!LayersKept

\* What a loader accepts is valid, and nothing that was set is passed over.
LEMMA NoMistakePasses == Config!MistakesSurface
<1> DEFINE q == seQuery
<1>1. ASSUME NEW c \in Config!NodeConfig(q), NEW k \in Config!Fields
      PROVE  /\ Config!Valid(q.kind, c.section[k].of)
             /\ k \in DOMAIN q.env =>
                    Config!Casts(q.kind, q.env[k]) /\ c.section[k].of = q.env[k]
  <2>1. /\ c.section = Config!Filled(Config!Section(q), Config!Fields)
        /\ ~Config!SectionFails(q)
    BY NodeConfigIs
  <2>2. /\ Config!Valid(q.kind, Config!Filled(Config!Section(q), Config!Fields)[k].of)
        /\ k \in DOMAIN q.env => Config!Casts(q.kind, q.env[k])
    BY <2>1 DEF Config!SectionFails, Config!CastsAll
  <2> QED BY <2>1, <2>2, SectionWinner
<1>2. ASSUME NEW c \in Config!FpvSettings(q), c["a"].from # "env", "a" \in DOMAIN q.env
      PROVE  q.env["a"] = "empty"
  <2> SUFFICES ASSUME q.env["a"] # "empty" PROVE FALSE
    OBVIOUS
  <2> DEFINE d == Config!Overlaid(Config!FromBlob(q.blob), {"a"}, q.env)
  <2>1. c = Config!Filled(d, Config!Fields)
    BY <1>2 DEF Config!FpvSettings
  <2>2. "a" \in DOMAIN d /\ d["a"] = [from |-> "env", of |-> q.env["a"]]
    BY <1>2 DEF Config!Overlaid
  <2>3. "a" \in Config!Fields
    BY DEF Config!Fields
  <2> HIDE DEF d
  <2>4. c["a"] = d["a"]
    BY <2>1, <2>2, <2>3 DEF Config!Filled
  <2> QED BY <1>2, <2>2, <2>4
<1> QED BY <1>1, <1>2 DEF Config!MistakesSurface

\* The scout reads its section as a node does.
LEMMA ScoutReadsAsNode == Config!ScoutAsInNode
<1> DEFINE q == seQuery
<1>1. ASSUME NEW c \in Config!NodeConfig(q) PROVE Config!ScoutConfig(q) = {c.section}
  BY NodeConfigIs DEF Config!ScoutConfig
<1>2. ASSUME Config!ScoutConfig(q) # {}, Config!NodeConfig(q) = {}
      PROVE  ~Config!TopValid(q) \/ ~Config!CastsAll(q, {"top"})
  <2>1. ~Config!SectionFails(q)
    BY <1>2 DEF Config!ScoutConfig
  <2> QED BY <1>2, <2>1 DEF Config!NodeConfig
<1> QED BY <1>1, <1>2 DEF Config!ScoutAsInNode

-----------------------------------------------------------------------------
(* TakEndpoint and WebSurface: what is secured, and who is let in. *)

\* A transport has an endpoint of what was asked for and, if that is to use TLS, a context.
LEMMA TransportParts ==
    ASSUME NEW q, NEW t \in Secure!Transport(q)
    PROVE  /\ t.endpoint \in Secure!Endpoint(q)
           /\ t.endpoint.tls => \E c \in Secure!SslContext(q) : t.context = {c}
           /\ ~t.endpoint.tls => t.context = {}
<1>1. PICK e \in Secure!Endpoint(q) :
          t \in IF e.tls THEN {[endpoint |-> e, context |-> {c}] : c \in Secure!SslContext(q)}
                ELSE {[endpoint |-> e, context |-> {}]}
  BY DEF Secure!Transport
<1>2. CASE e.tls
  BY <1>1, <1>2
<1>3. CASE ~e.tls
  BY <1>1, <1>3
<1> QED BY <1>2, <1>3

\* A transport is secured as its options ask.
LEMMA SecuredAsAsked == ASSUME Secure!Init PROVE Secure!TlsAsAsked
<1> DEFINE q == teQuery
<1> SUFFICES ASSUME q.ask = "endpoint", NEW t \in Secure!Transport(q)
             PROVE  /\ ~t.endpoint.tls => \/ q.scheme = "tcp"
                                          \/ q.scheme = "none" /\ ~q.tls
                    /\ t.endpoint.tls <=> t.context # {}
                    /\ t.endpoint.port = "default_plaintext" => ~t.endpoint.tls
                    /\ \A c \in t.context :
                           /\ c.client = q.cert
                           /\ {c.client, q.ca, q.key} \subseteq {"none", "good"}
                           /\ ~c.verified => ~q.verify
  BY DEF Secure!TlsAsAsked
<1>q. /\ q.scheme \in Secure!Schemes /\ q.tls \in BOOLEAN /\ q.verify \in BOOLEAN
      /\ {q.ca, q.cert, q.key} \subseteq Secure!Paths
  <2>1. q.ask # "stream" /\ q \in Secure!Queries
    BY DEF Secure!Init
  <2> QED BY <2>1 DEF Secure!Queries
<1>1. PICK tls \in Secure!UsesTls(q) :
          t.endpoint = [tls |-> tls,
                        port |-> IF q.port # "none" THEN "option"
                                 ELSE IF q.embedded # "none" THEN "host"
                                 ELSE IF tls THEN "default_tls" ELSE "default_plaintext"]
  <2>1. t.endpoint \in Secure!Endpoint(q)
    BY TransportParts
  <2>2. q.embedded # "garbage"
    BY <2>1 DEF Secure!Endpoint
  <2> QED BY <2>1, <2>2, Zenon DEF Secure!Endpoint
<1>2. t.endpoint.tls = tls
  BY <1>1
<1>3. ~tls => q.scheme = "tcp" \/ (q.scheme = "none" /\ ~q.tls)
  <2>1. CASE q.scheme = "none" BY <2>1 DEF Secure!UsesTls
  <2>2. CASE q.scheme = "tls" BY <1>q, <2>2 DEF Secure!UsesTls
  <2>3. CASE q.scheme = "tcp" BY <2>3
  <2>4. CASE q.scheme = "other" BY <2>4 DEF Secure!UsesTls
  <2> QED BY <1>q, <2>1, <2>2, <2>3, <2>4 DEF Secure!Schemes
<1>4. t.endpoint.port = "default_plaintext" => ~tls
  BY <1>1
<1>5. t.endpoint.tls <=> t.context # {}
  BY TransportParts
<1>6. ASSUME NEW c \in t.context
      PROVE  /\ c.client = q.cert
             /\ {c.client, q.ca, q.key} \subseteq {"none", "good"}
             /\ ~c.verified => ~q.verify
  <2>1. c \in Secure!SslContext(q)
    BY <1>6, TransportParts
  <2>2. /\ c = [verified |-> q.verify, client |-> q.cert]
        /\ \A path \in {q.ca, q.cert, q.key} : Secure!Usable(path)
    BY <2>1 DEF Secure!SslContext
  <2> QED BY <2>2 DEF Secure!Usable
<1> QED BY <1>2, <1>3, <1>4, <1>5, <1>6

\* Stripping a token takes the whitespace around it and leaves its text.
LEMMA Stripped ==
    ASSUME NEW token \in Web!Strings
    PROVE  Web!Strip(token).text = token.text /\ ~Web!Strip(token).padded
  BY DEF Web!Strip, Web!Strings

\* Every service authorizes with its token as it is, or stripped.
LEMMA EffectiveToken ==
    ASSUME NEW service \in Web!Services, NEW token \in Web!Strings
    PROVE  Web!Effective(service, token) \in {Web!Strip(token), token}
  BY DEF Web!Services, Web!Effective, Web!LlmToken, Web!UiToken, Web!CommanderToken,
     Web!StationToken, Web!HealthToken

\* Whoever is let in past a guard shows the token the service authorizes with, or there is none.
LEMMA WebFailsClosed == ASSUME Web!Init PROVE Web!FailClosed
<1> DEFINE q == wsQuery
           token == Web!Effective(q.service, q.token)
<1>q. /\ q.service \in Web!Services /\ q.host \in {"loopback", "network"}
      /\ q.token \in Web!Strings /\ q.header \in Web!Headers
  BY DEF Web!Init, Web!Queries
<1> SUFFICES ASSUME Web!Starts(q), Web!Guard(q) \in {"query", "bearer"}, Web!Status(q) # 401
             PROVE  \/ q.host = "loopback" /\ q.token.text = ""
                    \/ q.token.text # "" /\ q.header.value.text = q.token.text
  BY DEF Web!FailClosed
<1>1. token \in {Web!Strip(q.token), q.token}
  BY <1>q, EffectiveToken
<1>2. Web!Authorize(token, Web!Presented(q))
  BY DEF Web!Status, Web!Admitted
<1>3. q.host = "loopback" \/ Web!Given(token)
  BY DEF Web!Starts, Web!Refused
<1>4. token.text = q.token.text
  BY <1>q, <1>1, Stripped
<1>5. Web!Presented(q).value = q.header.value
  BY <1>q DEF Web!Presented, Web!Headers, Web!Strings
<1> HIDE DEF token
<1>6. CASE ~Web!Given(token)
  <2>1. token.text = ""
    BY <1>6 DEF Web!Given
  <2> QED BY <2>1, <1>3, <1>4, <1>6
<1>7. CASE Web!Given(token)
  <2>1. Web!Given(q.header.value) /\ Web!Strip(q.header.value) = token
    BY <1>2, <1>5, <1>7 DEF Web!Authorize
  <2>2. q.header.value \in Web!Strings
    <3>1. [text |-> "", padded |-> FALSE] \in Web!Strings
      BY DEF Web!Strings
    <3> QED BY <1>q, <3>1 DEF Web!Headers
  <2>3. token.text = q.header.value.text /\ ~token.padded
    BY <2>1, <2>2, Stripped
  <2>4. token.text # ""
    BY <1>7, <2>3 DEF Web!Given
  <2> QED BY <2>3, <2>4, <1>4
<1> QED BY <1>6, <1>7

\* The token as it is configured is a bearer of what the service authorizes with.
LEMMA WebLetsIn == ASSUME Web!Init PROVE Web!BearerAdmitted
<1> DEFINE q == wsQuery
           token == Web!Effective(q.service, q.token)
<1>q. /\ q.token \in Web!Strings /\ q.header \in Web!Headers
  BY DEF Web!Init, Web!Queries
<1> SUFFICES ASSUME Web!Guard(q) \in {"query", "bearer"}, q.header.scheme = "bearer",
                    q.header.value = q.token, token = Web!Strip(q.token)
             PROVE  Web!Status(q) # 401
  BY DEF Web!BearerAdmitted
<1>1. Web!Presented(q).scheme = "bearer" /\ Web!Presented(q).value = q.token
  BY <1>q DEF Web!Presented, Web!Headers
<1>2. ~Web!Given(token) \/ Web!Given(q.token)
  BY <1>q, Stripped DEF Web!Given
<1>3. Web!Authorize(token, Web!Presented(q))
  BY <1>1, <1>2 DEF Web!Authorize
<1>4. Web!Admitted(q)
  BY <1>3 DEF Web!Admitted
<1>5. Web!BadBody(q) # 401 /\ Web!Raised(q) # 401
  BY DEF Web!BadBody, Web!Raised
<1> QED BY <1>4, <1>5 DEF Web!Status

-----------------------------------------------------------------------------
(* AssistantSources: what the assistant is told. *)

\* A number is what is read of a value, and only of a number is anything read.
LEMMA FloatOfNumber ==
    ASSUME NEW v \in Told!Values \cup Told!Headings \cup {Told!Missing, Told!Number(0)}
    PROVE  /\ Told!AsFloat(v) # {} <=> v.kind = "number"
           /\ Told!AsFloat(v) \ {65535} # {}
                  <=> v.kind = "number" /\ v # Told!Number(65535)
<1>1. CASE v.kind # "number"
  BY <1>1 DEF Told!AsFloat
<1>2. CASE v.kind = "number"
  <2>1. /\ Told!Missing.kind # "number" /\ Told!Null.kind # "number"
        /\ Told!Blank.kind # "number" /\ Told!Text.kind # "number"
        /\ [kind |-> "bool"].kind # "number"
    BY DEF Told!Missing, Told!Null, Told!Blank, Told!Text
  <2>2. v \in {Told!Number(0), Told!Number(7), Told!Number(9000), Told!Number(65535)}
    BY <1>2, <2>1 DEF Told!Values, Told!Headings
  <2>3. PICK n \in {0, 7, 9000, 65535} : v = Told!Number(n)
    BY <2>2
  <2>4. v.n = n /\ (v # Told!Number(65535) <=> n # 65535)
    BY <2>3 DEF Told!Number
  <2> QED BY <1>2, <2>4 DEF Told!AsFloat
<1> QED BY <1>1, <1>2

\* What the state of a vehicle is put into: if the link is up, whatever is known of it.
LEMMA WordsOfState ==
    ASSUME NEW lat, NEW lon, NEW heading, NEW state,
           state = [link |-> TRUE, lat |-> lat, lon |-> lon, heading |-> heading]
    PROVE  /\ "link_down" \notin Told!DroneWords(state)
           /\ "position" \in Told!DroneWords(state) <=> lat # {} /\ lon # {}
           /\ "heading" \in Told!DroneWords(state) <=> heading # {}
<1> DEFINE known(p) == CASE p = "position" -> lat # {} /\ lon # {}
                         [] p = "heading" -> heading # {}
           parts == {p \in {"position", "heading"} : known(p)}
<1>1. /\ known("position") <=> lat # {} /\ lon # {}
      /\ known("heading") <=> heading # {}
  OBVIOUS
<1>2. /\ state.link = TRUE /\ state.lat = lat /\ state.lon = lon /\ state.heading = heading
  OBVIOUS
<1>3. Told!DroneWords(state) = IF parts = {} THEN {"nothing_yet"} ELSE parts
  BY <1>2, Zenon DEF Told!DroneWords
<1> HIDE DEF known
<1>4. /\ "position" \in parts <=> lat # {} /\ lon # {}
      /\ "heading" \in parts <=> heading # {}
      /\ "link_down" \notin parts
  BY <1>1
<1> HIDE DEF parts
<1>5. CASE parts = {}
  <2>1. Told!DroneWords(state) = {"nothing_yet"}
    BY <1>3, <1>5
  <2> QED BY <1>4, <1>5, <2>1
<1>6. CASE parts # {}
  <2>1. Told!DroneWords(state) = parts
    BY <1>3, <1>6
  <2> QED BY <1>4, <1>6, <2>1
<1> QED BY <1>5, <1>6

\* What the assistant is told of a vehicle whose link is up, and of one that is not reached.
LEMMA ToldOfVehicle ==
    ASSUME Told!Init, saQuery.tool = "get_drone_state"
    PROVE  LET words == Told!Dispatch(saQuery).words
           IN  /\ saQuery.server = "ok" =>
                     /\ "link_down" \notin words
                     /\ "position" \in words
                            <=> Told!AsFloat(saQuery.lat) # {} /\ Told!AsFloat(saQuery.lon) # {}
                     /\ "heading" \in words <=> Told!AsFloat(saQuery.hdg) \ {65535} # {}
               /\ saQuery.server = "unreachable" => words = {"link_down"}
<1> DEFINE words == Told!Dispatch(saQuery).words
           lat == Told!AsFloat(saQuery.lat)
           lon == Told!AsFloat(saQuery.lon)
           heading == Told!AsFloat(saQuery.hdg) \ {65535}
<1>1. ASSUME saQuery.server # "broken"
      PROVE  words = Told!DroneWords(Told!ReadState(saQuery))
  BY <1>1 DEF Told!Dispatch
<1>2. CASE saQuery.server = "ok"
  <2>1. Told!ReadState(saQuery)
            = [link |-> TRUE, lat |-> lat, lon |-> lon, heading |-> heading]
    BY <1>2 DEF Told!ReadState, Told!DroneState
  <2> HIDE DEF words, lat, lon, heading
  <2>2. /\ "link_down" \notin words
        /\ "position" \in words <=> lat # {} /\ lon # {}
        /\ "heading" \in words <=> heading # {}
    BY <1>1, <1>2, <2>1, WordsOfState
  <2> QED BY <1>2, <2>2 DEF words, lat, lon, heading
<1>3. CASE saQuery.server = "unreachable"
  <2> DEFINE state == Told!ReadState(saQuery)
  <2>1. state.link = FALSE
    BY <1>3 DEF Told!ReadState
  <2> HIDE DEF state
  <2>2. Told!DroneWords(state) = {"link_down"}
    BY <2>1 DEF Told!DroneWords
  <2> QED BY <1>1, <1>3, <2>2 DEF state
<1>4. CASE saQuery.server \notin {"ok", "unreachable"}
  BY <1>4
<1> QED BY <1>2, <1>3, <1>4

\* The assistant is told of the vehicle what was measured.
LEMMA ToldAsMeasured == ASSUME Told!Init PROVE Told!TelemetryToldAsMeasured
<1> DEFINE words == Told!Dispatch(saQuery).words
<1>1. ASSUME saQuery.tool = "get_drone_state", saQuery.server # "broken"
      PROVE  /\ "position" \in words
                    <=> /\ saQuery.server = "ok"
                        /\ saQuery.lat.kind = "number"
                        /\ saQuery.lon.kind = "number"
             /\ "heading" \in words
                    <=> /\ saQuery.server = "ok"
                        /\ saQuery.hdg.kind = "number"
                        /\ saQuery.hdg # Told!Number(65535)
             /\ ("link_down" \in words <=> ~(saQuery.server = "ok"))
  <2>1. /\ saQuery.lat \in Told!Values /\ saQuery.hdg \in Told!Headings
        /\ saQuery.lon \in {Told!Missing, Told!Number(0)}
        /\ saQuery.server \in {"ok", "unreachable"}
    BY <1>1 DEF Told!Init, Told!Queries, Told!Servers
  <2>2. CASE saQuery.server = "ok"
    <3>1. "position" \in words <=> saQuery.lat.kind = "number" /\ saQuery.lon.kind = "number"
      BY <1>1, <2>1, <2>2, ToldOfVehicle, FloatOfNumber
    <3>2. "heading" \in words
              <=> saQuery.hdg.kind = "number" /\ saQuery.hdg # Told!Number(65535)
      BY <1>1, <2>1, <2>2, ToldOfVehicle, FloatOfNumber
    <3>3. "link_down" \notin words
      BY <1>1, <2>2, ToldOfVehicle
    <3> QED BY <2>2, <3>1, <3>2, <3>3
  <2>3. CASE saQuery.server = "unreachable"
    <3>1. words = {"link_down"}
      BY <1>1, <2>3, ToldOfVehicle
    <3> QED BY <2>3, <3>1
  <2> QED BY <2>1, <2>2, <2>3
<1> QED BY <1>1 DEF Told!TelemetryToldAsMeasured

\* A tool that is not known is an error.
LEMMA OnlyReads == Told!ReadOnly
  BY DEF Told!ReadOnly, Told!Dispatch

-----------------------------------------------------------------------------
(* What is computed of its input alone is asked once, and is as proved above for ever. *)

\* What is asked, if anything is, is a query of its module, and no step changes it.
Asked ==
    /\ active = "survey" => Plan!Init
    /\ active = "endpoint" => Secure!Init
    /\ active = "web" => Web!Init
    /\ active = "told" => Told!Init

\* Queries are never taken back.
LEMMA AskedInvariant == GroundSpec => []Asked
<1>1. GroundInit => Asked
  BY DEF GroundInit, Asked
<1>2. Asked /\ [GroundNext]_groundVars => Asked'
  <2> SUFFICES ASSUME Asked, [GroundNext]_groundVars PROVE Asked'
    OBVIOUS
  <2>1. UNCHANGED <<active, svQuery, teQuery, wsQuery, saQuery>>
    BY DEF GroundNext, groundVars, queries
  <2> QED
    BY <2>1 DEF Asked, Plan!Init, Secure!Init, Web!Init, Told!Init
<1> QED
  BY <1>1, <1>2, PTL DEF GroundSpec

\* For a block of any size, any footprint of a metre or more and any overlap, the planned path
\* covers all of the block and both export formats hold it; of at most three poses the nearest
\* in time is found; and the terrain stays between its samples.
THEOREM SurveyTheorem ==
  GroundSpec => [](active = "survey" => /\ Plan!PlanCovers /\ Plan!ExportsAgree
                                        /\ Plan!AlignNearest /\ Plan!TerrainBetween)
<1>1. Plan!Init => /\ Plan!PlanCovers /\ Plan!ExportsAgree
                   /\ Plan!AlignNearest /\ Plan!TerrainBetween
  BY Covers, ExportsKeepPath, NearestFound, BetweenSamples
<1>2. Asked => (active = "survey" => Plan!Init)
  BY DEF Asked
<1> QED
  BY <1>1, <1>2, AskedInvariant, PTL

\* Whatever a blob and the environment set: each setting comes from the topmost layer that
\* sets it, no mistake passes a loader, and the scout by itself reads what a node would.
THEOREM SettingsTheorem ==
  GroundSpec => [](Config!LayersKept /\ Config!MistakesSurface /\ Config!ScoutAsInNode)
<1>1. Config!LayersKept /\ Config!MistakesSurface /\ Config!ScoutAsInNode
  BY TopmostWins, NoMistakePasses, ScoutReadsAsNode
<1> QED
  BY <1>1, PTL

\* A TAK endpoint is secured as its options ask: no transport is in the clear unless the
\* options or the scheme say so, and none leaves a server unverified that it was to verify.
THEOREM EndpointTheorem == GroundSpec => [](active = "endpoint" => Secure!TlsAsAsked)
<1>1. Secure!Init => Secure!TlsAsAsked
  BY SecuredAsAsked
<1>2. Asked => (active = "endpoint" => Secure!Init)
  BY DEF Asked
<1> QED
  BY <1>1, <1>2, AskedInvariant, PTL

\* No web surface answers a network peer without its token, and each lets in the bearer of it.
THEOREM WebTheorem ==
  GroundSpec => [](active = "web" => Web!FailClosed /\ Web!BearerAdmitted)
<1>1. Web!Init => Web!FailClosed /\ Web!BearerAdmitted
  BY WebFailsClosed, WebLetsIn
<1>2. Asked => (active = "web" => Web!Init)
  BY DEF Asked
<1> QED
  BY <1>1, <1>2, AskedInvariant, PTL

\* The assistant is told of the vehicle what was measured and no more, and can only read.
THEOREM ToldTheorem ==
  GroundSpec => [](active = "told" => Told!TelemetryToldAsMeasured /\ Told!ReadOnly)
<1>1. Told!Init => Told!TelemetryToldAsMeasured /\ Told!ReadOnly
  BY ToldAsMeasured, OnlyReads
<1>2. Asked => (active = "told" => Told!Init)
  BY DEF Asked
<1> QED
  BY <1>1, <1>2, AskedInvariant, PTL

\* All of the invariant AnswersSound that is about the survey, the settings and the web
\* surfaces; the rest of it computes by folds over data and is left to TLC.
THEOREM AnswersTheorem ==
  GroundSpec => [](active \in {"survey", "settings", "web"} => AnswersSound)
<1>1. /\ active = "survey" => /\ Plan!PlanCovers /\ Plan!ExportsAgree
                              /\ Plan!AlignNearest /\ Plan!TerrainBetween
      /\ Config!LayersKept /\ Config!MistakesSurface /\ Config!ScoutAsInNode
      /\ active = "web" => Web!FailClosed /\ Web!BearerAdmitted
      => (active \in {"survey", "settings", "web"} => AnswersSound)
  BY DEF AnswersSound
<1> QED
  BY <1>1, SurveyTheorem, SettingsTheorem, WebTheorem, PTL
===============================================================================
