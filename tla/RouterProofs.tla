---------------------------- MODULE RouterProofs ----------------------------
(***************************************************************************)
(* Proofs about Router: types, loop prevention and bounded echoes.         *)
(***************************************************************************)
EXTENDS Router, FiniteSetTheorems, SequenceTheorems, TLAPS

-----------------------------------------------------------------------------
(* Sequences and links *)

\* A sequence over a set is one over any larger set.
LEMMA SeqMonotone ==
    ASSUME NEW S, NEW T, S \subseteq T, NEW s \in Seq(S)
    PROVE  s \in Seq(T)
  OBVIOUS

\* Ingest adds the frame at the end or leaves the queue alone.
LEMMA IngestType ==
    ASSUME NEW S, NEW q \in Seq(S), NEW e \in S
    PROVE  Ingest(q, e) \in Seq(S)
  BY DEF Ingest

\* A node's i-th transport is one of its links.
LEMMA LinkOf ==
    ASSUME NEW n \in Nodes, NEW i \in 1..Len(Transports[n])
    PROVE  /\ Transports[n][i] \in Buses
           /\ <<n, Transports[n][i]>> \in Links
  <1>1. Transports[n] \in Seq(Buses)
    BY RouterAssumption
  <1>2. Transports[n][i] \in Buses /\ i \in DOMAIN Transports[n]
    BY <1>1
  <1> QED
    BY <1>2 DEF Links, Range

\* A link is a node and a bus.
LEMMA LinkPair ==
    ASSUME NEW l \in Links
    PROVE  /\ l[1] \in Nodes /\ l[2] \in Buses /\ l = <<l[1], l[2]>>
           /\ Transports[l[1]] \in Seq(Buses)
  BY RouterAssumption DEF Links

\* The envelopes that origins build and receivers decode are well formed.
LEMMA FreshType ==
    ASSUME NEW m \in Msgs
    PROVE  Fresh(m) \in Envelopes
  <1>1. Origin[m] \in Nodes
    BY RouterAssumption
  <1>2. <<m>> \in Seq(Atoms) /\ <<Origin[m]>> \in Seq(Atoms)
    BY <1>1 DEF Atoms
  <1> QED
    BY <1>2 DEF Fresh, Envelopes

\* Decoding what was sent yields an envelope again.
LEMMA TranscodeType ==
    ASSUME NEW b \in Buses, NEW e \in Envelopes
    PROVE  Transcode(b, e) \in Envelopes
  <1>1. Codec[b] \in {"json", "compact", "cot"} /\ Kind[e.msg] \in {"PLI", "CHAT", "MARKER"}
    BY RouterAssumption DEF Envelopes
  <1>2. e.id \in Seq(Atoms) /\ e.uid \in Seq(Atoms) /\ e.msg \in Msgs
    BY DEF Envelopes
  <1>3. Stamp(e) \in Atoms
    BY <1>2 DEF Stamp, Atoms
  <1>4. EventUid(e) \in Seq(Atoms)
    <2>1. "track" \in Atoms
      BY DEF Atoms
    <2> QED
      BY <1>1, <1>2, <2>1 DEF EventUid
  <1>5. Append(EventUid(e), Stamp(e)) \in Seq(Atoms)
    BY <1>3, <1>4
  <1> QED
    BY <1>1, <1>4, <1>5 DEF Transcode, Envelopes

-----------------------------------------------------------------------------
(* Type correctness *)

\* Counting one more for a pair.
LEMMA CountUp ==
    ASSUME NEW A, NEW B, NEW f \in [A -> [B -> Nat]], NEW a \in A, NEW b \in B,
           NEW g, g = [f EXCEPT ![a][b] = @ + 1]
    PROVE  /\ g \in [A -> [B -> Nat]]
           /\ \A x \in A, y \in B : g[x][y] = IF x = a /\ y = b THEN f[x][y] + 1 ELSE f[x][y]
  <1> DEFINE h == [f[a] EXCEPT ![b] = f[a][b] + 1]
  <1>1. f[a] \in [B -> Nat] /\ f[a][b] + 1 \in Nat
    OBVIOUS
  <1>2. h \in [B -> Nat] /\ \A y \in B : h[y] = IF y = b THEN f[a][b] + 1 ELSE f[a][y]
    BY <1>1
  <1>3. g = [f EXCEPT ![a] = h]
    OBVIOUS
  <1> HIDE DEF h
  <1> QED
    BY <1>2, <1>3

\* The records of pumps and publish() calls.
LEMMA PumpRecords ==
    /\ \A s \in {"none", "wait", "dead"} : [state |-> s] \in PumpStates
    /\ \A e \in Envelopes, i \in Nat \ {0} :
           [state |-> "forward", env |-> e, next |-> i] \in PumpStates
    /\ \A p \in PumpStates : p.state = "forward" =>
           /\ p.env \in Envelopes /\ p.next \in Nat \ {0}
           /\ p = [state |-> "forward", env |-> p.env, next |-> p.next]
    /\ \A p \in PumpStates : p.state \in {"none", "wait", "dead", "forward"}
  BY DEF PumpStates

\* A publish() call that is sending has its position among the transports.
LEMMA PubRecords ==
    /\ \A s \in {"new", "done", "failed"} : [state |-> s] \in PubStates
    /\ \A i \in Nat \ {0} : [state |-> "sending", next |-> i] \in PubStates
    /\ \A p \in PubStates : p.state = "sending" =>
           p.next \in Nat \ {0} /\ p = [state |-> "sending", next |-> p.next]
    /\ \A p \in PubStates : p.state \in {"new", "done", "failed", "sending"}
  BY DEF PubStates

\* What a step of a forwarding pump or of a publish() call does to its record.
LEMMA PumpForwardMove ==
    ASSUME TypeOK, NEW l \in Links, PumpForward(l)
    PROVE  \E p \in {[state |-> "wait"], [state |-> "dead"],
                     [state |-> "forward", env |-> pump[l].env, next |-> pump[l].next + 1]} :
               p \in PumpStates /\ pump' = [pump EXCEPT ![l] = p]
  <1> DEFINE e == pump[l].env
             i == pump[l].next
  <1>1. /\ pump \in [Links -> PumpStates] /\ pump[l].state = "forward"
        /\ e \in Envelopes /\ i \in Nat \ {0}
        /\ pump[l] = [state |-> "forward", env |-> e, next |-> i]
    BY PumpRecords DEF PumpForward, TypeOK
  <1>2. \/ pump' = [pump EXCEPT ![l] = [state |-> "wait"]]
        \/ pump' = [pump EXCEPT ![l] = [state |-> "dead"]]
        \/ pump' = [pump EXCEPT ![l].next = i + 1]
    BY DEF PumpForward, Idle
  <1>3. [pump[l] EXCEPT !.next = i + 1] = [state |-> "forward", env |-> e, next |-> i + 1]
    BY <1>1
  <1>4. [pump EXCEPT ![l].next = i + 1] = [pump EXCEPT ![l] = [pump[l] EXCEPT !.next = i + 1]]
    OBVIOUS
  <1>5. i + 1 \in Nat \ {0}
    BY <1>1
  <1>6. /\ [state |-> "forward", env |-> e, next |-> i + 1] \in PumpStates
        /\ [state |-> "wait"] \in PumpStates /\ [state |-> "dead"] \in PumpStates
    BY <1>1, <1>5, PumpRecords
  <1> HIDE DEF e, i
  <1>7. \E p \in {[state |-> "wait"], [state |-> "dead"],
                  [state |-> "forward", env |-> e, next |-> i + 1]} :
               p \in PumpStates /\ pump' = [pump EXCEPT ![l] = p]
    BY <1>2, <1>3, <1>4, <1>6
  <1> QED
    BY <1>7 DEF e, i

\* A step of publish() sends on one transport and moves to the next or ends.
LEMMA PublishStepMove ==
    ASSUME TypeOK, NEW m \in Msgs, PublishStep(m)
    PROVE  \E p \in {[state |-> "done"], [state |-> "failed"],
                     [state |-> "sending", next |-> pub[m].next + 1]} :
               p \in PubStates /\ pub' = [pub EXCEPT ![m] = p]
  <1> DEFINE i == pub[m].next
  <1>1. /\ pub \in [Msgs -> PubStates] /\ pub[m].state = "sending"
        /\ i \in Nat \ {0} /\ pub[m] = [state |-> "sending", next |-> i]
    BY PubRecords DEF PublishStep, TypeOK
  <1>2. \/ pub' = [pub EXCEPT ![m] = [state |-> "done"]]
        \/ pub' = [pub EXCEPT ![m] = [state |-> "failed"]]
        \/ pub' = [pub EXCEPT ![m].next = i + 1]
    BY DEF PublishStep
  <1>3. [pub[m] EXCEPT !.next = i + 1] = [state |-> "sending", next |-> i + 1]
    BY <1>1
  <1>4. [pub EXCEPT ![m].next = i + 1] = [pub EXCEPT ![m] = [pub[m] EXCEPT !.next = i + 1]]
    OBVIOUS
  <1>5. i + 1 \in Nat \ {0}
    BY <1>1
  <1>6. /\ [state |-> "sending", next |-> i + 1] \in PubStates
        /\ [state |-> "done"] \in PubStates /\ [state |-> "failed"] \in PubStates
    BY <1>1, <1>5, PubRecords
  <1> HIDE DEF i
  <1>7. \E p \in {[state |-> "done"], [state |-> "failed"],
                  [state |-> "sending", next |-> i + 1]} :
               p \in PubStates /\ pub' = [pub EXCEPT ![m] = p]
    BY <1>2, <1>3, <1>4, <1>6
  <1> QED
    BY <1>7 DEF i

\* A bus hands a well-formed envelope on as a well-formed envelope.
LEMMA BroadcastType ==
    ASSUME TypeOK, NEW n \in Nodes, NEW b \in Buses, NEW e \in Envelopes, Broadcast(n, b, e)
    PROVE  inbox' \in [Links -> Seq(Envelopes \cup {BadFrame})]
  <1> DEFINE F == Envelopes \cup {BadFrame}
  <1>1. Transcode(b, e) \in F
    BY TranscodeType
  <1>2. ASSUME NEW l \in Links
        PROVE  inbox[l] \in Seq(F) /\ Ingest(inbox[l], Transcode(b, e)) \in Seq(F)
    <2>1. inbox[l] \in Seq(F)
      BY DEF TypeOK
    <2> HIDE DEF F
    <2> QED
      BY <1>1, <2>1, IngestType
  <1> HIDE DEF F
  <1>3. inbox' \in [Links -> Seq(F)]
    BY <1>2 DEF Broadcast
  <1> QED
    BY <1>3 DEF F

\* A send, successful or not, keeps the types of what it changes.
LEMMA SendType ==
    ASSUME TypeOK, NEW n \in Nodes, NEW i \in 1..Len(Transports[n]), NEW e \in Envelopes,
           SendOk(n, i, e) \/ SendRaises(n, i, e)
    PROVE  /\ inbox' \in [Links -> Seq(Envelopes \cup {BadFrame})]
           /\ sent' \in [Links -> [Msgs -> Nat]]
           /\ faults' \in Nat
  <1>1. CASE SendOk(n, i, e)
    <2>1. <<n, Transports[n][i]>> \in Links /\ Transports[n][i] \in Buses
      BY LinkOf
    <2>2. inbox' \in [Links -> Seq(Envelopes \cup {BadFrame})]
      BY <1>1, <2>1, BroadcastType DEF SendOk
    <2>3. e.msg \in Msgs
      BY DEF Envelopes
    <2>4. /\ sent \in [Links -> [Msgs -> Nat]] /\ faults' \in Nat
          /\ sent' = [sent EXCEPT ![<<n, Transports[n][i]>>][e.msg] = @ + 1]
      BY <1>1 DEF SendOk, TypeOK
    <2>5. sent' \in [Links -> [Msgs -> Nat]]
      <3> DEFINE k == <<n, Transports[n][i]>>
                 m == e.msg
      <3>1. /\ k \in Links /\ m \in Msgs /\ sent \in [Links -> [Msgs -> Nat]]
            /\ sent' = [sent EXCEPT ![k][m] = @ + 1]
        BY <2>1, <2>3, <2>4
      <3> HIDE DEF k, m
      <3> QED
        BY <3>1, CountUp
    <2> QED
      BY <2>2, <2>4, <2>5
  <1>2. CASE SendRaises(n, i, e)
    BY <1>2 DEF SendRaises, TypeOK
  <1> QED
    BY <1>1, <1>2

\* _mark_seen keeps a sequence of ids.
LEMMA MarkSeenType ==
    ASSUME NEW S, NEW n, seen[n] \in Seq(S), NEW id \in S
    PROVE  MarkSeen(n, id) \in Seq(S)
  <1> DEFINE s == Append(seen[n], id)
  <1>1. s \in Seq(S) /\ Len(s) \in Nat
    OBVIOUS
  <1> HIDE DEF s
  <1>2. CacheSize \in Nat
    BY RouterAssumption
  <1>3. ASSUME NEW k \in 1..(Len(s) + 1)
        PROVE  SubSeq(s, k, Len(s)) \in Seq(S)
    BY <1>1
  <1>4. (IF Len(s) > CacheSize THEN Len(s) - CacheSize + 1 ELSE 1) \in 1..(Len(s) + 1)
    BY <1>1, <1>2
  <1> QED
    BY <1>3, <1>4 DEF MarkSeen, s

\* Initially, and across every step, the state has its types.
LEMMA TypeInit == Init => TypeOK
  <1> SUFFICES ASSUME Init PROVE TypeOK
    OBVIOUS
  <1>1. seen \in [Nodes -> Seq(Seq(Atoms))]
    BY DEF Init
  <1>2. inbox \in [Links -> Seq(Envelopes \cup {BadFrame})]
    BY DEF Init
  <1> QED
    BY <1>1, <1>2, PumpRecords, PubRecords DEF Init, TypeOK

\* Every step keeps the types.
LEMMA TypeStep == TypeOK /\ [Next]_vars => TypeOK'
  <1> SUFFICES ASSUME TypeOK, [Next]_vars PROVE TypeOK'
    OBVIOUS
  <1>1. ASSUME NEW n \in Nodes, Start(n) \/ StartRaises(n) \/ Stop(n)
        PROVE  TypeOK'
    <2>1. /\ pump \in [Links -> PumpStates] /\ faults \in Nat
          /\ life \in [Nodes -> {"new", "running", "stopped", "stop_raised", "start_raised"}]
      BY DEF TypeOK
    <2>2. pump' \in [Links -> PumpStates]
      <3>1. [state |-> "none"] \in PumpStates /\ [state |-> "wait"] \in PumpStates
        BY PumpRecords
      <3> QED
        BY <1>1, <2>1, <3>1 DEF Start, StartRaises, Stop, Idle
    <2>3. /\ faults' \in Nat
          /\ life' \in [Nodes -> {"new", "running", "stopped", "stop_raised", "start_raised"}]
      BY <1>1, <2>1 DEF Start, StartRaises, Stop
    <2> QED
      BY <1>1, <2>2, <2>3 DEF TypeOK, Start, StartRaises, Stop
  <1>2. ASSUME NEW m \in Msgs, Publish(m)
        PROVE  TypeOK'
    <2>1. Origin[m] \in Nodes /\ Fresh(m).id \in Seq(Atoms)
      BY FreshType, RouterAssumption DEF Envelopes
    <2>2. MarkSeen(Origin[m], Fresh(m).id) \in Seq(Seq(Atoms))
      BY <2>1, MarkSeenType DEF TypeOK
    <2>3. seen' \in [Nodes -> Seq(Seq(Atoms))]
      BY <1>2, <2>2 DEF Publish, TypeOK
    <2>4. pub' \in [Msgs -> PubStates]
      <3>1. [state |-> "sending", next |-> 1] \in PubStates
        BY PubRecords
      <3> QED
        BY <1>2, <3>1 DEF Publish, TypeOK
    <2> QED
      BY <1>2, <2>3, <2>4 DEF Publish, TypeOK
  <1>3. ASSUME NEW m \in Msgs, PublishStep(m)
        PROVE  TypeOK'
    <2> DEFINE n == Origin[m]
               i == pub[m].next
    <2>1. n \in Nodes /\ Fresh(m) \in Envelopes /\ Transports[n] \in Seq(Buses)
      BY FreshType, RouterAssumption
    <2>2. i \in Nat \ {0} /\ pub[m] = [state |-> "sending", next |-> i]
      BY <1>3, PubRecords DEF PublishStep, TypeOK
    <2>3. /\ inbox' \in [Links -> Seq(Envelopes \cup {BadFrame})]
          /\ sent' \in [Links -> [Msgs -> Nat]]
          /\ faults' \in Nat
      <3>1. CASE i <= Len(Transports[n])
        <4>1. i \in 1..Len(Transports[n])
          BY <2>1, <2>2, <3>1
        <4> QED
          BY <1>3, <2>1, <3>1, <4>1, SendType DEF PublishStep
      <3>2. CASE ~(i <= Len(Transports[n]))
        BY <1>3, <3>2 DEF PublishStep, TypeOK
      <3> QED
        BY <3>1, <3>2
    <2>4. pub' \in [Msgs -> PubStates]
      BY <1>3, PublishStepMove DEF TypeOK
    <2> QED
      BY <1>3, <2>3, <2>4 DEF PublishStep, TypeOK
  <1>4. ASSUME NEW l \in Links, PumpTake(l)
        PROVE  TypeOK'
    <2> DEFINE n == l[1]
               e == Head(inbox[l])
    <2>1. n \in Nodes
      BY LinkPair
    <2>2. e \in Envelopes \cup {BadFrame} /\ Tail(inbox[l]) \in Seq(Envelopes \cup {BadFrame})
      BY <1>4 DEF PumpTake, TypeOK
    <2>3. inbox' \in [Links -> Seq(Envelopes \cup {BadFrame})]
      BY <1>4, <2>2 DEF PumpTake, TypeOK
    <2>4. CASE UNCHANGED <<seen, pump, delivered>>
      BY <1>4, <2>3, <2>4 DEF PumpTake, TypeOK
    <2>5. CASE e # BadFrame /\ ~UNCHANGED <<seen, pump, delivered>>
      <3>1. e \in Envelopes /\ e.id \in Seq(Atoms) /\ e.msg \in Msgs
        BY <2>2, <2>5 DEF Envelopes
      <3>2. MarkSeen(n, e.id) \in Seq(Seq(Atoms))
        BY <2>1, <3>1, MarkSeenType DEF TypeOK
      <3>3. seen' \in [Nodes -> Seq(Seq(Atoms))]
        BY <1>4, <2>5, <3>2 DEF PumpTake, TypeOK
      <3>4. delivered' \in [Nodes -> [Msgs -> Nat]]
        <4>1. /\ delivered \in [Nodes -> [Msgs -> Nat]]
              /\ delivered' = [delivered EXCEPT ![n][e.msg] = @ + 1]
          BY <1>4, <2>5 DEF PumpTake, TypeOK
        <4> QED
          BY <2>1, <3>1, <4>1, CountUp
      <3>5. pump' \in [Links -> PumpStates]
        <4>1. /\ pump \in [Links -> PumpStates]
              /\ pump' = [pump EXCEPT ![l] = [state |-> "forward", env |-> e, next |-> 1]]
          BY <1>4, <2>5 DEF PumpTake, TypeOK
        <4>2. [state |-> "forward", env |-> e, next |-> 1] \in PumpStates
          BY <3>1, PumpRecords
        <4> QED
          BY <4>1, <4>2
      <3> QED
        BY <1>4, <2>3, <3>3, <3>4, <3>5 DEF PumpTake, TypeOK
    <2> QED
      BY <1>4, <2>4, <2>5 DEF PumpTake
  <1>5. ASSUME NEW l \in Links, PumpForward(l)
        PROVE  TypeOK'
    <2> DEFINE n == l[1]
               i == pump[l].next
    <2>1. n \in Nodes /\ Transports[n] \in Seq(Buses)
      BY LinkPair
    <2>2. /\ i \in Nat \ {0} /\ pump[l].env \in Envelopes
          /\ pump[l] = [state |-> "forward", env |-> pump[l].env, next |-> i]
      BY <1>5, PumpRecords DEF PumpForward, TypeOK
    <2>3. /\ inbox' \in [Links -> Seq(Envelopes \cup {BadFrame})]
          /\ sent' \in [Links -> [Msgs -> Nat]]
          /\ faults' \in Nat
      <3>1. CASE i <= Len(Transports[n]) /\ Transports[n][i] # l[2]
        <4>1. i \in 1..Len(Transports[n])
          BY <2>1, <2>2, <3>1
        <4> QED
          BY <1>5, <2>1, <2>2, <3>1, <4>1, SendType DEF PumpForward
      <3>2. CASE ~(i <= Len(Transports[n]) /\ Transports[n][i] # l[2])
        BY <1>5, <3>2 DEF PumpForward, TypeOK
      <3> QED
        BY <3>1, <3>2
    <2>4. pump' \in [Links -> PumpStates]
      BY <1>5, PumpForwardMove DEF TypeOK
    <2> QED
      BY <1>5, <2>3, <2>4 DEF PumpForward, TypeOK
  <1>6. ASSUME NEW l \in Links, Noise(l)
        PROVE  TypeOK'
    <2>1. Ingest(inbox[l], BadFrame) \in Seq(Envelopes \cup {BadFrame})
      BY IngestType DEF TypeOK
    <2>2. inbox' \in [Links -> Seq(Envelopes \cup {BadFrame})]
      BY <1>6, <2>1 DEF Noise, TypeOK
    <2> QED
      BY <1>6, <2>2 DEF Noise, TypeOK
  <1>7. CASE UNCHANGED vars
    BY <1>7 DEF vars, TypeOK
  <1> QED
    BY <1>1, <1>2, <1>3, <1>4, <1>5, <1>6, <1>7 DEF Next

\* Type correctness of the routers for any topology, codecs and messages.
THEOREM TypeCorrect == Spec => []TypeOK
  BY TypeInit, TypeStep, PTL DEF Spec

-----------------------------------------------------------------------------
(* Loop prevention: the inductive invariant *)

\* The frames of published messages, under their own ids.
LiveFrames == {e \in Envelopes : e.id = <<e.msg>> /\ pub[e.msg].state # "new"}

\* Only such frames, and undecodable ones, are on their way.
FrameInv ==
    /\ \A l \in Links : inbox[l] \in Seq(LiveFrames \cup {BadFrame})
    /\ \A l \in Links : pump[l].state = "forward" => pump[l].env \in LiveFrames

\* The dedupe cache of a node holds the ids of what the node has handled, each once.
SeenInv ==
    \A n \in Nodes :
        /\ \A i \in DOMAIN seen[n] : \E m \in Msgs : seen[n][i] = <<m>>
        /\ \A i, j \in DOMAIN seen[n] : seen[n][i] = seen[n][j] => i = j
        /\ \A m \in Msgs : <<m>> \in Range(seen[n]) <=> Handled(n, m)

\* Only published messages are handled, and a node handles each once.
HandledInv ==
    /\ \A n \in Nodes, m \in Msgs : Handled(n, m) => pub[m].state # "new"
    /\ DeliveredOnce

\* One task of a node at most is sending a message.
ForwardInv ==
    /\ \A l \in Links : pump[l].state = "forward" => delivered[l[1]][pump[l].env.msg] > 0
    /\ \A k, l \in Links :
           /\ k[1] = l[1] /\ pump[k].state = "forward" /\ pump[l].state = "forward"
           /\ pump[k].env.msg = pump[l].env.msg
           => k = l

\* It has not sent the message yet on the transports it has yet to visit.
SentInv ==
    /\ \A l \in Links, m \in Msgs : ~Handled(l[1], m) => sent[l][m] = 0
    /\ \A l \in Links : pump[l].state = "forward" =>
           \A j \in pump[l].next .. Len(Transports[l[1]]) :
               sent[<<l[1], Transports[l[1]][j]>>][pump[l].env.msg] = 0
    /\ \A m \in Msgs : pub[m].state = "sending" =>
           \A j \in pub[m].next .. Len(Transports[Origin[m]]) :
               sent[<<Origin[m], Transports[Origin[m]][j]>>][m] = 0
    /\ SentOnce

\* The inductive invariant of loop prevention.
LoopInv == TypeOK /\ FrameInv /\ SeenInv /\ HandledInv /\ ForwardInv /\ SentInv

-----------------------------------------------------------------------------
(* What the steps do to the parts of the invariant *)

\* Publishing is irrevocable, so live frames stay live.
LEMMA LiveGrows ==
    ASSUME \A m \in Msgs : pub[m].state # "new" => pub'[m].state # "new"
    PROVE  LiveFrames \subseteq LiveFrames'
  BY DEF LiveFrames, Envelopes

\* A bus that keeps msg_id turns live frames into live frames.
LEMMA TranscodeLive ==
    ASSUME IdPreserving, NEW b \in Buses, NEW e \in LiveFrames
    PROVE  Transcode(b, e) \in LiveFrames
  <1>1. e \in Envelopes /\ e.id = <<e.msg>> /\ pub[e.msg].state # "new"
    BY DEF LiveFrames
  <1>2. Transcode(b, e) \in Envelopes
    BY <1>1, TranscodeType
  <1>3. Codec[b] = "json" \/ Codec[b] = "compact"
    BY RouterAssumption DEF IdPreserving
  <1>4. Transcode(b, e).id = e.id /\ Transcode(b, e).msg = e.msg
    <2>1. CASE Codec[b] = "json"
      BY <2>1 DEF Transcode
    <2>2. CASE Codec[b] = "compact"
      <3>1. Transcode(b, e) = [e EXCEPT !.time = "s", !.track = FALSE]
        BY <2>2 DEF Transcode
      <3> QED
        BY <1>1, <3>1 DEF Envelopes
    <2> QED
      BY <1>3, <2>1, <2>2
  <1> QED
    BY <1>1, <1>2, <1>4 DEF LiveFrames

\* A send of a live frame puts live frames into inboxes, and counts one more for its
\* link and message or nothing.
LEMMA SendEffect ==
    ASSUME IdPreserving, TypeOK, FrameInv,
           NEW n \in Nodes, NEW i \in 1..Len(Transports[n]), NEW e \in LiveFrames,
           SendOk(n, i, e) \/ SendRaises(n, i, e)
    PROVE  /\ \A l \in Links : inbox'[l] \in Seq(LiveFrames \cup {BadFrame})
           /\ \/ sent' = sent
              \/ \A l \in Links, m \in Msgs :
                     sent'[l][m] = IF l = <<n, Transports[n][i]>> /\ m = e.msg
                                   THEN sent[l][m] + 1 ELSE sent[l][m]
  <1> DEFINE b == Transports[n][i]
             k == <<n, Transports[n][i]>>
  <1>1. CASE SendOk(n, i, e)
    <2>1. b \in Buses /\ k \in Links
      BY LinkOf
    <2>2. e.msg \in Msgs /\ Transcode(b, e) \in LiveFrames
      BY <2>1, TranscodeLive DEF LiveFrames, Envelopes
    <2>3. ASSUME NEW l \in Links
          PROVE  inbox'[l] \in Seq(LiveFrames \cup {BadFrame})
      <3>1. inbox[l] \in Seq(LiveFrames \cup {BadFrame})
        BY DEF FrameInv
      <3>2. inbox'[l] = inbox[l] \/ inbox'[l] = Ingest(inbox[l], Transcode(b, e))
        BY <1>1 DEF SendOk, Broadcast
      <3> QED
        BY <2>2, <3>1, <3>2, IngestType
    <2>4. sent \in [Links -> [Msgs -> Nat]] /\ sent' = [sent EXCEPT ![k][e.msg] = @ + 1]
      BY <1>1 DEF SendOk, TypeOK
    <2> HIDE DEF k
    <2>5. \A l \in Links, m \in Msgs :
              sent'[l][m] = IF l = k /\ m = e.msg THEN sent[l][m] + 1 ELSE sent[l][m]
      <3> DEFINE x == e.msg
      <3>1. k \in Links /\ x \in Msgs /\ sent' = [sent EXCEPT ![k][x] = @ + 1]
        BY <2>1, <2>2, <2>4
      <3> HIDE DEF x
      <3>2. \A l \in Links, m \in Msgs :
                sent'[l][m] = IF l = k /\ m = x THEN sent[l][m] + 1 ELSE sent[l][m]
        BY <2>4, <3>1, CountUp
      <3> QED
        BY <3>2 DEF x
    <2> QED
      BY <2>3, <2>5 DEF k
  <1>2. CASE SendRaises(n, i, e)
    BY <1>2 DEF SendRaises, FrameInv
  <1> QED
    BY <1>1, <1>2

\* The pigeonhole: a node that has not handled m has room for m's id in its cache.
LEMMA CacheHasRoom ==
    ASSUME IdPreserving, TypeOK, SeenInv, NEW n \in Nodes, NEW m \in Msgs, ~Handled(n, m)
    PROVE  MarkSeen(n, <<m>>) = Append(seen[n], <<m>>)
  <1> DEFINE s == seen[n]
             L == Len(seen[n])
             f == [i \in 1..(L + 1) |-> IF i = L + 1 THEN m ELSE s[i][1]]
  <1>1. s \in Seq(Seq(Atoms)) /\ L \in Nat /\ DOMAIN s = 1..L
    BY DEF TypeOK
  <1>2. \A i \in 1..L : s[i][1] \in Msgs /\ s[i] = <<s[i][1]>>
    BY <1>1 DEF SeenInv
  <1>3. \A i, j \in 1..L : s[i] = s[j] => i = j
    BY <1>1 DEF SeenInv
  <1>4. \A i \in 1..L : s[i] # <<m>>
    BY <1>1 DEF SeenInv, Range
  <1> HIDE DEF s, L
  <1>5. f \in [1..(L + 1) -> Msgs]
    BY <1>1, <1>2
  <1>6. ASSUME NEW i \in 1..(L + 1), NEW j \in 1..(L + 1), f[i] = f[j]
        PROVE  i = j
    BY <1>1, <1>2, <1>3, <1>4, <1>6
  <1> HIDE DEF f
  <1>7. IsInjective(f)
    BY <1>5, <1>6 DEF IsInjective
  <1>8. f \in Injection(1..(L + 1), Msgs)
    BY <1>5, <1>7 DEF Injection
  <1>9. Cardinality(1..(L + 1)) <= Cardinality(Msgs)
    BY <1>8, FS_Injection DEF IdPreserving
  <1>10. Cardinality(1..(L + 1)) = L + 1
    BY <1>1, FS_Interval
  <1>11. Cardinality(Msgs) \in Nat /\ Cardinality(Msgs) <= CacheSize /\ CacheSize \in Nat
    BY FS_CardinalityType, RouterAssumption DEF IdPreserving
  <1>12. L + 1 <= CacheSize
    BY <1>1, <1>9, <1>10, <1>11
  <1> DEFINE t == Append(s, <<m>>)
  <1>13. t \in Seq(Seq(Atoms)) /\ Len(t) = L + 1
    <2>1. <<m>> \in Seq(Atoms)
      BY DEF Atoms
    <2> QED
      BY <1>1, <2>1 DEF L, s
  <1> HIDE DEF t
  <1>14. SubSeq(t, 1, Len(t)) = t
    BY <1>13
  <1>15. ~(Len(t) > CacheSize)
    BY <1>1, <1>11, <1>12, <1>13
  <1> QED
    BY <1>14, <1>15 DEF MarkSeen, t, s

\* Marking the id of a newly handled message keeps the cache exact.
LEMMA SeenStep ==
    ASSUME TypeOK, SeenInv, NEW n \in Nodes, NEW m \in Msgs, ~Handled(n, m),
           seen' = [seen EXCEPT ![n] = Append(seen[n], <<m>>)],
           \A k \in Nodes, x \in Msgs : Handled(k, x)' <=> (Handled(k, x) \/ (k = n /\ x = m))
    PROVE  SeenInv'
  <1> SUFFICES ASSUME NEW k \in Nodes
               PROVE  /\ \A i \in DOMAIN seen'[k] : \E x \in Msgs : seen'[k][i] = <<x>>
                      /\ \A i, j \in DOMAIN seen'[k] : seen'[k][i] = seen'[k][j] => i = j
                      /\ \A x \in Msgs : <<x>> \in Range(seen'[k]) <=> Handled(k, x)'
    BY DEF SeenInv
  <1>1. /\ \A i \in DOMAIN seen[k] : \E x \in Msgs : seen[k][i] = <<x>>
        /\ \A i, j \in DOMAIN seen[k] : seen[k][i] = seen[k][j] => i = j
        /\ \A x \in Msgs : <<x>> \in Range(seen[k]) <=> Handled(k, x)
    BY DEF SeenInv
  <1>2. seen \in [Nodes -> Seq(Seq(Atoms))]
    BY DEF TypeOK
  <1>3. CASE k # n
    <2>1. seen'[k] = seen[k]
      BY <1>2, <1>3
    <2> QED
      BY <1>1, <1>3, <2>1
  <1>4. CASE k = n
    <2> DEFINE s == seen[n]
               t == seen'[n]
               L == Len(s)
    <2>1. s \in Seq(Seq(Atoms)) /\ t = Append(s, <<m>>) /\ L \in Nat /\ DOMAIN s = 1..L
      BY <1>2
    <2> HIDE DEF s, t
    <2>2. DOMAIN t = 1..(L + 1) /\ t[L + 1] = <<m>> /\ \A i \in 1..L : t[i] = s[i]
      BY <2>1
    <2>3. <<m>> \notin Range(s)
      BY <1>1, <1>4 DEF s
    <2>4. Range(t) = Range(s) \cup {<<m>>}
      BY <2>1, <2>2 DEF Range
    <2>5. \A i \in DOMAIN t : \E x \in Msgs : t[i] = <<x>>
      BY <1>1, <1>4, <2>1, <2>2 DEF s
    <2>6. \A i, j \in DOMAIN t : t[i] = t[j] => i = j
      <3>1. \A i \in 1..L : s[i] # <<m>>
        BY <2>1, <2>3 DEF Range
      <3>2. \A i, j \in 1..L : s[i] = s[j] => i = j
        BY <1>1, <1>4, <2>1 DEF s
      <3> QED
        BY <2>1, <2>2, <3>1, <3>2
    <2>7. \A x \in Msgs : <<x>> \in Range(t) <=> Handled(n, x)'
      <3>1. \A x \in Msgs : <<x>> \in Range(t) <=> (Handled(n, x) \/ x = m)
        BY <1>1, <1>4, <2>4 DEF s
      <3> QED
        BY <3>1
    <2> QED
      BY <1>4, <2>5, <2>6, <2>7 DEF t
  <1> QED
    BY <1>3, <1>4

\* Steps that handle nothing new keep what is said of the handled messages.
LEMMA SameHandled ==
    ASSUME UNCHANGED delivered,
           \A m \in Msgs : pub'[m].state = "new" <=> pub[m].state = "new"
    PROVE  /\ \A n \in Nodes, m \in Msgs : Handled(n, m)' <=> Handled(n, m)
           /\ LiveFrames' = LiveFrames
           /\ HandledInv => HandledInv'
           /\ SeenInv /\ UNCHANGED seen => SeenInv'
  <1>1. \A n \in Nodes, m \in Msgs : Handled(n, m)' <=> Handled(n, m)
    BY DEF Handled
  <1>2. LiveFrames' = LiveFrames
    BY DEF LiveFrames, Envelopes
  <1>3. HandledInv => HandledInv'
    BY <1>1 DEF HandledInv, DeliveredOnce
  <1>4. SeenInv /\ UNCHANGED seen => SeenInv'
    BY <1>1 DEF SeenInv
  <1> QED
    BY <1>1, <1>2, <1>3, <1>4

\* Lifecycle steps end pumps or set them waiting.
LEMMA LifecyclePreserves ==
    ASSUME LoopInv, TypeOK', NEW n \in Nodes, Start(n) \/ StartRaises(n) \/ Stop(n)
    PROVE  LoopInv'
  <1>1. UNCHANGED <<seen, inbox, pub, delivered, sent>>
    BY DEF Start, StartRaises, Stop
  <1>2. \A l \in Links : pump'[l] = pump[l] \/ pump'[l].state \in {"none", "wait"}
    BY DEF Start, StartRaises, Stop, Idle
  <1>3. /\ \A k \in Nodes, m \in Msgs : Handled(k, m)' <=> Handled(k, m)
        /\ LiveFrames' = LiveFrames /\ HandledInv' /\ SeenInv'
    BY <1>1, SameHandled DEF LoopInv
  <1>4. FrameInv'
    BY <1>1, <1>2, <1>3 DEF LoopInv, FrameInv
  <1>5. ForwardInv'
    BY <1>1, <1>2 DEF LoopInv, ForwardInv
  <1>6. SentInv'
    <2>1. \A l \in Links, m \in Msgs : ~Handled(l[1], m)' => sent'[l][m] = 0
      BY <1>1, <1>3, LinkPair DEF LoopInv, SentInv
    <2> QED
      BY <1>1, <1>2, <2>1 DEF LoopInv, SentInv, SentOnce
  <1> QED
    BY <1>3, <1>4, <1>5, <1>6 DEF LoopInv

\* Undecodable frames touch nothing but an inbox.
LEMMA NoisePreserves ==
    ASSUME LoopInv, TypeOK', NEW l \in Links, Noise(l)
    PROVE  LoopInv'
  <1>1. UNCHANGED <<seen, pump, pub, delivered, sent>>
    BY DEF Noise
  <1>2. /\ \A k \in Nodes, m \in Msgs : Handled(k, m)' <=> Handled(k, m)
        /\ LiveFrames' = LiveFrames /\ HandledInv' /\ SeenInv'
    BY <1>1, SameHandled DEF LoopInv
  <1>3. FrameInv'
    <2>1. ASSUME NEW k \in Links
          PROVE  inbox'[k] \in Seq(LiveFrames \cup {BadFrame})
      <3>1. inbox[k] \in Seq(LiveFrames \cup {BadFrame})
        BY DEF LoopInv, FrameInv
      <3>2. inbox'[k] = inbox[k] \/ inbox'[k] = Ingest(inbox[k], BadFrame)
        BY DEF Noise, LoopInv, TypeOK
      <3> QED
        BY <3>1, <3>2, IngestType
    <2> QED
      BY <1>1, <1>2, <2>1 DEF LoopInv, FrameInv
  <1>4. ForwardInv'
    BY <1>1 DEF LoopInv, ForwardInv
  <1>5. SentInv'
    <2>1. \A k \in Links, m \in Msgs : ~Handled(k[1], m)' => sent'[k][m] = 0
      BY <1>1, <1>2, LinkPair DEF LoopInv, SentInv
    <2> QED
      BY <1>1, <2>1 DEF LoopInv, SentInv, SentOnce
  <1> QED
    BY <1>2, <1>3, <1>4, <1>5 DEF LoopInv

\* publish() starts: nobody knows the message yet.
LEMMA PublishPreserves ==
    ASSUME IdPreserving, LoopInv, TypeOK', NEW m \in Msgs, Publish(m)
    PROVE  LoopInv'
  <1> DEFINE n == Origin[m]
  <1>1. n \in Nodes /\ pub \in [Msgs -> PubStates] /\ delivered \in [Nodes -> [Msgs -> Nat]]
    BY RouterAssumption DEF LoopInv, TypeOK
  <1>2. /\ pub[m].state = "new" /\ UNCHANGED <<inbox, pump, delivered, sent>>
        /\ pub' = [pub EXCEPT ![m] = [state |-> "sending", next |-> 1]]
        /\ seen' = [seen EXCEPT ![n] = MarkSeen(n, Fresh(m).id)]
    BY DEF Publish
  <1>3. \A k \in Nodes : ~Handled(k, m)
    BY <1>2 DEF LoopInv, HandledInv
  <1>4. \A k \in Nodes : delivered[k][m] = 0
    BY <1>1, <1>3 DEF Handled
  <1>5. /\ pub'[m] = [state |-> "sending", next |-> 1]
        /\ \A x \in Msgs : x # m => pub'[x] = pub[x]
    BY <1>1, <1>2
  <1>6. \A k \in Nodes, x \in Msgs : Handled(k, x)' <=> (Handled(k, x) \/ (k = n /\ x = m))
    BY <1>2, <1>3, <1>5 DEF Handled
  <1>7. Fresh(m).id = <<m>>
    BY DEF Fresh
  <1>8. SeenInv'
    <2>1. MarkSeen(n, <<m>>) = Append(seen[n], <<m>>)
      BY <1>1, <1>3, CacheHasRoom DEF LoopInv
    <2>2. seen' = [seen EXCEPT ![n] = Append(seen[n], <<m>>)]
      BY <1>2, <1>7, <2>1
    <2> QED
      BY <1>1, <1>3, <1>6, <2>2, SeenStep DEF LoopInv
  <1>9. HandledInv'
    <2>1. \A k \in Nodes, x \in Msgs : Handled(k, x)' => pub'[x].state # "new"
      BY <1>5, <1>6 DEF LoopInv, HandledInv
    <2>2. DeliveredOnce'
      BY <1>1, <1>2, <1>4, <1>5 DEF LoopInv, HandledInv, DeliveredOnce
    <2> QED
      BY <2>1, <2>2 DEF HandledInv
  <1>10. FrameInv'
    <2>1. LiveFrames \subseteq LiveFrames'
      BY <1>5, LiveGrows
    <2>2. LiveFrames \cup {BadFrame} \subseteq LiveFrames' \cup {BadFrame}
      BY <2>1
    <2>3. \A l \in Links : inbox[l] \in Seq(LiveFrames' \cup {BadFrame})
      BY <2>2, SeqMonotone DEF LoopInv, FrameInv
    <2> QED
      BY <1>2, <2>1, <2>3 DEF LoopInv, FrameInv, BadFrame
  <1>11. ForwardInv'
    BY <1>2 DEF LoopInv, ForwardInv
  <1>12. SentInv'
    <2>1. \A l \in Links : l[1] \in Nodes
      BY LinkPair
    <2>2. \A l \in Links, x \in Msgs : ~Handled(l[1], x)' => sent'[l][x] = 0
      BY <1>2, <1>6, <2>1 DEF LoopInv, SentInv
    <2>3. \A j \in 1..Len(Transports[n]) : sent[<<n, Transports[n][j]>>][m] = 0
      <3> TAKE j \in 1..Len(Transports[n])
      <3> DEFINE l == <<n, Transports[n][j]>>
      <3>1. l \in Links /\ l[1] = n
        BY <1>1, LinkOf
      <3> HIDE DEF l
      <3>2. sent[l][m] = 0
        BY <1>1, <1>3, <3>1 DEF LoopInv, SentInv
      <3> QED
        BY <3>2 DEF l
    <2>4. \A x \in Msgs : pub'[x].state = "sending" =>
              \A j \in pub'[x].next .. Len(Transports[Origin[x]]) :
                  sent'[<<Origin[x], Transports[Origin[x]][j]>>][x] = 0
      <3> SUFFICES ASSUME NEW x \in Msgs, pub'[x].state = "sending",
                          NEW j \in pub'[x].next .. Len(Transports[Origin[x]])
                   PROVE  sent[<<Origin[x], Transports[Origin[x]][j]>>][x] = 0
        BY <1>2
      <3>1. CASE x = m
        BY <1>5, <2>3, <3>1
      <3>2. CASE x # m
        BY <1>5, <3>2 DEF LoopInv, SentInv
      <3> QED
        BY <3>1, <3>2
    <2> QED
      BY <1>2, <2>2, <2>4 DEF LoopInv, SentInv, SentOnce
  <1> QED
    BY <1>8, <1>9, <1>10, <1>11, <1>12 DEF LoopInv

\* A pump takes a frame: a duplicate leaves no trace, a new message is handled.
LEMMA PumpTakePreserves ==
    ASSUME IdPreserving, LoopInv, TypeOK', NEW l \in Links, PumpTake(l)
    PROVE  LoopInv'
  <1> DEFINE n == l[1]
             e == Head(inbox[l])
             m == Head(inbox[l]).msg
  <1>1. n \in Nodes /\ inbox[l] \in Seq(LiveFrames \cup {BadFrame}) /\ inbox[l] # <<>>
    BY LinkPair DEF LoopInv, FrameInv, PumpTake
  <1>2. e \in LiveFrames \cup {BadFrame} /\ Tail(inbox[l]) \in Seq(LiveFrames \cup {BadFrame})
    BY <1>1
  <1>3. UNCHANGED <<pub, sent>> /\ pump[l].state = "wait"
        /\ inbox' = [inbox EXCEPT ![l] = Tail(inbox[l])]
    BY DEF PumpTake
  <1>4. LiveFrames' = LiveFrames
    BY <1>3 DEF LiveFrames
  <1>5. \A k \in Links : inbox'[k] \in Seq(LiveFrames' \cup {BadFrame})
    <2>1. \A k \in Links : inbox[k] \in Seq(LiveFrames \cup {BadFrame})
      BY DEF LoopInv, FrameInv
    <2>2. \A k \in Links : inbox'[k] = IF k = l THEN Tail(inbox[l]) ELSE inbox[k]
      BY <1>3 DEF LoopInv, TypeOK
    <2> QED
      BY <1>2, <1>4, <2>1, <2>2
  <1>6. CASE UNCHANGED <<seen, pump, delivered>>
    <2>1. /\ \A k \in Nodes, x \in Msgs : Handled(k, x)' <=> Handled(k, x)
          /\ HandledInv' /\ SeenInv'
      BY <1>3, <1>6, SameHandled DEF LoopInv
    <2>2. FrameInv'
      BY <1>4, <1>5, <1>6 DEF LoopInv, FrameInv, BadFrame
    <2>3. ForwardInv'
      BY <1>6 DEF LoopInv, ForwardInv
    <2>4. SentInv'
      <3>1. \A k \in Links, x \in Msgs : ~Handled(k[1], x)' => sent'[k][x] = 0
        BY <1>3, <2>1, LinkPair DEF LoopInv, SentInv
      <3> QED
        BY <1>3, <1>6, <3>1 DEF LoopInv, SentInv, SentOnce
    <2> QED
      BY <2>1, <2>2, <2>3, <2>4 DEF LoopInv
  <1>7. CASE ~UNCHANGED <<seen, pump, delivered>>
    <2>1. /\ e # BadFrame /\ e.id \notin Range(seen[n])
          /\ seen' = [seen EXCEPT ![n] = MarkSeen(n, e.id)]
          /\ delivered' = [delivered EXCEPT ![n][m] = @ + 1]
          /\ pump' = [pump EXCEPT ![l] = [state |-> "forward", env |-> e, next |-> 1]]
      BY <1>7 DEF PumpTake
    <2>2. e \in LiveFrames /\ m \in Msgs /\ e.id = <<m>> /\ pub[m].state # "new"
      BY <1>2, <2>1 DEF LiveFrames, Envelopes
    <2> HIDE DEF n, m
    <2>3. ~Handled(n, m)
      BY <1>1, <2>1, <2>2 DEF LoopInv, SeenInv
    <2>4. /\ delivered \in [Nodes -> [Msgs -> Nat]] /\ pump \in [Links -> PumpStates]
      BY DEF LoopInv, TypeOK
    <2>5. delivered[n][m] = 0 /\ Origin[m] # n
      BY <1>1, <2>2, <2>3, <2>4 DEF Handled
    <2>6. \A k \in Nodes, x \in Msgs :
              delivered'[k][x] = IF k = n /\ x = m THEN delivered[k][x] + 1 ELSE delivered[k][x]
      BY <1>1, <2>1, <2>2, <2>4, CountUp
    <2>7. \A k \in Nodes, x \in Msgs : Handled(k, x)' <=> (Handled(k, x) \/ (k = n /\ x = m))
      BY <1>3, <2>4, <2>5, <2>6 DEF Handled
    <2>8. SeenInv'
      <3>1. MarkSeen(n, <<m>>) = Append(seen[n], <<m>>)
        BY <1>1, <2>2, <2>3, CacheHasRoom DEF LoopInv
      <3>2. seen' = [seen EXCEPT ![n] = Append(seen[n], <<m>>)]
        BY <2>1, <2>2, <3>1
      <3> QED
        BY <1>1, <2>2, <2>3, <2>7, <3>2, SeenStep DEF LoopInv
    <2>9. HandledInv'
      <3>1. \A k \in Nodes, x \in Msgs : Handled(k, x)' => pub'[x].state # "new"
        BY <1>3, <2>2, <2>7 DEF LoopInv, HandledInv
      <3>2. DeliveredOnce'
        BY <1>3, <2>4, <2>5, <2>6 DEF LoopInv, HandledInv, DeliveredOnce
      <3> QED
        BY <3>1, <3>2 DEF HandledInv
    <2>10. /\ pump'[l] = [state |-> "forward", env |-> e, next |-> 1]
           /\ \A k \in Links : k # l => pump'[k] = pump[k]
      BY <2>1, <2>4
    <2>11. FrameInv'
      <3>1. \A k \in Links : pump'[k].state = "forward" => pump'[k].env \in LiveFrames
        BY <2>2, <2>10 DEF LoopInv, FrameInv
      <3> QED
        BY <1>4, <1>5, <3>1 DEF FrameInv, BadFrame
    <2>12. \A k \in Links : k # l /\ k[1] = n /\ pump[k].state = "forward" =>
               pump[k].env.msg # m
      BY <2>4, <2>5 DEF LoopInv, ForwardInv
    <2>13. ForwardInv'
      <3>1. ASSUME NEW k \in Links, pump'[k].state = "forward"
            PROVE  delivered'[k[1]][pump'[k].env.msg] > 0
        <4>1. CASE k = l
          BY <1>1, <2>2, <2>4, <2>5, <2>6, <2>10, <4>1 DEF n, m
        <4>2. CASE k # l
          <5>1. pump[k].state = "forward" /\ pump'[k] = pump[k]
            BY <2>10, <3>1, <4>2
          <5>2. k[1] \in Nodes /\ pump[k].env.msg \in Msgs
            BY <2>4, <5>1, PumpRecords, LinkPair DEF Envelopes
          <5>3. delivered[k[1]][pump[k].env.msg] > 0
            BY <5>1 DEF LoopInv, ForwardInv
          <5> QED
            BY <2>4, <2>6, <5>1, <5>2, <5>3
        <4> QED
          BY <4>1, <4>2
      <3>2. ASSUME NEW j \in Links, NEW k \in Links, j[1] = k[1],
                   pump'[j].state = "forward", pump'[k].state = "forward",
                   pump'[j].env.msg = pump'[k].env.msg
            PROVE  j = k
        <4>1. CASE j # l /\ k # l
          BY <2>10, <3>2, <4>1 DEF LoopInv, ForwardInv
        <4>2. CASE j = l /\ k # l
          BY <2>10, <2>12, <3>2, <4>2 DEF n, m
        <4>3. CASE j # l /\ k = l
          BY <2>10, <2>12, <3>2, <4>3 DEF n, m
        <4> QED
          BY <4>1, <4>2, <4>3
      <3> QED
        BY <3>1, <3>2 DEF ForwardInv
    <2>14. SentInv'
      <3>1. \A k \in Links : k[1] \in Nodes
        BY LinkPair
      <3>2. \A k \in Links, x \in Msgs : ~Handled(k[1], x)' => sent'[k][x] = 0
        BY <1>3, <2>7, <3>1 DEF LoopInv, SentInv
      <3>3. \A j \in 1..Len(Transports[n]) : sent[<<n, Transports[n][j]>>][m] = 0
        <4> TAKE j \in 1..Len(Transports[n])
        <4> DEFINE k == <<n, Transports[n][j]>>
        <4>1. k \in Links /\ k[1] = n
          BY <1>1, LinkOf
        <4> HIDE DEF k
        <4>2. sent[k][m] = 0
          BY <2>2, <2>3, <4>1 DEF LoopInv, SentInv
        <4> QED
          BY <4>2 DEF k
      <3>4. ASSUME NEW k \in Links, pump'[k].state = "forward",
                   NEW j \in pump'[k].next .. Len(Transports[k[1]])
            PROVE  sent[<<k[1], Transports[k[1]][j]>>][pump'[k].env.msg] = 0
        <4>1. CASE k = l
          BY <2>10, <3>3, <4>1 DEF n, m
        <4>2. CASE k # l
          BY <2>10, <3>4, <4>2 DEF LoopInv, SentInv
        <4> QED
          BY <4>1, <4>2
      <3> QED
        BY <1>3, <3>2, <3>4 DEF LoopInv, SentInv, SentOnce
    <2> QED
      BY <2>8, <2>9, <2>11, <2>13, <2>14 DEF LoopInv
  <1> QED
    BY <1>6, <1>7

\* The transports of a node are distinct links.
LEMMA DistinctLinks ==
    ASSUME NEW n \in Nodes, NEW i \in 1..Len(Transports[n]), NEW j \in 1..Len(Transports[n]),
           <<n, Transports[n][i]>> = <<n, Transports[n][j]>>
    PROVE  i = j
  <1>1. Transports[n] \in Seq(Buses)
    BY RouterAssumption
  <1>2. i \in DOMAIN Transports[n] /\ j \in DOMAIN Transports[n]
    BY <1>1
  <1> QED
    BY <1>2, RouterAssumption

\* The one task that sends message m at node n sends it on its i-th transport, where it
\* has not been sent yet.
LEMMA OneMoreSent ==
    ASSUME LoopInv, NEW n \in Nodes, NEW i \in 1..Len(Transports[n]), NEW m \in Msgs,
           Handled(n, m), sent[<<n, Transports[n][i]>>][m] = 0,
           \/ sent' = sent
           \/ \A l \in Links, x \in Msgs :
                  sent'[l][x] = IF l = <<n, Transports[n][i]>> /\ x = m
                                THEN sent[l][x] + 1 ELSE sent[l][x]
    PROVE  /\ SentOnce'
           /\ \A l \in Links, x \in Msgs : ~Handled(l[1], x) => sent'[l][x] = 0
           /\ \A l \in Links, x \in Msgs : l[1] # n \/ x # m => sent'[l][x] = sent[l][x]
           /\ \A j \in 1..Len(Transports[n]) : j # i =>
                  sent'[<<n, Transports[n][j]>>][m] = sent[<<n, Transports[n][j]>>][m]
  <1> DEFINE k == <<n, Transports[n][i]>>
  <1>1. k \in Links /\ k[1] = n /\ sent[k][m] = 0
    BY LinkOf
  <1>2. \A j \in 1..Len(Transports[n]) : j # i =>
            <<n, Transports[n][j]>> \in Links /\ <<n, Transports[n][j]>> # k
    BY LinkOf, DistinctLinks
  <1>3. \/ sent' = sent
        \/ \A l \in Links, x \in Msgs :
               sent'[l][x] = IF l = k /\ x = m THEN sent[l][x] + 1 ELSE sent[l][x]
    OBVIOUS
  <1> HIDE DEF k
  <1>4. SentOnce'
    BY <1>1, <1>3 DEF LoopInv, SentInv, SentOnce
  <1>5. \A l \in Links, x \in Msgs : ~Handled(l[1], x) => sent'[l][x] = 0
    BY <1>1, <1>3 DEF LoopInv, SentInv
  <1>6. \A l \in Links, x \in Msgs : l[1] # n \/ x # m => sent'[l][x] = sent[l][x]
    BY <1>1, <1>3
  <1>7. \A j \in 1..Len(Transports[n]) : j # i =>
            sent'[<<n, Transports[n][j]>>][m] = sent[<<n, Transports[n][j]>>][m]
    BY <1>2, <1>3
  <1> QED
    BY <1>4, <1>5, <1>6, <1>7

\* What every sending step keeps besides the history of sends.
LEMMA SenderFrame ==
    ASSUME LoopInv, TypeOK', UNCHANGED <<seen, delivered>>,
           \A m \in Msgs : pub'[m].state = "new" <=> pub[m].state = "new",
           \A l \in Links : inbox'[l] \in Seq(LiveFrames \cup {BadFrame}),
           \A l \in Links : pump'[l].state = "forward" =>
               pump[l].state = "forward" /\ pump'[l].env = pump[l].env,
           SentInv'
    PROVE  LoopInv'
  <1>1. LiveFrames' = LiveFrames /\ HandledInv' /\ SeenInv'
    BY SameHandled DEF LoopInv
  <1>2. FrameInv'
    <2>1. \A l \in Links : pump'[l].state = "forward" => pump'[l].env \in LiveFrames
      BY DEF LoopInv, FrameInv
    <2> QED
      BY <1>1, <2>1 DEF FrameInv, BadFrame
  <1>3. ForwardInv'
    BY DEF LoopInv, ForwardInv
  <1> QED
    BY <1>1, <1>2, <1>3 DEF LoopInv

\* A step of publish(): the origin's pumps do not touch the message.
LEMMA PublishStepPreserves ==
    ASSUME IdPreserving, LoopInv, TypeOK', NEW m \in Msgs, PublishStep(m)
    PROVE  LoopInv'
  <1> DEFINE n == Origin[m]
             i == pub[m].next
             T == Len(Transports[Origin[m]])
  <1>1. /\ n \in Nodes /\ T \in Nat /\ pub \in [Msgs -> PubStates]
        /\ delivered \in [Nodes -> [Msgs -> Nat]] /\ pump \in [Links -> PumpStates]
    BY RouterAssumption DEF LoopInv, TypeOK
  <1>2. pub[m].state = "sending" /\ i \in Nat \ {0} /\ UNCHANGED <<seen, pump, delivered>>
    BY <1>1, PubRecords DEF PublishStep
  <1>3. PICK p \in {[state |-> "done"], [state |-> "failed"],
                    [state |-> "sending", next |-> i + 1]} : pub' = [pub EXCEPT ![m] = p]
    BY PublishStepMove DEF LoopInv
  <1>4. /\ pub'[m].state # "new"
        /\ pub'[m].state = "sending" => pub'[m].next = i + 1
        /\ \A x \in Msgs : x # m => pub'[x] = pub[x]
    BY <1>1, <1>3
  <1>5. \A x \in Msgs : pub'[x].state = "new" <=> pub[x].state = "new"
    BY <1>2, <1>4
  <1>6. \A k \in Nodes, x \in Msgs : Handled(k, x)' <=> Handled(k, x)
    BY <1>2, <1>5, SameHandled
  <1>7. /\ \A k \in Links : k[1] = n /\ pump[k].state = "forward" => pump[k].env.msg # m
        /\ Handled(n, m)
    BY <1>1, <1>2 DEF LoopInv, ForwardInv, HandledInv, DeliveredOnce, Handled
  <1>8. \A k \in Links : k[1] \in Nodes
    BY LinkPair
  <1>9. \A k \in Links : pump[k].state = "forward" =>
            /\ pump[k].next \in Nat \ {0} /\ pump[k].env.msg \in Msgs
            /\ \A j \in pump[k].next .. Len(Transports[k[1]]) :
                   <<k[1], Transports[k[1]][j]>> \in Links
    <2> TAKE k \in Links
    <2> HAVE pump[k].state = "forward"
    <2>1. pump[k].next \in Nat \ {0} /\ pump[k].env.msg \in Msgs
      BY <1>1, PumpRecords DEF Envelopes
    <2>2. Len(Transports[k[1]]) \in Nat
      BY LinkPair
    <2> QED
      BY <1>8, <2>1, <2>2, LinkOf
  <1>10. CASE i > T
    <2>1. UNCHANGED <<inbox, sent>>
      BY <1>1, <1>2, <1>10 DEF PublishStep
    <2>2. \A l \in Links : inbox'[l] \in Seq(LiveFrames \cup {BadFrame})
      BY <2>1 DEF LoopInv, FrameInv
    <2>3. SentInv'
      <3>1. \A x \in Msgs : pub'[x].state = "sending" =>
                \A j \in pub'[x].next .. Len(Transports[Origin[x]]) :
                    sent[<<Origin[x], Transports[Origin[x]][j]>>][x] = 0
        <4> SUFFICES ASSUME NEW x \in Msgs, pub'[x].state = "sending",
                            NEW j \in pub'[x].next .. Len(Transports[Origin[x]])
                     PROVE  sent[<<Origin[x], Transports[Origin[x]][j]>>][x] = 0
          OBVIOUS
        <4>1. CASE x = m
          <5>1. pub'[m].next = i + 1 /\ j \in (i + 1)..T
            BY <1>4, <4>1
          <5> QED
            BY <1>1, <1>2, <1>10, <5>1
        <4>2. CASE x # m
          BY <1>4, <4>2 DEF LoopInv, SentInv
        <4> QED
          BY <4>1, <4>2
      <3> QED
        BY <1>2, <1>6, <1>8, <2>1, <3>1 DEF LoopInv, SentInv, SentOnce
    <2> QED
      BY <1>2, <1>5, <2>2, <2>3, SenderFrame
  <1>11. CASE i <= T
    <2>1. i \in 1..T /\ (SendOk(n, i, Fresh(m)) \/ SendRaises(n, i, Fresh(m)))
      BY <1>1, <1>2, <1>11 DEF PublishStep
    <2>2. Fresh(m) \in LiveFrames /\ Fresh(m).msg = m
      <3>1. Fresh(m).msg = m /\ Fresh(m).id = <<m>>
        BY DEF Fresh
      <3> QED
        BY <1>2, <3>1, FreshType DEF LiveFrames
    <2>3. /\ \A l \in Links : inbox'[l] \in Seq(LiveFrames \cup {BadFrame})
          /\ \/ sent' = sent
             \/ \A l \in Links, x \in Msgs :
                    sent'[l][x] = IF l = <<n, Transports[n][i]>> /\ x = m
                                  THEN sent[l][x] + 1 ELSE sent[l][x]
      BY <1>1, <2>1, <2>2, SendEffect DEF LoopInv
    <2>4. sent[<<n, Transports[n][i]>>][m] = 0
      BY <1>1, <1>2, <2>1 DEF LoopInv, SentInv
    <2>5. /\ SentOnce'
          /\ \A l \in Links, x \in Msgs : ~Handled(l[1], x) => sent'[l][x] = 0
          /\ \A l \in Links, x \in Msgs : l[1] # n \/ x # m => sent'[l][x] = sent[l][x]
          /\ \A j \in 1..T : j # i =>
                 sent'[<<n, Transports[n][j]>>][m] = sent[<<n, Transports[n][j]>>][m]
      <3>1. /\ n \in Nodes /\ T = Len(Transports[n]) /\ i \in 1..Len(Transports[n]) /\ m \in Msgs
            /\ Handled(n, m)
        BY <1>1, <1>7, <2>1
      <3>2. \/ sent' = sent
            \/ \A l \in Links, x \in Msgs :
                   sent'[l][x] = IF l = <<n, Transports[n][i]>> /\ x = m
                                 THEN sent[l][x] + 1 ELSE sent[l][x]
        BY <2>3
      <3> HIDE DEF n, i, T
      <3>3. /\ SentOnce'
            /\ \A l \in Links, x \in Msgs : ~Handled(l[1], x) => sent'[l][x] = 0
            /\ \A l \in Links, x \in Msgs : l[1] # n \/ x # m => sent'[l][x] = sent[l][x]
            /\ \A j \in 1..Len(Transports[n]) : j # i =>
                   sent'[<<n, Transports[n][j]>>][m] = sent[<<n, Transports[n][j]>>][m]
        BY <2>4, <3>1, <3>2, OneMoreSent
      <3> QED
        BY <3>1, <3>3
    <2>6. ASSUME NEW k \in Links, pump[k].state = "forward",
                 NEW j \in pump[k].next .. Len(Transports[k[1]])
          PROVE  sent'[<<k[1], Transports[k[1]][j]>>][pump[k].env.msg] = 0
      <3> DEFINE q == <<k[1], Transports[k[1]][j]>>
      <3>1. q \in Links /\ q[1] = k[1] /\ pump[k].env.msg \in Msgs
        BY <1>9, <2>6
      <3>2. sent[q][pump[k].env.msg] = 0
        BY <2>6 DEF LoopInv, SentInv
      <3> HIDE DEF q
      <3>3. sent'[q][pump[k].env.msg] = 0
        BY <1>7, <2>5, <2>6, <3>1, <3>2
      <3> QED
        BY <3>3 DEF q
    <2>7. ASSUME NEW x \in Msgs, pub'[x].state = "sending",
                 NEW j \in pub'[x].next .. Len(Transports[Origin[x]])
          PROVE  sent'[<<Origin[x], Transports[Origin[x]][j]>>][x] = 0
      <3>1. CASE x = m
        <4>1. j \in 1..T /\ j # i /\ j \in i..T
          BY <1>1, <1>2, <1>4, <2>7, <3>1
        <4> QED
          BY <1>2, <2>5, <3>1, <4>1 DEF LoopInv, SentInv
      <3>2. CASE x # m
        <4> DEFINE q == <<Origin[x], Transports[Origin[x]][j]>>
        <4>1. pub[x].state = "sending" /\ pub'[x] = pub[x]
          BY <1>4, <2>7, <3>2
        <4>2. Origin[x] \in Nodes /\ pub[x].next \in Nat \ {0} /\ Len(Transports[Origin[x]]) \in Nat
          BY <1>1, <4>1, PubRecords, RouterAssumption
        <4>3. q \in Links
          BY <2>7, <4>1, <4>2, LinkOf
        <4>4. sent[q][x] = 0
          BY <2>7, <4>1 DEF LoopInv, SentInv
        <4> HIDE DEF q
        <4>5. sent'[q][x] = 0
          BY <2>5, <3>2, <4>3, <4>4
        <4> QED
          BY <4>5 DEF q
      <3> QED
        BY <3>1, <3>2
    <2>8. SentInv'
      BY <1>2, <1>6, <1>8, <2>5, <2>6, <2>7 DEF SentInv
    <2> QED
      BY <1>2, <1>5, <2>3, <2>8, SenderFrame
  <1> QED
    BY <1>1, <1>2, <1>10, <1>11

\* A step of the bridging loop: no other task of the node is sending the message.
LEMMA PumpForwardPreserves ==
    ASSUME IdPreserving, LoopInv, TypeOK', NEW l \in Links, PumpForward(l)
    PROVE  LoopInv'
  <1> DEFINE n == l[1]
             e == pump[l].env
             m == pump[l].env.msg
             i == pump[l].next
             T == Len(Transports[l[1]])
  <1>1. /\ n \in Nodes /\ T \in Nat /\ pub \in [Msgs -> PubStates]
        /\ delivered \in [Nodes -> [Msgs -> Nat]] /\ pump \in [Links -> PumpStates]
    BY LinkPair DEF LoopInv, TypeOK
  <1>2. /\ pump[l].state = "forward" /\ i \in Nat \ {0} /\ e \in Envelopes /\ m \in Msgs
        /\ UNCHANGED <<seen, pub, delivered>>
    BY <1>1, PumpRecords DEF PumpForward, Envelopes
  <1>3. PICK p \in {[state |-> "wait"], [state |-> "dead"],
                    [state |-> "forward", env |-> e, next |-> i + 1]} :
            pump' = [pump EXCEPT ![l] = p]
    BY PumpForwardMove DEF LoopInv
  <1>4. /\ pump'[l].state = "forward" => pump'[l].env = e /\ pump'[l].next = i + 1
        /\ \A k \in Links : k # l => pump'[k] = pump[k]
    BY <1>1, <1>3
  <1>5. /\ \A x \in Msgs : pub'[x].state = "new" <=> pub[x].state = "new"
        /\ \A k \in Links : pump'[k].state = "forward" =>
               pump[k].state = "forward" /\ pump'[k].env = pump[k].env
    BY <1>2, <1>4
  <1>6. \A k \in Nodes, x \in Msgs : Handled(k, x)' <=> Handled(k, x)
    BY <1>2, <1>5, SameHandled
  <1>7. /\ Handled(n, m) /\ Origin[m] # n
        /\ \A k \in Links : k # l /\ k[1] = n /\ pump[k].state = "forward" =>
               pump[k].env.msg # m
    <2>1. delivered[n][m] > 0
      BY <1>2 DEF LoopInv, ForwardInv
    <2>2. Handled(n, m) /\ pub[m].state # "new"
      BY <1>1, <1>2, <2>1 DEF LoopInv, HandledInv, Handled
    <2>3. Origin[m] # n
      BY <1>1, <1>2, <2>1, <2>2 DEF LoopInv, HandledInv, DeliveredOnce
    <2> QED
      BY <1>2, <2>2, <2>3 DEF LoopInv, ForwardInv
  <1>8. \A k \in Links : k[1] \in Nodes
    BY LinkPair
  <1>9. \A k \in Links : pump[k].state = "forward" =>
            /\ pump[k].next \in Nat \ {0} /\ pump[k].env.msg \in Msgs
            /\ \A j \in pump[k].next .. Len(Transports[k[1]]) :
                   <<k[1], Transports[k[1]][j]>> \in Links
    <2> TAKE k \in Links
    <2> HAVE pump[k].state = "forward"
    <2>1. pump[k].next \in Nat \ {0} /\ pump[k].env.msg \in Msgs
      BY <1>1, PumpRecords DEF Envelopes
    <2>2. Len(Transports[k[1]]) \in Nat
      BY LinkPair
    <2> QED
      BY <1>8, <2>1, <2>2, LinkOf
  <1>10. CASE UNCHANGED <<inbox, sent>>
    <2>1. \A k \in Links : inbox'[k] \in Seq(LiveFrames \cup {BadFrame})
      BY <1>10 DEF LoopInv, FrameInv
    <2>2. SentInv'
      <3>1. ASSUME NEW k \in Links, pump'[k].state = "forward",
                   NEW j \in pump'[k].next .. Len(Transports[k[1]])
            PROVE  sent[<<k[1], Transports[k[1]][j]>>][pump'[k].env.msg] = 0
        <4>1. CASE k = l
          <5>1. j \in i..T /\ pump'[k].env.msg = m
            BY <1>1, <1>2, <1>4, <3>1, <4>1
          <5> QED
            BY <1>2, <4>1, <5>1 DEF LoopInv, SentInv
        <4>2. CASE k # l
          BY <1>4, <3>1, <4>2 DEF LoopInv, SentInv
        <4> QED
          BY <4>1, <4>2
      <3> QED
        BY <1>2, <1>6, <1>8, <1>10, <3>1 DEF LoopInv, SentInv, SentOnce
    <2> QED
      BY <1>2, <1>5, <2>1, <2>2, SenderFrame
  <1>11. CASE i \in 1..T /\ (SendOk(n, i, e) \/ SendRaises(n, i, e))
    <2>1. e \in LiveFrames
      BY <1>2 DEF LoopInv, FrameInv
    <2>2. /\ \A k \in Links : inbox'[k] \in Seq(LiveFrames \cup {BadFrame})
          /\ \/ sent' = sent
             \/ \A k \in Links, x \in Msgs :
                    sent'[k][x] = IF k = <<n, Transports[n][i]>> /\ x = m
                                  THEN sent[k][x] + 1 ELSE sent[k][x]
      BY <1>1, <1>11, <2>1, SendEffect DEF LoopInv
    <2>3. sent[<<n, Transports[n][i]>>][m] = 0
      BY <1>1, <1>2, <1>11 DEF LoopInv, SentInv
    <2>4. /\ SentOnce'
          /\ \A k \in Links, x \in Msgs : ~Handled(k[1], x) => sent'[k][x] = 0
          /\ \A k \in Links, x \in Msgs : k[1] # n \/ x # m => sent'[k][x] = sent[k][x]
          /\ \A j \in 1..T : j # i =>
                 sent'[<<n, Transports[n][j]>>][m] = sent[<<n, Transports[n][j]>>][m]
      <3>1. /\ n \in Nodes /\ T = Len(Transports[n]) /\ i \in 1..Len(Transports[n]) /\ m \in Msgs
            /\ Handled(n, m)
        BY <1>1, <1>2, <1>7, <1>11
      <3>2. \/ sent' = sent
            \/ \A k \in Links, x \in Msgs :
                   sent'[k][x] = IF k = <<n, Transports[n][i]>> /\ x = m
                                 THEN sent[k][x] + 1 ELSE sent[k][x]
        BY <2>2
      <3> HIDE DEF n, e, m, i, T
      <3>3. /\ SentOnce'
            /\ \A k \in Links, x \in Msgs : ~Handled(k[1], x) => sent'[k][x] = 0
            /\ \A k \in Links, x \in Msgs : k[1] # n \/ x # m => sent'[k][x] = sent[k][x]
            /\ \A j \in 1..Len(Transports[n]) : j # i =>
                   sent'[<<n, Transports[n][j]>>][m] = sent[<<n, Transports[n][j]>>][m]
        BY <2>3, <3>1, <3>2, OneMoreSent
      <3> QED
        BY <3>1, <3>3
    <2>5. ASSUME NEW k \in Links, pump'[k].state = "forward",
                 NEW j \in pump'[k].next .. Len(Transports[k[1]])
          PROVE  sent'[<<k[1], Transports[k[1]][j]>>][pump'[k].env.msg] = 0
      <3>1. CASE k = l
        <4>1. j \in i..T /\ j \in 1..T /\ j # i /\ pump'[k].env.msg = m
          BY <1>1, <1>2, <1>4, <2>5, <3>1
        <4>2. sent[<<n, Transports[n][j]>>][m] = 0
          BY <1>2, <4>1 DEF LoopInv, SentInv
        <4> QED
          BY <2>4, <3>1, <4>1, <4>2
      <3>2. CASE k # l
        <4> DEFINE q == <<k[1], Transports[k[1]][j]>>
        <4>1. pump[k].state = "forward" /\ pump'[k] = pump[k]
          BY <1>4, <2>5, <3>2
        <4>2. q \in Links /\ q[1] = k[1] /\ pump[k].env.msg \in Msgs
          BY <1>9, <2>5, <4>1
        <4>3. sent[q][pump[k].env.msg] = 0
          BY <2>5, <4>1 DEF LoopInv, SentInv
        <4> HIDE DEF q
        <4>4. sent'[q][pump[k].env.msg] = 0
          BY <1>7, <2>4, <3>2, <4>1, <4>2, <4>3
        <4> QED
          BY <4>1, <4>4 DEF q
      <3> QED
        BY <3>1, <3>2
    <2>6. ASSUME NEW x \in Msgs, pub[x].state = "sending",
                 NEW j \in pub[x].next .. Len(Transports[Origin[x]])
          PROVE  sent'[<<Origin[x], Transports[Origin[x]][j]>>][x] = 0
      <3> DEFINE q == <<Origin[x], Transports[Origin[x]][j]>>
      <3>1. Origin[x] \in Nodes /\ pub[x].next \in Nat \ {0} /\ Len(Transports[Origin[x]]) \in Nat
        BY <1>1, <2>6, PubRecords, RouterAssumption
      <3>2. q \in Links /\ q[1] = Origin[x]
        BY <2>6, <3>1, LinkOf
      <3>3. sent[q][x] = 0
        BY <2>6 DEF LoopInv, SentInv
      <3> HIDE DEF q
      <3>4. sent'[q][x] = 0
        BY <1>7, <2>4, <3>2, <3>3
      <3> QED
        BY <3>4 DEF q
    <2>7. SentInv'
      BY <1>2, <1>6, <1>8, <2>4, <2>5, <2>6 DEF SentInv
    <2> QED
      BY <1>2, <1>5, <2>2, <2>7, SenderFrame
  <1>12. \/ UNCHANGED <<inbox, sent>>
         \/ i \in 1..T /\ (SendOk(n, i, e) \/ SendRaises(n, i, e))
    BY <1>1, <1>2 DEF PumpForward
  <1> QED
    BY <1>10, <1>11, <1>12

-----------------------------------------------------------------------------
(* Loop prevention *)

\* The invariant holds whatever the topology, the interleaving, the failures and losses.
LEMMA LoopInvariant == ASSUME IdPreserving PROVE Spec => []LoopInv
  <1>1. Init => LoopInv
    <2> SUFFICES ASSUME Init PROVE LoopInv
      OBVIOUS
    <2>1. TypeOK
      BY TypeInit
    <2>2. /\ \A l \in Links : pump[l].state = "none" /\ inbox[l] = <<>>
          /\ \A m \in Msgs : pub[m].state = "new"
          /\ \A n \in Nodes : seen[n] = <<>> /\ \A m \in Msgs : delivered[n][m] = 0
          /\ \A l \in Links, m \in Msgs : sent[l][m] = 0
      BY DEF Init
    <2>3. FrameInv
      <3>1. <<>> \in Seq(LiveFrames \cup {BadFrame})
        OBVIOUS
      <3>2. \A l \in Links : inbox[l] \in Seq(LiveFrames \cup {BadFrame})
        BY <2>2, <3>1
      <3>3. \A l \in Links : pump[l].state # "forward"
        BY <2>2
      <3> QED
        BY <3>2, <3>3 DEF FrameInv
    <2>4. \A n \in Nodes, m \in Msgs : ~Handled(n, m)
      BY <2>2 DEF Handled
    <2>5. SeenInv
      BY <2>2, <2>4 DEF SeenInv, Range
    <2>6. HandledInv
      BY <2>2, <2>4 DEF HandledInv, DeliveredOnce
    <2>7. ForwardInv /\ SentInv
      <3>1. \A m \in Msgs : pub[m].state # "sending"
        BY <2>2
      <3>2. \A l \in Links : pump[l].state # "forward"
        BY <2>2
      <3>3. SentOnce
        BY <2>2 DEF SentOnce
      <3> QED
        BY <2>2, <3>1, <3>2, <3>3 DEF ForwardInv, SentInv
    <2> QED
      BY <2>1, <2>3, <2>5, <2>6, <2>7 DEF LoopInv
  <1>2. LoopInv /\ [Next]_vars => LoopInv'
    <2> SUFFICES ASSUME LoopInv, [Next]_vars PROVE LoopInv'
      OBVIOUS
    <2>1. TypeOK'
      BY TypeStep DEF LoopInv
    <2>2. CASE UNCHANGED vars
      <3>1. LiveFrames' = LiveFrames /\ SeenInv' /\ HandledInv'
        BY <2>2, SameHandled DEF vars, LoopInv
      <3>2. \A n \in Nodes, m \in Msgs : Handled(n, m)' <=> Handled(n, m)
        BY <2>2, SameHandled DEF vars
      <3>3. FrameInv' /\ ForwardInv'
        BY <2>2, <3>1 DEF vars, LoopInv, FrameInv, ForwardInv, BadFrame
      <3>4. SentInv'
        BY <2>2, <3>2, LinkPair DEF vars, LoopInv, SentInv, SentOnce
      <3> QED
        BY <2>1, <3>1, <3>3, <3>4 DEF LoopInv
    <2> QED
      BY <2>1, <2>2, LifecyclePreserves, NoisePreserves, PublishPreserves,
         PublishStepPreserves, PumpTakePreserves, PumpForwardPreserves DEF Next
  <1> QED
    BY <1>1, <1>2, PTL DEF Spec

\* Router's dedupe: with codecs that keep msg_id and a cache with room for every message,
\* no node delivers a message twice or its own message, in any topology.
THEOREM DeliveredOnceTheorem == ASSUME IdPreserving PROVE Spec => []DeliveredOnce
  <1>1. LoopInv => DeliveredOnce
    BY DEF LoopInv, HandledInv
  <1> QED
    BY <1>1, LoopInvariant, PTL

\* Nor does any transport send a message twice, whichever tasks of its node handle it.
THEOREM SentOnceTheorem == ASSUME IdPreserving PROVE Spec => []SentOnce
  <1>1. LoopInv => SentOnce
    BY DEF LoopInv, SentInv
  <1> QED
    BY <1>1, LoopInvariant, PTL

-----------------------------------------------------------------------------
(* Flooding *)

\* What a transport may have got from the bus: frames of messages that another node on it
\* has handled.
FromNeighbour(l) ==
    {e \in LiveFrames : \E k \in Nodes : /\ k # l[1] /\ l[2] \in Range(Transports[k])
                                         /\ Handled(k, e.msg)}

\* What waits in an inbox came from a neighbour that has handled it.
SourceInv == \A l \in Links : inbox[l] \in Seq(FromNeighbour(l) \cup {BadFrame})

FloodInv == LoopInv /\ SourceInv

\* What a pump takes and can decode is a live frame.
LEMMA HeadLive ==
    ASSUME LoopInv, NEW l \in Links, inbox[l] # <<>>, Head(inbox[l]) # BadFrame
    PROVE  /\ Head(inbox[l]) \in LiveFrames
           /\ Head(inbox[l]).id = <<Head(inbox[l]).msg>>
           /\ Head(inbox[l]).msg \in Msgs
  <1>1. inbox[l] \in Seq(LiveFrames \cup {BadFrame})
    BY DEF LoopInv, FrameInv
  <1>2. Head(inbox[l]) \in LiveFrames
    BY <1>1
  <1> QED
    BY <1>2 DEF LiveFrames, Envelopes

\* A codec that keeps msg_id keeps the message.
LEMMA TranscodeMsg ==
    ASSUME IdPreserving, NEW b \in Buses, NEW e \in Envelopes
    PROVE  Transcode(b, e).msg = e.msg
  <1>1. Codec[b] = "json" \/ Codec[b] = "compact"
    BY RouterAssumption DEF IdPreserving
  <1> QED
    BY <1>1 DEF Transcode, Envelopes

\* A node that sends on a bus a message it has handled is a neighbour to the others on it.
LEMMA SendReaches ==
    ASSUME IdPreserving, TypeOK, NEW n \in Nodes, NEW i \in 1..Len(Transports[n]),
           NEW e \in LiveFrames, Handled(n, e.msg), SendOk(n, i, e) \/ SendRaises(n, i, e),
           NEW l \in Links
    PROVE  \/ inbox'[l] = inbox[l]
           \/ \E f \in FromNeighbour(l) : inbox'[l] = Ingest(inbox[l], f)
  <1> DEFINE b == Transports[n][i]
             f == Transcode(b, e)
  <1>1. b \in Buses /\ b \in Range(Transports[n])
    BY LinkOf DEF Links
  <1>2. f \in LiveFrames /\ f.msg = e.msg
    BY <1>1, TranscodeLive, TranscodeMsg DEF LiveFrames
  <1>3. CASE inbox' = inbox
    BY <1>3
  <1>4. CASE Broadcast(n, b, e)
    <2>1. \/ inbox'[l] = inbox[l]
          \/ l[2] = b /\ l[1] # n /\ inbox'[l] = Ingest(inbox[l], f)
      BY <1>4 DEF Broadcast
    <2> HIDE DEF f, b
    <2>2. l[2] = b /\ l[1] # n => f \in FromNeighbour(l)
      BY <1>1, <1>2 DEF FromNeighbour
    <2> QED
      BY <2>1, <2>2
  <1> QED
    BY <1>3, <1>4 DEF SendOk, SendRaises

\* An inbox changes by a frame taken from its front or one put at its end.
LEMMA InboxStep ==
    ASSUME IdPreserving, LoopInv, Next, NEW l \in Links
    PROVE  \/ inbox'[l] = inbox[l]
           \/ inbox[l] # <<>> /\ inbox'[l] = Tail(inbox[l])
           \/ \E f \in FromNeighbour(l) \cup {BadFrame} : inbox'[l] = Ingest(inbox[l], f)
  <1>1. ASSUME NEW n \in Nodes, Start(n) \/ StartRaises(n) \/ Stop(n)
        PROVE  inbox' = inbox
    BY <1>1 DEF Start, StartRaises, Stop
  <1>2. ASSUME NEW m \in Msgs, Publish(m)
        PROVE  inbox' = inbox
    BY <1>2 DEF Publish
  <1>3. ASSUME NEW m \in Msgs, PublishStep(m)
        PROVE  \/ inbox'[l] = inbox[l]
               \/ \E f \in FromNeighbour(l) : inbox'[l] = Ingest(inbox[l], f)
    <2> DEFINE n == Origin[m]
               i == pub[m].next
    <2>1. n \in Nodes /\ i \in Nat \ {0} /\ pub[m].state = "sending"
      BY <1>3, PubRecords, RouterAssumption DEF PublishStep, LoopInv, TypeOK
    <2>2. Fresh(m) \in LiveFrames /\ Fresh(m).msg = m /\ Handled(n, m)
      BY <2>1, FreshType DEF Fresh, LiveFrames, Handled
    <2>3. \/ inbox' = inbox
          \/ i <= Len(Transports[n]) /\ (SendOk(n, i, Fresh(m)) \/ SendRaises(n, i, Fresh(m)))
      BY <1>3 DEF PublishStep
    <2>4. i <= Len(Transports[n]) => i \in 1..Len(Transports[n])
      <3>1. Transports[n] \in Seq(Buses)
        BY <2>1, RouterAssumption
      <3> QED
        BY <2>1, <3>1
    <2> HIDE DEF n, i
    <2> QED
      BY <2>1, <2>2, <2>3, <2>4, SendReaches DEF LoopInv
  <1>4. ASSUME NEW k \in Links, PumpTake(k)
        PROVE  inbox'[l] = inbox[l] \/ (inbox[l] # <<>> /\ inbox'[l] = Tail(inbox[l]))
    BY <1>4 DEF PumpTake, LoopInv, TypeOK
  <1>5. ASSUME NEW k \in Links, PumpForward(k)
        PROVE  \/ inbox'[l] = inbox[l]
               \/ \E f \in FromNeighbour(l) : inbox'[l] = Ingest(inbox[l], f)
    <2> DEFINE n == k[1]
               i == pump[k].next
               e == pump[k].env
    <2>1. /\ n \in Nodes /\ i \in Nat \ {0} /\ pump[k].state = "forward"
          /\ Transports[n] \in Seq(Buses)
      BY <1>5, PumpRecords, LinkPair DEF PumpForward, LoopInv, TypeOK
    <2>2. e \in LiveFrames /\ Handled(n, e.msg)
      BY <2>1 DEF LoopInv, FrameInv, ForwardInv, Handled
    <2>3. \/ inbox' = inbox
          \/ i <= Len(Transports[n]) /\ (SendOk(n, i, e) \/ SendRaises(n, i, e))
      BY <1>5 DEF PumpForward
    <2>4. i <= Len(Transports[n]) => i \in 1..Len(Transports[n])
      BY <2>1
    <2> HIDE DEF n, i, e
    <2> QED
      BY <2>1, <2>2, <2>3, <2>4, SendReaches DEF LoopInv
  <1>6. ASSUME NEW k \in Links, Noise(k)
        PROVE  inbox'[l] = inbox[l] \/ inbox'[l] = Ingest(inbox[l], BadFrame)
    BY <1>6 DEF Noise, LoopInv, TypeOK
  <1> QED
    BY <1>1, <1>2, <1>3, <1>4, <1>5, <1>6 DEF Next

\* Handling and publishing are irrevocable.
LEMMA HandledGrows ==
    ASSUME LoopInv, [Next]_vars
    PROVE  /\ \A n \in Nodes, m \in Msgs : Handled(n, m) => Handled(n, m)'
           /\ LiveFrames \subseteq LiveFrames'
  <1>1. \A m \in Msgs : pub[m].state # "new" => pub'[m].state # "new"
    <2>1. ASSUME NEW m \in Msgs, PublishStep(m)
          PROVE  \E s : /\ s # "new"
                       /\ \A x \in Msgs : pub'[x].state = IF x = m THEN s ELSE pub[x].state
      <3>1. PICK p \in {[state |-> "done"], [state |-> "failed"],
                        [state |-> "sending", next |-> pub[m].next + 1]} :
                pub' = [pub EXCEPT ![m] = p]
        BY <2>1, PublishStepMove DEF LoopInv
      <3>2. p.state # "new"
        OBVIOUS
      <3> QED
        BY <3>1, <3>2 DEF LoopInv, TypeOK
    <2>2. ASSUME NEW m \in Msgs, Publish(m)
          PROVE  \A x \in Msgs : pub[x].state # "new" => pub'[x].state # "new"
      BY <2>2 DEF Publish, LoopInv, TypeOK
    <2>3. CASE pub' = pub
      BY <2>3
    <2> QED
      BY <2>1, <2>2, <2>3 DEF Next, vars, Start, StartRaises, Stop, PumpTake, PumpForward, Noise
  <1>2. \A n \in Nodes, m \in Msgs : delivered'[n][m] >= delivered[n][m]
    <2>1. delivered \in [Nodes -> [Msgs -> Nat]]
      BY DEF LoopInv, TypeOK
    <2>2. CASE delivered' = delivered
      BY <2>1, <2>2
    <2>3. ASSUME NEW l \in Links, PumpTake(l), delivered' # delivered
          PROVE  \A n \in Nodes, m \in Msgs : delivered'[n][m] >= delivered[n][m]
      <3> DEFINE n == l[1]
                 m == Head(inbox[l]).msg
      <3>1. /\ Head(inbox[l]) # BadFrame /\ inbox[l] # <<>>
            /\ delivered' = [delivered EXCEPT ![n][m] = @ + 1]
        BY <2>3 DEF PumpTake
      <3>2. n \in Nodes /\ m \in Msgs
        BY <3>1, LinkPair, HeadLive
      <3> HIDE DEF n, m
      <3>3. \A k \in Nodes, x \in Msgs :
                delivered'[k][x] = IF k = n /\ x = m THEN delivered[k][x] + 1 ELSE delivered[k][x]
        BY <2>1, <3>1, <3>2, CountUp
      <3> QED
        BY <2>1, <3>3
    <2> QED
      BY <2>2, <2>3 DEF Next, vars, Start, StartRaises, Stop, Publish, PublishStep,
                        PumpForward, Noise
  <1>3. \A n \in Nodes, m \in Msgs : Handled(n, m) => Handled(n, m)'
    <2>1. delivered \in [Nodes -> [Msgs -> Nat]] /\ delivered' \in [Nodes -> [Msgs -> Nat]]
      BY TypeStep DEF LoopInv, TypeOK
    <2> QED
      BY <1>1, <1>2, <2>1 DEF Handled
  <1> QED
    BY <1>1, <1>3, LiveGrows

\* Where frames come from, whatever the topology and whatever is lost on the way.
LEMMA FloodInvariant == ASSUME IdPreserving PROVE Spec => []FloodInv
  <1>1. Init => SourceInv
    <2>1. \A l \in Links : <<>> \in Seq(FromNeighbour(l) \cup {BadFrame})
      OBVIOUS
    <2> QED
      BY <2>1 DEF Init, SourceInv
  <1>2. LoopInv /\ SourceInv /\ [Next]_vars => SourceInv'
    <2> SUFFICES ASSUME LoopInv, SourceInv, [Next]_vars, NEW l \in Links
                 PROVE  (inbox[l] \in Seq(FromNeighbour(l) \cup {BadFrame}))'
      BY DEF SourceInv
    <2> DEFINE S == FromNeighbour(l) \cup {BadFrame}
    <2>1. S \subseteq (FromNeighbour(l) \cup {BadFrame})'
      <3>1. \A e \in LiveFrames : e.msg \in Msgs
        BY DEF LiveFrames, Envelopes
      <3> QED
        BY <3>1, HandledGrows DEF FromNeighbour, BadFrame
    <2>2. inbox[l] \in Seq(S)
      BY DEF SourceInv
    <2>3. inbox'[l] \in Seq(S)
      <3>1. CASE Next
        <4>1. \/ inbox'[l] = inbox[l]
              \/ inbox[l] # <<>> /\ inbox'[l] = Tail(inbox[l])
              \/ \E f \in S : inbox'[l] = Ingest(inbox[l], f)
          BY <3>1, InboxStep
        <4> HIDE DEF S
        <4>2. inbox[l] # <<>> => Tail(inbox[l]) \in Seq(S)
          BY <2>2
        <4>3. \A f \in S : Ingest(inbox[l], f) \in Seq(S)
          BY <2>2, IngestType
        <4> QED
          BY <2>2, <4>1, <4>2, <4>3
      <3>2. CASE UNCHANGED vars
        BY <2>2, <3>2 DEF vars
      <3> QED
        BY <3>1, <3>2
    <2> HIDE DEF S
    <2>4. inbox'[l] \in Seq((FromNeighbour(l) \cup {BadFrame})')
      BY <2>1, <2>3, SeqMonotone
    <2> QED
      BY <2>4
  <1> QED
    BY <1>1, <1>2, LoopInvariant, PTL DEF Spec, FloodInv

\* _pump takes for a duplicate only what its node has handled, whatever the topology.
THEOREM DropTheorem == ASSUME IdPreserving PROVE Spec => DropIsDuplicate
  <1>1. LoopInv /\ [Next]_vars =>
            [\A l \in Links :
                (PumpTake(l) /\ Head(inbox[l]) # BadFrame /\ UNCHANGED delivered)
                    => Handled(l[1], Head(inbox[l]).msg)]_vars
    <2> SUFFICES ASSUME LoopInv, NEW l \in Links, PumpTake(l), Head(inbox[l]) # BadFrame,
                        UNCHANGED delivered
                 PROVE  Handled(l[1], Head(inbox[l]).msg)
      OBVIOUS
    <2> DEFINE n == l[1]
               e == Head(inbox[l])
               m == Head(inbox[l]).msg
    <2>1. e \in LiveFrames /\ e.id = <<m>> /\ m \in Msgs /\ n \in Nodes
      <3>1. inbox[l] # <<>>
        BY DEF PumpTake
      <3> QED
        BY <3>1, LinkPair, HeadLive
    <2>2. e.id \in Range(seen[n])
      <3> SUFFICES ASSUME e.id \notin Range(seen[n]) PROVE FALSE
        OBVIOUS
      <3>1. delivered' = [delivered EXCEPT ![n][m] = @ + 1]
        BY DEF PumpTake
      <3>2. delivered \in [Nodes -> [Msgs -> Nat]]
        BY DEF LoopInv, TypeOK
      <3> HIDE DEF n, m, e
      <3>3. delivered'[n][m] = delivered[n][m] + 1
        BY <2>1, <3>1, <3>2, CountUp
      <3> QED
        BY <2>1, <3>2, <3>3
    <2> QED
      BY <2>1, <2>2 DEF LoopInv, SeenInv
  <1> QED
    BY <1>1, LoopInvariant, PTL DEF Spec, DropIsDuplicate

\* Together the routers implement flooding: over any topology each node gets each message
\* from a neighbour that has it, and once.
THEOREM FloodingTheorem == ASSUME IdPreserving PROVE Spec => Flooding
  <1> DEFINE done == {p \in Nodes \X Msgs : Handled(p[1], p[2])}
  <1>1. Init => Bridge!Init
    BY DEF Init, Bridge!Init, Handled
  <1>2. FloodInv /\ [Next]_vars => [Bridge!Next]_<<done, delivered>>
    <2> SUFFICES ASSUME FloodInv, [Next]_vars
                 PROVE  Bridge!Next \/ (done' = done /\ delivered' = delivered)
      OBVIOUS
    <2>1. LoopInv /\ SourceInv
      BY DEF FloodInv
    <2>2. ASSUME NEW m \in Msgs, Publish(m)
          PROVE  Bridge!Publish(m)
      <3>1. pub[m].state = "new" /\ delivered' = delivered /\ Origin[m] \in Nodes
        BY <2>2, RouterAssumption DEF Publish
      <3>2. ~Handled(Origin[m], m)
        BY <2>1, <3>1 DEF LoopInv, HandledInv
      <3>3. pub'[m].state # "new" /\ \A x \in Msgs : x # m => pub'[x] = pub[x]
        BY <2>1, <2>2 DEF Publish, LoopInv, TypeOK
      <3>4. \A n \in Nodes, x \in Msgs :
                Handled(n, x)' <=> Handled(n, x) \/ (n = Origin[m] /\ x = m)
        BY <3>1, <3>3 DEF Handled
      <3>5. done' = done \cup {<<Origin[m], m>>}
        BY <3>1, <3>4
      <3> QED
        BY <3>1, <3>2, <3>5 DEF Bridge!Publish
    <2>3. ASSUME NEW l \in Links, PumpTake(l), delivered' # delivered
          PROVE  \E n \in Nodes, m \in Msgs : Bridge!Deliver(n, m)
      <3> DEFINE n == l[1]
                 e == Head(inbox[l])
                 m == Head(inbox[l]).msg
      <3>1. /\ e # BadFrame /\ e.id \notin Range(seen[n]) /\ inbox[l] # <<>>
            /\ delivered' = [delivered EXCEPT ![n][m] = @ + 1] /\ pub' = pub
        BY <2>3 DEF PumpTake
      <3>2. /\ e \in FromNeighbour(l) /\ e.id = <<m>> /\ m \in Msgs /\ n \in Nodes
            /\ l[2] \in Range(Transports[n])
        <4>1. inbox[l] \in Seq(FromNeighbour(l) \cup {BadFrame})
          BY <2>1 DEF SourceInv
        <4>2. e \in FromNeighbour(l)
          BY <3>1, <4>1
        <4>3. e.id = <<m>> /\ m \in Msgs
          BY <2>1, <3>1, HeadLive
        <4>4. n \in Nodes /\ l[2] \in Range(Transports[n])
          BY DEF Links
        <4> QED
          BY <4>2, <4>3, <4>4
      <3>3. PICK k \in Nodes : k # n /\ l[2] \in Range(Transports[k]) /\ Handled(k, m)
        BY <3>2 DEF FromNeighbour
      <3> HIDE DEF n, m, e
      <3>4. ~Handled(n, m)
        BY <2>1, <3>1, <3>2 DEF LoopInv, SeenInv
      <3>5. delivered \in [Nodes -> [Msgs -> Nat]]
        BY <2>1 DEF LoopInv, TypeOK
      <3>6. \A j \in Nodes, x \in Msgs :
                delivered'[j][x] = IF j = n /\ x = m THEN delivered[j][x] + 1 ELSE delivered[j][x]
        BY <3>1, <3>2, <3>5, CountUp
      <3>7. \A j \in Nodes, x \in Msgs : Handled(j, x)' <=> Handled(j, x) \/ (j = n /\ x = m)
        BY <3>1, <3>4, <3>5, <3>6 DEF Handled
      <3>8. done' = done \cup {<<n, m>>}
        BY <3>2, <3>7
      <3>9. <<n, m>> \notin done /\ <<k, m>> \in done
        BY <3>2, <3>3, <3>4
      <3> QED
        BY <3>1, <3>2, <3>3, <3>8, <3>9 DEF Bridge!Deliver
    <2>4. ASSUME delivered' = delivered,
                 \A m \in Msgs : pub'[m].state = "new" <=> pub[m].state = "new"
          PROVE  done' = done
      BY <2>4, SameHandled
    <2>5. ASSUME NEW m \in Msgs, PublishStep(m)
          PROVE  /\ delivered' = delivered
                 /\ \A x \in Msgs : pub'[x].state = "new" <=> pub[x].state = "new"
      <3>1. PICK p \in {[state |-> "done"], [state |-> "failed"],
                        [state |-> "sending", next |-> pub[m].next + 1]} :
                pub' = [pub EXCEPT ![m] = p]
        BY <2>1, <2>5, PublishStepMove DEF LoopInv
      <3>2. p.state # "new" /\ pub[m].state = "sending" /\ delivered' = delivered
        BY <2>5 DEF PublishStep
      <3> QED
        BY <2>1, <3>1, <3>2 DEF LoopInv, TypeOK
    <2>6. CASE delivered' = delivered /\ pub' = pub
      BY <2>4, <2>6
    <2> HIDE DEF done
    <2> QED
      BY <2>2, <2>3, <2>4, <2>5, <2>6 DEF Next, vars, Bridge!Next, Start, StartRaises, Stop,
                                          PumpTake, PumpForward, Noise
  <1> QED
    BY <1>1, <1>2, FloodInvariant, PTL DEF Spec, Flooding, Bridge!Spec
-----------------------------------------------------------------------------
(* Loop prevention over CoT: the inductive invariant *)

\* Links on which a detection that crossed CoT may arrive with its track.
Tracked == CHOOSE T \in SUBSET Links : TrackLinks(T)

\* What a position looks like on its way, and a detection that arrives on link l: its uid is
\* the origin's, with the track appended at most once.
PositionFrame(e) == e.uid = <<Origin[e.msg]>>

DetectionFrame(l, e) ==
    /\ e.time = "ms" <=> e.track
    /\ \/ e.uid = <<Origin[e.msg]>>
       \/ e.uid = <<Origin[e.msg], "track">> /\ (e.track => l \in Tracked)

\* The frames of published messages that may arrive on link l.
EchoFrames(l) ==
    {e \in Envelopes : /\ pub[e.msg].state # "new"
                       /\ e.id \in EchoIds(e.msg)
                       /\ Kind[e.msg] = "PLI" => PositionFrame(e)
                       /\ Kind[e.msg] = "MARKER" => DetectionFrame(l, e)}

\* Only such frames, and undecodable ones, are on their way.
EchoFrameInv ==
    /\ \A l \in Links : inbox[l] \in Seq(EchoFrames(l) \cup {BadFrame})
    /\ \A l \in Links : pump[l].state = "forward" => pump[l].env \in EchoFrames(l)

\* The dedupe cache holds such ids, each once, so that it never overflows.
EchoSeenInv ==
    \A n \in Nodes :
        /\ \A i \in DOMAIN seen[n] : seen[n][i] \in AllEchoIds
        /\ \A i, j \in DOMAIN seen[n] : seen[n][i] = seen[n][j] => i = j

\* Nobody knows a message that is not published yet.
EchoNewInv ==
    \A n \in Nodes, m \in Msgs :
        pub[m].state = "new" => <<m>> \notin Range(seen[n]) /\ delivered[n][m] = 0

\* One for the node that published m: it has marked m as seen without a delivery.
Own(n, m) == IF Origin[m] = n /\ pub[m].state # "new" THEN 1 ELSE 0

\* The ids of m that node n has in its dedupe cache.
SeenIds(n, m) == EchoIds(m) \cap Range(seen[n])

\* Every delivery of m has put another id of m into the cache.
EchoCountInv ==
    \A n \in Nodes, m \in Msgs : delivered[n][m] + Own(n, m) <= Cardinality(SeenIds(n, m))

\* The inductive invariant of loop prevention over CoT.
EchoInv == TypeOK /\ EchoFrameInv /\ EchoSeenInv /\ EchoNewInv /\ EchoCountInv

-----------------------------------------------------------------------------
(* What the operators do to ids and frames *)

\* A detection exists only where its track finds no second CoT bus.
LEMMA TrackedLinks ==
    ASSUME FewIds, NEW m \in Msgs, Kind[m] = "MARKER"
    PROVE  Tracked \in SUBSET Links /\ TrackLinks(Tracked)
  BY DEF FewIds, Tracked

\* Another element makes a set larger by one at most.
LEMMA OneMore ==
    ASSUME NEW S, NEW x, NEW k \in Nat, IsFiniteSet(S), Cardinality(S) <= k
    PROVE  IsFiniteSet(S \cup {x}) /\ Cardinality(S \cup {x}) <= k + 1
  <1>1. /\ IsFiniteSet(S \cup {x})
        /\ Cardinality(S \cup {x}) = IF x \in S THEN Cardinality(S) ELSE Cardinality(S) + 1
    BY FS_AddElement
  <1>2. Cardinality(S) \in Nat
    BY FS_CardinalityType
  <1> QED
    BY <1>1, <1>2

\* Sets of three and of four.
LEMMA SmallSets ==
    ASSUME NEW a, NEW b, NEW c, NEW d
    PROVE  /\ IsFiniteSet({a, b, c}) /\ Cardinality({a, b, c}) <= 3
           /\ IsFiniteSet({a, b, c, d}) /\ Cardinality({a, b, c, d}) <= 4
  <1>1. IsFiniteSet({a}) /\ Cardinality({a}) <= 1
    BY FS_Singleton
  <1>2. IsFiniteSet({a} \cup {b}) /\ Cardinality({a} \cup {b}) <= 1 + 1
    BY <1>1, OneMore
  <1>3. {a} \cup {b} = {a, b} /\ 1 + 1 = 2
    OBVIOUS
  <1>4. IsFiniteSet({a, b}) /\ Cardinality({a, b}) <= 2
    BY <1>2, <1>3
  <1>5. IsFiniteSet({a, b} \cup {c}) /\ Cardinality({a, b} \cup {c}) <= 2 + 1
    BY <1>4, OneMore
  <1>6. {a, b} \cup {c} = {a, b, c} /\ 2 + 1 = 3
    OBVIOUS
  <1>7. IsFiniteSet({a, b, c}) /\ Cardinality({a, b, c}) <= 3
    BY <1>5, <1>6
  <1>8. IsFiniteSet({a, b, c} \cup {d}) /\ Cardinality({a, b, c} \cup {d}) <= 3 + 1
    BY <1>7, OneMore
  <1>9. {a, b, c} \cup {d} = {a, b, c, d} /\ 3 + 1 = 4
    OBVIOUS
  <1> QED
    BY <1>7, <1>8, <1>9

\* A message travels under three ids, or four.
LEMMA EchoIdsCount ==
    ASSUME NEW m \in Msgs
    PROVE  /\ IsFiniteSet(EchoIds(m)) /\ EchoIds(m) \subseteq AllEchoIds
           /\ Cardinality(EchoIds(m)) <= IF Kind[m] = "PLI" THEN 3 ELSE 4
  <1> DEFINE o == Origin[m]
             a == <<m>>
             b == <<o, m>>
             c == <<o, Second[m]>>
             d == <<o, "track", m>>
             e == <<o, "track", Second[m]>>
  <1>1. EchoIds(m) = IF Kind[m] = "PLI" THEN {a, b, c} ELSE {a, d, c, e}
    BY DEF EchoIds
  <1>2. EchoIds(m) \subseteq AllEchoIds
    BY DEF AllEchoIds
  <1> HIDE DEF a, b, c, d, e
  <1>3. /\ IsFiniteSet({a, b, c}) /\ Cardinality({a, b, c}) <= 3
        /\ IsFiniteSet({a, d, c, e}) /\ Cardinality({a, d, c, e}) <= 4
    BY SmallSets
  <1> QED
    BY <1>1, <1>2, <1>3

\* Only the message itself travels under its own id.
LEMMA OwnId ==
    ASSUME NEW m \in Msgs, NEW x \in Msgs, <<m>> \in EchoIds(x)
    PROVE  m = x
  <1>1. \A a, b : <<m>> # <<a, b>>
    <2> SUFFICES ASSUME NEW a, NEW b, <<m>> = <<a, b>> PROVE FALSE
      OBVIOUS
    <2>1. Len(<<m>>) = 1 /\ Len(<<a, b>>) = 2
      OBVIOUS
    <2> QED
      BY <2>1
  <1>2. \A a, b, c : <<m>> # <<a, b, c>>
    <2> SUFFICES ASSUME NEW a, NEW b, NEW c, <<m>> = <<a, b, c>> PROVE FALSE
      OBVIOUS
    <2>1. Len(<<m>>) = 1 /\ Len(<<a, b, c>>) = 3
      OBVIOUS
    <2> QED
      BY <2>1
  <1> QED
    BY <1>1, <1>2 DEF EchoIds

\* The fields of what a receiver decodes.
LEMMA TranscodeFields ==
    ASSUME NEW b \in Buses, NEW e \in Envelopes
    PROVE  /\ Transcode(b, e) \in Envelopes /\ Transcode(b, e).msg = e.msg
           /\ Codec[b] = "json" => Transcode(b, e) = e
           /\ Codec[b] = "compact" =>
                  /\ Transcode(b, e).id = e.id /\ Transcode(b, e).uid = e.uid
                  /\ Transcode(b, e).time = "s" /\ Transcode(b, e).track = FALSE
           /\ Codec[b] = "cot" =>
                  /\ Transcode(b, e).id = Append(EventUid(e), Stamp(e))
                  /\ Transcode(b, e).uid = EventUid(e)
                  /\ Transcode(b, e).time = e.time /\ Transcode(b, e).track = e.track
  <1>1. Transcode(b, e) \in Envelopes
    BY TranscodeType
  <1>2. Codec[b] \in {"json", "compact", "cot"}
    BY RouterAssumption
  <1>3. e = [msg |-> e.msg, id |-> e.id, uid |-> e.uid, time |-> e.time, track |-> e.track]
    BY DEF Envelopes
  <1>4. CASE Codec[b] = "json"
    BY <1>1, <1>4 DEF Transcode
  <1>5. CASE Codec[b] = "compact"
    <2>1. Transcode(b, e) = [e EXCEPT !.time = "s", !.track = FALSE]
      BY <1>5 DEF Transcode
    <2>2. Transcode(b, e)
              = [msg |-> e.msg, id |-> e.id, uid |-> e.uid, time |-> "s", track |-> FALSE]
      BY <1>3, <2>1
    <2> QED
      BY <1>1, <1>5, <2>2
  <1>6. CASE Codec[b] = "cot"
    <2> DEFINE u == EventUid(e)
               i == Append(EventUid(e), Stamp(e))
    <2>1. Transcode(b, e) = [e EXCEPT !.id = i, !.uid = u]
      BY <1>6 DEF Transcode
    <2> HIDE DEF u, i
    <2>2. Transcode(b, e)
              = [msg |-> e.msg, id |-> i, uid |-> u, time |-> e.time, track |-> e.track]
      BY <1>3, <2>1
    <2> QED
      BY <1>1, <1>6, <2>2 DEF u, i
  <1> QED
    BY <1>2, <1>4, <1>5, <1>6

\* What Append makes of a sequence.
LEMMA AppendIs ==
    ASSUME NEW S, NEW s \in Seq(S), NEW x \in S, NEW t \in Seq(S), Len(t) = Len(s) + 1,
           \A i \in 1 .. Len(s) : t[i] = s[i], t[Len(s) + 1] = x
    PROVE  Append(s, x) = t
  <1> DEFINE a == Append(s, x)
             L == Len(s)
  <1>1. /\ a \in Seq(S) /\ Len(a) = L + 1
        /\ \A i \in 1 .. L : a[i] = s[i]
        /\ a[L + 1] = x
    BY AppendProperties
  <1>2. L \in Nat
    OBVIOUS
  <1> HIDE DEF a
  <1>3. \A i \in 1 .. Len(a) : a[i] = t[i]
    <2> SUFFICES ASSUME NEW i \in 1 .. Len(a) PROVE a[i] = t[i]
      OBVIOUS
    <2>1. i \in 1 .. L \/ i = L + 1
      BY <1>1, <1>2
    <2> QED
      BY <1>1, <2>1
  <1>4. a = t
    BY <1>1, <1>3, SeqEqual
  <1> QED
    BY <1>4 DEF a

\* Appending an atom to a uid.
LEMMA AppendAtom ==
    ASSUME NEW a \in Atoms, NEW b \in Atoms, NEW c \in Atoms
    PROVE  Append(<<a>>, b) = <<a, b>> /\ Append(<<a, b>>, c) = <<a, b, c>>
  <1> DEFINE r == <<a>>
             s == <<a, b>>
             t == <<a, b, c>>
  <1>1. r \in Seq(Atoms) /\ Len(r) = 1 /\ r[1] = a
    OBVIOUS
  <1>2. s \in Seq(Atoms) /\ Len(s) = 2 /\ s[1] = a /\ s[2] = b
    OBVIOUS
  <1>3. t \in Seq(Atoms) /\ Len(t) = 3 /\ t[1] = a /\ t[2] = b /\ t[3] = c
    OBVIOUS
  <1> HIDE DEF r, s, t
  <1>4. /\ Len(s) = Len(r) + 1 /\ s[Len(r) + 1] = b
        /\ \A i \in 1 .. Len(r) : s[i] = r[i]
    BY <1>1, <1>2
  <1>5. Append(r, b) = s
    BY <1>1, <1>2, <1>4, AppendIs
  <1>6. /\ Len(t) = Len(s) + 1 /\ t[Len(s) + 1] = c
        /\ \A i \in 1 .. Len(s) : t[i] = s[i]
    BY <1>2, <1>3
  <1>7. Append(s, c) = t
    BY <1>2, <1>3, <1>6, AppendIs
  <1> QED
    BY <1>5, <1>7 DEF r, s, t

\* The atoms of ids.
LEMMA AtomsOf ==
    ASSUME NEW m \in Msgs
    PROVE  {Origin[m], m, "track", Second[m]} \subseteq Atoms
  <1>1. Origin[m] \in Nodes
    BY RouterAssumption
  <1> QED
    BY <1>1 DEF Atoms

\* Publishing is irrevocable, so the frames of published messages stay such frames.
LEMMA EchoFramesGrow ==
    ASSUME \A m \in Msgs : pub[m].state # "new" => pub'[m].state # "new", NEW l \in Links
    PROVE  EchoFrames(l) \subseteq EchoFrames(l)'
  BY DEF EchoFrames, Envelopes, PositionFrame, DetectionFrame

\* What a receiver decodes of a frame that its sender built itself.
LEMMA TranscodeFresh ==
    ASSUME FewIds, NEW m \in Msgs, pub[m].state # "new", NEW l \in Links
    PROVE  Transcode(l[2], Fresh(m)) \in EchoFrames(l)
  <1> DEFINE b == l[2]
             e == Fresh(m)
             d == Transcode(b, e)
             o == Origin[m]
  <1>1. b \in Buses
    BY LinkPair
  <1>2. /\ e \in Envelopes /\ e.msg = m /\ e.id = <<m>> /\ e.uid = <<o>> /\ e.time = "ms"
        /\ e.track = (Kind[m] = "MARKER")
    BY FreshType DEF Fresh
  <1>3. {o, m, "track"} \subseteq Atoms
    BY AtomsOf
  <1>4. Kind[m] \in {"PLI", "MARKER"}
    BY RouterAssumption DEF FewIds
  <1>5. <<m>> \in EchoIds(m)
    BY DEF EchoIds
  <1>6. Kind[m] = "MARKER" /\ Codec[b] = "cot" => l \in Tracked
    BY TrackedLinks DEF TrackLinks
  <1> HIDE DEF b, e
  <1>7. d \in Envelopes /\ d.msg = m
    BY <1>1, <1>2, TranscodeFields
  <1>8. CASE Codec[b] = "json"
    <2>1. d = e
      BY <1>1, <1>2, <1>8, TranscodeFields
    <2> QED
      BY <1>2, <1>4, <1>5, <2>1 DEF EchoFrames, PositionFrame, DetectionFrame, b, e
  <1>9. CASE Codec[b] = "compact"
    <2>1. d.id = <<m>> /\ d.uid = <<o>> /\ d.time = "s" /\ d.track = FALSE
      BY <1>1, <1>2, <1>9, TranscodeFields
    <2> HIDE DEF d
    <2>2. d \in EchoFrames(l)
      BY <1>4, <1>5, <1>7, <2>1 DEF EchoFrames, PositionFrame, DetectionFrame
    <2> QED
      BY <2>2 DEF d, b, e
  <1>10. CASE Codec[b] = "cot"
    <2>1. d.id = Append(EventUid(e), Stamp(e)) /\ d.uid = EventUid(e)
          /\ d.time = "ms" /\ d.track = (Kind[m] = "MARKER")
      BY <1>1, <1>2, <1>10, TranscodeFields
    <2>2. Stamp(e) = m
      BY <1>2 DEF Stamp
    <2>3. CASE Kind[m] = "PLI"
      <3>1. EventUid(e) = <<o>>
        BY <1>2, <2>3 DEF EventUid
      <3>2. d.id = <<o, m>> /\ d.uid = <<o>>
        BY <1>3, <2>1, <2>2, <3>1, AppendAtom
      <3> HIDE DEF d
      <3>3. d.id \in EchoIds(m)
        BY <2>3, <3>2 DEF EchoIds
      <3>4. d \in EchoFrames(l)
        BY <1>7, <2>3, <3>2, <3>3 DEF EchoFrames, PositionFrame
      <3> QED
        BY <3>4 DEF d, b, e
    <2>4. CASE Kind[m] = "MARKER"
      <3>1. EventUid(e) = Append(<<o>>, "track")
        BY <1>2, <2>4 DEF EventUid
      <3>2. EventUid(e) = <<o, "track">>
        BY <1>3, <3>1, AppendAtom
      <3>3. d.id = <<o, "track", m>> /\ d.uid = <<o, "track">>
        <4>1. Append(<<o, "track">>, m) = <<o, "track", m>>
          BY <1>3, AppendAtom
        <4> QED
          BY <2>1, <2>2, <3>2, <4>1
      <3> HIDE DEF d
      <3>4. d.id \in EchoIds(m)
        BY <2>4, <3>3 DEF EchoIds
      <3>5. d.track = TRUE
        BY <2>1, <2>4
      <3>6. DetectionFrame(l, d)
        BY <1>6, <1>7, <1>10, <2>1, <2>4, <3>3, <3>5 DEF DetectionFrame
      <3>7. d \in EchoFrames(l)
        BY <1>7, <2>4, <3>4, <3>6 DEF EchoFrames
      <3> QED
        BY <3>7 DEF d, b, e
    <2> QED
      BY <1>4, <2>3, <2>4
  <1> QED
    BY <1>1, <1>8, <1>9, <1>10, RouterAssumption

\* What a receiver decodes of a frame that a node forwards from link k to link l's bus.
LEMMA TranscodeEcho ==
    ASSUME FewIds, NEW k \in Links, NEW l \in Links, NEW e \in EchoFrames(k),
           l[1] # k[1], l[2] # k[2], l[2] \in Range(Transports[k[1]])
    PROVE  Transcode(l[2], e) \in EchoFrames(l)
  <1> DEFINE b == l[2]
             d == Transcode(b, e)
             m == e.msg
             o == Origin[m]
  <1>1. b \in Buses
    BY LinkPair
  <1>2. /\ e \in Envelopes /\ m \in Msgs /\ pub[m].state # "new" /\ e.id \in EchoIds(m)
        /\ e.time \in {"ms", "s"} /\ e.track \in BOOLEAN
    BY DEF EchoFrames, Envelopes
  <1>3. /\ Kind[m] = "PLI" => PositionFrame(e)
        /\ Kind[m] = "MARKER" => DetectionFrame(k, e)
    BY DEF EchoFrames
  <1>4. {o, m, "track", Second[m]} \subseteq Atoms
    BY <1>2, AtomsOf
  <1>5. Kind[m] \in {"PLI", "MARKER"}
    BY <1>2, RouterAssumption DEF FewIds
  <1>6. Kind[m] = "MARKER" =>
            /\ Codec[b] = "cot" => l \in Tracked
            /\ k \in Tracked => Codec[b] # "cot" /\ (Codec[b] = "json" => l \in Tracked)
    BY <1>1, <1>2, TrackedLinks DEF TrackLinks
  <1>7. d \in Envelopes /\ d.msg = m
    BY <1>1, <1>2, TranscodeFields
  <1> HIDE DEF b, m
  <1>8. CASE Codec[b] = "json"
    <2>1. d = e
      BY <1>1, <1>2, <1>8, TranscodeFields
    <2>2. Kind[m] = "MARKER" => DetectionFrame(l, e)
      BY <1>3, <1>6, <1>8 DEF DetectionFrame
    <2>3. e \in EchoFrames(l)
      BY <1>2, <1>3, <2>2 DEF EchoFrames, m
    <2> QED
      BY <2>1, <2>3 DEF b
  <1>9. CASE Codec[b] = "compact"
    <2>1. d.id = e.id /\ d.uid = e.uid /\ d.time = "s" /\ d.track = FALSE
      BY <1>1, <1>2, <1>9, TranscodeFields
    <2> HIDE DEF d
    <2>2. Kind[m] = "PLI" => PositionFrame(d)
      BY <1>3, <1>7, <2>1 DEF PositionFrame, m
    <2>3. Kind[m] = "MARKER" => DetectionFrame(l, d)
      BY <1>3, <1>7, <2>1 DEF DetectionFrame, m
    <2>4. d \in EchoFrames(l)
      BY <1>2, <1>7, <2>1, <2>2, <2>3 DEF EchoFrames
    <2> QED
      BY <2>4 DEF d, b
  <1>10. CASE Codec[b] = "cot"
    <2>1. d.id = Append(EventUid(e), Stamp(e)) /\ d.uid = EventUid(e)
          /\ d.time = e.time /\ d.track = e.track
      BY <1>1, <1>2, <1>10, TranscodeFields
    <2>2. Stamp(e) = IF e.time = "ms" THEN m ELSE Second[m]
      BY DEF Stamp, m
    <2>3. CASE Kind[m] = "PLI"
      <3>1. EventUid(e) = <<o>>
        BY <1>3, <2>3 DEF EventUid, PositionFrame, m
      <3>2. d.id \in {<<o, m>>, <<o, Second[m]>>} /\ d.uid = <<o>>
        <4>1. Append(<<o>>, m) = <<o, m>> /\ Append(<<o>>, Second[m]) = <<o, Second[m]>>
          BY <1>4, AppendAtom
        <4> QED
          BY <2>1, <2>2, <3>1, <4>1
      <3> HIDE DEF d
      <3>3. d.id \in EchoIds(m)
        BY <2>3, <3>2 DEF EchoIds
      <3>4. d \in EchoFrames(l)
        BY <1>2, <1>7, <2>3, <3>2, <3>3 DEF EchoFrames, PositionFrame
      <3> QED
        BY <3>4 DEF d, b
    <2>4. CASE Kind[m] = "MARKER"
      <3>1. DetectionFrame(k, e) /\ ~(k \in Tracked)
        BY <1>3, <1>6, <1>10, <2>4
      <3>2. e.time = "ms" <=> e.track
        BY <3>1 DEF DetectionFrame
      <3>3. EventUid(e) = IF e.track THEN Append(e.uid, "track") ELSE e.uid
        BY <2>4 DEF EventUid, m
      <3>4. CASE e.track
        <4>1. e.uid = <<o>> /\ Stamp(e) = m
          BY <2>2, <3>1, <3>2, <3>4 DEF DetectionFrame, m
        <4>2. EventUid(e) = <<o, "track">>
          BY <1>4, <3>3, <3>4, <4>1, AppendAtom
        <4>3. d.id = <<o, "track", m>> /\ d.uid = <<o, "track">>
          BY <1>4, <2>1, <4>1, <4>2, AppendAtom
        <4> HIDE DEF d
        <4>4. d.id \in EchoIds(m)
          BY <2>4, <4>3 DEF EchoIds
        <4>5. DetectionFrame(l, d)
          BY <1>6, <1>7, <1>10, <2>1, <2>4, <3>2, <4>3 DEF DetectionFrame
        <4>6. d \in EchoFrames(l)
          BY <1>2, <1>7, <2>4, <4>4, <4>5 DEF EchoFrames
        <4> QED
          BY <4>6 DEF d, b
      <3>5. CASE ~e.track
        <4>1. e.uid \in {<<o>>, <<o, "track">>} /\ Stamp(e) = Second[m]
          BY <2>2, <3>1, <3>2, <3>5 DEF DetectionFrame, m
        <4>2. EventUid(e) = e.uid
          BY <3>3, <3>5
        <4>3. d.id \in {<<o, Second[m]>>, <<o, "track", Second[m]>>} /\ d.uid = e.uid
          <5>1. /\ Append(<<o>>, Second[m]) = <<o, Second[m]>>
                /\ Append(<<o, "track">>, Second[m]) = <<o, "track", Second[m]>>
            BY <1>4, AppendAtom
          <5> QED
            BY <2>1, <4>1, <4>2, <5>1
        <4> HIDE DEF d
        <4>4. d.id \in EchoIds(m)
          BY <2>4, <4>3 DEF EchoIds
        <4>5. DetectionFrame(l, d)
          BY <1>7, <2>1, <3>2, <3>5, <4>1, <4>3 DEF DetectionFrame
        <4>6. d \in EchoFrames(l)
          BY <1>2, <1>7, <2>4, <4>4, <4>5 DEF EchoFrames
        <4> QED
          BY <4>6 DEF d, b
      <3> QED
        BY <3>4, <3>5
    <2> QED
      BY <1>5, <2>3, <2>4
  <1> QED
    BY <1>1, <1>8, <1>9, <1>10, RouterAssumption

-----------------------------------------------------------------------------
(* What the steps do to the parts of the invariant *)

\* A send puts into the inboxes what their links may receive.
LEMMA EchoSend ==
    ASSUME TypeOK, NEW n \in Nodes, NEW i \in 1..Len(Transports[n]), NEW e,
           SendOk(n, i, e) \/ SendRaises(n, i, e),
           \A l \in Links : inbox[l] \in Seq(EchoFrames(l) \cup {BadFrame}),
           \A l \in Links : l[2] = Transports[n][i] /\ l[1] # n =>
               Transcode(l[2], e) \in EchoFrames(l)
    PROVE  \A l \in Links : inbox'[l] \in Seq(EchoFrames(l) \cup {BadFrame})
  <1> SUFFICES ASSUME NEW l \in Links
               PROVE  inbox'[l] \in Seq(EchoFrames(l) \cup {BadFrame})
    OBVIOUS
  <1>1. inbox[l] \in Seq(EchoFrames(l) \cup {BadFrame})
    OBVIOUS
  <1>2. CASE SendOk(n, i, e)
    <2>1. inbox'[l] = IF l[2] = Transports[n][i] /\ l[1] # n
                      THEN Ingest(inbox[l], Transcode(Transports[n][i], e)) ELSE inbox[l]
      BY <1>2 DEF SendOk, Broadcast
    <2>2. CASE l[2] = Transports[n][i] /\ l[1] # n
      <3>1. Transcode(Transports[n][i], e) \in EchoFrames(l) \cup {BadFrame}
        BY <2>2
      <3>2. Ingest(inbox[l], Transcode(Transports[n][i], e))
                \in Seq(EchoFrames(l) \cup {BadFrame})
        BY <1>1, <3>1, IngestType
      <3> QED
        BY <2>1, <2>2, <3>2
    <2>3. CASE ~(l[2] = Transports[n][i] /\ l[1] # n)
      BY <1>1, <2>1, <2>3
    <2> QED
      BY <2>2, <2>3
  <1>3. CASE SendRaises(n, i, e)
    BY <1>1, <1>3 DEF SendRaises
  <1> QED
    BY <1>2, <1>3

\* The ids are sequences of atoms.
LEMMA EchoIdsType == AllEchoIds \subseteq Seq(Atoms)
  <1> SUFFICES ASSUME NEW m \in Msgs PROVE EchoIds(m) \subseteq Seq(Atoms)
    BY DEF AllEchoIds
  <1> DEFINE o == Origin[m]
             s == Second[m]
  <1>1. o \in Atoms /\ m \in Atoms /\ s \in Atoms /\ "track" \in Atoms
    BY AtomsOf
  <1> HIDE DEF o, s
  <1>2. /\ <<m>> \in Seq(Atoms) /\ <<o, m>> \in Seq(Atoms) /\ <<o, s>> \in Seq(Atoms)
        /\ <<o, "track", m>> \in Seq(Atoms) /\ <<o, "track", s>> \in Seq(Atoms)
    BY <1>1
  <1> QED
    BY <1>2 DEF EchoIds, o, s

\* The pigeonhole: the cache has room for an id it does not hold.
LEMMA EchoRoom ==
    ASSUME FewIds, TypeOK, EchoSeenInv, NEW n \in Nodes, NEW id \in AllEchoIds,
           id \notin Range(seen[n])
    PROVE  MarkSeen(n, id) = Append(seen[n], id)
  <1> DEFINE s == seen[n]
             L == Len(seen[n])
             f == [i \in 1..(L + 1) |-> IF i = L + 1 THEN id ELSE s[i]]
  <1>1. s \in Seq(Seq(Atoms)) /\ L \in Nat /\ DOMAIN s = 1..L
    BY DEF TypeOK
  <1>2. \A i \in 1..L : s[i] \in AllEchoIds
    BY <1>1 DEF EchoSeenInv
  <1>3. \A i, j \in 1..L : s[i] = s[j] => i = j
    BY <1>1 DEF EchoSeenInv
  <1>4. \A i \in 1..L : s[i] # id
    BY <1>1 DEF Range
  <1> HIDE DEF s, L
  <1>5. f \in [1..(L + 1) -> AllEchoIds]
    BY <1>1, <1>2
  <1>6. ASSUME NEW i \in 1..(L + 1), NEW j \in 1..(L + 1), f[i] = f[j]
        PROVE  i = j
    BY <1>1, <1>3, <1>4, <1>6
  <1> HIDE DEF f
  <1>7. IsInjective(f)
    BY <1>5, <1>6 DEF IsInjective
  <1>8. f \in Injection(1..(L + 1), AllEchoIds)
    BY <1>5, <1>7 DEF Injection
  <1>9. Cardinality(1..(L + 1)) <= Cardinality(AllEchoIds)
    BY <1>8, FS_Injection DEF FewIds
  <1>10. Cardinality(1..(L + 1)) = L + 1
    BY <1>1, FS_Interval
  <1>11. /\ Cardinality(AllEchoIds) \in Nat /\ Cardinality(AllEchoIds) <= CacheSize
         /\ CacheSize \in Nat
    BY FS_CardinalityType, RouterAssumption DEF FewIds
  <1>12. L + 1 <= CacheSize
    BY <1>1, <1>9, <1>10, <1>11
  <1> DEFINE t == Append(s, id)
  <1>13. t \in Seq(Seq(Atoms)) /\ Len(t) = L + 1
    <2>1. id \in Seq(Atoms)
      BY EchoIdsType
    <2> QED
      BY <1>1, <2>1 DEF L, s
  <1> HIDE DEF t
  <1>14. SubSeq(t, 1, Len(t)) = t
    BY <1>13
  <1>15. ~(Len(t) > CacheSize)
    BY <1>1, <1>11, <1>12, <1>13
  <1> QED
    BY <1>14, <1>15 DEF MarkSeen, t, s

\* The ids of one message in a cache are finitely many.
LEMMA SeenIdsFinite ==
    ASSUME NEW n \in Nodes, NEW m \in Msgs
    PROVE  /\ IsFiniteSet(SeenIds(n, m)) /\ Cardinality(SeenIds(n, m)) \in Nat
           /\ Cardinality(SeenIds(n, m)) <= Cardinality(EchoIds(m))
  <1>1. IsFiniteSet(EchoIds(m)) /\ SeenIds(n, m) \subseteq EchoIds(m)
    BY EchoIdsCount DEF SeenIds
  <1>2. /\ IsFiniteSet(SeenIds(n, m))
        /\ Cardinality(SeenIds(n, m)) <= Cardinality(EchoIds(m))
    BY <1>1, FS_Subset
  <1> QED
    BY <1>2, FS_CardinalityType

\* Marking an unseen id of m: the cache gains it and loses nothing.
LEMMA EchoMark ==
    ASSUME FewIds, TypeOK, EchoSeenInv, NEW n \in Nodes, NEW m \in Msgs,
           NEW id \in EchoIds(m), id \notin Range(seen[n]),
           seen' = [seen EXCEPT ![n] = MarkSeen(n, id)]
    PROVE  /\ EchoSeenInv'
           /\ Range(seen'[n]) = Range(seen[n]) \cup {id}
           /\ \A k \in Nodes : k # n => seen'[k] = seen[k]
  <1> DEFINE s == seen[n]
             t == seen'[n]
             L == Len(s)
  <1>1. id \in AllEchoIds /\ id \in Seq(Atoms)
    BY EchoIdsCount, EchoIdsType
  <1>2. seen \in [Nodes -> Seq(Seq(Atoms))]
    BY DEF TypeOK
  <1>3. t = Append(s, id)
    BY <1>1, <1>2, EchoRoom
  <1>4. s \in Seq(Seq(Atoms)) /\ L \in Nat /\ DOMAIN s = 1..L
    BY <1>2
  <1>5. /\ \A i \in 1..L : s[i] \in AllEchoIds
        /\ \A i, j \in 1..L : s[i] = s[j] => i = j
    BY <1>4 DEF EchoSeenInv
  <1>6. \A i \in 1..L : s[i] # id
    BY <1>4 DEF Range
  <1>7. \A k \in Nodes : k # n => seen'[k] = seen[k]
    BY <1>2
  <1> HIDE DEF s, t
  <1>8. DOMAIN t = 1..(L + 1) /\ t[L + 1] = id /\ \A i \in 1..L : t[i] = s[i]
    BY <1>1, <1>3, <1>4
  <1>9. Range(t) = Range(s) \cup {id}
    <2> HIDE DEF L
    <2>1. 1..(L + 1) = 1..L \cup {L + 1} /\ L + 1 \in 1..(L + 1)
      BY <1>4
    <2>2. Range(s) = {s[i] : i \in 1..L} /\ Range(t) = {t[i] : i \in 1..(L + 1)}
      BY <1>4, <1>8 DEF Range
    <2>3. \A x \in Range(t) : x \in Range(s) \cup {id}
      BY <1>8, <2>1, <2>2
    <2>4. \A x \in Range(s) \cup {id} : x \in Range(t)
      BY <1>8, <2>1, <2>2
    <2> QED
      BY <2>3, <2>4
  <1>10. \A i \in DOMAIN t : t[i] \in AllEchoIds
    BY <1>1, <1>4, <1>5, <1>8
  <1>11. \A i, j \in DOMAIN t : t[i] = t[j] => i = j
    BY <1>4, <1>5, <1>6, <1>8
  <1>12. EchoSeenInv'
    <2> SUFFICES ASSUME NEW k \in Nodes
                 PROVE  /\ \A i \in DOMAIN seen'[k] : seen'[k][i] \in AllEchoIds
                        /\ \A i, j \in DOMAIN seen'[k] : seen'[k][i] = seen'[k][j] => i = j
      BY DEF EchoSeenInv
    <2>1. CASE k = n
      BY <1>10, <1>11, <2>1 DEF t
    <2>2. CASE k # n
      BY <1>7, <2>2 DEF EchoSeenInv
    <2> QED
      BY <2>1, <2>2
  <1> QED
    BY <1>7, <1>9, <1>12 DEF s, t

\* The count of seen ids goes up for the message, and nowhere down.
LEMMA EchoMarkCount ==
    ASSUME NEW n \in Nodes, NEW m \in Msgs, NEW id \in EchoIds(m), id \notin Range(seen[n]),
           Range(seen'[n]) = Range(seen[n]) \cup {id},
           \A k \in Nodes : k # n => seen'[k] = seen[k]
    PROVE  /\ Cardinality(SeenIds(n, m))' = Cardinality(SeenIds(n, m)) + 1
           /\ \A k \in Nodes, x \in Msgs :
                  Cardinality(SeenIds(k, x)) <= Cardinality(SeenIds(k, x))'
  <1>1. Cardinality(SeenIds(n, m))' = Cardinality(SeenIds(n, m)) + 1
    <2> DEFINE S == SeenIds(n, m)
    <2>1. SeenIds(n, m)' = S \cup {id} /\ id \notin S
      BY DEF SeenIds
    <2>2. IsFiniteSet(S)
      BY SeenIdsFinite
    <2> HIDE DEF S
    <2>3. Cardinality(S \cup {id}) = Cardinality(S) + 1
      BY <2>1, <2>2, FS_AddElement
    <2> QED
      BY <2>1, <2>3 DEF S
  <1>2. ASSUME NEW k \in Nodes, NEW x \in Msgs
        PROVE  Cardinality(SeenIds(k, x)) <= Cardinality(SeenIds(k, x))'
    <2> DEFINE S == SeenIds(k, x)
               T == EchoIds(x) \cap Range(seen'[k])
    <2>1. Range(seen[k]) \subseteq Range(seen'[k])
      <3>1. CASE k = n
        BY <3>1
      <3>2. CASE k # n
        <4>1. seen'[k] = seen[k]
          BY <3>2
        <4> QED
          BY <4>1
      <3> QED
        BY <3>1, <3>2
    <2>2. SeenIds(k, x)' = T /\ S \subseteq T /\ T \subseteq EchoIds(x)
      BY <2>1 DEF SeenIds
    <2>3. IsFiniteSet(EchoIds(x))
      BY EchoIdsCount
    <2> HIDE DEF S, T
    <2>4. IsFiniteSet(T)
      BY <2>2, <2>3, FS_Subset
    <2>5. Cardinality(S) <= Cardinality(T)
      BY <2>2, <2>4, FS_Subset
    <2> QED
      BY <2>2, <2>5 DEF S
  <1> QED
    BY <1>1, <1>2

\* Steps that mark nothing, deliver nothing and publish nothing.
LEMMA EchoSame ==
    ASSUME EchoInv, TypeOK', UNCHANGED <<seen, delivered>>,
           \A m \in Msgs : pub'[m].state = "new" <=> pub[m].state = "new",
           \A l \in Links : inbox'[l] \in Seq(EchoFrames(l) \cup {BadFrame}),
           \A l \in Links : pump'[l].state = "forward" => pump'[l].env \in EchoFrames(l)
    PROVE  EchoInv'
  <1>1. \A l \in Links : EchoFrames(l)' = EchoFrames(l)
    BY DEF EchoFrames, Envelopes, PositionFrame, DetectionFrame
  <1>2. EchoFrameInv'
    BY <1>1 DEF EchoFrameInv, BadFrame
  <1>3. EchoSeenInv' /\ EchoNewInv'
    BY DEF EchoInv, EchoSeenInv, EchoNewInv
  <1>4. EchoCountInv'
    <2>1. \A n \in Nodes, m \in Msgs : Own(n, m)' = Own(n, m) /\ SeenIds(n, m)' = SeenIds(n, m)
      BY DEF Own, SeenIds
    <2> QED
      BY <2>1 DEF EchoInv, EchoCountInv
  <1> QED
    BY <1>2, <1>3, <1>4 DEF EchoInv

\* Lifecycle steps end pumps or set them waiting.
LEMMA LifecycleEcho ==
    ASSUME EchoInv, TypeOK', NEW n \in Nodes, Start(n) \/ StartRaises(n) \/ Stop(n)
    PROVE  EchoInv'
  <1>1. UNCHANGED <<seen, inbox, pub, delivered>>
    BY DEF Start, StartRaises, Stop
  <1>2. \A l \in Links : pump'[l] = pump[l] \/ pump'[l].state \in {"none", "wait"}
    BY DEF Start, StartRaises, Stop, Idle
  <1>3. \A l \in Links : pump'[l].state = "forward" => pump'[l].env \in EchoFrames(l)
    BY <1>2 DEF EchoInv, EchoFrameInv
  <1>4. \A l \in Links : inbox'[l] \in Seq(EchoFrames(l) \cup {BadFrame})
    BY <1>1 DEF EchoInv, EchoFrameInv
  <1> QED
    BY <1>1, <1>3, <1>4, EchoSame

\* Undecodable frames touch nothing but an inbox.
LEMMA NoiseEcho ==
    ASSUME EchoInv, TypeOK', NEW l \in Links, Noise(l)
    PROVE  EchoInv'
  <1>1. UNCHANGED <<seen, pump, pub, delivered>>
    BY DEF Noise
  <1>2. ASSUME NEW k \in Links
        PROVE  inbox'[k] \in Seq(EchoFrames(k) \cup {BadFrame})
    <2>1. inbox[k] \in Seq(EchoFrames(k) \cup {BadFrame})
      BY DEF EchoInv, EchoFrameInv
    <2>2. inbox'[k] = inbox[k] \/ inbox'[k] = Ingest(inbox[k], BadFrame)
      BY DEF Noise, EchoInv, TypeOK
    <2> QED
      BY <2>1, <2>2, IngestType
  <1>3. \A k \in Links : pump'[k].state = "forward" => pump'[k].env \in EchoFrames(k)
    BY <1>1 DEF EchoInv, EchoFrameInv
  <1> QED
    BY <1>1, <1>2, <1>3, EchoSame

\* A step of publish() sends what the origin built.
LEMMA PublishStepEcho ==
    ASSUME FewIds, EchoInv, TypeOK', NEW m \in Msgs, PublishStep(m)
    PROVE  EchoInv'
  <1> DEFINE n == Origin[m]
             i == pub[m].next
  <1>1. n \in Nodes /\ Transports[n] \in Seq(Buses)
    BY RouterAssumption
  <1>2. UNCHANGED <<seen, pump, delivered>> /\ pub[m].state = "sending"
    BY DEF PublishStep
  <1>3. i \in Nat \ {0}
    BY <1>2, PubRecords DEF EchoInv, TypeOK
  <1>4. \A x \in Msgs : pub'[x].state = "new" <=> pub[x].state = "new"
    <2>1. PICK p \in {[state |-> "done"], [state |-> "failed"],
                      [state |-> "sending", next |-> i + 1]} :
                  pub' = [pub EXCEPT ![m] = p]
      BY PublishStepMove DEF EchoInv
    <2>2. p.state # "new"
      BY <2>1
    <2>3. \A x \in Msgs : pub'[x] = IF x = m THEN p ELSE pub[x]
      BY <2>1 DEF EchoInv, TypeOK
    <2> QED
      BY <1>2, <2>2, <2>3
  <1>5. \A l \in Links : inbox[l] \in Seq(EchoFrames(l) \cup {BadFrame})
    BY DEF EchoInv, EchoFrameInv
  <1>6. \A l \in Links : inbox'[l] \in Seq(EchoFrames(l) \cup {BadFrame})
    <2>1. CASE i <= Len(Transports[n])
      <3>1. i \in 1..Len(Transports[n])
        BY <1>1, <1>3, <2>1
      <3>2. SendOk(n, i, Fresh(m)) \/ SendRaises(n, i, Fresh(m))
        BY <1>1, <1>3, <2>1 DEF PublishStep
      <3>3. \A l \in Links : Transcode(l[2], Fresh(m)) \in EchoFrames(l)
        BY <1>2, TranscodeFresh
      <3> HIDE DEF n, i
      <3> QED
        BY <1>1, <1>5, <3>1, <3>2, <3>3, EchoSend DEF EchoInv
    <2>2. CASE ~(i <= Len(Transports[n]))
      BY <1>5, <2>2 DEF PublishStep
    <2> QED
      BY <2>1, <2>2
  <1>7. \A l \in Links : pump'[l].state = "forward" => pump'[l].env \in EchoFrames(l)
    BY <1>2 DEF EchoInv, EchoFrameInv
  <1> QED
    BY <1>2, <1>4, <1>6, <1>7, EchoSame

\* A forwarding pump sends on every bus but its source.
LEMMA PumpForwardEcho ==
    ASSUME FewIds, EchoInv, TypeOK', NEW k \in Links, PumpForward(k)
    PROVE  EchoInv'
  <1> DEFINE n == k[1]
             i == pump[k].next
             e == pump[k].env
  <1>1. n \in Nodes /\ Transports[n] \in Seq(Buses)
    BY LinkPair
  <1>2. UNCHANGED <<seen, pub, delivered>> /\ pump[k].state = "forward"
    BY DEF PumpForward
  <1>3. i \in Nat \ {0} /\ e \in EchoFrames(k)
    BY <1>2, PumpRecords DEF EchoInv, TypeOK, EchoFrameInv
  <1>4. \A l \in Links : inbox[l] \in Seq(EchoFrames(l) \cup {BadFrame})
    BY DEF EchoInv, EchoFrameInv
  <1>5. \A l \in Links : inbox'[l] \in Seq(EchoFrames(l) \cup {BadFrame})
    <2>1. CASE i <= Len(Transports[n]) /\ Transports[n][i] # k[2]
      <3>1. i \in 1..Len(Transports[n])
        BY <1>1, <1>3, <2>1
      <3>2. SendOk(n, i, e) \/ SendRaises(n, i, e)
        BY <1>1, <1>3, <2>1 DEF PumpForward
      <3>3. Transports[n][i] \in Range(Transports[n])
        BY <1>1, <3>1 DEF Range
      <3>4. \A l \in Links : l[2] = Transports[n][i] /\ l[1] # n =>
                Transcode(l[2], e) \in EchoFrames(l)
        BY <1>3, <2>1, <3>3, TranscodeEcho
      <3> HIDE DEF n, i, e
      <3> QED
        BY <1>1, <1>4, <3>1, <3>2, <3>4, EchoSend DEF EchoInv
    <2>2. CASE ~(i <= Len(Transports[n]) /\ Transports[n][i] # k[2])
      BY <1>4, <2>2 DEF PumpForward
    <2> QED
      BY <2>1, <2>2
  <1>6. \A l \in Links : pump'[l].state = "forward" => pump'[l].env \in EchoFrames(l)
    <2>1. PICK p \in {[state |-> "wait"], [state |-> "dead"],
                      [state |-> "forward", env |-> e, next |-> i + 1]} :
                  pump' = [pump EXCEPT ![k] = p]
      BY PumpForwardMove DEF EchoInv
    <2>2. \A l \in Links : pump'[l] = IF l = k THEN p ELSE pump[l]
      BY <2>1 DEF EchoInv, TypeOK
    <2>3. p.state = "forward" => p.env = e
      BY <2>1
    <2> QED
      BY <1>3, <2>2, <2>3 DEF EchoInv, EchoFrameInv
  <1> QED
    BY <1>2, <1>5, <1>6, EchoSame

\* publish() starts: it marks the message's own id, which nobody knows yet.
LEMMA PublishEcho ==
    ASSUME FewIds, EchoInv, TypeOK', NEW m \in Msgs, Publish(m)
    PROVE  EchoInv'
  <1> DEFINE n == Origin[m]
  <1>1. n \in Nodes /\ pub \in [Msgs -> PubStates] /\ delivered \in [Nodes -> [Msgs -> Nat]]
    BY RouterAssumption DEF EchoInv, TypeOK
  <1>2. /\ pub[m].state = "new" /\ UNCHANGED <<inbox, pump, delivered>>
        /\ pub' = [pub EXCEPT ![m] = [state |-> "sending", next |-> 1]]
        /\ seen' = [seen EXCEPT ![n] = MarkSeen(n, <<m>>)]
    BY DEF Publish, Fresh
  <1>3. /\ pub'[m].state = "sending"
        /\ \A x \in Msgs : x # m => pub'[x] = pub[x]
    BY <1>1, <1>2
  <1>4. <<m>> \in EchoIds(m) /\ <<m>> \notin Range(seen[n])
    BY <1>1, <1>2 DEF EchoIds, EchoInv, EchoNewInv
  <1>5. /\ EchoSeenInv'
        /\ Range(seen'[n]) = Range(seen[n]) \cup {<<m>>}
        /\ \A k \in Nodes : k # n => seen'[k] = seen[k]
    BY <1>1, <1>2, <1>4, EchoMark DEF EchoInv
  <1>6. EchoFrameInv'
    <2>1. \A l \in Links : EchoFrames(l) \subseteq EchoFrames(l)'
      BY <1>3, EchoFramesGrow
    <2>2. ASSUME NEW l \in Links
          PROVE  inbox'[l] \in Seq(EchoFrames(l)' \cup {BadFrame})
      <3>1. EchoFrames(l) \cup {BadFrame} \subseteq EchoFrames(l)' \cup {BadFrame}
        BY <2>1
      <3>2. inbox[l] \in Seq(EchoFrames(l) \cup {BadFrame})
        BY DEF EchoInv, EchoFrameInv
      <3>3. inbox[l] \in Seq(EchoFrames(l)' \cup {BadFrame})
        BY <3>1, <3>2, SeqMonotone
      <3> QED
        BY <1>2, <3>3
    <2>3. \A l \in Links : pump'[l].state = "forward" => pump'[l].env \in EchoFrames(l)'
      BY <1>2, <2>1 DEF EchoInv, EchoFrameInv
    <2> QED
      BY <2>2, <2>3 DEF EchoFrameInv, BadFrame
  <1>7. EchoNewInv'
    <2> SUFFICES ASSUME NEW k \in Nodes, NEW x \in Msgs, pub'[x].state = "new"
                 PROVE  <<x>> \notin Range(seen'[k]) /\ delivered'[k][x] = 0
      BY DEF EchoNewInv
    <2>1. x # m /\ pub[x].state = "new"
      BY <1>3
    <2>2. <<x>> \notin Range(seen[k]) /\ delivered[k][x] = 0
      BY <2>1 DEF EchoInv, EchoNewInv
    <2>3. <<x>> # <<m>>
      BY <2>1
    <2>4. CASE k = n
      BY <1>2, <1>5, <2>2, <2>3, <2>4
    <2>5. CASE k # n
      BY <1>2, <1>5, <2>2, <2>5
    <2> QED
      BY <2>4, <2>5
  <1>8. EchoCountInv'
    <2>1. /\ Cardinality(SeenIds(n, m))' = Cardinality(SeenIds(n, m)) + 1
          /\ \A k \in Nodes, x \in Msgs :
                 Cardinality(SeenIds(k, x)) <= Cardinality(SeenIds(k, x))'
      BY <1>1, <1>4, <1>5, EchoMarkCount
    <2> SUFFICES ASSUME NEW k \in Nodes, NEW x \in Msgs
                 PROVE  delivered'[k][x] + Own(k, x)' <= Cardinality(SeenIds(k, x))'
      BY DEF EchoCountInv
    <2>2. delivered[k][x] + Own(k, x) <= Cardinality(SeenIds(k, x)) /\ delivered[k][x] \in Nat
      BY <1>1 DEF EchoInv, EchoCountInv
    <2>3. /\ Cardinality(SeenIds(k, x)) \in Nat
          /\ Cardinality(SeenIds(k, x)) <= Cardinality(SeenIds(k, x))'
      BY <2>1, SeenIdsFinite
    <2>4. Cardinality(SeenIds(k, x))' \in Nat
      <3>1. IsFiniteSet(EchoIds(x)) /\ SeenIds(k, x)' \subseteq EchoIds(x)
        BY EchoIdsCount DEF SeenIds
      <3>2. IsFiniteSet(SeenIds(k, x)')
        BY <3>1, FS_Subset
      <3> QED
        BY <3>2, FS_CardinalityType
    <2>5. CASE k = n /\ x = m
      <3>1. Own(k, x) = 0 /\ Own(k, x)' = 1
        BY <1>2, <1>3, <2>5 DEF Own
      <3>2. Cardinality(SeenIds(k, x))' = Cardinality(SeenIds(k, x)) + 1
        BY <2>1, <2>5
      <3>3. delivered'[k][x] = delivered[k][x]
        BY <1>2
      <3> QED
        BY <2>2, <2>3, <3>1, <3>2, <3>3
    <2>6. CASE ~(k = n /\ x = m)
      <3>1. Own(k, x)' = Own(k, x) /\ Own(k, x) \in Nat
        BY <1>3, <2>6 DEF Own
      <3>2. delivered'[k][x] = delivered[k][x]
        BY <1>2
      <3> QED
        BY <2>2, <2>3, <2>4, <3>1, <3>2
    <2> QED
      BY <2>5, <2>6
  <1> QED
    BY <1>5, <1>6, <1>7, <1>8 DEF EchoInv

\* A pump takes a frame: a known id leaves no trace, a new one is marked and delivered.
LEMMA PumpTakeEcho ==
    ASSUME FewIds, EchoInv, TypeOK', NEW l \in Links, PumpTake(l)
    PROVE  EchoInv'
  <1> DEFINE n == l[1]
             e == Head(inbox[l])
             m == Head(inbox[l]).msg
             F == EchoFrames(l) \cup {BadFrame}
  <1>1. n \in Nodes /\ inbox[l] \in Seq(F) /\ inbox[l] # <<>>
    BY LinkPair DEF EchoInv, EchoFrameInv, PumpTake
  <1>2. e \in F /\ Tail(inbox[l]) \in Seq(F)
    <2> HIDE DEF F
    <2> QED
      BY <1>1
  <1>3. UNCHANGED pub /\ inbox' = [inbox EXCEPT ![l] = Tail(inbox[l])]
    BY DEF PumpTake
  <1>4. \A k \in Links : inbox'[k] \in Seq(EchoFrames(k) \cup {BadFrame})
    <2>1. \A k \in Links : inbox[k] \in Seq(EchoFrames(k) \cup {BadFrame})
      BY DEF EchoInv, EchoFrameInv
    <2>2. \A k \in Links : inbox'[k] = IF k = l THEN Tail(inbox[l]) ELSE inbox[k]
      BY <1>3 DEF EchoInv, TypeOK
    <2> QED
      BY <1>2, <2>1, <2>2
  <1>5. CASE UNCHANGED <<seen, pump, delivered>>
    <2>1. \A k \in Links : pump'[k].state = "forward" => pump'[k].env \in EchoFrames(k)
      BY <1>5 DEF EchoInv, EchoFrameInv
    <2> QED
      BY <1>3, <1>4, <1>5, <2>1, EchoSame
  <1>6. CASE ~UNCHANGED <<seen, pump, delivered>>
    <2>1. /\ e # BadFrame /\ e.id \notin Range(seen[n])
          /\ seen' = [seen EXCEPT ![n] = MarkSeen(n, e.id)]
          /\ delivered' = [delivered EXCEPT ![n][m] = @ + 1]
          /\ pump' = [pump EXCEPT ![l] = [state |-> "forward", env |-> e, next |-> 1]]
      BY <1>6 DEF PumpTake
    <2>2. e \in EchoFrames(l) /\ m \in Msgs /\ e.id \in EchoIds(m) /\ pub[m].state # "new"
      BY <1>2, <2>1 DEF EchoFrames, Envelopes
    <2> DEFINE id == e.id
    <2>3. id \in EchoIds(m) /\ id \notin Range(seen[n])
          /\ seen' = [seen EXCEPT ![n] = MarkSeen(n, id)]
      BY <2>1, <2>2
    <2>4. delivered \in [Nodes -> [Msgs -> Nat]] /\ pump \in [Links -> PumpStates]
      BY DEF EchoInv, TypeOK
    <2> HIDE DEF n, m, id, F
    <2>5. /\ EchoSeenInv'
          /\ Range(seen'[n]) = Range(seen[n]) \cup {id}
          /\ \A k \in Nodes : k # n => seen'[k] = seen[k]
      BY <1>1, <2>2, <2>3, EchoMark DEF EchoInv
    <2>6. \A k \in Nodes, x \in Msgs :
              delivered'[k][x] = IF k = n /\ x = m THEN delivered[k][x] + 1 ELSE delivered[k][x]
      BY <1>1, <2>1, <2>2, <2>4, CountUp
    <2>7. EchoFrameInv'
      <3>1. \A k \in Links : EchoFrames(k)' = EchoFrames(k)
        BY <1>3 DEF EchoFrames, PositionFrame, DetectionFrame
      <3>2. \A k \in Links : pump'[k].state = "forward" => pump'[k].env \in EchoFrames(k)
        <4>1. \A k \in Links :
                  pump'[k] = IF k = l THEN [state |-> "forward", env |-> e, next |-> 1]
                             ELSE pump[k]
          BY <2>1, <2>4
        <4> QED
          BY <2>2, <4>1 DEF EchoInv, EchoFrameInv
      <3> QED
        BY <1>4, <3>1, <3>2 DEF EchoFrameInv, BadFrame
    <2>8. EchoNewInv'
      <3> SUFFICES ASSUME NEW k \in Nodes, NEW x \in Msgs, pub'[x].state = "new"
                   PROVE  <<x>> \notin Range(seen'[k]) /\ delivered'[k][x] = 0
        BY DEF EchoNewInv
      <3>1. pub[x].state = "new" /\ x # m
        BY <1>3, <2>2
      <3>2. <<x>> \notin Range(seen[k]) /\ delivered[k][x] = 0
        BY <3>1 DEF EchoInv, EchoNewInv
      <3>3. <<x>> # id
        BY <2>2, <2>3, <3>1, OwnId
      <3>4. delivered'[k][x] = 0
        BY <2>6, <3>1, <3>2
      <3>5. CASE k = n
        BY <2>5, <3>2, <3>3, <3>4, <3>5
      <3>6. CASE k # n
        BY <2>5, <3>2, <3>4, <3>6
      <3> QED
        BY <3>5, <3>6
    <2>9. EchoCountInv'
      <3> PICK c \in Msgs : c = m
        BY <2>2
      <3> PICK d \in EchoIds(c) : d = id
        BY <2>3
      <3>1. /\ Cardinality(SeenIds(n, c))' = Cardinality(SeenIds(n, c)) + 1
            /\ \A k \in Nodes, x \in Msgs :
                   Cardinality(SeenIds(k, x)) <= Cardinality(SeenIds(k, x))'
        BY <1>1, <2>3, <2>5, EchoMarkCount
      <3> SUFFICES ASSUME NEW k \in Nodes, NEW x \in Msgs
                   PROVE  delivered'[k][x] + Own(k, x)' <= Cardinality(SeenIds(k, x))'
        BY DEF EchoCountInv
      <3>2. /\ delivered[k][x] + Own(k, x) <= Cardinality(SeenIds(k, x))
            /\ delivered[k][x] \in Nat
        BY <2>4 DEF EchoInv, EchoCountInv
      <3>3. /\ Cardinality(SeenIds(k, x)) \in Nat
            /\ Cardinality(SeenIds(k, x)) <= Cardinality(SeenIds(k, x))'
        BY <3>1, SeenIdsFinite
      <3>4. Cardinality(SeenIds(k, x))' \in Nat
        <4>1. IsFiniteSet(EchoIds(x)) /\ SeenIds(k, x)' \subseteq EchoIds(x)
          BY EchoIdsCount DEF SeenIds
        <4>2. IsFiniteSet(SeenIds(k, x)')
          BY <4>1, FS_Subset
        <4> QED
          BY <4>2, FS_CardinalityType
      <3>5. Own(k, x)' = Own(k, x) /\ Own(k, x) \in Nat
        BY <1>3 DEF Own
      <3>6. CASE k = n /\ x = c
        <4>1. Cardinality(SeenIds(k, x))' = Cardinality(SeenIds(k, x)) + 1
          BY <3>1, <3>6
        <4>2. delivered'[k][x] = delivered[k][x] + 1
          BY <2>6, <3>6
        <4> QED
          BY <3>2, <3>3, <3>5, <4>1, <4>2
      <3>7. CASE ~(k = n /\ x = c)
        <4>1. delivered'[k][x] = delivered[k][x]
          BY <2>6, <3>7
        <4> QED
          BY <3>2, <3>3, <3>4, <3>5, <4>1
      <3> QED
        BY <3>6, <3>7
    <2> QED
      BY <2>5, <2>7, <2>8, <2>9 DEF EchoInv
  <1> QED
    BY <1>5, <1>6

\* The inductive invariant of loop prevention over CoT holds.
LEMMA EchoInvariant == ASSUME FewIds PROVE Spec => []EchoInv
  <1>1. Init => EchoInv
    <2> SUFFICES ASSUME Init PROVE EchoInv
      OBVIOUS
    <2>1. TypeOK
      BY TypeInit
    <2>2. /\ \A l \in Links : pump[l].state = "none" /\ inbox[l] = <<>>
          /\ \A m \in Msgs : pub[m].state = "new"
          /\ \A n \in Nodes : seen[n] = <<>> /\ \A m \in Msgs : delivered[n][m] = 0
      BY DEF Init
    <2>3. EchoFrameInv
      <3>1. \A l \in Links : <<>> \in Seq(EchoFrames(l) \cup {BadFrame})
        OBVIOUS
      <3>2. \A l \in Links : inbox[l] \in Seq(EchoFrames(l) \cup {BadFrame})
        BY <2>2, <3>1
      <3>3. \A l \in Links : pump[l].state # "forward"
        BY <2>2
      <3> QED
        BY <3>2, <3>3 DEF EchoFrameInv
    <2>4. EchoSeenInv
      BY <2>2 DEF EchoSeenInv
    <2>5. EchoNewInv
      BY <2>2 DEF EchoNewInv, Range
    <2>6. EchoCountInv
      <3> SUFFICES ASSUME NEW n \in Nodes, NEW m \in Msgs
                   PROVE  delivered[n][m] + Own(n, m) <= Cardinality(SeenIds(n, m))
        BY DEF EchoCountInv
      <3>1. delivered[n][m] = 0 /\ Own(n, m) = 0
        BY <2>2 DEF Own
      <3>2. Cardinality(SeenIds(n, m)) \in Nat
        BY SeenIdsFinite
      <3> QED
        BY <3>1, <3>2
    <2> QED
      BY <2>1, <2>3, <2>4, <2>5, <2>6 DEF EchoInv
  <1>2. EchoInv /\ [Next]_vars => EchoInv'
    <2> SUFFICES ASSUME EchoInv, [Next]_vars PROVE EchoInv'
      OBVIOUS
    <2>1. TypeOK'
      BY TypeStep DEF EchoInv
    <2>2. CASE UNCHANGED vars
      <3>1. UNCHANGED <<seen, inbox, pump, pub, delivered>>
        BY <2>2 DEF vars
      <3>2. /\ \A l \in Links : inbox'[l] \in Seq(EchoFrames(l) \cup {BadFrame})
            /\ \A l \in Links : pump'[l].state = "forward" => pump'[l].env \in EchoFrames(l)
        BY <3>1 DEF EchoInv, EchoFrameInv
      <3> QED
        BY <2>1, <3>1, <3>2, EchoSame
    <2> QED
      BY <2>1, <2>2, LifecycleEcho, NoiseEcho, PublishEcho, PublishStepEcho, PumpTakeEcho,
         PumpForwardEcho DEF Next
  <1> QED
    BY <1>1, <1>2, PTL DEF Spec

\* Router's dedupe over CoT, which rewrites msg_id: in any topology in which no detection
\* takes its track to a second CoT bus, with a cache that holds all the ids there can be, a
\* node delivers a position at most three times and a detection at most four, and the node
\* that published it once less.
THEOREM EchoTheorem == ASSUME FewIds PROVE Spec => []EchoBounded
  <1>1. EchoInv => EchoBounded
    <2> SUFFICES ASSUME EchoInv, NEW n \in Nodes, NEW m \in Msgs
                 PROVE  delivered[n][m] + (IF Origin[m] = n THEN 1 ELSE 0)
                            <= IF Kind[m] = "PLI" THEN 3 ELSE 4
      BY DEF EchoBounded
    <2>1. delivered[n][m] \in Nat
      BY DEF EchoInv, TypeOK
    <2>2. CASE pub[m].state = "new"
      <3>1. delivered[n][m] = 0
        BY <2>2 DEF EchoInv, EchoNewInv
      <3> QED
        BY <3>1
    <2>3. CASE pub[m].state # "new"
      <3>1. Own(n, m) = IF Origin[m] = n THEN 1 ELSE 0
        BY <2>3 DEF Own
      <3>2. delivered[n][m] + Own(n, m) <= Cardinality(SeenIds(n, m))
        BY DEF EchoInv, EchoCountInv
      <3>3. /\ Cardinality(SeenIds(n, m)) \in Nat
            /\ Cardinality(SeenIds(n, m)) <= Cardinality(EchoIds(m))
        BY SeenIdsFinite
      <3>4. /\ Cardinality(EchoIds(m)) <= IF Kind[m] = "PLI" THEN 3 ELSE 4
            /\ Cardinality(EchoIds(m)) \in Nat
        BY EchoIdsCount, FS_CardinalityType
      <3> QED
        BY <2>1, <3>1, <3>2, <3>3, <3>4
    <2> QED
      BY <2>2, <2>3
  <1> QED
    BY <1>1, EchoInvariant, PTL
=============================================================================
