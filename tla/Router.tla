------------------------------- MODULE Router -------------------------------
(***************************************************************************)
(* The message router (meshsa.router) of several nodes that share media.   *)
(*                                                                         *)
(* A bus is a shared medium (a LoRa mesh, a TAK server, a loopback bus): a *)
(* frame sent on it reaches the inbox of every other attached transport.   *)
(* A link <<n, b>> is node n's transport on bus b.  Each node runs one     *)
(* pump task per link and any number of publish() calls, all on one event  *)
(* loop: an await in a send is the only point where another task runs.     *)
(*                                                                         *)
(* An envelope carries its original message and the identity fields the    *)
(* codecs rewrite: id (msg_id) and uid (source_uid) are sequences of       *)
(* atoms, standing for the ":"-joined strings CoT decoding produces, time  *)
(* is the precision its ts has kept, and track tells whether the payload   *)
(* still has the detection's track id.                                     *)
(***************************************************************************)
EXTENDS Naturals, Sequences, FiniteSets, Functions

CONSTANTS
    Nodes, Buses,
    Transports,   \* Router.transports of each node: a sequence of buses
    Codec,        \* codec of each bus: "json", "compact" or "cot"
    Msgs,         \* messages that get published
    Origin,       \* the node that publishes a message
    Kind,         \* "PLI", "CHAT" or "MARKER" (a detection with a track id)
    Second,       \* the whole second of a message's ts
    CacheSize,    \* RouterConfig.dedupe_cache_size
    QueueMax,     \* RouterConfig.queue_maxsize
    MaxFaults,    \* bound on sends that raise
    MaxNoise,     \* bound on undecodable frames
    MaxStops,     \* bound on nodes that are stopped
    MaxId         \* longest id or uid the compact codec can write

ASSUME RouterAssumption ==
    /\ Transports \in [Nodes -> Seq(Buses)]
    /\ \A n \in Nodes : \A i, j \in DOMAIN Transports[n] :
           Transports[n][i] = Transports[n][j] => i = j
    /\ Codec \in [Buses -> {"json", "compact", "cot"}]
    /\ Origin \in [Msgs -> Nodes]
    /\ Kind \in [Msgs -> {"PLI", "CHAT", "MARKER"}]
    /\ DOMAIN Second = Msgs
    /\ CacheSize \in Nat /\ QueueMax \in Nat
    /\ MaxFaults \in Nat /\ MaxNoise \in Nat /\ MaxStops \in Nat /\ MaxId \in Nat

\* The transports of all nodes.
Links == {l \in Nodes \X Buses : l[2] \in Range(Transports[l[1]])}

VARIABLES
    seen,       \* Router._seen, oldest first
    inbox,      \* AbstractTransport._inbox of each link
    pump,       \* each link's _pump task
    pub,        \* the publish() call of each message
    life,       \* each node's lifecycle
    faults,     \* sends that have raised
    noise,      \* undecodable frames sent so far
    delivered,  \* history: how often subscribers of a node got a message
    sent        \* history: how often a link has sent a message

vars == <<seen, inbox, pump, pub, life, faults, noise, delivered, sent>>

-----------------------------------------------------------------------------
(* Codecs *)

FreshIdFromClock(m) == [msg |-> m, id |-> <<Second[m]>>, uid |-> <<Origin[m]>>,
                        time |-> "ms", track |-> Kind[m] = "MARKER"]

\* The envelope the origin builds.
Fresh(m) == [msg |-> m, id |-> <<m>>, uid |-> <<Origin[m]>>, time |-> "ms",
             track |-> Kind[m] = "MARKER"]

\* The time attribute of a CoT event: exact to the millisecond, or the second.
Stamp(e) == IF e.time = "ms" THEN e.msg ELSE Second[e.msg]

EventUidFromId(e) == e.id

\* The uid attribute of the CoT event an envelope becomes.
EventUid(e) ==
    CASE Kind[e.msg] = "PLI"    -> e.uid
      [] Kind[e.msg] = "CHAT"   -> e.id
      [] Kind[e.msg] = "MARKER" -> IF e.track THEN Append(e.uid, "track") ELSE e.uid

\* What a receiver on bus b decodes from the frame of envelope e.  JSON keeps the fields,
\* the compact codec truncates ts and drops the detection, and CoT has no msg_id: decoding
\* makes one from the event's uid and time.
Transcode(b, e) ==
    CASE Codec[b] = "json"    -> e
      [] Codec[b] = "compact" -> [e EXCEPT !.time = "s", !.track = FALSE]
      [] Codec[b] = "cot"     ->
           [e EXCEPT !.id = Append(EventUid(e), Stamp(e)), !.uid = EventUid(e)]

\* Encoding raises for what the compact codec cannot write.
Encodable(b, e) == Codec[b] = "compact" => Len(e.id) <= MaxId /\ Len(e.uid) <= MaxId

\* A frame no codec decodes.
BadFrame == [msg |-> "bad"]

-----------------------------------------------------------------------------

Idle == [state |-> "wait"]

Init ==
    /\ seen = [n \in Nodes |-> <<>>]
    /\ inbox = [l \in Links |-> <<>>]
    /\ pump = [l \in Links |-> [state |-> "none"]]
    /\ pub = [m \in Msgs |-> [state |-> "new"]]
    /\ life = [n \in Nodes |-> "new"]
    /\ faults = 0
    /\ noise = 0
    /\ delivered = [n \in Nodes |-> [m \in Msgs |-> 0]]
    /\ sent = [l \in Links |-> [m \in Msgs |-> 0]]

MarkSeenOneShort(n, id) ==
    LET s == Append(seen[n], id)
    IN  IF Len(s) >= CacheSize THEN Tail(s) ELSE s

\* _mark_seen of an id that is not in the cache.
MarkSeen(n, id) ==
    LET s == Append(seen[n], id)
    IN  SubSeq(s, IF Len(s) > CacheSize THEN Len(s) - CacheSize + 1 ELSE 1, Len(s))

\* _ingest_nowait: a full inbox drops the newest frame.
Ingest(q, e) == IF Len(q) < QueueMax THEN Append(q, e) ELSE q

\* The bus hands the frame to every other transport on it.
Broadcast(n, b, e) ==
    inbox' = [l \in Links |-> IF l[2] = b /\ l[1] # n THEN Ingest(inbox[l], Transcode(b, e))
                              ELSE inbox[l]]

\* Node n encodes e and sends it on its i-th transport, or one of the two raises.
SendOk(n, i, e) ==
    LET b == Transports[n][i]
    IN  /\ Encodable(b, e)
        /\ Broadcast(n, b, e)
        /\ sent' = [sent EXCEPT ![<<n, b>>][e.msg] = @ + 1]
        /\ UNCHANGED faults

SendRaises(n, i, e) ==
    /\ \/ /\ ~Encodable(Transports[n][i], e)
          /\ UNCHANGED faults
       \/ /\ faults < MaxFaults
          /\ faults' = faults + 1
    /\ UNCHANGED <<inbox, sent>>

-----------------------------------------------------------------------------
(* Lifecycle *)

\* Node.start: the transports, then one pump task each.
Start(n) ==
    /\ life[n] = "new"
    /\ life' = [life EXCEPT ![n] = "running"]
    /\ pump' = [l \in Links |-> IF l[1] = n THEN Idle ELSE pump[l]]
    /\ UNCHANGED <<seen, inbox, pub, faults, noise, delivered, sent>>

\* A transport's start raises: no pump is created, and nothing stops the transports
\* already started.
StartRaises(n) ==
    /\ life[n] = "new"
    /\ faults < MaxFaults
    /\ faults' = faults + 1
    /\ life' = [life EXCEPT ![n] = "start_raised"]
    /\ UNCHANGED <<seen, inbox, pump, pub, noise, delivered, sent>>

\* Router.stop cancels and awaits the pumps; a pump that died re-raises there, and
\* the transports stay up.
Stop(n) ==
    /\ life[n] = "running"
    /\ Cardinality({k \in Nodes : life[k] \in {"stopped", "stop_raised"}}) < MaxStops
    /\ life' = [life EXCEPT ![n] = IF \E l \in Links : l[1] = n /\ pump[l].state = "dead"
                                   THEN "stop_raised" ELSE "stopped"]
    /\ pump' = [l \in Links |-> IF l[1] = n /\ pump[l].state # "dead"
                                THEN [state |-> "none"] ELSE pump[l]]
    /\ UNCHANGED <<seen, inbox, pub, faults, noise, delivered, sent>>

-----------------------------------------------------------------------------
(* Router.publish *)

PublishUnmarked(m) ==
    LET n == Origin[m]
    IN  /\ pub[m].state = "new"
        /\ life[n] = "running"
        /\ pub' = [pub EXCEPT ![m] = [state |-> "sending", next |-> 1]]
        /\ UNCHANGED <<seen, inbox, pump, life, faults, noise, delivered, sent>>

PublishFromZero(m) ==
    LET n == Origin[m]
    IN  /\ pub[m].state = "new"
        /\ life[n] = "running"
        /\ seen' = [seen EXCEPT ![n] = MarkSeen(n, Fresh(m).id)]
        /\ pub' = [pub EXCEPT ![m] = [state |-> "sending", next |-> 0]]
        /\ UNCHANGED <<inbox, pump, life, faults, noise, delivered, sent>>

\* publish marks the id as seen, then sends on every transport in turn.
Publish(m) ==
    LET n == Origin[m]
    IN  /\ pub[m].state = "new"
        /\ life[n] = "running"
        /\ seen' = [seen EXCEPT ![n] = MarkSeen(n, Fresh(m).id)]
        /\ pub' = [pub EXCEPT ![m] = [state |-> "sending", next |-> 1]]
        /\ UNCHANGED <<inbox, pump, life, faults, noise, delivered, sent>>

PublishStep(m) ==
    LET n == Origin[m]
        i == pub[m].next
    IN  /\ pub[m].state = "sending"
        /\ \/ /\ i <= Len(Transports[n])
              /\ SendOk(n, i, Fresh(m))
              /\ pub' = [pub EXCEPT ![m].next = i + 1]
           \/ /\ i <= Len(Transports[n])
              /\ SendRaises(n, i, Fresh(m))
              /\ pub' = [pub EXCEPT ![m] = [state |-> "failed"]]
           \/ /\ i > Len(Transports[n])
              /\ pub' = [pub EXCEPT ![m] = [state |-> "done"]]
              /\ UNCHANGED <<inbox, sent, faults>>
        /\ UNCHANGED <<seen, pump, life, noise, delivered>>

-----------------------------------------------------------------------------
(* Router._pump *)

PumpTakeAll(l) ==
    LET n == l[1]
        e == Head(inbox[l])
    IN  /\ pump[l].state = "wait"
        /\ inbox[l] # <<>>
        /\ inbox' = [inbox EXCEPT ![l] = Tail(@)]
        /\ IF e = BadFrame
           THEN UNCHANGED <<seen, pump, delivered>>
           ELSE /\ seen' = [seen EXCEPT ![n] = MarkSeen(n, e.id)]
                /\ delivered' = [delivered EXCEPT ![n][e.msg] = @ + 1]
                /\ pump' = [pump EXCEPT ![l] = [state |-> "forward", env |-> e, next |-> 1]]
        /\ UNCHANGED <<pub, life, faults, noise, sent>>

\* The pump of link l takes a frame: undecodable and duplicate ones are dropped,
\* the others are delivered to the subscribers, whose exceptions are swallowed.
PumpTake(l) ==
    LET n == l[1]
        e == Head(inbox[l])
    IN  /\ pump[l].state = "wait"
        /\ inbox[l] # <<>>
        /\ inbox' = [inbox EXCEPT ![l] = Tail(@)]
        /\ IF e = BadFrame \/ e.id \in Range(seen[n])
           THEN UNCHANGED <<seen, pump, delivered>>
           ELSE /\ seen' = [seen EXCEPT ![n] = MarkSeen(n, e.id)]
                /\ delivered' = [delivered EXCEPT ![n][e.msg] = @ + 1]
                /\ pump' = [pump EXCEPT ![l] = [state |-> "forward", env |-> e, next |-> 1]]
        /\ UNCHANGED <<pub, life, faults, noise, sent>>

PumpForwardStopsShort(l) ==
    LET n == l[1]
        i == pump[l].next
    IN  /\ pump[l].state = "forward"
        /\ \/ /\ i >= Len(Transports[n])
              /\ pump' = [pump EXCEPT ![l] = Idle]
              /\ UNCHANGED <<inbox, sent, faults>>
           \/ /\ i < Len(Transports[n])
              /\ Transports[n][i] = l[2]
              /\ pump' = [pump EXCEPT ![l].next = i + 1]
              /\ UNCHANGED <<inbox, sent, faults>>
           \/ /\ i < Len(Transports[n])
              /\ Transports[n][i] # l[2]
              /\ SendOk(n, i, pump[l].env)
              /\ pump' = [pump EXCEPT ![l].next = i + 1]
           \/ /\ i < Len(Transports[n])
              /\ Transports[n][i] # l[2]
              /\ SendRaises(n, i, pump[l].env)
              /\ pump' = [pump EXCEPT ![l] = [state |-> "dead"]]
        /\ UNCHANGED <<seen, pub, life, noise, delivered>>

\* One step of the bridging loop: every transport but the source.  A send that
\* raises ends the task.
PumpForward(l) ==
    LET n == l[1]
        i == pump[l].next
    IN  /\ pump[l].state = "forward"
        /\ \/ /\ i > Len(Transports[n])
              /\ pump' = [pump EXCEPT ![l] = Idle]
              /\ UNCHANGED <<inbox, sent, faults>>
           \/ /\ i <= Len(Transports[n])
              /\ Transports[n][i] = l[2]
              /\ pump' = [pump EXCEPT ![l].next = i + 1]
              /\ UNCHANGED <<inbox, sent, faults>>
           \/ /\ i <= Len(Transports[n])
              /\ Transports[n][i] # l[2]
              /\ SendOk(n, i, pump[l].env)
              /\ pump' = [pump EXCEPT ![l].next = i + 1]
           \/ /\ i <= Len(Transports[n])
              /\ Transports[n][i] # l[2]
              /\ SendRaises(n, i, pump[l].env)
              /\ pump' = [pump EXCEPT ![l] = [state |-> "dead"]]
        /\ UNCHANGED <<seen, pub, life, noise, delivered>>

\* Something on the medium that the codec cannot decode.
Noise(l) ==
    /\ noise < MaxNoise
    /\ noise' = noise + 1
    /\ inbox' = [inbox EXCEPT ![l] = Ingest(@, BadFrame)]
    /\ UNCHANGED <<seen, pump, pub, life, faults, delivered, sent>>

Next ==
    \/ \E n \in Nodes : Start(n) \/ StartRaises(n) \/ Stop(n)
    \/ \E m \in Msgs : Publish(m) \/ PublishStep(m)
    \/ \E l \in Links : PumpTake(l) \/ PumpForward(l) \/ Noise(l)

Spec == Init /\ [][Next]_vars

\* The event loop runs every task that can run; nodes are started.
Fairness ==
    /\ \A n \in Nodes : WF_vars(Start(n))
    /\ \A m \in Msgs : WF_vars(PublishStep(m))
    /\ \A l \in Links : WF_vars(PumpTake(l)) /\ WF_vars(PumpForward(l))

FairSpec == Spec /\ Fairness

-----------------------------------------------------------------------------
(* Properties *)

Atoms == Msgs \cup Nodes \cup {"track"} \cup {Second[m] : m \in Msgs}

Envelopes == [msg : Msgs, id : Seq(Atoms), uid : Seq(Atoms), time : {"ms", "s"},
              track : BOOLEAN]

PumpStates == [state : {"none", "wait", "dead"}]
              \cup [state : {"forward"}, env : Envelopes, next : Nat \ {0}]

PubStates == [state : {"new", "done", "failed"}] \cup [state : {"sending"}, next : Nat \ {0}]

\* Type invariant.  Seq(...) is tested with membership, never enumerated.
TypeOK ==
    /\ seen \in [Nodes -> Seq(Seq(Atoms))]
    /\ inbox \in [Links -> Seq(Envelopes \cup {BadFrame})]
    /\ pump \in [Links -> PumpStates]
    /\ pub \in [Msgs -> PubStates]
    /\ life \in [Nodes -> {"new", "running", "stopped", "stop_raised", "start_raised"}]
    /\ faults \in Nat
    /\ noise \in Nat
    /\ delivered \in [Nodes -> [Msgs -> Nat]]
    /\ sent \in [Links -> [Msgs -> Nat]]

\* Node n has published m, or delivered it.
Handled(n, m) == delivered[n][m] > 0 \/ (Origin[m] = n /\ pub[m].state # "new")

\* Every bus keeps msg_id, and the dedupe cache holds an id per message.
IdPreserving ==
    /\ \A b \in Buses : Codec[b] # "cot"
    /\ IsFiniteSet(Msgs) /\ Cardinality(Msgs) <= CacheSize

\* Loop prevention, subscribers: with codecs that keep msg_id, whatever the topology,
\* no node hands a message to its subscribers twice, nor a message of its own at all.
DeliveredOnce ==
    \A n \in Nodes, m \in Msgs :
        delivered[n][m] <= IF Origin[m] = n /\ pub[m].state # "new" THEN 0 ELSE 1

\* Loop prevention, media: no transport puts a message on its bus twice, although the
\* pumps and publish() calls of its node all send on it.
SentOnce == \A l \in Links, m \in Msgs : sent[l][m] <= 1

\* _pump drops a frame as a duplicate only when its node has handled the message.
DropIsDuplicate ==
    [][\A l \in Links :
          (PumpTake(l) /\ Head(inbox[l]) # BadFrame /\ UNCHANGED delivered)
              => Handled(l[1], Head(inbox[l]).msg)]_vars

\* The ids under which a position or a detection travels: the published one, and those
\* that CoT decoding makes of its uid, with or without the track, and its exact or
\* truncated time.
EchoIds(m) ==
    LET o == Origin[m]
    IN  {<<m>>} \cup IF Kind[m] = "PLI"
                    THEN {<<o, m>>, <<o, Second[m]>>}
                    ELSE {<<o, "track", m>>, <<o, Second[m]>>, <<o, "track", Second[m]>>}

AllEchoIds == UNION {EchoIds(m) : m \in Msgs}

\* The links T that a detection may reach with its track after a CoT hop: every CoT link,
\* and on from there over JSON; none of them leads to a second CoT bus, where the track
\* would be appended to the uid once more.
TrackLinks(T) ==
    /\ \A l \in Links : Codec[l[2]] = "cot" => l \in T
    /\ \A k \in T, c \in Buses :
           c \in Range(Transports[k[1]]) /\ c # k[2] =>
               /\ Codec[c] # "cot"
               /\ Codec[c] = "json" => \A l \in Links : l[2] = c /\ l[1] # k[1] => l \in T

\* Every message travels under a few ids, and the dedupe cache holds them all.
FewIds ==
    /\ \A m \in Msgs : Kind[m] # "CHAT"
    /\ (\E m \in Msgs : Kind[m] = "MARKER") => \E T \in SUBSET Links : TrackLinks(T)
    /\ IsFiniteSet(AllEchoIds) /\ Cardinality(AllEchoIds) <= CacheSize

\* Loop prevention over CoT, for positions and detections: a message comes back under at
\* most two rewritten ids, a detection with a track under three, so a node hands it to its
\* subscribers no oftener before every echo of it is recognised.
EchoBounded ==
    \A n \in Nodes, m \in Msgs :
        delivered[n][m] + (IF Origin[m] = n THEN 1 ELSE 0) <= IF Kind[m] = "PLI" THEN 3 ELSE 4

\* The hot path tolerates faults: a pump never dies.
PumpsSurvive == \A l \in Links : pump[l].state # "dead"

\* While every node stays up, a published message reaches the subscribers of every
\* other node.
Propagation ==
    \A m \in Msgs :
        pub[m].state # "new"
            ~> ((\A n \in Nodes : Handled(n, m)) \/ \E k \in Nodes : life[k] = "stopped")

\* Echoes die out: the pumps run out of frames to take and forward.
Quiescence ==
    <>[](\A l \in Links : pump[l].state # "forward"
                          /\ (pump[l].state = "wait" => inbox[l] = <<>>))

\* Traffic settles: each message gets everywhere, and its echoes die out.
Settles == Propagation /\ Quiescence

\* What bridging promises: each node handles each message once.
Bridge == INSTANCE Flood WITH
    handled <- {p \in Nodes \X Msgs : Handled(p[1], p[2])},
    Share <- [n \in Nodes |-> Range(Transports[n])]

Flooding == Bridge!Spec
=============================================================================
