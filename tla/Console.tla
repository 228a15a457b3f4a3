------------------------------ MODULE Console ------------------------------
(***************************************************************************)
(* The current picture of the operator console, meshsa.ui: the router      *)
(* hands each envelope to SnapshotStore.handle, the web handlers sweep and *)
(* serve, and LogRing keeps the tail of the log.  All of it runs on one    *)
(* event loop, so each call is one step; the order in which envelopes      *)
(* arrive and the polls of the page is what varies.                        *)
(*                                                                         *)
(* Both kinds of entry go by the same code: "kind" says which, and a key   *)
(* stands for a source, for a source and its track id, or for a msg_id.    *)
(***************************************************************************)
EXTENDS Integers, SequencesExt

CONSTANTS
    Keys,        \* the keys of each kind
    Cap,         \* max_tracks and max_detections
    StaleAfter,  \* track_stale_s and detection_stale_s
    RingSize,    \* log_ring_size
    MaxTime,     \* bound on the clock
    MaxMessages, \* bound on valid envelopes
    MaxEvents    \* bound on log events

Kinds == {"tracks", "detections"}

ConstantsOK ==
    /\ {Cap[k] : k \in Kinds} \cup {StaleAfter[k] : k \in Kinds} \cup {RingSize} \subseteq Nat \ {0}
    /\ {MaxTime, MaxMessages, MaxEvents} \subseteq Nat

VARIABLES
    coNow,       \* the clock
    coEntries,   \* _tracks and _detections: keys, oldest first, and when they were seen
    coCount,     \* the counters of each kind
    coRing,      \* LogRing._entries
    coHeard,     \* history: valid envelopes of each kind in the order they came
    coNew,       \* history: how often a key joined
    coLogged     \* history: log events at or above the floor

vars == <<coNow, coEntries, coCount, coRing, coHeard, coNew, coLogged>>

Counters == Kinds \X {"evicted", "expired"}

Init ==
    /\ coNow = 0
    /\ coEntries = [k \in Kinds |-> <<>>]
    /\ coCount = [c \in Counters |-> 0]
    /\ coRing = <<>>
    /\ coHeard = [k \in Kinds |-> <<>>]
    /\ coNew = [k \in Kinds |-> 0]
    /\ coLogged = <<>>

Tick ==
    /\ coNow < MaxTime
    /\ coNow' = coNow + 1
    /\ UNCHANGED <<coEntries, coCount, coRing, coHeard, coNew, coLogged>>

-----------------------------------------------------------------------------
(* SnapshotStore *)

Holds(entries, key) == \E i \in DOMAIN entries : entries[i].key = key

\* The entries at the places P, in their order; Nth is the n-th lowest of them.
Nth(P, n) == CHOOSE i \in P : Cardinality({j \in P : j <= i}) = n
At(entries, P) == [n \in 1..Cardinality(P) |-> entries[Nth(P, n)]]

Without(entries, key) == At(entries, {i \in DOMAIN entries : entries[i].key # key})

MovedInPlace(entries, key) ==
    IF Holds(entries, key)
    THEN [i \in DOMAIN entries |->
             IF entries[i].key = key THEN [key |-> key, seen |-> coNow] ELSE entries[i]]
    ELSE Append(entries, [key |-> key, seen |-> coNow])

\* An entry that is there already moves to the end.
Moved(entries, key) == Append(Without(entries, key), [key |-> key, seen |-> coNow])

\* _upsert of an envelope with a usable position: the oldest make room.
Upsert(k, key) ==
    /\ Len(coHeard.tracks) + Len(coHeard.detections) < MaxMessages
    /\ LET moved == Moved(coEntries[k], key)
           over == IF Len(moved) > Cap[k] THEN Len(moved) - Cap[k] ELSE 0
       IN  /\ coEntries' = [coEntries EXCEPT ![k] = SubSeq(moved, over + 1, Len(moved))]
           /\ coCount' = [coCount EXCEPT ![<<k, "evicted">>] = @ + over]
    /\ coNew' = [coNew EXCEPT ![k] = @ + IF Holds(coEntries[k], key) THEN 0 ELSE 1]
    /\ coHeard' = [coHeard EXCEPT ![k] = Append(@, [key |-> key, seen |-> coNow])]
    /\ UNCHANGED <<coNow, coRing, coLogged>>

\* deque(maxlen)
Bounded(entries) == IF Len(entries) > RingSize THEN Tail(entries) ELSE entries

\* LogRing.processor keeps an event at or above the floor.  One such event is the drop of an
\* envelope without a usable position, which leaves the entry of its key as it was.
Log ==
    /\ Len(coLogged) < MaxEvents
    /\ LET event == Len(coLogged) + 1
       IN  coRing' = Bounded(Append(coRing, event)) /\ coLogged' = Append(coLogged, event)
    /\ UNCHANGED <<coNow, coEntries, coCount, coHeard, coNew>>

\* What _sweep leaves.
IsFresh(entry, k) == entry.seen >= coNow - StaleAfter[k]
Fresh(entries, k) == At(entries, {i \in DOMAIN entries : IsFresh(entries[i], k)})

\* tracks_geojson, detections_geojson, and counters, which sweeps both.
Read(K) ==
    /\ coEntries' = [k \in Kinds |-> IF k \in K THEN Fresh(coEntries[k], k) ELSE coEntries[k]]
    /\ coCount' = [c \in Counters |->
                       IF c[2] = "expired"
                       THEN coCount[c] + Len(coEntries[c[1]]) - Len(coEntries'[c[1]])
                       ELSE coCount[c]]
    /\ UNCHANGED <<coNow, coRing, coHeard, coNew, coLogged>>

Next ==
    \/ Tick
    \/ \E k \in Kinds, key \in Keys : Upsert(k, key)
    \/ Log
    \/ \E K \in {{k} : k \in Kinds} \cup {Kinds} : Read(K)

Spec == Init /\ [][Next]_vars

-----------------------------------------------------------------------------
(* Properties *)

TypeOK ==
    /\ coNow \in 0..MaxTime
    /\ coEntries \in [Kinds -> Seq([key : Keys, seen : 0..MaxTime])]
    /\ coCount \in [Counters -> Nat]
    /\ coRing \in Seq(1..MaxEvents) /\ coLogged \in Seq(1..MaxEvents)

\* The last place of each key among the envelopes heard, and the Cap latest of those.
LastHeard(heard) ==
    {i \in DOMAIN heard : \A j \in DOMAIN heard : heard[j].key = heard[i].key => j <= i}
Newest(heard, k) ==
    {i \in LastHeard(heard) : Cardinality({j \in LastHeard(heard) : j >= i}) <= Cap[k]}

\* Whatever was evicted, expired and heard again, and however rarely the page polls: a read
\* would serve just the last Cap sources that were heard and are not stale, each once, as it
\* was last heard.
PictureCurrent ==
    \A k \in Kinds :
        LET heard == coHeard[k]
        IN  Fresh(coEntries[k], k) = At(heard, {i \in Newest(heard, k) : IsFresh(heard[i], k)})

\* No entry leaves unseen: the counters account for all that ever joined.
EntriesAccounted ==
    \A k \in Kinds : coNew[k] = Len(coEntries[k]) + coCount[<<k, "evicted">>] + coCount[<<k, "expired">>]

\* The ring holds the last events, in order.
RingIsTail ==
    coRing = SubSeq(coLogged, IF Len(coLogged) > RingSize THEN Len(coLogged) - RingSize + 1 ELSE 1,
                    Len(coLogged))
=============================================================================
