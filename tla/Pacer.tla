-------------------------------- MODULE Pacer --------------------------------
(***************************************************************************)
(* The token bucket of meshsa.transports.pacing, shared by the concurrent  *)
(* send() calls of one transport.  Tokens are counted in clock ticks:      *)
(* Interval ticks of credit are one token, so refilling for an elapsed     *)
(* time is an addition.                                                    *)
(***************************************************************************)
EXTENDS Naturals

CONSTANTS
    Callers,    \* tasks that send, one frame after the other
    Interval,   \* ticks per token, 1 / rate_hz
    Burst       \* tokens the bucket holds

ConstantsOK == Interval \in Nat \ {0} /\ Burst \in Nat \ {0}

VARIABLES
    pcTokens,   \* _tokens, in ticks
    pcElapsed,  \* time since _last, up to what fills the bucket
    pcLeft,     \* for each caller, what is left of its sleep, Awake if it does not sleep
    pcLevel     \* history: a bucket per caller that drains at the rate and gains a token's
                \* worth at each of its sends

vars == <<pcTokens, pcElapsed, pcLeft, pcLevel>>

Capacity == Burst * Interval
Awake == Interval + 1   \* longer than any sleep

Least(a, b) == IF a < b THEN a ELSE b

Init ==
    /\ pcTokens = Capacity
    /\ pcElapsed = 0
    /\ pcLeft = [p \in Callers |-> Awake]
    /\ pcLevel = [p \in Callers |-> 0]

\* A sleep may last longer than asked for.
Tick ==
    /\ pcElapsed' = Least(pcElapsed + 1, Capacity)
    /\ pcLeft' = [p \in Callers |-> IF pcLeft[p] \in {Awake, 0} THEN pcLeft[p]
                                    ELSE pcLeft[p] - 1]
    /\ pcLevel' = [p \in Callers |-> IF pcLevel[p] = 0 THEN 0 ELSE pcLevel[p] - 1]
    /\ UNCHANGED pcTokens

Sent(p) == pcLevel' = [pcLevel EXCEPT ![p] = @ + Interval]

AcquireUncapped(p) ==
    LET tokens == pcTokens + pcElapsed
    IN  /\ pcLeft[p] = Awake
        /\ pcElapsed' = 0
        /\ IF tokens < Interval
           THEN /\ pcTokens' = tokens
                /\ pcLeft' = [pcLeft EXCEPT ![p] = Interval - tokens]
                /\ UNCHANGED pcLevel
           ELSE /\ pcTokens' = tokens - Interval
                /\ Sent(p)
                /\ UNCHANGED pcLeft

\* acquire() up to its sleep: the bucket is refilled for the time that has passed.
Acquire(p) ==
    LET tokens == Least(Capacity, pcTokens + pcElapsed)
    IN  /\ pcLeft[p] = Awake
        /\ pcElapsed' = 0
        /\ IF tokens < Interval
           THEN /\ pcTokens' = tokens
                /\ pcLeft' = [pcLeft EXCEPT ![p] = Interval - tokens]
                /\ UNCHANGED pcLevel
           ELSE /\ pcTokens' = tokens - Interval
                /\ Sent(p)
                /\ UNCHANGED pcLeft

WakeKeepsLast(p) ==
    /\ pcLeft[p] = 0
    /\ pcTokens' = 0
    /\ pcLeft' = [pcLeft EXCEPT ![p] = Awake]
    /\ Sent(p)
    /\ UNCHANGED pcElapsed

\* The sleep is over: the token it waited for is consumed.
Wake(p) ==
    /\ pcLeft[p] = 0
    /\ pcTokens' = 0
    /\ pcElapsed' = 0
    /\ pcLeft' = [pcLeft EXCEPT ![p] = Awake]
    /\ Sent(p)

Next == Tick \/ \E p \in Callers : Acquire(p) \/ Wake(p)

Spec == Init /\ [][Next]_vars

-----------------------------------------------------------------------------
(* Properties *)

TypeOK ==
    /\ pcTokens \in 0..Capacity
    /\ pcElapsed \in 0..Capacity
    /\ pcLeft \in [Callers -> 0..Awake]
    /\ pcLevel \in [Callers -> Nat]

\* However the callers interleave and oversleep, the frames of one caller in any period are
\* at most the burst and what the rate allows for the period.
CallerPaced == \A p \in Callers : pcLevel[p] <= Capacity
=============================================================================
