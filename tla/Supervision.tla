----------------------------- MODULE Supervision -----------------------------
(***************************************************************************)
(* What the commanding service promises about each command it stages: its  *)
(* fate is decided once, by someone who was told of a staging on record;   *)
(* only a confirmed command is transmitted, after a verdict on record that *)
(* lets it pass, at most MaxSends times, and each time after a record of   *)
(* its own.  Nobody is promised that a command gets anywhere: it may stay  *)
(* where it is for ever.                                                   *)
(***************************************************************************)
EXTENDS Naturals

CONSTANTS Commands, MaxSends

VARIABLES
    fate,    \* what has been decided about each command
    trail,   \* the durable records: <<event, command, number>>
    sent     \* how often each command was transmitted

Init ==
    /\ fate = [c \in Commands |-> "none"]
    /\ trail = {}
    /\ sent = [c \in Commands |-> 0]

Stage(c) ==
    /\ fate[c] = "none"
    /\ fate' = [fate EXCEPT ![c] = "staged"]
    /\ UNCHANGED <<trail, sent>>

Decide(c) ==
    /\ fate[c] = "staged"
    /\ <<"command_staged", c, 0>> \in trail
    /\ \E decision \in {"confirmed", "withdrawn"} : fate' = [fate EXCEPT ![c] = decision]
    /\ UNCHANGED <<trail, sent>>

Passed(c) == <<"command_confirmed", c, 0>> \in trail
Refused(c) == <<"arm_blocked", c, 0>> \in trail

\* The records that may be written about a command, and when.
Record(c) ==
    /\ \/ /\ fate[c] # "none"
          /\ trail' = trail \cup {<<"command_staged", c, 0>>}
       \/ /\ fate[c] = "confirmed" /\ ~Passed(c) /\ ~Refused(c)
          /\ \E verdict \in {"command_confirmed", "arm_blocked"} :
                 trail' = trail \cup {<<verdict, c, 0>>}
       \/ /\ Passed(c) /\ sent[c] < MaxSends
          /\ trail' = trail \cup {<<"command_attempt", c, sent[c] + 1>>}
    /\ UNCHANGED <<fate, sent>>

Transmit(c) ==
    /\ fate[c] = "confirmed" /\ Passed(c) /\ ~Refused(c)
    /\ <<"command_attempt", c, sent[c] + 1>> \in trail
    /\ sent' = [sent EXCEPT ![c] = @ + 1]
    /\ UNCHANGED <<fate, trail>>

Next == \E c \in Commands : Stage(c) \/ Decide(c) \/ Record(c) \/ Transmit(c)

Spec == Init /\ [][Next]_<<fate, trail, sent>>
=============================================================================
