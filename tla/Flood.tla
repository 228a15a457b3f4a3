-------------------------------- MODULE Flood --------------------------------
(***************************************************************************)
(* What the routers of a mesh promise together: a published message        *)
(* spreads from node to node over the buses they share, and every node     *)
(* other than its origin hands it to its subscribers once.                 *)
(***************************************************************************)
EXTENDS Naturals

CONSTANTS Nodes, Msgs, Origin,
          Share            \* the buses each node is attached to

VARIABLES handled,         \* the pairs <<node, message>> that are done
          delivered        \* how often the subscribers of a node got a message

Init ==
    /\ handled = {}
    /\ delivered = [n \in Nodes |-> [m \in Msgs |-> 0]]

Publish(m) ==
    /\ <<Origin[m], m>> \notin handled
    /\ handled' = handled \cup {<<Origin[m], m>>}
    /\ UNCHANGED delivered

\* n gets m from a neighbour that has it.
Deliver(n, m) ==
    /\ <<n, m>> \notin handled
    /\ \E k \in Nodes : k # n /\ Share[k] \cap Share[n] # {} /\ <<k, m>> \in handled
    /\ handled' = handled \cup {<<n, m>>}
    /\ delivered' = [delivered EXCEPT ![n][m] = @ + 1]

Next == \E m \in Msgs : Publish(m) \/ \E n \in Nodes : Deliver(n, m)

Spec == Init /\ [][Next]_<<handled, delivered>>
=============================================================================
