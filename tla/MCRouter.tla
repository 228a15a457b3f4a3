------------------------------ MODULE MCRouter ------------------------------
(***************************************************************************)
(* Instances of Router: topologies, codecs and message sets.               *)
(***************************************************************************)
EXTENDS Router

\* Two gateways between the same LoRa mesh and TAK server.
TwinNodes == {"a", "b"}
TwinBuses == {"mesh", "tak"}
TwinTransports == [a |-> <<"mesh", "tak">>, b |-> <<"mesh", "tak">>]
TwinCodec == [mesh |-> "compact", tak |-> "cot"]
JsonTwinCodec == [mesh |-> "compact", tak |-> "json"]

\* The same gateways, one of which also bridges to a wired node.
EdgeNodes == {"a", "b", "u"}
EdgeBuses == {"mesh", "tak", "lan"}
EdgeTransports == [a |-> <<"mesh", "tak">>, b |-> <<"mesh", "tak", "lan">>, u |-> <<"lan">>]
EdgeCodec == [mesh |-> "compact", tak |-> "cot", lan |-> "json"]

OneMsg == {"m1"}
TwoMsgs == {"m1", "m2"}
FromAB == [m1 |-> "a", m2 |-> "b"]
OneFromA == [m \in OneMsg |-> "a"]
Positions == [m \in TwoMsgs |-> "PLI"]
OneMarker == [m \in OneMsg |-> "MARKER"]
OneChat == [m \in OneMsg |-> "CHAT"]
SameSecond == [m \in TwoMsgs |-> "s1"]
OneSecond == [m \in OneMsg |-> "s1"]

\* Every instance is one that the theorems of loop prevention are about, save those in
\* which a chat circulates.
ASSUME LoopInstances == IdPreserving \/ FewIds \/ \E m \in Msgs : Kind[m] = "CHAT"
=============================================================================
