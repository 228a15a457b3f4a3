--------------------------- MODULE MCFlightLogger ---------------------------
(* Records for checking FlightLogger with TLC. *)
EXTENDS FlightLogger

SomeRecords == {"r1", "r2", "e1", "e2"}
SomeStreams == [r1 |-> "rc", r2 |-> "rc", e1 |-> "events", e2 |-> "events"]
=============================================================================
