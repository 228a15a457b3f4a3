---------------------------- MODULE TakMulticast ----------------------------
(***************************************************************************)
(* TakMulticastTransport of meshsa.transports.tak_multicast: a receive     *)
(* loop that closes and rebuilds its socket after an error, and send()     *)
(* calls that use whatever socket there is.                                *)
(***************************************************************************)
EXTENDS Naturals

CONSTANTS
    MaxStarts,   \* bound on start() calls
    MaxFaults    \* bound on sockets that fail, or cannot be built

ConstantsOK == MaxStarts \in Nat /\ MaxFaults \in Nat

VARIABLES
    mcOwner,    \* the task that calls start() and stop()
    mcTask,     \* control state of the receive loop
    mcIo,       \* _io: the number of a socket, or 0 for None
    mcOpen,     \* the sockets that are open
    mcBuilt,    \* sockets built so far
    mcStarts,   \* start() calls so far
    mcFaults    \* faults so far

vars == <<mcOwner, mcTask, mcIo, mcOpen, mcBuilt, mcStarts, mcFaults>>

Init ==
    /\ mcOwner = "down"
    /\ mcTask = "none"
    /\ mcIo = 0
    /\ mcOpen = {}
    /\ mcBuilt = 0
    /\ mcStarts = 0
    /\ mcFaults = 0

Fault == mcFaults < MaxFaults /\ mcFaults' = mcFaults + 1

\* The socket factory returns, or raises while the interface is down.
Build ==
    /\ mcBuilt' = mcBuilt + 1
    /\ mcIo' = mcBuilt + 1
    /\ mcOpen' = mcOpen \cup {mcBuilt + 1}
    /\ UNCHANGED mcFaults

BuildRaises == Fault /\ UNCHANGED <<mcIo, mcOpen, mcBuilt>>

CloseIo == mcIo' = 0 /\ mcOpen' = mcOpen \ {mcIo}

\* start(): a socket that cannot be built makes it raise.
Start ==
    /\ mcOwner = "down"
    /\ mcStarts < MaxStarts
    /\ mcStarts' = mcStarts + 1
    /\ \/ Build /\ mcOwner' = "up" /\ mcTask' = "recv"
       \/ BuildRaises /\ UNCHANGED <<mcOwner, mcTask>>

\* The loop builds a new socket; if that raises too, it sleeps and tries again.
Rebuild ==
    /\ mcTask = "rebuild"
    /\ \/ Build /\ mcTask' = "recv"
       \/ BuildRaises /\ mcTask' = "sleeping"
    /\ UNCHANGED <<mcOwner, mcStarts>>

\* recv() raises: the socket is closed.
RecvRaises ==
    /\ mcTask = "recv"
    /\ Fault
    /\ CloseIo
    /\ mcTask' = "sleeping"
    /\ UNCHANGED <<mcOwner, mcBuilt, mcStarts>>

Wake ==
    /\ mcTask = "sleeping"
    /\ mcTask' = "rebuild"
    /\ UNCHANGED <<mcOwner, mcIo, mcOpen, mcBuilt, mcStarts, mcFaults>>

\* stop() cancels the loop, awaits it, and closes the socket.
Stop ==
    /\ mcOwner = "up"
    /\ mcOwner' = "stopping"
    /\ mcTask' = "done"
    /\ UNCHANGED <<mcIo, mcOpen, mcBuilt, mcStarts, mcFaults>>

Stopped ==
    /\ mcOwner = "stopping"
    /\ CloseIo
    /\ mcOwner' = "down"
    /\ mcTask' = "none"
    /\ UNCHANGED <<mcBuilt, mcStarts, mcFaults>>

Loop == Rebuild \/ Wake

Next == Start \/ Loop \/ RecvRaises \/ Stop \/ Stopped

Spec == Init /\ [][Next]_vars

\* The event loop runs every task that can run.
Fairness == WF_vars(Loop) /\ WF_vars(Stopped)

FairSpec == Spec /\ Fairness

-----------------------------------------------------------------------------
(* Properties *)

TypeOK ==
    /\ mcOwner \in {"down", "up", "stopping"}
    /\ mcTask \in {"none", "recv", "sleeping", "rebuild", "done"}
    /\ mcIo \in 0..mcBuilt
    /\ mcOpen \subseteq 1..mcBuilt
    /\ mcBuilt \in Nat
    /\ mcStarts \in 0..MaxStarts
    /\ mcFaults \in 0..MaxFaults

\* Rebuilding leaks no socket: the only open one is the one send() uses, and a stopped
\* transport has none.
OneSocket ==
    /\ mcOpen = {mcIo} \ {0}
    /\ mcOwner = "down" => mcIo = 0

\* An interface that comes back is received from again, however often rebuilding failed.
Receives == <>[](mcOwner = "up") => <>[](mcTask = "recv")
=============================================================================
