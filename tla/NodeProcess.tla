---------------------------- MODULE NodeProcess ----------------------------
(***************************************************************************)
(* The life of a process around a Node: meshsa-base (cli.run), the gateway *)
(* (run_gateway) and the console (ui/cli).  Each brings up the node and    *)
(* its web listener, runs until it is asked to stop, and tears down in a   *)
(* finally.  They differ in when their signal handlers are installed, if   *)
(* ever, and in the order of things.  A signal may come at any await.      *)
(***************************************************************************)
EXTENDS Naturals, Sequences

CONSTANTS
    MaxSignals,  \* bound on signals
    MaxFaults    \* bound on calls that raise

ConstantsOK == {MaxSignals, MaxFaults} \subseteq Nat

Kinds == {"base", "gateway", "console"}

\* What comes before the finally.
Up == [base    |-> <<"handlers", "check", "start", "serve", "run">>,
       gateway |-> <<"start", "handlers", "run">>,
       console |-> <<"check", "start", "serve", "run">>]

\* The finally.
Down == [base    |-> <<"stop", "release">>,
         gateway |-> <<"stop">>,
         console |-> <<"release", "stop">>]

VARIABLES
    npKind,      \* which of them
    npTodo,      \* what is left to do of Up or Down, or <<>> when the process has ended
    npFinally,   \* the finally has been entered
    npHandled,   \* SIGINT and SIGTERM set the event "stop"
    npStop,      \* that event
    npNode,      \* the node: "new", "started" or "stopped" (stop() was called)
    npListener,  \* the web listener: "none", "up" or "released"
    npRan,       \* history: the process got as far as to run
    npRaised,    \* history: something raised
    npSignals, npFaults

vars == <<npKind, npTodo, npFinally, npHandled, npStop, npNode, npListener, npRan, npRaised,
          npSignals, npFaults>>

Init ==
    /\ npKind \in Kinds
    /\ npTodo = Up[npKind]
    /\ npFinally = FALSE /\ npHandled = FALSE /\ npStop = FALSE
    /\ npNode = "new" /\ npListener = "none"
    /\ npRan = FALSE /\ npRaised = FALSE
    /\ npSignals = 0 /\ npFaults = 0

At(what) == npTodo # <<>> /\ Head(npTodo) = what

Done == npTodo' = Tail(npTodo) /\ UNCHANGED npFinally
Exit == npTodo' = <<>> /\ UNCHANGED npFinally
EnterFinally == npTodo' = Down[npKind] /\ npFinally' = TRUE

Raises ==
    /\ npFaults < MaxFaults
    /\ npFaults' = npFaults + 1
    /\ npRaised' = TRUE

-----------------------------------------------------------------------------

InstallHandlers ==
    /\ At("handlers")
    /\ npHandled' = TRUE
    /\ Done
    /\ UNCHANGED <<npKind, npStop, npNode, npListener, npRan, npRaised, npSignals, npFaults>>

\* The bind is refused, or not.
Check ==
    /\ At("check")
    /\ \/ Done /\ UNCHANGED <<npRaised, npFaults>>
       \/ Raises /\ Exit
    /\ UNCHANGED <<npKind, npHandled, npStop, npNode, npListener, npRan, npSignals>>

Start ==
    /\ At("start")
    /\ \/ Done /\ npNode' = "started" /\ UNCHANGED <<npRaised, npFaults>>
       \/ Raises /\ Exit /\ UNCHANGED npNode
    /\ UNCHANGED <<npKind, npHandled, npStop, npListener, npRan, npSignals>>

\* The listener is brought up, if it is enabled; its port may be taken.
Serve ==
    /\ At("serve")
    /\ \/ Done /\ npListener' = "up" /\ UNCHANGED <<npRaised, npFaults>>
       \/ Done /\ npKind = "base" /\ UNCHANGED <<npListener, npRaised, npFaults>>
       \/ Raises /\ Exit /\ UNCHANGED npListener
    /\ UNCHANGED <<npKind, npHandled, npStop, npNode, npRan, npSignals>>

\* The body of the try: it ends on the event, and in meshsa-base also when publishing raises.
Run ==
    /\ At("run")
    /\ npRan' = TRUE
    /\ \/ npStop /\ EnterFinally /\ UNCHANGED <<npRaised, npFaults>>
       \/ npKind = "base" /\ Raises /\ EnterFinally
       \/ ~npRan /\ ~npStop /\ UNCHANGED <<npTodo, npFinally, npRaised, npFaults>>
    /\ UNCHANGED <<npKind, npHandled, npStop, npNode, npListener, npSignals>>

\* node.stop(): what it raises ends the process, except in the console, which suppresses it.
StopNode ==
    /\ At("stop")
    /\ npNode' = "stopped"
    /\ \/ Done /\ UNCHANGED <<npRaised, npFaults>>
       \/ Raises /\ IF npKind = "console" THEN Done ELSE Exit
    /\ UNCHANGED <<npKind, npHandled, npStop, npListener, npRan, npSignals>>

\* runner.cleanup(), if there is a runner.
Release ==
    /\ At("release")
    /\ npListener' = IF npListener = "up" THEN "released" ELSE npListener
    /\ \/ Done /\ UNCHANGED <<npRaised, npFaults>>
       \/ Raises /\ Exit
    /\ UNCHANGED <<npKind, npHandled, npStop, npNode, npRan, npSignals>>

\* With handlers a signal sets the event.  Without, SIGTERM kills; the first SIGINT cancels
\* run(), which enters the finally if it is in its try, and the second interrupts that, too.
Signal ==
    /\ npTodo # <<>>
    /\ npSignals < MaxSignals
    /\ npSignals' = npSignals + 1
    /\ \/ npHandled /\ npStop' = TRUE /\ UNCHANGED <<npTodo, npFinally>>
       \/ ~npHandled /\ Exit /\ UNCHANGED npStop
       \/ ~npHandled /\ At("run") /\ EnterFinally /\ UNCHANGED npStop
    /\ UNCHANGED <<npKind, npHandled, npNode, npListener, npRan, npRaised, npFaults>>

Process == InstallHandlers \/ Check \/ Start \/ Serve \/ Run \/ StopNode \/ Release

Next == Process \/ Signal

Spec == Init /\ [][Next]_vars

\* No call blocks for ever.
Fairness == WF_vars(Process)

FairSpec == Spec /\ Fairness

-----------------------------------------------------------------------------
(* Properties *)

TypeOK ==
    /\ npKind \in Kinds /\ npTodo \in Seq({"handlers", "check", "start", "serve", "run",
                                           "stop", "release"})
    /\ {npFinally, npHandled, npStop, npRan, npRaised} \subseteq BOOLEAN
    /\ npNode \in {"new", "started", "stopped"} /\ npListener \in {"none", "up", "released"}

\* A base node or gateway that has run stops its node before it ends, and one in which
\* nothing raised releases its listener, whenever the signals come and however many.
EndsClean ==
    npTodo = <<>> /\ npRan /\ npKind # "console" =>
        /\ npNode = "stopped"
        /\ ~npRaised => npListener # "up"

\* Once asked to stop, it ends, even if it was asked before it had started.
StopEnds == npStop ~> npTodo = <<>>
=============================================================================
