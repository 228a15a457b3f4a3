-------------------------------- MODULE Host ---------------------------------
(***************************************************************************)
(* The host: the services of the edge node and the script that starts      *)
(* them, the life of a process, and the dataset on disk, each as a module  *)
(* with its own state.                                                     *)
(***************************************************************************)
EXTENDS Integers, Sequences

CONSTANTS Order, Unwaited, Optional, Consumers, Proxy, MaxCommands, MaxDeaths, MaxReboots,
          MaxRecords, Schemas, Window, MaxSignals, MaxRaises

VARIABLES
    esCmd, esRestart, esAt, esPc, esFile, esProc, esExtra, esGaveUp, esDied, esCommands,
    esDeaths, esReboots,
    dsSchema, dsState, dsBuffer, dsFile, dsLines, dsFlushed, dsKept, dsReader, dsAt, dsTorn,
    dsGot, dsRaced,
    npKind, npTodo, npFinally, npHandled, npStop, npNode, npListener, npRan, npRaised,
    npSignals, npFaults

Stack == INSTANCE EdgeStack
Files == INSTANCE Dataset
Process == INSTANCE NodeProcess WITH MaxFaults <- MaxRaises

ASSUME HostConstantsOK == Stack!ConstantsOK /\ Files!ConstantsOK /\ Process!ConstantsOK

stackVars == <<esCmd, esRestart, esAt, esPc, esFile, esProc, esExtra, esGaveUp, esDied,
               esCommands, esDeaths, esReboots>>
filesVars == <<dsSchema, dsState, dsBuffer, dsFile, dsLines, dsFlushed, dsKept, dsReader, dsAt,
               dsTorn, dsGot, dsRaced>>
processVars == <<npKind, npTodo, npFinally, npHandled, npStop, npNode, npListener, npRan,
                 npRaised, npSignals, npFaults>>
hostVars == <<stackVars, filesVars, processVars>>

-----------------------------------------------------------------------------
(* Properties *)

\* EdgeStack: the proxy starts after its consumers, a stop leaves nothing running, a start
\* has everything running, and no service runs twice.
StackInOrder ==
    /\ Stack!ConsumersFirst /\ Stack!StopStops /\ Stack!StartStarts
    /\ []Stack!OneProcessEach

\* Dataset: a session that goes on or broke off anywhere yields a prefix of its records,
\* flushed ones included; damage is reported only when the file grew at its torn end.
RecordsKept == Files!RecordsKept
=============================================================================
