----------------------------- MODULE EdgeStack -----------------------------
(***************************************************************************)
(* flightctl/scripts/start_all.sh: brings the services of the edge node up *)
(* in dependency order, each with a pid file and a bounded wait for its    *)
(* port, and down in reverse.  Meanwhile services bind their ports, or do  *)
(* not, and die.  The pid files are on the SSD and outlive a reboot, after *)
(* which their pids may be those of other processes.                       *)
(***************************************************************************)
EXTENDS Naturals, Sequences

CONSTANTS
    Order,        \* the services in the order of do_start
    Unwaited,     \* those without a wait_port
    Optional,     \* those that are skipped without their directory or token
    Consumers,    \* what the proxy sends to (udpc)
    Proxy,        \* mavp2p
    MaxCommands,  \* bound on runs of the script
    MaxDeaths,    \* bound on services that die
    MaxReboots    \* bound on reboots

Services == {Order[i] : i \in DOMAIN Order}

\* Consumers come before the proxy, and none goes without its wait.
ConstantsOK ==
    /\ Order \in Seq(Services)
    /\ Unwaited \cup Optional \cup Consumers \cup {Proxy} \subseteq Services
    /\ \A c \in Consumers :
           /\ c \notin Unwaited \cup Optional
           /\ \A i \in DOMAIN Order : Order[i] = Proxy => \E j \in 1 .. i - 1 : Order[j] = c
    /\ {MaxCommands, MaxDeaths, MaxReboots} \subseteq Nat

VARIABLES
    esCmd,       \* what the script does: "none", "start" or "stop"
    esRestart,   \* the command is restart
    esAt,        \* the service it is at
    esPc,        \* "svc", or "wait" in wait_port
    esFile,      \* pid file: "none", "pid" of the last process started, or "other" process's
    esProc,      \* that last process: "down", "up", or "listening"
    esExtra,     \* processes of the service that no pid file names
    esGaveUp,    \* services whose wait_port has run out in this command
    esDied,      \* history: services that died during this command
    esCommands, esDeaths, esReboots

script == <<esCmd, esRestart, esAt, esPc, esGaveUp, esDied>>
bounds == <<esCommands, esDeaths, esReboots>>
vars == <<script, esFile, esProc, esExtra, bounds>>

Init ==
    /\ esCmd = "none" /\ esRestart = FALSE /\ esAt = 0 /\ esPc = "svc"
    /\ esFile = [s \in Services |-> "none"]
    /\ esProc = [s \in Services |-> "down"]
    /\ esExtra = [s \in Services |-> 0]
    /\ esGaveUp = {} /\ esDied = {}
    /\ esCommands = 0 /\ esDeaths = 0 /\ esReboots = 0

-----------------------------------------------------------------------------
(* The services, and the machine *)

Binds(s) ==
    /\ esProc[s] = "up"
    /\ esProc' = [esProc EXCEPT ![s] = "listening"]
    /\ UNCHANGED <<script, esFile, esExtra, bounds>>

Dies(s) ==
    /\ esDeaths < MaxDeaths
    /\ esProc[s] # "down"
    /\ esDeaths' = esDeaths + 1
    /\ esProc' = [esProc EXCEPT ![s] = "down"]
    /\ esDied' = esDied \cup {s}
    /\ UNCHANGED <<esCmd, esRestart, esAt, esPc, esGaveUp, esFile, esExtra, esCommands, esReboots>>

Reboot ==
    /\ esReboots < MaxReboots
    /\ esReboots' = esReboots + 1
    /\ esCmd' = "none" /\ esRestart' = FALSE /\ esAt' = 0 /\ esPc' = "svc"
    /\ esGaveUp' = {} /\ esDied' = {}
    /\ esProc' = [s \in Services |-> "down"]
    /\ esExtra' = [s \in Services |-> 0]
    /\ \E recycled \in SUBSET {s \in Services : esFile[s] = "pid"} :
           esFile' = [s \in Services |-> IF s \in recycled THEN "other" ELSE esFile[s]]
    /\ UNCHANGED <<esCommands, esDeaths>>

-----------------------------------------------------------------------------
(* The script *)

\* start, stop, or restart, which stops and starts.
Command ==
    /\ esCmd = "none"
    /\ esCommands < MaxCommands
    /\ esCommands' = esCommands + 1
    /\ \/ esCmd' = "start" /\ esAt' = 1 /\ esRestart' = FALSE
       \/ esCmd' = "stop" /\ esAt' = Len(Order) /\ esRestart' \in BOOLEAN
    /\ esPc' = "svc"
    /\ esGaveUp' = {} /\ esDied' = {}
    /\ UNCHANGED <<esFile, esProc, esExtra, esDeaths, esReboots>>

\* do_start goes on to the next service.
Advance ==
    /\ esPc' = "svc"
    /\ IF esAt < Len(Order)
       THEN esAt' = esAt + 1 /\ UNCHANGED esCmd
       ELSE esAt' = 0 /\ esCmd' = "none"
    /\ UNCHANGED <<esRestart, esDied>>

\* kill -0 of the pid in the file.
Running(s) ==
    \/ esFile[s] = "pid" /\ esProc[s] # "down"
    \/ esFile[s] = "other"

Spawned(s) ==
    /\ esFile' = [esFile EXCEPT ![s] = "pid"]
    /\ esProc' = [esProc EXCEPT ![s] = "up"]
    /\ esExtra' = [esExtra EXCEPT ![s] = @ + IF esProc[s] = "down" THEN 0 ELSE 1]

\* start_svc
StartSvc(s) ==
    IF Running(s) THEN UNCHANGED <<esFile, esProc, esExtra>> ELSE Spawned(s)

Skip(s) == s \in Optional /\ UNCHANGED <<esFile, esProc, esExtra>>

\* A step of do_start: the service is started, and waited for.  One is skipped for want of its
\* directory, and waited for in vain, or for want of its token.
Start ==
    /\ esCmd = "start" /\ esPc = "svc"
    /\ LET s == Order[esAt]
       IN  \/ /\ s \notin Unwaited
              /\ \/ StartSvc(s)
                 \/ Skip(s)
              /\ esPc' = "wait"
              /\ UNCHANGED <<esCmd, esRestart, esAt, esDied>>
           \/ /\ \/ s \in Unwaited /\ StartSvc(s)
                 \/ Skip(s)
              /\ Advance
    /\ UNCHANGED <<esGaveUp, bounds>>

WaitPortOnce ==
    /\ esCmd = "start" /\ esPc = "wait"
    /\ Advance
    /\ UNCHANGED <<esGaveUp, esFile, esProc, esExtra, bounds>>

\* wait_port returns when the port is bound, or when the time is up: the script goes on.
WaitPort ==
    /\ esCmd = "start" /\ esPc = "wait"
    /\ \/ esProc[Order[esAt]] = "listening" /\ UNCHANGED esGaveUp
       \/ esProc[Order[esAt]] # "listening" /\ esGaveUp' = esGaveUp \cup {Order[esAt]}
    /\ Advance
    /\ UNCHANGED <<esFile, esProc, esExtra, bounds>>

\* A service of do_stop: TERM, and KILL a second later.
StopSvc(s) ==
    /\ esProc' = [esProc EXCEPT ![s] = IF esFile[s] = "pid" THEN "down" ELSE @]
    /\ esFile' = [esFile EXCEPT ![s] = "none"]

Stop ==
    /\ esCmd = "stop"
    /\ StopSvc(Order[esAt])
    /\ IF esAt > 1
       THEN esAt' = esAt - 1 /\ UNCHANGED <<esCmd, esRestart>>
       ELSE /\ esCmd' = IF esRestart THEN "start" ELSE "none"
            /\ esAt' = IF esRestart THEN 1 ELSE 0
            /\ esRestart' = FALSE
    /\ UNCHANGED <<esPc, esGaveUp, esDied, esExtra, bounds>>

Script == Start \/ WaitPort \/ Stop

Next ==
    \/ Command \/ Script \/ Reboot
    \/ \E s \in Services : Binds(s) \/ Dies(s)

Spec == Init /\ [][Next]_vars

\* Waits are bounded, and nothing else in the script blocks.
Fairness == WF_vars(Script)

FairSpec == Spec /\ Fairness

-----------------------------------------------------------------------------
(* Properties *)

TypeOK ==
    /\ esCmd \in {"none", "start", "stop"} /\ esRestart \in BOOLEAN
    /\ esAt \in 0..Len(Order) /\ esPc \in {"svc", "wait"}
    /\ esFile \in [Services -> {"none", "pid", "other"}]
    /\ esProc \in [Services -> {"down", "up", "listening"}]
    /\ esExtra \in [Services -> Nat]
    /\ esGaveUp \subseteq Services /\ esDied \subseteq Services

\* Over any runs of the script, deaths and reboots no service has two processes, and every
\* process has a pid file through which a stop finds it.
OneProcessEach ==
    \A s \in Services : esExtra[s] = 0 /\ (esProc[s] # "down" => esFile[s] = "pid")

\* A stop that ends leaves nothing running.
StopStops ==
    [][esCmd = "stop" /\ esCmd' # "stop" => \A s \in Services : esProc'[s] = "down"]_vars

\* A start that ends has every service running that has not died meanwhile, was not skipped,
\* and whose pid file does not name a stranger.
StartStarts ==
    [][esCmd = "start" /\ esCmd' = "none" /\ esReboots' = esReboots =>
           \A s \in Services : \/ esProc'[s] # "down"
                               \/ s \in esDied \cup Optional
                               \/ esFile'[s] = "other"]_vars

\* The order that matters: when the proxy is started each consumer is listening, unless it
\* did not come up in its time or died since.
ConsumersFirst ==
    [][esCmd = "start" /\ esProc[Proxy] = "down" /\ esProc'[Proxy] = "up" =>
           \A c \in Consumers : esProc[c] = "listening" \/ c \in esGaveUp \cup esDied]_vars

\* Whatever fails to come up, the script ends.
ScriptEnds == esCmd # "none" ~> esCmd = "none"
=============================================================================
