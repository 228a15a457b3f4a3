----------------------------- MODULE Meshtastic -----------------------------
(***************************************************************************)
(* MeshtasticTransport of meshsa.transports.meshtastic_radio: a supervisor *)
(* task opens the radio interface again when it is told that the link is   *)
(* lost.  It is told by the radio library's thread: _on_lost hands         *)
(* Event.set to the event loop, which runs it some time later, so a signal *)
(* may be about an interface that has been replaced since.                 *)
(*                                                                         *)
(* Opening may fail, and so may provisioning an interface that was opened. *)
(***************************************************************************)
EXTENDS Naturals, Sequences

CONSTANTS
    MaxStarts,     \* bound on start() calls
    MaxFaults,     \* bound on interfaces that fail or cannot be opened
    MaxEchoes,     \* bound on further lost-link signals than one per failure
    MaxBadConfigs  \* bound on provisionings that raise

ConstantsOK ==
    MaxStarts \in Nat /\ MaxFaults \in Nat /\ MaxEchoes \in Nat /\ MaxBadConfigs \in Nat

VARIABLES
    mtReconnect,   \* _reconnect
    mtOwner,       \* the task that calls start() and stop()
    mtTask,        \* control state of the supervisor
    mtIface,       \* _iface: the number of an interface, or 0 for None
    mtOpen,        \* the interfaces that are open
    mtBroken,      \* the interfaces whose link is lost
    mtOpened,      \* interfaces opened so far
    mtSubscribed,  \* _subscribed
    mtLost,        \* the _lost event of this session is set
    mtSignals,     \* sessions whose _lost.set the event loop has yet to run
    mtStarts, mtFaults, mtEchoes, mtBadConfigs   \* what has been used of the bounds

ifaceVars == <<mtIface, mtOpen, mtOpened>>
counters == <<mtStarts, mtFaults, mtEchoes, mtBadConfigs>>
vars == <<mtReconnect, mtOwner, mtTask, ifaceVars, mtBroken, mtSubscribed, mtLost, mtSignals,
          counters>>

Init ==
    /\ mtReconnect \in BOOLEAN
    /\ mtOwner = "down"
    /\ mtTask = "none"
    /\ mtIface = 0 /\ mtOpen = {} /\ mtOpened = 0
    /\ mtBroken = {}
    /\ mtSubscribed = FALSE
    /\ mtLost = FALSE
    /\ mtSignals = <<>>
    /\ mtStarts = 0 /\ mtFaults = 0 /\ mtEchoes = 0 /\ mtBadConfigs = 0

Fault == mtFaults < MaxFaults /\ mtFaults' = mtFaults + 1
BadConfig == mtBadConfigs < MaxBadConfigs /\ mtBadConfigs' = mtBadConfigs + 1

\* The interface factory returns, or raises.
Opens ==
    /\ mtOpened' = mtOpened + 1
    /\ mtIface' = mtOpened + 1
    /\ mtOpen' = mtOpen \cup {mtOpened + 1}

OpenRaises == Fault /\ UNCHANGED <<mtOpened, mtOpen>> /\ mtIface' = 0

\* _close_iface.
CloseIface == mtIface' = 0 /\ mtOpen' = mtOpen \ {mtIface}

-----------------------------------------------------------------------------
(* start() and stop() *)

\* start() subscribes, opens and provisions.  Without an interface it unsubscribes and
\* raises, or leaves opening to the supervisor; a provisioning that raises leaves all as is.
Start ==
    /\ mtOwner = "down"
    /\ mtStarts < MaxStarts
    /\ mtStarts' = mtStarts + 1
    /\ mtLost' = FALSE
    /\ \/ /\ Opens
          /\ mtOwner' = "up" /\ mtTask' = "wait" /\ mtSubscribed' = TRUE
          /\ UNCHANGED <<mtFaults, mtBadConfigs>>
       \/ /\ Opens
          /\ BadConfig
          /\ mtOwner' = "failed" /\ mtSubscribed' = TRUE
          /\ UNCHANGED <<mtTask, mtFaults>>
       \/ /\ OpenRaises
          /\ mtReconnect
          /\ mtOwner' = "up" /\ mtTask' = "opening" /\ mtSubscribed' = TRUE
          /\ UNCHANGED mtBadConfigs
       \/ /\ OpenRaises
          /\ ~mtReconnect
          /\ mtSubscribed' = FALSE
          /\ UNCHANGED <<mtOwner, mtTask, mtBadConfigs>>
    /\ UNCHANGED <<mtReconnect, mtBroken, mtSignals, mtEchoes>>

\* stop() wakes and cancels the supervisor.
Stop ==
    /\ mtOwner \in {"up", "failed"}
    /\ mtOwner' = "stopping"
    /\ mtTask' = IF mtTask = "raised" THEN "raised" ELSE "done"
    /\ mtLost' = TRUE
    /\ UNCHANGED <<mtReconnect, ifaceVars, mtBroken, mtSubscribed, mtSignals, counters>>

\* Awaiting a supervisor that has ended by an exception raises it out of stop(); otherwise
\* the subscriptions are torn down and the interface is closed.
Stopped ==
    /\ mtOwner = "stopping"
    /\ \/ /\ mtTask = "done"
          /\ mtSubscribed' = FALSE
          /\ CloseIface
          /\ mtOwner' = "down"
          /\ mtTask' = "none"
       \/ /\ mtTask = "raised"
          /\ mtOwner' = "stop_raised"
          /\ UNCHANGED <<mtTask, mtSubscribed, mtIface, mtOpen>>
    /\ UNCHANGED <<mtReconnect, mtOpened, mtBroken, mtLost, mtSignals, counters>>

-----------------------------------------------------------------------------
(* _supervise() *)

\* Provisioning is outside the guard: if it raises, the task ends with the interface open.
Open ==
    /\ mtTask = "opening"
    /\ \/ Opens /\ mtTask' = "wait" /\ UNCHANGED <<mtFaults, mtBadConfigs>>
       \/ Opens /\ BadConfig /\ mtTask' = "raised" /\ UNCHANGED mtFaults
       \/ OpenRaises /\ mtTask' = "sleeping" /\ UNCHANGED mtBadConfigs
    /\ UNCHANGED <<mtReconnect, mtOwner, mtBroken, mtSubscribed, mtLost, mtSignals, mtStarts,
                   mtEchoes>>

\* _lost.wait() returns: whatever interface there is now is closed.
LostSeen ==
    /\ mtTask = "wait"
    /\ mtLost
    /\ mtLost' = FALSE
    /\ CloseIface
    /\ mtTask' = IF mtReconnect THEN "sleeping" ELSE "done"
    /\ UNCHANGED <<mtReconnect, mtOwner, mtOpened, mtBroken, mtSubscribed, mtSignals, counters>>

Wake ==
    /\ mtTask = "sleeping"
    /\ mtTask' = "opening"
    /\ UNCHANGED <<mtReconnect, mtOwner, ifaceVars, mtBroken, mtSubscribed, mtLost, mtSignals,
                   counters>>

-----------------------------------------------------------------------------
(* The radio library *)

\* _on_lost captures the event of the session it runs in.
Signalled == mtSignals' = IF mtSubscribed THEN Append(mtSignals, mtStarts) ELSE mtSignals

\* The link of an interface is lost and the library says so.
Break(i) ==
    /\ i \in mtOpen \ mtBroken
    /\ Fault
    /\ mtBroken' = mtBroken \cup {i}
    /\ Signalled
    /\ UNCHANGED <<mtReconnect, mtOwner, mtTask, ifaceVars, mtSubscribed, mtLost, mtStarts,
                   mtEchoes, mtBadConfigs>>

\* It says so again, for instance when the interface is closed.
Echo ==
    /\ mtOpened > 0
    /\ mtSubscribed
    /\ mtEchoes < MaxEchoes
    /\ mtEchoes' = mtEchoes + 1
    /\ Signalled
    /\ UNCHANGED <<mtReconnect, mtOwner, mtTask, ifaceVars, mtBroken, mtSubscribed, mtLost,
                   mtStarts, mtFaults, mtBadConfigs>>

\* The event loop runs _lost.set; that of an older session's event wakes nobody.
Deliver ==
    /\ mtSignals # <<>>
    /\ mtLost' = (mtLost \/ Head(mtSignals) = mtStarts)
    /\ mtSignals' = Tail(mtSignals)
    /\ UNCHANGED <<mtReconnect, mtOwner, mtTask, ifaceVars, mtBroken, mtSubscribed, counters>>

-----------------------------------------------------------------------------

Supervisor == Open \/ LostSeen \/ Wake

Next ==
    \/ Start \/ Stop \/ Stopped \/ Supervisor \/ Deliver \/ Echo
    \/ \E i \in mtOpen : Break(i)

Spec == Init /\ [][Next]_vars

\* The event loop runs every task and every callback that can run.
Fairness == WF_vars(Supervisor) /\ WF_vars(Deliver) /\ WF_vars(Stopped)

FairSpec == Spec /\ Fairness

-----------------------------------------------------------------------------
(* Properties *)

TypeOK ==
    /\ mtReconnect \in BOOLEAN
    /\ mtOwner \in {"down", "up", "failed", "stopping", "stop_raised"}
    /\ mtTask \in {"none", "opening", "wait", "sleeping", "done", "raised"}
    /\ mtIface \in 0..mtOpened
    /\ mtOpen \subseteq 1..mtOpened
    /\ mtBroken \subseteq 1..mtOpened
    /\ mtOpened \in Nat
    /\ mtSubscribed \in BOOLEAN
    /\ mtLost \in BOOLEAN
    /\ mtSignals \in Seq(1..MaxStarts)

\* The radio has one user: a serial device that is still open could not be opened again.
OneInterface == mtOpen = {mtIface} \ {0}

\* After stop() has returned, and after a start() that could not open, the device is free
\* and no callback of the library is left.
StopReleases == mtOwner = "down" => mtOpen = {} /\ ~mtSubscribed

\* However lost-link signals are repeated or arrive after the reconnect they announce, in
\* the end the radio is on a working interface, unless provisioning has raised.
RadioComesBack ==
    mtReconnect /\ <>[](mtOwner = "up") /\ [](mtBadConfigs = 0)
        => <>[](mtIface # 0 /\ mtIface \notin mtBroken)
=============================================================================
