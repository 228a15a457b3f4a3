-------------------------------- MODULE Links --------------------------------
(***************************************************************************)
(* The links of a node beside the router: the transports of TAK,           *)
(* Meshtastic and of the sources that are polled, and the pacer of their   *)
(* sends, each as a module with its own state. What TakTransport defines   *)
(* is here without a prefix.                                               *)
(***************************************************************************)
EXTENDS TakTransport, Integers

CONSTANTS Callers, Interval, Burst,
          MaxRebuilds, MaxEchoes, MaxBadConfigs,
          MaxFixes, InboxLen, MaxErrors, MaxRestarts

VARIABLES
    mcOwner, mcTask, mcIo, mcOpen, mcBuilt, mcStarts, mcFaults,
    mtReconnect, mtOwner, mtTask, mtIface, mtOpen, mtBroken, mtOpened, mtSubscribed, mtLost,
    mtSignals, mtStarts, mtFaults, mtEchoes, mtBadConfigs,
    psKind, psOwner, psStop, psDevice, psReader, psSeq, psQueue, psIngested, psTaken,
    psDropped, psErrors, psRestarts, psZombie, psPeers,
    pcTokens, pcElapsed, pcLeft, pcLevel

Cast == INSTANCE TakMulticast WITH MaxFaults <- MaxRebuilds
Radio == INSTANCE Meshtastic
Source == INSTANCE PollingSource
Pace == INSTANCE Pacer

ASSUME LinksConstantsOK ==
    /\ ConstantsOK /\ Cast!ConstantsOK /\ Radio!ConstantsOK
    /\ Source!ConstantsOK /\ Pace!ConstantsOK

takVars == vars
castVars == <<mcOwner, mcTask, mcIo, mcOpen, mcBuilt, mcStarts, mcFaults>>
radioVars == <<mtReconnect, mtOwner, mtTask, mtIface, mtOpen, mtBroken, mtOpened,
               mtSubscribed, mtLost, mtSignals, mtStarts, mtFaults, mtEchoes, mtBadConfigs>>
sourceVars == <<psKind, psOwner, psStop, psDevice, psReader, psSeq, psQueue, psIngested,
                psTaken, psDropped, psErrors, psRestarts, psZombie, psPeers>>
paceVars == <<pcTokens, pcElapsed, pcLeft, pcLevel>>
linkVars == <<takVars, castVars, radioVars, sourceVars, paceVars>>

-----------------------------------------------------------------------------
(* Properties; NoStraySends and OneConnection are those of TakTransport. *)

\* PollingSource: one reader, whose fixes reach the router in order but for those counted as
\* dropped from a full inbox, and only the device stops it.
SourcesInOrder == Source!FixesInOrder /\ Source!KeepsPolling

\* Pacer: each caller keeps to the rate.
CallerPaced == Pace!CallerPaced
=============================================================================
