------------------------------ MODULE Surfaces -------------------------------
(***************************************************************************)
(* What people see and ask: the scout store behind its pages, the console  *)
(* and the assistant, each as a module with its own state.                 *)
(***************************************************************************)
EXTENDS Integers, Sequences

CONSTANTS Truths, Noises, Radius, Confs, Decisions,
          MaxDetections, MaxDrops, MaxTriages, MaxRestartsOfScout,
          Keys, Cap, StaleAfter, RingSize, MaxClock, MaxMessages, MaxEvents,
          Chats, MaxIterations, MaxUses

VARIABLES
    scNoise, scStorage, scPc, scDet, scPin, scStatus, scPins, scStore, scIds, scStats, scSkewed,
    scEdit, scTriage, scTriages, scRestarts,
    coNow, coEntries, coCount, coRing, coHeard, coNew, coLogged,
    asPc, asTurns, asRounds, asResults, asCalls, asStatus

Scout == INSTANCE ScoutSurvey WITH MaxRestarts <- MaxRestartsOfScout
Picture == INSTANCE Console WITH MaxTime <- MaxClock
Chat == INSTANCE Assistant

ASSUME SurfacesConstantsOK == Scout!ConstantsOK /\ Picture!ConstantsOK /\ Chat!ConstantsOK

scoutVars == <<scNoise, scStorage, scPc, scDet, scPin, scStatus, scPins, scStore, scIds,
               scStats, scSkewed, scEdit, scTriage, scTriages, scRestarts>>
pictureVars == <<coNow, coEntries, coCount, coRing, coHeard, coNew, coLogged>>
chatVars == <<asPc, asTurns, asRounds, asResults, asCalls, asStatus>>
uiVars == <<scoutVars, pictureVars, chatVars>>

-----------------------------------------------------------------------------
(* Properties *)

\* ScoutSurvey: the clusters of a process do not drift, each anomaly that stands alone has one
\* of them, and no detection is lost; in a store that is not shared, triage survives later
\* frames and, in a file, restarts, and these clusters' pins are what the clusters say.
PinsKept ==
    /\ Scout!ClustersStayPut /\ Scout!OnePinPerTruth /\ Scout!TriageKept
    /\ Scout!StoreCurrent /\ Scout!DetectionsAccounted

\* Console: a read serves just the last sources heard, no entry leaves uncounted, and the log
\* ring holds the tail.
PictureCurrent == Picture!PictureCurrent /\ Picture!EntriesAccounted /\ Picture!RingIsTail

\* Assistant: every request to the model pairs each tool_use with its result.
TurnsMatch == Chat!TurnsMatch
=============================================================================
