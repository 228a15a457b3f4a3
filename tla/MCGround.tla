------------------------------- MODULE MCGround -------------------------------
(***************************************************************************)
(* The ground side beside the router, for one TLC run: the transports and  *)
(* their pacer, the scout store, the console, the assistant, the edge      *)
(* node's services and the life of a process, the dataset on disk, and     *)
(* what is computed of its input alone: the survey's plan, the projection  *)
(* to the ground, the settings, the TAK endpoint, the telemetry of CRSF,   *)
(* the answers of the web surfaces, what the assistant is told, what links *)
(* make of contents, and the packing of RC channels.  They keep no state   *)
(* in common, so it suffices to run each by itself: "active" names the one *)
(* that runs, the others stay as they were constructed.                    *)
(* What is computed is asked once and takes no step.                       *)
(***************************************************************************)
EXTENDS Links, Surfaces, Host

CONSTANTS Metre, MaxSpan, MaxCross, MaxTime, MaxElev, Heights, Rises, MaxIters,
          MaxFrames, MaxRows, MaxBytes, MaxHops,
          ChannelBits, ByteBits, MaxCount, MaxTick

VARIABLES
    active,
    svQuery, prQuery, seQuery, teQuery, ctQuery, wsQuery, saQuery, cnQuery, rcQuery

SomeOrder == <<"webmap", "gateway", "mavlink2rest", "mavp2p", "sim">>
SomeCap == [tracks |-> 2, detections |-> 1]
SomeRises == {-20, 0, 20}
SomeStaleAfter == [tracks |-> 1, detections |-> 1]

Plan == INSTANCE Survey
Ground == INSTANCE Projection
Config == INSTANCE Settings
Secure == INSTANCE TakEndpoint
Crsf == INSTANCE CrsfTelemetry
Web == INSTANCE WebSurface
Told == INSTANCE AssistantSources
Codec == INSTANCE Contents
Channels == INSTANCE RcChannels

ASSUME QueriesConstantsOK ==
    /\ Plan!ConstantsOK /\ Ground!ConstantsOK /\ Secure!ConstantsOK /\ Crsf!ConstantsOK
    /\ Told!ConstantsOK /\ Codec!ConstantsOK /\ Channels!ConstantsOK

queries == <<svQuery, prQuery, seQuery, teQuery, ctQuery, wsQuery, saQuery, cnQuery,
             rcQuery>>
groundVars == <<active, linkVars, uiVars, hostVars, queries>>

Unasked == [ask |-> "nothing"]

GroundInit ==
    /\ active \in {"tak", "cast", "radio", "source", "pace", "scout", "picture", "chat",
                   "stack", "files", "process", "survey", "projection", "settings", "endpoint",
                   "crsf", "web", "told", "codec", "channels"}
    /\ Init /\ Cast!Init /\ Radio!Init /\ Source!Init /\ Pace!Init
    /\ Scout!Init /\ Picture!Init /\ Chat!Init /\ Stack!Init /\ Files!Init /\ Process!Init
    /\ active # "tak" => takReconnect
    /\ active # "radio" => mtReconnect
    /\ active # "source" => psKind = "msp"
    /\ active # "scout" => scStorage = "memory" /\ \A n \in Noises : scNoise <= n
    /\ active # "files" => \A s \in Schemas : dsSchema <= s
    /\ active # "process" => npKind = "base"
    /\ IF active = "survey" THEN Plan!Init ELSE svQuery = Unasked
    /\ IF active = "projection" THEN Ground!Init ELSE prQuery = Unasked
    /\ IF active = "settings" THEN Config!Init ELSE seQuery = Unasked
    /\ IF active = "endpoint" THEN Secure!Init ELSE teQuery = Unasked
    /\ IF active = "crsf" THEN Crsf!Init ELSE ctQuery = Unasked
    /\ IF active = "web" THEN Web!Init ELSE wsQuery = Unasked
    /\ IF active = "told" THEN Told!Init ELSE saQuery = Unasked
    /\ IF active = "codec" THEN Codec!Init ELSE cnQuery = Unasked
    /\ IF active = "channels" THEN Channels!Init ELSE rcQuery = Unasked

LinkNext ==
    /\ UNCHANGED <<uiVars, hostVars>>
    /\ \/ active = "tak" /\ Next /\ UNCHANGED <<castVars, radioVars, sourceVars, paceVars>>
       \/ active = "cast" /\ Cast!Next /\ UNCHANGED <<takVars, radioVars, sourceVars, paceVars>>
       \/ active = "radio" /\ Radio!Next /\ UNCHANGED <<takVars, castVars, sourceVars, paceVars>>
       \/ active = "source" /\ Source!Next /\ UNCHANGED <<takVars, castVars, radioVars, paceVars>>
       \/ active = "pace" /\ Pace!Next /\ UNCHANGED <<takVars, castVars, radioVars, sourceVars>>

UiNext ==
    /\ UNCHANGED <<linkVars, hostVars>>
    /\ \/ active = "scout" /\ Scout!Next /\ UNCHANGED <<pictureVars, chatVars>>
       \/ active = "picture" /\ Picture!Next /\ UNCHANGED <<scoutVars, chatVars>>
       \/ active = "chat" /\ Chat!Next /\ UNCHANGED <<scoutVars, pictureVars>>

HostNext ==
    /\ UNCHANGED <<linkVars, uiVars>>
    /\ \/ active = "stack" /\ Stack!Next /\ UNCHANGED <<filesVars, processVars>>
       \/ active = "files" /\ Files!Next /\ UNCHANGED <<stackVars, processVars>>
       \/ active = "process" /\ Process!Next /\ UNCHANGED <<stackVars, filesVars>>

GroundNext == UNCHANGED <<active, queries>> /\ (LinkNext \/ UiNext \/ HostNext)

\* The fairness of each module, for the one that runs.
GroundFairness ==
    /\ WF_takVars(active = "tak" /\ Supervisor)
    /\ WF_takVars(active = "tak" /\ StartReturns)
    /\ WF_takVars(active = "tak" /\ Stopped)
    /\ WF_castVars(active = "cast" /\ Cast!Loop)
    /\ WF_castVars(active = "cast" /\ Cast!Stopped)
    /\ WF_radioVars(active = "radio" /\ Radio!Supervisor)
    /\ WF_radioVars(active = "radio" /\ Radio!Deliver)
    /\ WF_radioVars(active = "radio" /\ Radio!Stopped)
    /\ \A r \in 1..MaxStarts :
           WF_sourceVars(active = "source" /\ r \in DOMAIN psReader /\ Source!Reader(r))
    /\ \A c \in Chats : WF_chatVars(active = "chat" /\ Chat!Step(c))
    /\ WF_stackVars(active = "stack" /\ Stack!Script)
    /\ WF_processVars(active = "process" /\ Process!Process)

GroundSpec == GroundInit /\ [][GroundNext]_groundVars /\ GroundFairness

-----------------------------------------------------------------------------
(* The properties that are about modules of several groups; the others are those of *)
(* Links, Surfaces and Host.                                                         *)

\* Every variable of every module has its type.
TypesOK ==
    /\ TypeOK /\ Cast!TypeOK /\ Radio!TypeOK /\ Source!TypeOK /\ Pace!TypeOK
    /\ Scout!TypeOK /\ Picture!TypeOK /\ Chat!TypeOK
    /\ Stack!TypeOK /\ Files!TypeOK /\ Process!TypeOK

\* TakTransport, TakMulticast, Meshtastic: whatever fails, reconnects or is stopped, the only
\* connection, socket or interface that is open is the one in use, and after stop() none.
\* NodeProcess: a process that ran stops its node and releases its listener.
NothingLeaks ==
    /\ OneConnection /\ Cast!OneSocket /\ Radio!OneInterface /\ Radio!StopReleases
    /\ Process!EndsClean

\* Survey: the planned path covers the block and is exported as it is, poses are the nearest
\* in time, and the terrain stays between its samples.  Projection: a fix makes sense, agrees
\* with its inverse, and lies between the highest and the lowest ground.
\* Settings: each field comes from the topmost layer that sets it, a mistake surfaces, and the
\* scout by itself is configured as in a node.  TakEndpoint: TLS is as it was asked for, and
\* chunks do not matter to events.  CrsfTelemetry: fields are read as sent, and a log replays
\* what was.  WebSurface: a service fails closed, and lets in the bearer of its token.
\* AssistantSources: it is told what was measured, and can read only.  Contents: a link makes
\* nothing up and loses only what it is known to lose.  RcChannels: channels survive packing.
AnswersSound ==
    /\ active = "survey" => /\ Plan!PlanCovers /\ Plan!ExportsAgree
                            /\ Plan!AlignNearest /\ Plan!TerrainBetween
    /\ active = "projection" => /\ Ground!FixesMakeSense /\ Ground!HarnessInverse
                                /\ Ground!NadirSymmetric /\ Ground!TerrainBounds
    /\ active = "settings" => Config!LayersKept /\ Config!MistakesSurface /\ Config!ScoutAsInNode
    /\ active = "endpoint" => Secure!TlsAsAsked /\ Secure!EventsWhole
    /\ active = "crsf" => Crsf!FieldsRead /\ Crsf!LogReplays
    /\ active = "web" => Web!FailClosed /\ Web!BearerAdmitted
    /\ active = "told" => /\ Told!TelemetryToldAsMeasured /\ Told!TracksToldAsHeard
                          /\ Told!ReadOnly
    /\ active = "codec" => Codec!NothingMadeUp /\ Codec!KindKept /\ Codec!LossesKnown
    /\ active = "channels" => Channels!RoundTrip

\* TakTransport, TakMulticast, Meshtastic: when faults cease each link is up again for good.
\* And nothing waits for ever: stop() of TAK returns, readers and processes that were asked
\* to stop end, chats are answered, and the start script ends.
NothingStuck ==
    /\ ComesBack /\ Cast!Receives /\ Radio!RadioComesBack
    /\ StopReturns /\ Source!ReadersEnd /\ Chat!ChatsAnswered
    /\ Stack!ScriptEnds /\ Process!StopEnds
=============================================================================
