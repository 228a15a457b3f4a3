# GCP-Drone-Comms-Unit: specifications and proofs

TLA+ models of the repository's own control logic, the TLC runs that check them on small
instances, and TLAPS proofs of the most important properties for all values of the
constants. Paths are relative to `src/`; `meshsa/` stands for `packages/meshsa/src/meshsa/`
and `jetson/` for `packages/jetson_yolo_gcs/src/jetson_yolo_gcs/`.

| to | run, in this directory |
| --- | --- |
| model-check | `tlc -workers 2 -config X.cfg M`, with X and M as in section 3 |
| prove | `tlapm M.tla` for each `*Proofs.tla` |

`PROJECT.json` lists the components, runs, hazards, theorems and, for every definition, the
lines of code it models; and for every property a mutant: a definition of the model changed
as a bug in the code would change it, under which TLC finds the property violated.

## 1. Inventory

The system carries messages between a drone, a LoRa mesh, TAK servers and ground stations,
and lets an operator command the autopilot. One process is usually one asyncio event loop
plus a few threads.

| part | state | what is hard | correct if |
| --- | --- | --- | --- |
| **Supervised commanding** `flightctl/run_commander.py`, `meshsa/command/` | staged commands, ACK queue, last heartbeat, audit file | requests on executor threads over an unlocked gate; late, lost and foreign ACKs; audit writes that fail half-way; shutdown under running requests | a token meets one fate; nothing is sent unaudited, unconfirmed or too often; "accepted" is the target's own answer |
| **Router and node** `meshsa/router.py`, `node.py`, `transports/base.py` | dedupe cache, an inbox and a pump task per transport | cycles of bridged buses; publish and pumps interleaving at each await; full inboxes; sends that raise | each node handles a message once, sends it once per bus, drops only duplicates |
| **Codecs** `codec.py`, `compact.py`, `cot.py`, `detection_codec.py` | none | they rewrite the fields the router dedupes by | nothing is made up, and only known fields are lost |
| **Inference service** `meshsa/inference/` | tasks, rate gate, offline queue | refilling the queue during its replay; a semaphore and two locks taken in turn; cancellation | nothing lost uncounted, FIFO replay, one insight per message, requests spaced |
| **Flight logger, dataset** `meshsa/fpv/flight_logger.py`, `dataset.py` | queue between recording threads and a writer, files | close() against records in flight; a crash between any two bytes | a closed session accounts for its records, a broken one is still readable |
| **Link health, arm guard** `meshsa/fpv/link_health.py`, `arm_guard.py` | confirmed and pending state, last report, latch | three ages and a hysteresis; a frame that cannot be sent | a hold of the switch arms on a settled link only; never disarm in flight |
| **CRSF link** `meshsa/fpv/crsf/`, `crsf_link.py` | read buffer, echoes to drop | damage, chunks, echoes on one wire | what came through whole is delivered once, in order |
| **Transports** `meshsa/transports/` | a connection or socket or interface, a supervisor or reader | sends across reconnects; stale lost-link signals; readers that outlive stop() | nothing leaks, no send strays, the link comes back |
| **Jetson unit** `jetson/` | failure streak, heartbeat age, tracks | failures mixed with suppressed sends; heartbeats that waited in the buffer | fail closed on silence, fail loudly on faults |
| **Scout** `meshsa/scout/` | clusters, pins with triage status in a store | read-modify-write from two processes; runs of better fixes; restarts | one pin per anomaly, decisions survive |
| **Operator UI** `meshsa/ui/` | capped and expiring entries, log ring | eviction, expiry and refresh in any order | a read serves the last sources heard |
| **Assistant** `meshsa/llm/` | a turn history per chat | several tools, of which some fail | each request pairs tool_use and result |
| **Edge services** `flightctl/scripts/start_all.sh`, `run_gateway.py` | pid files, processes | deaths, reboots, signals at any moment | order kept, no service twice, clean end |
| **Settings, web guards, geometry, plans** | none | layers, missing values, boundaries | see `AnswersSound` |

Transports put frames into inboxes; the router's pumps take them, call the subscribers
(inference service, console, scout) and the transports' `send`. The commanding service, the
Jetson unit and the scout station are processes of their own beside the node. Link health and
arm guard sit between the CRSF link and an RC loop; the logger records what they do.

## 2. Modules

| module | models | atomic step |
| --- | --- | --- |
| `Commander` | the commanding service with its bus and vehicle | the Python between two points where another thread may show an effect |
| `Supervision` | abstract: what the service promises about each command | one decision, record or transmission |
| `Router` | routers of several nodes over any topology | the code between two awaits that can suspend a task |
| `Flood` | abstract: what the routers promise together | one node handles one message |
| `Inference` | analysis tasks, rate gate, client retries, offline queue | the code between two awaits |
| `FlightLogger` | recording threads, writer thread, close() | one queue or file operation |
| `Preflight` | telemetry store, health monitor, arm guard in time | one evaluate, send_rc or update |
| `CrsfLink` | serial wire, stream parser, echo suppression | one write, one read chunk |
| `TakTransport`, `TakMulticast`, `Meshtastic` | supervisors, sends, start, stop | the code between two awaits; a callback |
| `PollingSource` | reader threads, hand-over, bounded inbox, stop by timeout, restart | one poll, one hand-over, one put or get |
| `Pacer` | token bucket of concurrent callers | one acquire or wake-up |
| `LandingTarget` | the Jetson's frame loop, bridge and heartbeat gate | one stage of a frame |
| `ScoutSurvey` | pipeline, clusters, store, operator, restarts | one statement of pipeline or store |
| `Console` | snapshot store and log ring | one call |
| `Assistant` | tool loop of several chats | the code between two awaits |
| `EdgeStack` | start script, services, pid files, reboots | one line of the script |
| `Dataset` | writer's buffer, file, crash, reader beside it | one byte group reaching the file, one line read |
| `NodeProcess` | a process from signal handlers to exit | one call of start-up or tear-down |
| `Survey`, `Projection`, `RcChannels` | plans, alignment, terrain; pixel to ground; bit packing | functions |
| `Settings`, `TakEndpoint`, `WebSurface` | layers of settings; endpoint, TLS, framer; who is let in | functions |
| `CrsfTelemetry`, `Contents`, `AssistantSources` | parser, monitor log and replay; fields over codecs; what the assistant is told | functions |

The names of variables and actions follow attributes and methods. In the modules that
`MCOnboard` and `MCGround` bring together, each variable has a prefix of its module (`tak`,
`lt`, `sc`, ...).

These modules are gathered in families, each with its proofs beside it:

| family | members | run by |
| --- | --- | --- |
| `Links` | `TakTransport`, `TakMulticast`, `Meshtastic`, `PollingSource`, `Pacer` | `MCGround` |
| `Surfaces` | `ScoutSurvey`, `Console`, `Assistant` | `MCGround` |
| `Host` | `EdgeStack`, `Dataset`, `NodeProcess` | `MCGround` |
| what flies | `Preflight`, `FlightLogger`, `LandingTarget`, `CrsfLink` | `MCOnboard` |

**Query modules.** A module whose subject is a function of its input has one variable, a
query, whose initial values are all inputs of a small set together with nothing else; its
properties compare the code's algorithm with an independent statement of what it should
give. They take no step.

**Composition.** Two abstract specifications are implemented, each under a refinement mapping:
`Flood` by `Router` (`Flooding`), `Supervision` by `Commander` (`Supervised`).
`MCOnboard` and `MCGround` each check families of modules in one run. The modules of a family
share no state in the code, so a product of them would show nothing that each by itself does
not: `active` names the one that runs, and the rest stay as constructed. That each component
then behaves by its own specification is proved (`OnboardImplements`, `GroundImplements`), so
what is proved of a component holds of the composition.

**Commander.** `pc[w]` is the statement thread `w` is about to execute: `GateCheck`,
`GateRead`, `GateDel` are the three accesses to `_pending`; `ReadHealth`, `ArmCheck` the
interlock; `AuditAttempt`, `Drain`, `Send`, `RecvAck`/`NoAck`, `AuditResult`/`AuditNoAck` the
sender's loop. Every `Record` may fail, before or after its line is on disk. ACKs carry two
fields the code does not read (`of`, `no`), so that properties can tell equal ACKs apart.

**Router.** An envelope is its original message plus the identity a hop can rewrite;
`Transcode` says what JSON, compact and CoT do to it, `Encodable` what compact refuses. A node
may be stopped, and in a run at most `MaxStops` are.

**Inference.** `task[m]` is where m's task is suspended; `item[m]` the message it analyses,
itself or one it replays. The API may answer anything.

**CrsfLink.** The parser's loop is given by the set of positions it comes to (`Comes`), where
it waits (`Stop`) and the frames it takes (`Taken`), not by recursion.

**Console.** `Without`, `Fresh` and the picture that ought to be served are all `At`: the
entries at a set of places, in order. What is served is compared with `coHeard`, the history
of what was heard, and not with another run of the eviction.

**TakTransport.** Connections are numbered; a `send()` remembers the one it found before the
pacer made it wait. `takSend[s].session` tells which start it was called in.

**ScoutSurvey.** The ground is a line. A store is in memory, in a file, or in a file the
station of another process writes too; only with the last the operator acts between two
statements of the pipeline.

**EdgeStack.** `esFile` is what a pid file names: the service, nobody, or, after a reboot, a
stranger.

## 3. Runs

| run | module, cfg | bounds | shows |
| --- | --- | --- | --- |
| `commander_race` | `MCCommander`, `CommanderRace` | 2 threads, 1 token, 3 names, 2 attempts | `OneFate`, `AuditedBeforeSent`, `Supervised`, `ForceOnlyWithForceAck` |
| `commander_noise` | `MCCommander`, `CommanderNoise` | 1 thread, 2 attempts, 1 foreign ACK | `AcceptedIsGenuine`, `AwaitedAckKept`, `RequestsTerminate` |
| `commander_ack_theft` | `MCCommander`, `CommanderAckTheft` | 2 threads, 2 tokens | violates `AwaitedAckKept` |
| `router_loop` | `MCRouter`, `RouterLoop` | 2 nodes on the same 2 buses, 2 messages, cache 2, queue 2, 1 fault, 1 bad frame, 2 stops | `DeliveredOnce`, `SentOnce`, `DropIsDuplicate`, `Flooding` |
| `router_echo` | `MCRouter`, `RouterEcho` | 3 nodes over mesh, TAK and LAN, 1 detection, ids of at most 5 parts | `EchoBounded`, `Settles` |
| `router_pump_death` | `MCRouter`, `RouterPumpDeath` | 2 gateways, 1 chat | violates `PumpsSurvive` |
| `inference` | `MCInference`, `Inference` | 4 messages, 2 tasks, 1 permit, 1 retry, queue 2, 1 exception | `Accounted`, `ReplayInOrder`, `GateSpaced`, `Finishes` |
| `flight_logger_loss` | `MCFlightLogger`, `FlightLoggerLoss` | 3 records, queue 2 | violates `EventsKept` |
| `polling_restart` | `PollingSource`, `PollingRestart` | 1 fix, 1 restart | violates `FreshIds` |
| `landing_stale_beats` | `LandingTarget`, `LandingStaleBeats` | 2 buffered heartbeats | violates `NoSendOnSilence` |
| `onboard` | `MCOnboard`, `Onboard` | see below | `SessionAccounted`, `FailsLoudly`, `TelemetryKept`, `ArmsOnlyGranted`, `NeverDisarms`, `FailsClosed`, `Ends` |
| `ground` | `MCGround`, `Ground` | see below | `NothingLeaks`, `SourcesInOrder`, `CallerPaced`, `NoStraySends`, `PinsKept`, `PictureCurrent`, `TurnsMatch`, `RecordsKept`, `AnswersSound`, `StackInOrder`, `NothingStuck` |

`commander_race`, `router_loop`, `inference`, `onboard` and `ground` also check the type
invariants; the types of `MCOnboard` and `MCGround` are those of all their members. The
largest runs have 527,000 (`router_echo`), 506,000 (`ground`), 291,000 (`router_loop`) and
262,000 (`onboard`) distinct states; each takes seconds to four minutes on two cores.
Deadlock checking is off where the system may stop for good (all tokens used, closed logger,
stopped transport, answered query), which is every passing run.

### What the gathered properties say

- `ArmsOnlyGranted`: the first frame of a hold of the arm switch that goes out high does so on
  a settled link, or after one of the same hold that was let through on a settled link and
  could not be sent: from then on the guard is latched and tests no frame of the hold. What
  its docstring says, a settled link in every case, does not hold (section 4).
  `NeverDisarms`: no frame goes out low while the operator holds it high after it went out so.
- `TelemetryKept`: telemetry that came through whole is delivered once and in order, no echo
  with it, from a buffer shorter than the longest frame.
- `FailsLoudly`: the landing loop goes on exactly while no more sends than tolerated failed
  since the last success, whatever was suppressed in between; counters add up; nothing goes
  out before the autopilot was heard. `FailsClosed`: its lasting silence closes the gate.
- `Ends`: close() of the logger and calls racing it return, though the writer may hang; a
  link that stays good is judged so; a signal closes the landing loop.
- `NothingLeaks`: the only open connection, socket or interface is the one in use, and none
  after stop(); a process that ran stops its node and releases its listener.
- `NoStraySends`: a frame is written to the connection in use, in the session its send() was
  called in, or not at all, although send() waits between looking and writing.
- `SourcesInOrder`: one reader per source, and fixes numbered and put into the inbox in
  order, unless a join timed out; none is missing but those that found the inbox full, which
  are counted; idle polls and malformed messages stop nobody.
- `PinsKept`: clusters do not drift however many better fixes they adopt, a process has one
  per anomaly that stands alone (further from every other than a cluster's radius and the
  noise of both: two that are closer may rightly be one cluster), no detection is lost; in a
  store that is not shared decisions survive frames and, in a file, restarts. It does not say
  that a file holds one pin per anomaly: see section 4.
- `PictureCurrent`: however entries are refreshed, evicted and expired, a read serves just
  the last `Cap` sources heard, those of them that are not stale, each once, as and in the
  order it was last heard; what leaves is counted; the log ring is a tail.
- `RecordsKept`: wherever the session broke off, or however far the writer is when the reader
  takes the next line, what is read is a prefix of the records that includes the ones flushed
  by then, and all of a session that was closed; damage is reported only if the file grew
  behind a torn end that the reader had met.
- `StackInOrder`: the proxy starts after its consumers came up, gave up or died (in every
  order of the services in which the consumers come first, as the script's does); a stop
  leaves nothing running; a start has everything running; no service runs twice.
- `NothingStuck`: when faults cease each link is up for good; stop() returns, readers end,
  chats are answered, the start script ends, a process that was asked to stop does.
- `AnswersSound`: plans cover their block and are exported as they are, poses are nearest in
  time, fixes agree with the inverse projection and lie between highest and lowest ground;
  each setting comes from the topmost layer that sets it and mistakes surface; TLS is as
  asked for and chunks do not matter to events; fields are read as sent and logs replay what
  was, and RC channels survive packing; services fail closed and admit the bearer of their
  token; the assistant is told what was measured; links make nothing up and lose what they are
  known to lose.

### Bounds, and why they suffice

*Commander.* The gate's hazards are pairwise races for one token, so two threads and one token
meet them all; ACK confusion needs two commands, or one with a retry and a foreign ACK.
*Router.* Loops need two nodes with two shared buses; a cache as large as the number of
messages is at its limit; a queue of two overflows. An echo needs a bus that rewrites ids and
a way around it: two gateways that share mesh and TAK, and a wired node behind one of them, to
which the rewritten detection goes on. *Inference.* A queue of two, with two tasks
in flight, overflows at both ends during a replay. *Onboard.* A hysteresis of two ticks is
interrupted in its middle and a report age of one exactly met; three records leave one to race
close() over a queue of two; a tolerance of one is reset and exceeded within three targets;
frames of two cells are split by every chunk and a damaged length spans two of them.
*Ground.* Two sends and two faults let one connection be replaced under a waiting send, and a
second start puts it into another session; two callers meet at an empty bucket of two; two
starts of a source with a reader that outlives the first, and an inbox of one that the second
fix finds full; three detections make a cluster
drift if it can, and one restart and one decision fall between any two of them; three keys
overflow a cap of two and are heard again; two commands of the script with a death and a
reboot in between; three records over a buffer that reaches the file at any byte, before or
between any two lines that the reader takes.

### Fairness

Weak fairness only, of what the scheduler owes.

| module | assumed | because |
| --- | --- | --- |
| `Commander` | threads run, time passes | nothing is owed by vehicle, bus, clients |
| `Router`, `TakMulticast`, `Meshtastic` | every task or callback that can run does; nodes are started | the event loop |
| `TakTransport` | the same; a connection attempt ends | the operating system gives up on one |
| `Inference` | the same; a request ends, sleeps end | the client's timeout |
| `FlightLogger` | calls and close() go on; nothing of the writer | its disk may hang, joins have timeouts |
| `Preflight` | evaluations go on, time passes | the owner's loop |
| `LandingTarget` | time passes, no read or send blocks for ever | one thread, and nothing in the code guards against a camera that blocks: assumed of it |
| `PollingSource` | threads run, polls return | device timeouts |
| `Assistant` | calls of the model and the sources end | timeouts of the sources and of the model's client library |
| `EdgeStack` | the script runs | every wait in it is bounded |
| `NodeProcess` | no call blocks for ever | see above for each |

`CrsfLink`, `Pacer`, `ScoutSurvey`, `Console` and `Dataset` are checked for safety alone. In
`MCOnboard` and `MCGround` each condition is that of the module, restricted to the runs in
which it is the active one. "When faults cease" is no assumption: faults are bounded.

## 4. Where the code and its documentation disagree

Each violation run exhibits one.

- `commander_ack_theft`: with two commands executing, one drains or skips the ACK the other
  waits for, contrary to `meshsa/command/mavlink_pump.py:92`.
- `router_pump_death`: a chat id that grew past 255 bytes makes `encode` raise inside the
  forwarding loop, which ends the pump (`docs/ARCHITECTURE.md:104` calls the path
  fault-tolerant).
- `flight_logger_loss`: an event whose closed-flag test came before close() is put behind the
  sentinel and lost, though "events are never silently dropped"
  (`meshsa/fpv/flight_logger.py:229`, and the reason at line 263).
- `polling_restart`: a flight source that restarts numbers its fixes from 1 again; the ids are
  not the unique ones the comment at `meshsa/transports/polling_source.py:91` asks for.
- `landing_stale_beats`: buffered heartbeats are stamped when they are read, so the gate that
  is to fail closed on a silent autopilot (`jetson/mavlink/heartbeat.py:5`) opens on one.

Others were met while modelling and have no run; the models do what the code does.

*Commanding.* The second of two racing confirmations raises a bare KeyError
(`meshsa/command/safety.py:63`); a retry of *arm* goes out although the heartbeat went stale
after the interlock was read (`flightctl/run_commander.py:25`); a JSON body that is no object
is answered 500, where the message says "expected a JSON object"; responses lack the headers
`_web` gives the other surfaces; bounds of its settings are only warned of.

*Router and codecs.* A chat that crosses CoT comes back under a new id (`meshsa/cot.py:273`);
two positions of one second that crossed the compact mesh get one CoT id
(`meshsa/compact.py:73`), and routers drop the second; a course without a speed, or the
reverse, is lost in a detail `cot.py` calls lossless; a malformed `point` raises a bare
ValueError; `Position` accepts NaN in `hae`, `ce` and `le`, and the detection codec in `ts`,
whose CoT encoding then raises; a tier that CoT drops becomes "user" after a compact hop,
which also drops the detection of a MARKER. Cache and queue sizes have no lower bound.

*Inference.* Requests are spaced before the permit, so those that waited for one may leave
together; `content: null` raises a bare TypeError, although `_parse` maps malformed bodies to
InferenceError.

*Arm guard, logger, CRSF.* The latch is set before the frame is sent: if that send raises and
the link then degrades, a later frame of the hold arms the vehicle untested against the link
as it is then (`meshsa/fpv/arm_guard.py:13`), which `ArmsOnlyGranted` therefore allows; a
flush that raises ends the writer thread (`meshsa/fpv/flight_logger.py:181`); the replay
evaluates the link at each record and so misses a link that was silent in between; a reader of
a session that is still being written takes its torn last line for damage if the writer goes
on with it before the next line is read (`meshsa/fpv/dataset.py:42`), though the docstring
says only a corrupt line earlier in the file raises (line 30).

*Transports.* Several concurrent senders exceed the total rate of a pacer
(`docs/specs/m2-soak-fuzz.md:26`): only each caller's own rate holds, which is what is proved.
A provisioning that raises ends Meshtastic's supervisor, and stop() raises it again before it
releases the radio (`packages/meshsa/README.md:149`). Back-off starts over once a connection
is accepted, even if it is dropped at once. MSP emits an old GPS fix again at every poll; a
restarted source polls a closed device.

*Jetson.* `MavlinkPoseSource` keeps a stale pose for ever, and nothing wires one; a tracker
that raises leaves the counters of a frame behind.

*Scout.* With a store file shared by pipeline and station a decision and a refinement can
overwrite each other; a restarted station makes new pins of old anomalies; a refined pin
keeps its msg_id, so routers that dedupe drop the refinement; a `store.add` that raises leaves
the frame's skew uncounted; the plan covers its block only if the footprint is at least a
metre; the home row of an exported mission takes the first waypoint's height above ground for
an absolute one; a relative bearing documented as `[0, 360)` can round to 360.

*Processes and surfaces.* The start script goes on when a consumer did not come up, though its
header says consumers listen first, and a later start revives one under a running proxy; pid
files outlive a reboot and may then name strangers. The console installs no SIGTERM handler,
so its node is not stopped; a health listener that fails after `node.start` leaves the node
up. A padded token is taken verbatim by station and health, and no bearer matches it
(`docs/NEXTSTEPS.md`). A dead FreeTAKServer reads as "no active tracks", and a blank uid hides
a good id. The console's tracks are in order of arrival, not of time.

## 5. Proofs

The theorems hold for every value of the constants under the module's named assumptions (types
of the constants, distinctness of tokens, `Stale <= Critical` and the like) and under the
hypotheses stated in them. Every property a theorem states is also checked by a run: by its
name, or as part of another, like `SendsBounded`, which `Supervised` contains, and the members
of `AnswersSound`.

| module | proved | inductive invariant |
| --- | --- | --- |
| `CommanderProofs` | type correctness, `OneFate`, `AuditedBeforeSent`, the refinement `Supervised`, `SendsBounded`, `ForceOnlyWithForceAck`, `AcceptedIsGenuine`, `AwaitedAckKept` | `TypeOK`, `GateInv`, `StageInv`, `HolderInv`, `TrailInv`, `ForceInv`, `AckInv`; `TracedInv`; `VerdictInv` |
| `RouterProofs` | type correctness, `DeliveredOnce`, `SentOnce`, `DropIsDuplicate`, the refinement `Flooding`; `EchoBounded` | `FrameInv`, `SeenInv`, `HandledInv`, `ForwardInv`, `SentInv`, `SourceInv`; `EchoInv` |
| `InferenceProofs` | type correctness, `GateSpaced`, `ReplayInOrder`, `Accounted` | `TypeOK`, `TaskInv`, `GateInv`, `RetryInv`, `HistoryInv`; `ResolvedInv`, `LossInv` |
| `LinksProofs` | `NoStraySends`, `OneConnection`, `OneSocket`, `OneInterface`, `SourcesInOrder`, `CallerPaced`, types | `TakInv`, `CastInv`, `RadioInv`, `SourceInv`, `PaceInv` |
| `SurfacesProofs` | `PinsKept`, `TurnsMatch`, `PictureCurrent`, types | `ScoutInv`, `ChatInv`, `PictureInv` |
| `HostProofs` | `StackInOrder`, `EndsClean`, `RecordsKept`, types | `StackInv`, `ProcessInv`, `FilesInv`, `ReaderInv` |
| `OnboardProofs` | of the guard `ArmsOnlyGranted`, `NeverDisarms`; of the logger `SessionAccounted`; of the landing loop `FailsLoudly`; of the link `TelemetryKept`; types; all of them of the composition | `GuardInv`, `LoggerInv`, `LandingInv`, `LinkInv` |
| `GroundProofs` | that the composition implements each component, and so `TypesOK`, `NothingLeaks`, `SourcesInOrder`, `CallerPaced`, `PinsKept`, `PictureCurrent`, `TurnsMatch`, `RecordsKept`, `StackInOrder`, `NoStraySends`; of the survey, the settings and the web surfaces `AnswersSound`, of the TAK endpoint and the assistant a part of it | those of the components; `Asked` |

**Commander.** A token in `_pending` has met no fate; a client knows only tokens whose staging
is on disk; at most one worker holds a released token, which is where the unlocked gate is
saved by `del` raising; the holder's attempt counter, audit records and transmissions agree at
every statement; force_disarm past the gate has its force_ack; every acceptance in flight with
the target's id is genuine. For `AwaitedAckKept`, every transmission and ACK under way is
traced to a token that has been transmitted and whose holder, if there is one, holds a command
with its MAV_CMD number (`TracedInv`), for any number of threads: so a worker that pops an ACK
of its own matches it. The theorem itself supposes one worker, which is how the sender was
written; `commander_ack_theft` shows what a second one does.

`Supervised` is the refinement of `Supervision`. What has been decided about a command is read
off the gate and the history (`Fate`), its records are those in the log, and its transmissions
those the history counts. Each step of the service is shown to be one `Stage`, `Decide`,
`Record` or `Transmit` of one token, or a stutter. What the other invariants do not say is that
the verdict is recorded once: no token still staged, and none whose holder has yet to reach the
sender, has a `command_confirmed` on record (`VerdictInv`).

**Router.** For any topology whose codecs keep `msg_id`, as long as the cache can hold one id
per message (`IdPreserving`): frames in flight carry published messages; the cache holds
exactly the ids of what the node handled, hence evicts nothing (a pigeonhole argument); one
task of a node forwards a message, and the transports it has yet to visit have not seen it.
`Flooding` is the refinement of `Flood`, step by step: what waits in an inbox came over that
bus from a neighbour which has handled it (`SourceInv`), so a message enters a node only from
one that has it, and every other step of a router is a stutter.

*Across CoT* ids do change. `EchoTheorem` bounds what that costs: a node delivers a position
at most three times and a detection at most four, once less if it published it. On every link
only frames of a certain form can arrive (`EchoFrames`), they carry one of the few ids CoT can
make of the message (`EchoIds`), every delivery puts another of them into the cache
(`EchoCountInv`), and the cache, which can hold them all, evicts none. Its hypothesis `FewIds`
is not idle: no chat, which gets a new id at every hop; a cache for all these ids; and *no
detection may take its track to a second CoT bus*. CoT appends the track to the uid, so with
two of them, say a TAK server and TAK multicast on one gateway, or one each on two gateways
that share a JSON bus, the uid and with it the id grow at each hop, and nothing bounds the
echoes.

**Inference.** Whoever sleeps in the gate holds its lock, and what is left of its sleep and
what has passed since the last request make an interval (`GateInv`): so a cancelled sleeper
cannot let the next one leave early. For the replay, `entered` remembers the order in which
messages first failed: each appears there once, when its own task has ended (`EnteredInv`);
the queue follows that order, and a message being replayed, taken off the front under the
drain lock, precedes all that is queued (`OrderInv`), which is why putting it back at the
front keeps the order and why the element a full deque then drops is the newest; what is
queued or on its way to the API has no insight yet (`PublishInv`). For the accounts, every
step is shown to lose no message or just one, by what it does to the set of those that wait or
are replayed; what is queued, being replayed and answered are disjoint (`ResolvedInv`), so the
one message lost was not lost before, and the count of losses and the number of lost messages
move together (`LossInv`).

**Links.** *TAK:* only the writer in use can be open (`TakClosedInv`); who connects or has
given a connection up holds no writer (`TakWriterInv`); the writer a paced send() holds is the
current one only while its session lasts (`TakHeldInv`). *Multicast and radio:* whoever is
about to open a socket or interface holds none. *Sources:* as long as no join has timed out,
only the reader of the session that lasts may still run (`SourceAloneInv`), and the fixes that
are queued and about to be handed over continue, without a gap, the count of those that were
put into the inbox or dropped before it (`SourceOrderInv`).
*Pacer:* `pcLevel` is a leaky bucket of what each caller sent, the bound in question. An awake
caller's level fits beside the tokens it could take; a sleeping one was promised a token that
is not in the bucket, and its level will have drained by one when it wakes.

**Surfaces.** *Scout:* a cluster keeps the anchor of its first fix, whatever it adopts later,
and no two anchors are within a radius, so a fix near an anomaly that stands alone finds the
one cluster there is; the store is what the clusters say, with the operator's status, at every
statement of the pipeline. *Assistant:* where a chat is in its rounds determines how many
turns it has, and while tools run the results so far answer the first of what the last turn
asks for. *Console:* the entries of a store are, in order, the last places in the history at
which each of their keys was heard, and the last place of a key that is missing comes before
all of these and is stale or has `Cap` more recently heard keys after it (`Shown`). An upsert
moves a key to the end of both, an eviction takes the least place, a sweep what is stale; that
two enumerations of a set of places in ascending order are equal is proved by well-founded
induction on the places (`RankType` and the lemmas after it).

**Host.** *Services:* what the script has passed says which of the services before it run
(`StackPassed`), so a proxy is reached only behind its consumers. *Process:* what is left to
do is one of a few lists, and a process past its run has its tear-down before it. *Dataset:*
the cells of the file and then those of the buffer are a prefix of the lines written
(`FilesInv`); the reader stands at the end of a record or within the one that follows its
last, and if it met a torn end, there is nothing behind it in the file or the file has grown
since (`ReaderInv`): what a next line can be follows from the three cells of a record.

**Onboard.** *Guard:* a confirmed OK rests on a full window of good evaluations and a pending
one on as many as it has waited; a report keeps that evidence; while the operator holds the
arm channel high after it was sent high, the guard is latched, and a latched guard has sent it
high or was let through on a settled link and failed to (`LatchedInv`). `okFor`, what the
evaluations showed, and `pendingFor`, what the monitor counts, are different clocks. *Logger:*
for each stream, the calls that returned are the lines written, those counted as dropped and
those still on their way (`LoggerCounts`), and a writer that has seen the sentinel has passed
all that returned before close() (`LoggerOrder`). *Landing:* ids are given out as a high-water
mark, so it is their number (`TrackInv`); whatever makes the monitor fresh came from the
autopilot (`HeardInv`). *Link:* what was delivered and what can still be taken from buffer and
wire are together what came through whole; a step is shown to take from the buffer a prefix
that ends where a whole frame ends or at a byte that begins none, so that no whole frame is
cut (`TelemetryKept` is inductive with the types, `BufferBounded` and `RecentInv`).

**Queries.** A query module takes no step, so what is asked never changes (`Asked`), and its
properties are facts about every possible input, for every bound on them. *Survey:* the rows
of a block are numbered without a gap (`RowsOfBlock`), so the path is given row by row
(`PathByRows`), and no point is further from the nearest row than half a step, which the
footprint reaches (`Covers`); a sorted order of at most three poses exists, bisection splits
it at the time asked for, and the nearest pose is one of the two around the split
(`NearestFound`). *Settings:* field by field, by the layers that set it. *Endpoint, web,
assistant:* by the cases of the options, the headers and the kinds of a value.

*Only model-checked.* Liveness: `RequestsTerminate`, `Settles`, `Finishes`, `Ends`,
`NothingStuck`, and `FailsClosed`, which says that the gate is closed in the end and needs
fairness; fairness and ENABLED are beyond the prover. Of `AnswersSound`: the projection of
pixels, the framer of TAK events, codecs, CRSF telemetry, RC channels and the lines the
assistant is told about tracks, where folds or recursion over data compute the result, and the
prover has no induction for them; for these each small input is compared. The properties that
the code violates are refuted, so there is nothing to prove of them. All other invariants and
action properties of the runs are proved.

## 6. Not modelled

- Numbers as floats: rounding, geodesy at short range, error estimates, the scale of sensor
  values. The models compute with small integers on grids.
- The conversion of finished sessions into other formats; the pages' HTML; wording.
- Adapters to third-party inference, camera and radio libraries: modelled only from how the
  code uses them.
- Metrics counters and logging, which observe and do not steer.
- The repository's own linters (`tools/`), installation scripts, the CAD generator and the
  TypeScript scaffold: run once over files, or a scaffold of mock-ups.
- Memory that runs out, and clocks that go backwards (the code uses the monotonic one, but for
  timestamps).

`PROJECT.json` says, for each component, what of it is left out.

## 7. Where to go on

The answer to a command as part of `Supervision`, which today promises nothing about it; the
console and the scout store as implementations of what a reader is promised, in the same way as
`Supervision`; a composition of the polling sources with the router, where a restart's repeated
ids meet the caches; the scout's triage race with a fix of the store under an optimistic lock.
