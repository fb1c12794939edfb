# LIGHT-BELT: a verification project

TLA+ specifications of the light-belt system (`src/`), model-checked with TLC and, in part, proved with TLAPS. Every definition of a specification is translated from the source lines that `PROJECT.json` ("map") names for it; this file says what the parts are, which module models which, what each run and each theorem shows, and what is left out.

Contents: 1 the system · 2 the modules · 3 the runs · 4 the proofs · 5 where code and documents part · 6 what is not modelled · 7 the plan.

## 1. The system

A show is a YAML file of cues. A *host service* (FastAPI, `src/host_services/`) starts it for a kiosk: it makes `mpv` play the video and runs a `light_engine` subprocess (`src/light_engine/`) which, frame by frame, composes the cues, maps the result on physical strips and sends it to nodes: DDP and UDP v3 over Wi-Fi, RS-485 over a serial line. An ESP32 *node* (`src/firmware/esp32_ws2811_node/`) synchronises its clock with the host's beacons, reassembles long frames, and starts the transmission of a frame so that its last bit leaves when the frame is due.

| Component | State | Operations | Talks to | Hard because | Correct when |
|---|---|---|---|---|---|
| Node session protocol (`main.cpp`, `frame_state.cpp`, `led_output.cpp`) | two tasks' locals, a queue of one frame, atomic `announced`, `prepared` and `committed` generations, the last committed frame | receive, admit, announce, flush, enqueue; take, prepare, wait, transmit, publish, revoke, black out | the host over UDP, the strip's driver | two cores without a lock; UDP loses, repeats, delays and reorders; a session may start in the middle of everything | a commit is of an admitted session and in order, and only the KEY may be shown again, before anything follows it; the strip goes black when the host is silent |
| Chunk reassembly (`chunk_reassembly.cpp`) | the active identity, the pixels received, the completed identity | accept, noteComplete, reset | the socket and the filter of networkTask | datagrams of several frames and sessions mix | no frame is put together from two; a frame that was not queued can be offered again |
| Presentation clock (`presentation_clock.cpp`) | a window of beacons' offsets, the estimate, the last beacon | observeBeacon, status, evaluateDeadline, convertHostToLocal | the host's beacons | 64-bit arithmetic, expiry, clock resets of either side | never ready on stale or inconsistent samples |
| Strip backends (`spi_ws2811_backend.cpp`, `led_output.cpp`) | buffers prepared per channel, the buses in flight | prepare, transmitPrepared, recovery, showBlack | SPI, RMT | half a transaction may fail | after a failure the strip shows the committed frame or is black |
| Wire (`protocol.cpp`, `owned_frame.cpp` of the ESP32; `udp_v3.py`, `ddp_output.py` of the host) | none | encode whole, chunked or as DDP; parse against the node's outputs | both sides of the air | sizes and limits on two sides that only agree by convention | what an accepted configuration sends is what a node built for it accepts |
| STM32 node and the RS-485 bus (`stm32_analog_node/`, `serial_output.py`, `rs485_v2.py`) | the reader's position and last byte time, fades, the time of the last valid packet | loop: read, apply, fade, go safe; the host's flush | the serial line | bytes are lost, damaged and late; a payload looks like a sync byte; a silence makes it safe while a fade runs | the lamp goes where the last whole packet says, and is dark in silence |
| Playback (`engine_adapter.py`, `real_engine_adapter.py`) | `_state`, the adapter's show and its two subprocesses, `mpv` with its client | play, pause, resume, seek, stop, reset, lights, scenes; the watchdog | mpv over IPC, `light_engine` subprocesses, WLED | requests and the watchdog thread share everything without a lock and block for seconds; mpv dies, hangs or is missing | one engine drives the lights and can be stopped; what is reported is what runs; an end or a crash is noticed |
| Auxiliary triggers (`real_engine_adapter.py`, `starry_sky.py`) | a thread, a stop event, an assumed on/off state | start, stop, poll; ensure_on, ensure_off | mpv, a device with a toggle | a thread that outlives its stop; a toggle is not idempotent | a trigger belongs to the show that plays |
| Scenes, authentication, WebSocket broadcast, node resolution (`host_services/`) | a JSON file, tokens and tickets, connections, a profile | save, delete, apply; issue, consume; connect, broadcast; resolve | disk, clients, mDNS | crashes between steps, two consumers | nothing half-written; a ticket is good once |
| Engine and outputs (`light_engine/engine`, `outputs/`) | the position, the open outputs and their health, a session with its sequence | run: open, per frame render and send, timeline reset, SAFE, close | clock, nodes | an output fails in the middle of a frame; clocks jump | a failed output stops the run and every open one is made safe |
| UDP v3 sender (`udp_output.py`) | session, sequence, needs_key, the newest frame | open (beacons), flush_latest, close | nodes | a partial failure of a KEY | a session begins with its KEY |
| Clocks (`clock.py`, `media.py`) | an anchor | position, wait, seek | mpv, wall clock | pauses and jumps | the timeline does not go backwards within a session |
| Show loader (`show/loader.py`) | none | load_show | the compositor | 1100 lines of validation that the compositor relies on without repeating it | what is accepted can be built and rendered |
| Show compositor, branches, adaptive selector (`show/`) | jobs with a motion clock, effects and modulation per worker; candidate, confirmed state, holds and cooldowns; the last frame | construct, render, reset | effects, music | hidden state carried from frame to frame; a pause repeats a timestamp; branches must not drift | branches move as one, a pause changes nothing, an effect changes calmly |
| Configuration, layout and mapping (`config/`, `mapping/`) | none | validate_config, Layout, VirtualPath, PhysicalMapping | outputs | four readers of one file, each with checks of its own | a pixel reaches its LED, and an accepted file plays |
| Effects, colours, audio analysis | per-effect state | render | | floating point | |
| Agent campaign and pipeline (`scripts/agent_*.py`) | the campaign branch, a branch, worktree and report per phase, two processes | start; create, implement, gate, review, commit, merge, clean | git, two coding agents | killed anywhere and started again; what survives is only git and the reports | a phase is merged once and only with files it may touch |
| Network setup service (`scripts/setup_service.py`) | globals of the switch, the hotspot, the announcement; NetworkManager's profiles and connection | connect, hotspot, forget, the watchdog, start and end | nmcli, phones, mDNS | threads share the globals and one radio without a lock; every command takes seconds and may fail | the board can always be reached again |
| Kiosk (`kiosk/`) | what the service returned | | host service | | |

The hazards of this code, each at the line where it bites and with the properties that watch it, are listed in `PROJECT.json` ("hazards").

## 2. The modules

**NodeSession** models the two tasks of an ESP32 node. `networkTask` is the actions `Net*`, `outputTask` the actions `Out*`; each makes at most one access to what the tasks share, so that TLC interleaves them as two cores would. `announced`, `prepared` and `committed` are the atomics `announced_session_generation`, `prepared_session_generation` and `committed_session_generation` (main.cpp:46-48), `frameQueue` the FreeRTOS queue of one item (`xQueueOverwrite`, `xQueueReset`), `rxGen`, `lastRx` and `sessionId` what networkTask remembers of the session, `cand` outputTask's candidate, `lastSeq`, `lit`, `acceptedAt` and `needsRecovery` the `NodeState` and `LedOutput` behind it. `loadFirst` is the one of two atomic loads, arguments of one call (main.cpp:594-597), that the build evaluates first: C++ leaves it open, and `LoadFirst` has the orders a run looks at. Every frame the host has sent may be received at any later time, any number of times, or never; `Deadline` and `Start` make it overdue. The images are the production ones, which require scheduled frames (`LIGHT_BELT_REQUIRE_SCHEDULED_APPLY`).

**StripPromise** is the abstract specification: what a node promises about its strip. Commits go strictly forward, but for the frame that opens a session, which may be shown again while nothing has followed it (`ShowAgain`). NodeSession implements it (`KeepsPromise`) under the mapping admitted ← generations whose KEY was encoded, generation and sequence ← the last physical commit, strip ← what is lit.

**PresentationClock** is the clock by which a node turns the host's times into its own: `clock` holds the window of offsets and the last beacon, `Observe` is `observeBeacon`, `Ready` its status, `DeadlineOk` `evaluateDeadline`, `Recoverable` the way a KEY takes while the clock is being acquired. The host sends beacons as `UdpOutputV3` does, a burst when it opens and then one when one is due; it may be restarted, replaced by a machine with another clock, and the node may be restarted. `awaited`, `lives` and `steady` are history. Frames are not sent one by one: the properties speak of every frame a host may have sent while it ran, evaluated at any later time.

**FrameReassembly** models `UdpV3ChunkReassembler` together with the filter of networkTask behind it, which decides whether a complete frame is queued and `noteComplete` called. A frame is cut into the same chunks whenever it is sent. `pixels` holds, per chunk, the frame whose bytes are there: startFrame forgets what was received and keeps the bytes.

**Playback** models the host service. A request handler is a sequence of steps (`todo`), each with one access to shared state, because it waits for IPC answers and dying processes between them; handlers run one after the other on the event loop, and the watchdog thread interleaves with them. `active`, `showRef` and `manualRef` are `RealEngineAdapter`'s `_active_show`, `_playback_proc` and `_manual_proc`, `running` the light_engine processes alive, `state` and `show` the service's `_state`, `mpv`, `socket`, `client` and `proc` the player, its socket file, `_mpv` and `_mpv_proc`. `_ensure_mpv` (`EnsureMpv`: look for a stale socket, start a process, wait for its socket) and the watchdog's `_forget_mpv_if_exited` (`ForgetMpv`: poll, unlink, drop one reference, drop the other) are steps too; what `poll` found is `exited`, and between its steps a request may have started another player. A show may have media (`MediaShows`) and yet no duration (`Timed`), when ffprobe failed. `overlapped`, `failed`, `keyed`, `litGen`, `stayedAdmitted`, `heard`, `result` and `queued` (in their modules) are history variables: no guard reads them.

**EngineRun** models one `light_engine`: `Engine.run` with its outputs and their health. `pc` says where the run is: outside, between two frames, in `send_all` at the output `cursor`, about to shut down, or in the SAFE frame of the shutdown. `open`, `healthy`, `seq`, `needsKey`, `frames`, `audio` are the fields of the engine and its outputs, `last` is at once `_last_clock_time` and the mpv clock's position (the loop copies one into the other in every iteration that goes on, and every run begins with the copy), `shown` the show runtime's last timestamp. `InitOutputs`, `BeginRun` and `BeginFails` are the openings, `Render`, `RenderFails`, `Backward`, `Finish` and `Interrupt` the ends an iteration may come to before its frame is sent, `Skip`, `Send`, `SendFails`, `SendInterrupted` and `Sent` are `send_all`, `MakeBlack` and `CloseAll` are `_shutdown`. A UDP frame that fails leaves on the air what preceded the failure; a SAFE frame leaves everything but what failed. `air`, `missed`, `stale`, `blacked`, `outcome` and `seen` are history.

**ShowDocument** is the strict loader: one predicate per part of a document, over records as `yaml.safe_load` returns them. `Junk` stands for any value of the wrong type; numbers are integers, and levels are fractions of `One`, which is 1.0. `Registry` holds the contracts the effects register: a specification for each parameter, whose own demands are `RegistryAssumption`. **AdaptiveSelector** is the state machine that picks the effect of an adaptive cue, as functions on a record of its state; features are in hundredths, times in ticks. **ShowRuntime** puts both to work: a document is loaded, the constructor resolves it, and `Render` makes a frame per timestamp. A cue is worker 0 and its branches are workers 1, 2, …; they share the cue's motion clock and have an effect and a modulation each. An effect is the number of frames it has processed, a pixel the stack of contributions that can be seen in it: enough to tell whether two workers have drifted, without a colour. `Canvas`, `Span` and `Laid` say which pixel of an effect a pixel of a path shows; they are what the release of a branch is measured against. `Reset` is `ShowRuntime.reset`.

**LightingProfile** has what reads a configuration: `validate_config`, `Layout.from_config`, `VirtualPath` and `PhysicalMapping`; the fields that the first does not look at and the second refuses (`Oriented`) are among a profile's. **FrameWire** has the wire: the encoders of a whole frame, of its chunks and of DDP packets, and the parser and the copy of the node, with every size in bytes. **FrameDelivery** runs both: the engine loads a profile or refuses it, maps each frame, sends it, and one receiver – a node built with any of `Headers`, or a WLED controller – gets the datagrams in any order, again, or never. The host's own receiver (`UdpV3FrameReassembler`) gets the same datagrams beside it. Of UDP v2 and RS-485 it has what their packets refuse (`V2Fits`, `BusFits`): a frame that some output cannot encode ends a production run, and in memory or fake mode that output drops it and every other (phase "dropping").

**AnalogNode** is the STM32 node's loop, reader, fades and safe state, and the serial output that feeds it. A byte carries the packet it belongs to and its place in it, so that a CRC that fits means that all bytes are of one packet; the five channels are one level. `air` holds the packets on the bus, of which the first has `gone` that many bytes; `Read` takes one byte from the UART into the reader, which applies a packet that is whole, and `Loop` is the rest of an iteration: the silence, the fade. `Arrive`, `Disturb` and `Restart` are the bus and the power.

**NetworkSetup** is the setup service. A thread is the sequence of steps it has still to do; a step is one command with the assignments right after it, and the steps of the watchdog, of every switch and of every requested hotspot interleave. `mode`, `hotspotActive`, `switching`, `status`, `mdns` and `fails` are the module's globals; `profiles`, `active`, `addr` and `inRange` are NetworkManager and the radio, which are external. A registration may fail, which is only logged, and so may a withdrawal, after which no handle is left to the announcement: `announced` is what mDNS answers, `held` what the handles stand for, `mdns` is `_mdns_ip`, and `leaked` the addresses whose withdrawal failed. An access point may go down by itself (`Drop`), and a request may delete any profile, the hotspot's own among them (`Forget`). `leaked`, `blind` (the hotspot the service believes in went down, or did not come up when it was set up by hand) and `raced` (two threads have been at work at once) are history.

**AgentCampaign** is `agent_campaign.py`, `agent_pipeline.py` and `agent_worktree.py`: `trunk` is the campaign branch, `branch`, `tree` and `report` what a phase leaves in git and on disk, `campaign` and `pipe` the two processes, `clean` whether git finds the repository clean. A manifest is a sequence of `Steps`, each a phase with its repairs; the task file of a phase (`Tasks`) has the patterns of files it allows and forbids and its commands for the gate. The coding agents and the commands of the gate are external and may do anything to the files; a command that is late or cannot be started ends the run. `Killed` ends both processes at any step, and the operator may start either by hand, clean up, or edit files in between (`Edit`).

**MCNodeSession**, **MCEngineRun**, **MCAgentCampaign** and **MCNetworkSetup** give the schedules, outputs, phases and requests the configurations use. **MCFirmware** runs FrameReassembly and AnalogNode side by side: they share nothing, so that each step of their product is a step of one of them, and each is seen in every state of the other. **MCShowRuntime** has three documents that are accepted and one of version 1, and each of them with one field changed in the ways that matter; **MCFrameDelivery** does the same with profiles (production, diagnostic, legacy topology, WLED). **NodeSessionProofs**, **PresentationClockProofs**, **FirmwareProofs** (FrameReassembly and AnalogNode: what reads datagrams and bytes on the two kinds of node), **EngineRunProofs**, **PlaybackProofs**, **ShowRuntimeProofs**, **FrameDeliveryProofs** and **ScriptsProofs** (NetworkSetup and AgentCampaign: the two services that drive other programs) hold the theorems. FrameReassembly names its specification `FrameSpec` and AgentCampaign `CampaignSpec`, so that one module can extend it and AnalogNode or NetworkSetup.

The specifications meet where the parts do. EngineRun says which frames are sent and in which order, FrameDelivery what a frame is on the wire and where its pixels end, FrameReassembly how the datagrams of several sessions mix at a node, PresentationClock which of them are on time by the node's clock, and NodeSession when the node shows what was put together, by a clock that is ready and exact: FrameReassembly's `Wanted` and `OfferAndQueue` and FrameDelivery's receiver stand for NodeSession's `NetReceive` … `NetEnqueue`, FrameDelivery in one session with a clock that is always on time. What they assume of the host, that the first frame of a session and no other carries the KEY, is EngineRun's `KeyOpensSession`; a node that is silent or black at the end of a run is the counterpart of `EndsClosed`. ShowRuntime is what EngineRun's `Render` calls; EngineRun's `shown` is its last timestamp. Playback's engine processes are EngineRun's engines: a play, a reset and a manual command each start a process that opens a session of its own.

## 3. The runs

| Run | Shows | Bounds |
|---|---|---|
| `node_session` | the session protocol in every interleaving, and the promise of the strip; once the host is silent the strip goes and stays black; a queued KEY is admitted or superseded | 2 sessions of 2 frames, sent at 0, 2, 3 and 4: the last frame of session 1 is still due when session 2 opens. Lead 2, wire time 1, tolerance 1 (the wire time does not exceed the tolerance, as on 11 of the 13 nodes of the shipped profiles), timeout 1, clock to 8, builds of both orders of loads; 1.5 million states |
| `key_copies` | *violation*: a copy of the KEY is committed once more | one session of 2 frames, the same timing, clock to 6 |
| `presentation_clock` | what passes the deadline is shown in time; a KEY is not lost while the clock is acquired; the clock recovers within a bound | 2 hosts with clocks far apart, 2 restarts of host, engine or node, a window of 3 with a quorum of 2, beacons every 2 that take up to 1, expire after 3, and one stray as late as it likes; clock to 10, 1 more than the bound of `Recovers` |
| `firmware` | ESP32: no mixed frame, no duplicate that was not queued, continuations queued forward. STM32: the lamp goes to the level asked for last without passing it, and is dark after a silence | ESP32: 2 sessions of 3 frames of 2 chunks (symmetric); a third frame lets the reference be older or newer than the frame that arrives. STM32: 2 frames for 2 nodes, packets of 5 bytes, clock to 6, a pause of 1 and a silence of 2, fades that end within and beyond a frame, 1 fault; 2.25 million states |
| `playback` | one accounted engine; agreement of the service's and the adapter's state; an end and a crash are noticed | a show with a duration, one whose duration ffprobe could not tell, one without media; 3 requests of any kind, 1 crash, late socket or IPC timeout, streaks of 2, mpv that may not start; 1.8 million states |
| `playback_orphan` | *violation*: a finalization that meets a play orphans an engine | 3 requests, 1 fault, mpv that can be started |
| `engine_run` | success means delivery, a session opens with its KEY, the SAFE frame is the newest, everything ends closed, no show state bridges a jump | DDP, UDP v3 and serial; 2 nodes, 2 rounds of the KEY, 2 runs of up to 3 frames, positions to 10 with a period of 2 and a show of 9: steps of every size, jumps, and steps back within and beyond a period |
| `show_runtime` | what the loader accepts can be built and rendered; branches stay in step with their cue and are released when the path is laid out past their member; adaptive effects change calmly | shows of 2 cues on 9 ticks with timestamps at most 2 apart (every pair of cue, track and transition boundaries falls between, on or across frames), 4 documents with one field changed each way |
| `frame_delivery` | an accepted profile plays; every LED shows the pixel the profile puts there; the newest frame is shown once it has arrived; the host's receiver agrees with the node | strips of 1 to 4 pixels, payloads of 45 to 52 bytes (one pixel per chunk is the least the encoder allows; most profiles send two, some up to four), DDP packets of 2 pixels, 3 frames: a KEY and two continuations; 411 profiles, among them one each with an unknown direction or video zone, an analog node 7 or a fade of 65536 ms |
| `network_setup` | the board can always be reached again; the address announced is the address it has; the Cabin AP's profile is kept | one site, threshold 2, 1 request of any name, 2 faults (an access point that fails or goes down, a network lost, a new lease, a registration or a withdrawal that fails), 1 restart, both modes; 910,000 states |
| `network_race` | *violation*: a hotspot that is believed in and down is never opened again | 1 request, 1 fault, 1 restart |
| `agent_campaign` | what reaches the campaign branch is in scope; no phase twice; a campaign ends | 2 phases, 2 files, of which the one is allowed to one phase only, 1 repair, 5 commands by hand, the operator's edits among them |

Why these bounds suffice: a session interacts with its predecessor only (an older generation is compared for equality, never ordered, by outputTask), so two sessions contain every pair; two frames give a KEY and a continuation; the number of copies is not bounded. In Playback the third request is the one that meets the leftovers of a request and a finalization. In EngineRun the second run is the one that meets what the first left behind; three frames give a KEY, a continuation and one after a failure, and in FrameDelivery one that is passed by another. In NetworkSetup the second fault takes away what the service fell back to, in AgentCampaign the second phase starts on what the first left, and a start more than the phases lets a phase be tried again after a cleanup. Streaks of 2 distinguish "not yet" from "now". `MaxTime`, `MaxGen`, `MaxFrames`, `MaxRuns`, `MaxRequests`, `MaxFaults`, `MaxRestarts`, `MaxStarts`, `Frames`, `MaxStrays`, `Skip` and `Horizon` are bounds of the runs: a state at a bound still takes every other step.

Deadlock is checked for NodeSession and Playback. It is not in the others, each of which has bounded work and then stops: an engine whose `MaxRuns` runs are over, a show past its horizon or a document that was refused, a campaign without commands left, a profile that was refused, a board that is connected with no watchdog (portable mode), a clock of PresentationClock at `MaxTime`, a product of two firmwares of which one cannot tell whether the other is stuck (datagrams may arrive in every state of FrameReassembly; AnalogNode's clock ends at `MaxTime`).

**Fairness.** NodeSession: weak fairness of the clock and of the output task (a FreeRTOS task of its own core, whose queue receive has a timeout); strong fairness of a successful `showBlack`, which says no more than that the driver works now and then among infinitely many attempts. The network task needs none. Playback: weak fairness of the event loop's current handler and of the watchdog thread (every IPC call has a timeout, and a process that does not die is killed), and of mpv: a player that starts gets its socket, and a file that is loading loads or fails. Nothing makes requests arrive, media end or mpv fail. AgentCampaign: weak fairness of the two processes. Every command of the pipeline has a timeout, and the campaign waits for the pipeline; the campaign's own git commands (agent_campaign.py:51-57) have none and are taken to end. Nothing makes the operator start or repair anything. NetworkSetup: weak fairness of each thread (nmcli's commands have timeouts, the watchdog comes round every `WATCHDOG_INTERVAL_S`), of the restart of a service that gave up, and of the lease of an interface that is up; nothing is asked of the phone, the networks or NetworkManager's own reconnection. The other specifications have safety properties only.

**What properties leave out.** `AdmissionNeverMissed` and `KeepsPromise` are claimed of a build that loads prepared first (`stayedAdmitted`, `PreparedFirst`), of any wire time and tolerance; that a KEY is shown once is not claimed, and is not so (`key_copies`). `EndNoticed` and `CrashNoticed` are of the form []<>: the watchdog may be reset by a pause and starts again. Both are about shows with a duration, since the watchdog looks at no other, and hold as long as the service has its client. `StateAgrees` and `EnginesAccounted` are claimed while no finalization has interleaved with a request (`overlapped`) and, for the first, no play ended half-way (`failed`). `OnTime` is claimed for fewer strays than a quorum and hosts whose clocks are far apart; `KeyTaken` for a clock that is acquired within the recovery window. `BranchesInStep` relates a release to the sweep of its path for cues that draw along this path from its own origin. `TrunkInScope` is about what phases commit: the operator's own commits on the campaign branch are not modelled. `Reachable`, `Announced` and `OneAnnouncement` are claimed while no two threads have been at work at once, `Reachable` also while the hotspot the service believes in is up (`blind`), `Announced` while no withdrawal has failed: an older registration that still answers holds the name. `OneAnnouncement` tells the leaked addresses apart: apart from them there is one, and the service knows it. `AcceptedPlays` is about topology 3 with directions and video zones that exist, numbers that the fields of the wire hold (strips of at most 65535 pixels among them) and the RS-485 bus allows, an analog node or a one-output policy, and enabled nodes that do not share a host; each of these is needed, since validate_config looks at none of them and the run violates the property without it; `NewestShown` is about a node built for the profile whose receive buffer holds its payloads (validate_config allows 65507 bytes, the buffer has `UDP_V3_RECEIVE_BUFFER_BYTES`); `TwinMirrors` leaves out a KEY that comes late, a one-datagram KEY that an immediate node queues again, and nodes built for other outputs. Section 5 has what happens otherwise.

## 4. The proofs

Each component that keeps state over many steps has its theorems in a module of its own: an inductive invariant from which the properties of the runs follow. `TypeCorrect`, where a module has it, is the theorem about `TypeOK`; the other invariants rest on it or contain what they need of it. TLC was asked first, on the configuration of the run, wherever it can evaluate the invariant.

**NodeSession**, for every number of sessions, frames and generations, every schedule, every timing (`SizeAssumption`, `ScheduleAssumption`) and every order of the loads (`LoadAssumption`): `TypeOK`, `GenerationOrder`, `AdmittedByKey`, `OneIdentityPerGeneration`, `AdmissionNeverMissed`, the action property `KeyNotDisplaced`, and the refinement `KeepsPromise`. None of the invariants is inductive by itself. The strengthening `IInv` adds

- `NetworkKnows`: what each program point of networkTask knows of its frame (at "sample" the current generation has been encoded, since a check of either atomic said so);
- `RecordsKeyed`: a generation in `prepared`, `committed` or in a value loaded from them had its KEY encoded. This is why no order of loads can admit too much;
- `OlderThanOpening`: while a new session is announced, everything queued or taken is older. With it the new generation cannot meet an item of another identity;
- `ItemsBelong`: the queue holds at most one item, and generation 0 is never queued.

`AdmissionInv` is the converse, that no order of steps admits too little. Generations rise on their way from the queue to the strip (`GenerationsRise`); an announced generation whose KEY is encoded stays in one of the two atomics, because outputTask stores it in committed before it clears prepared and only revokes older ones (`StaysOnRecord`); and so, if prepared is loaded first, a generation that has left it by then is in committed (`LoadsSee`).

`NodeKeepsPromise` says that NodeSession implements StripPromise in a build that loads prepared first (`PreparedFirst`; section 5 has what happens otherwise), whatever its timing. `PromiseInv` has the argument: within a generation sequences rise from the strip over the candidate to the queue and to what networkTask has in hand, and only copies of the KEY repeat (`SequencesRise`); a copy on its way meets a strip that shows nothing of its generation but the KEY, or is black (`CommitsGoOn`).

**FrameReassembly** (`FrameSpec`, in FirmwareProofs), with any finite set of chunks: `TypeOK`, `WholeFrame`, `DuplicateWasQueued` and the action property `QueuedForward`. Every received chunk's pixels are of the active frame, and the completed frame was queued (`AsmInv`); what was queued under the current session is bounded by `lastRx`, and before the admission there were only copies of its KEY (`QueueInv`).

**PresentationClock**, for every configuration with more samples in a quorum than strays (`ConfigAssumption`, `DelayAssumption`) and hosts whose clocks are far apart (`UptimesAssumption`): `OnTime` and `KeyTaken`. `ClockInv` says of each sample in the window that some host sent its beacon and that it took some time to come, of none that its host has a clock later than the last beacon's, and that no more samples are late than strays were (`FewLate`). A clock that is ready has a quorum of samples near the smallest one, which is its estimate (`RankedIsThere`). Since a quorum is more than the strays, one of them is of a prompt beacon; it is of the same host, since clocks of different hosts are never so near (`Apart`), and so the smallest is prompt as well (`EstimateInTime`). `OnTime` follows by the same distance: a time of another host's clock cannot pass the deadline. `DelayAssumption` relates what a prompt beacon may take to the tolerances of the configuration.

`Recovers`, from the same module, where beacons of a host come one after another and within the age of a sample (`PaceAssumption`). `SteadyInv` has what is added while nothing is lost, restarted or out of order: the beacons on the air follow one another in the time at which they were sent, an interval apart (`Pacing`, `Paced`); once another host's estimate has had the time to expire, each beacon of this host is taken, none as a beacon of a second host (`Heard`, `Answered`); and so the last `k` samples of the window are of prompt beacons, of which the newest came no later than `k` intervals after that time (`Counted`). A quorum of such samples makes the clock ready (`QuorumIsReady`). The bound that was only model-checked before left out the time that the last beacon travels: it held for the configuration of the run and, as TLC confirmed, not for a spacing of 2.

**AnalogNode** (`Spec`, in FirmwareProofs), for any number of nodes, packet length of at least 3, timeouts and fades (`AnalogAssumption`): `DarkInSilence`, the action property `Towards` and `ShowsLatest`.

- `SilenceInv`: what the node takes for its last packet is no later than the last whole one, and a node that is safe is dark; a packet is read at the time its last byte came.
- `FadeInv`: during a fade the level is that of some earlier moment of the fade (`Midway`). Since `Lerp` is monotone in the time, with the rounding of the integer division (`LerpGoesOn`), the next level lies between this one and the target.
- `LatestInv`: while the bus has been undisturbed since a pause in front of a packet (`clean`), what the reader keeps followed by what waits in the UART are bytes of whole packets in their order, up to where the bus is (`Follows`). Then a packet cannot be lost to a sync byte inside a payload, and the one that is due is either still coming or applied (`DueKnown`).

**EngineRun**, with any selection and order of outputs, any number of nodes, of rounds of the KEY, of frames and runs, and any period (`EngineAssumption`): every invariant of the run `engine_run`. The strengthening adds what each place of the run knows: `Counting` (the sequence is the number of frames sent, plus the one in hand), `Openness` (all outputs are open during a run, and UDP is healthy until its failure ends the run), `Ending` (a run in its loop has missed nothing but on outputs that were unhealthy from the start), `Session` (`needsKey` is set exactly until the first frame has passed the UDP output, and once it is cleared every copy of the KEY is on the air), `Ages` and `Timeline`. `Session` is what `KeyOpensSession` needs: a KEY that failed half-way leaves the loop, and the sequence 1 does not come back before a new session is opened.

**Playback**, for any shows, streaks and numbers of requests and faults (`PlaybackAssumption`): `EnginesAccounted` and `StateAgrees`.

- `ShapeInv`: what is left of a handler is a `Program`: a kill follows the grab that names its victim, a start comes last, after what it replaces is dropped. Programs are put together from pieces, and the lemmas about pieces are what every handler cites.
- `EngineInv`: while no finalization has interleaved, the engines that run are the ones the adapter refers to, and at most one; a thread that works alone finds what its remaining steps rely on (`EngineFits`).
- `AgreeInv`: the service's state and the adapter's need not agree while a handler is at work; what they will be once its remaining steps are done does (`Ends`). A step with both threads busy sets `overlapped`, so otherwise a thread is `Alone` and nobody comes between it and what it is about to do.

**ShowRuntime**, for any document the loader may be given, any registry of effects that `register_effect` admits (`RegistryAssumption`), any layout (`LayoutAssumption`: no strip is empty, mapping/__init__.py:122, and paths lead over strips, mapping/virtual.py), any inputs with levels from 0 to 1 (`InputsAssumption`) and any times (`TimesAssumption`): every property of the run `show_runtime`. The document is a variable of the specification, so that nothing but what `Accepted` says is known of it; the lemmas `Accepted…` draw from the loader's predicates what each part of the compositor relies on.

- `SelectorCalm`: `MusicSwitchesCalmly`. `MusicInv` ties the selector to an observer that hears the same music (`Listens`): its candidate is the state that is heard, the candidate's time is no earlier than the observer's, and the effect it chose is the one that plays and was switched to when the observer says. The effect changes only through a gate that is open once its hold and its cooldown are over (`GateOpen`).
- `BranchesKeepStep`: `BranchesInStep`. `BranchInv` says of a cue and its branches that they have rendered equally often, or not at all before the release, and were moved alike (`Keeps`): they share a clock that is advanced once per frame, and a release stays (`ReleaseStays`), because the cue's time does not go backwards between resets. The second half, that the release follows the sweep, is about no step: the cursor of a sweep grows over a path, whose members lie end to end (`CursorGrows`, `MemberLies`, `SweepTime`), from each of the four origins.
- `AcceptedDocumentsRun`: `AcceptedRuns`. The loader resolves every target that the constructor resolves, with the same layout and groups (`TargetsResolve`), and its checks of branches, effects and bindings imply the constructor's (`JobsBuild`). Rendering raises nothing (`NothingRaised`): a driven parameter always has a value or a fallback, and what modulation hands to an effect passes the effect's validator. The loader tries the validator on the extreme outputs of the bindings only; `CornersSuffice` proves that enough. An output lies between the extremes whatever the source and the smoothing (`SourceInRange`, `OutputInRange`), a parameter grows or falls with its own binding's output alone, with the rounding of the product (`MadeBetween`), and so each range and each relation between two parameters that the corners satisfy holds in between.

What the proofs brought to light was corrected in the model: a worker without an output is told apart from one with the output -1 (`Absent`), the sweep is claimed for a cue whose target is the virtual path itself (`DrawsAlongPath`), and a layout must have pixels.

**FrameDelivery**, for any parsed profiles (`ProfilesAssumption`: what the readers of the fields have made sure of, with any numbers in them), any firmware headers (`HeadersAssumption`), any number of frames and any sizes of a DDP packet and of the node's buffer (`SizesAssumption`; `NoneAssumption` tells a field left out from a number):

- `AcceptedProfilePlays`: `AcceptedPlays`, for every profile that is `Oriented` and `WireSized` and every output it enables (`PlayableV3`, `PlayableV2`, the bus). `PlaysInv` says of every phase what the profile has been found to be. The rest is about no step: what `Accepted` demands implies what `Layout.from_config`, `PhysicalMapping` and the sender check again, and what the encoder asserts: outputs have an order and a number (`SomeOrder`), their pixels add up to the node's (`OutputPixels`), and a chunk of as many pixels as `max_udp_payload` allows is no longer than it.
- `NewestFrame`: `NewestShown`. `NewestInv` = `Journal` ∧ `Collecting`. `Journal` says what is on the air and what the node can have heard; `Collecting`, while the newest frame is being sent, that the node has this frame whole or every light of it that has arrived (and was not lost to a late KEY). The lemmas beneath are about datagrams: a node built for the profile parses each of them, none exceeds its buffer, the chunks of a frame cover its outputs without a gap, and so a frame is whole only when all of it has arrived.
- `TwinAgrees`: the action property `TwinMirrors`. `MirrorInv` adds to `NewestInv` that the host's receiver and the node hold the same pixels of the same frame (`Mirrored`), which until a KEY comes late is as new as the last one queued. The two begin a frame at different points of their code, and agree because every datagram on the air decodes (`TwinDecodes`) and two datagrams of one frame never contradict each other (`PaintedOnce`).
- `EveryPixelInPlace`: `PictureInPlace`. `PictureInv` adds to `MirrorInv` that every light which a receiver shows, collects or holds in its buffer is `InPlace`, that what a node collects is of the frame it has begun, and what it shows of one. No order of datagrams matters to it, since each datagram is in place by itself: `NodePlaced` for what a node is sent, whatever outputs it was built for, `WledPlaced` for a packet. Beneath are the two descriptions of one place. Where the engine renders a path and cuts it up (`Split`) the property counts parts and gaps along it (`PlaceIsAuthored`; the parts of an accepted path are disjoint, so a pixel of a strip is under at most one). Where the encoder reverses strips and puts outputs or segments end to end the property counts the LEDs before them (`OutputsPlaced`, `SegmentsPlaced`). Sums are taken as sizes of disjoint blocks (`BlocksFinite`, `TotalBefore`), and a node has at most three outputs, so that neither needs an induction.

The sums of lengths are cardinalities of unions in these modules (`Total`), where the code adds: the theorems about finite sets say of them what induction over a fold would have to, which the provers cannot do.

**NetworkSetup** (`Spec`, in ScriptsProofs), for any networks, thresholds and bounds (`NetworkAssumption`): `OneAnnouncement` and the action property `CabinKept`. `NamingInv`: while nothing has raced an address is announced right after the last one was withdrawn or its withdrawal failed, which drops the handles all the same and leaves the address in `leaked`; nobody else is at work in between. `CabinInv`: in portable mode no thread has a step of the hotspot or of a switch to do (`OnlyCabin`), and only such steps delete profiles.

**AgentCampaign** (`CampaignSpec`, in ScriptsProofs), with any sequence of steps, any task files, any files and any bound on repairs and starts (`StepsAssumption`, `TasksAssumption`, `BoundsAssumption`): `TypeOK`, `TrunkInScope` and `OncePerPhase`.

- `ScopeInv`: while a review runs or a commit is made, the files the worktree has changed are allowed to this phase (`ReviewInScope`); a phase at work has its branch (`BranchThere`); a branch holds files allowed to its phase only (`BranchesInScope`), so a merge brings nothing else to the campaign branch. The scope is enforced in the gate alone: this is the argument that a repair cannot come after it.
- `OnceInv`: a phase that is merged has a report that says PASS (`MergedPassed`), and the phase at work is not merged (`RunIsNew`). Neither the branch nor the worktree tells, since the operator may clean both; the report is never opened again once it passes.

Only model-checked: the liveness properties `EventuallyBlack`, `KeyEventuallyAdmitted`, `EndNoticed`, `CrashNoticed`, `Reachable`, `Announced` and `CampaignEnds` (fairness and ENABLED are out of the prover's reach). Of every invariant and action property of a passing run there is a theorem.

## 5. Where code and documents part

With a run (`PROJECT.json` "findings" has the quotations): `playback_orphan`, `key_copies` and `network_race`. Without one, by part:

Node and session:

- `prepared_session_generation.load()` and `committed_session_generation.load()` are two arguments of one call (main.cpp:594-597), whose order C++ leaves open. With the second loaded first, a copy of an admitted KEY is queued again, where main.cpp:599-600 says "Once one copy is prepared, later identical copies are delivery redundancy". `AdmissionNeverMissed` is therefore claimed where prepared was loaded first (`stayedAdmitted`, set in `NetLoad`); claimed of both orders it is violated by `node_session`. Only such a copy, followed by a continuation received twice, makes `prepareFrame` refuse a sequence (`OutPrepareFails`), and `node_session` shows the copy on the strip after a delayed frame of the last session when `KeepsPromise` is claimed of that order too.
- A copy of a KEY queued before the first was encoded is stopped by its start time alone (main.cpp:670). A node whose wire time (1000 us and 30 us per pixel, spi_ws2811_backend.cpp:95-104) does not exceed the tolerance of 2000 us (main.cpp:60) commits it once more: 11 of the 13 nodes of the shipped profiles (run `key_copies`).
- `accept` turns away every datagram of a new session's KEY while a KEY of the last one is incomplete (chunk_reassembly.cpp:153), against `docs/reference/udp-v3-chunk-contract.md:71-72`.
- A continuation that overtakes its session's KEY can be queued under the previous generation, noted complete, and after the KEY be collected and queued again (main.cpp:604-608, 670-672), against `docs/reference/udp-v3-chunk-contract.md:69-70`.
- A host that is restarted, or replaced by a machine whose clock reads less, is not heard while the beacons of the last one are fresh (presentation_clock.cpp:105-109), and one late beacon of the old host starts that time again; presentation_clock.h has it as the price of strictly increasing host time.
- Beacons that overtake each other are rejected, so that with beacons closer together than the network's jitter a quorum may take longer to come than its beacons (the startup burst is 10 ms apart).
- A continuation carries no identity of its session: a delayed frame of the last session is taken for one of the new session if that is admitted before the frame is overdue.

Playback and engine:

- When ffprobe fails, a show with media has the duration 0 (shows_loader.py:41-61, 121-126), and the watchdog takes it for a placeholder that "本来就没有 mpv 参与" (has no mpv at all; engine_adapter.py:1158-1159): its end, and a crash of its player, are never noticed.
- A finalization that found the player's process ended clears the references one after the other (engine_adapter.py:1131-1145); if a play starts a new player in between, they are that player's, and the watchdog looks no further while the new show plays.
- If mpv dies and cannot be started again, `_ensure_mpv` leaves `_mpv` and `_mpv_proc` None and the watchdog looks no further (engine_adapter.py:585-586, 1180-1182): "playing" for ever, where engine_adapter.py:1119 has five readings to decide a crash.
- The watchdog's idle streak outlives the show it was counted for (engine_adapter.py:1118, 1204): the next show may be finalized by its first idle reading.
- A resume or a pause that waits for mpv while the watchdog finalizes sets the state afterwards: "playing" with no show (engine_adapter.py:690), where `docs/reference/host-api-v1.md:957` has a show unless idle.
- A play that ends with MPV_UNAVAILABLE has already stopped the old show's engine, and leaves it reported (engine_adapter.py:651).
- The host stops an engine with SIGTERM (real_engine_adapter.py:48), for which `light_engine` has no handler: the process ends without the SAFE frame that `docs/CLOSED_LOOP_SPEC.md:618` asks for at every exit.
- `SerialOutputV2.open` never sets `health.healthy` (serial_output.py:41), so that an output that failed once is passed over by every later run, which ends without an error, against outputs/__init__.py:286-287.
- When the outputs of a run cannot be opened the live audio source opened before them stays open (engine/__init__.py:218-236).

Show:

- A cue's own `origin` replaces that of its path for its pixels (compositor.py:489-498), while its branches are released by the path's (compositor.py:217-229): drawn from the other end, a branch after the first member is released before the sweep has come near it.
- Branches of a cue are composed at declaration_index + index + 1 (compositor.py:544, 550), among the cues declared after it, against `docs/history/campaigns/show-orchestration-v1/contracts/COMPOSE_CONTRACT.md:10-13`.
- Overlapping brightness tracks are accepted by the loader and refused by the constructor. A branch after the last member of a release is never released. A timestamp that goes backwards outside the show raises nothing.

Configuration and delivery:

- `validate_config`, which is to "Validate the complete v2 configuration surface" (config/__init__.py:195), looks neither at the direction nor at the video_zone of a strip or a zone: an unknown one is refused when the layout is built (mapping/__init__.py:79-81, 112-117, 135-140). With RS-485 v2 an analog node above 6 or a fade above 65535 ms is accepted, and ends a production run at its first frame (rs485_v2.py:54-59, serial_output.py:82-87).
- DDP packets go to the node's host at `outputs.ddp.port`, where the configuration asks for unique (host, port) pairs: two nodes on one host are accepted and overwrite each other (ddp_output.py:84-90).
- Accepted by the configuration and refused by what uses it: equal beacon addresses (udp_output.py:232), no analog node without a one-output policy (physical.py:137-144), identifiers, pins and counts larger than their field, payloads up to 65507 bytes where the node's buffer has 4096, UDP v3 with nodes of topology 2.
- The host's receiver begins a frame before it has checked the chunk (udp_v3.py:638-645), and after a late copy of a KEY forgets the frames it returned, where udp_v3.py:521 calls it a mirror of the firmware.
- UDP v2 ignores `enabled`; with topology 2 digital outputs are not checked and automatic segments may exceed their node.

STM32 node:

- Where fades last longer than a frame, each frame starts the fade again and integer division stops it short of its target (the repository's configurations have fade_ms 0).
- A repeated sync byte that the reader keeps loses its time with reset() (protocol.cpp:80-86), so that without a pause the packet it begins is lost.
- The host's stream parser looks for the next packet from the next byte; the firmware drops all sixteen. The host marks SAFE_STATE with a flag that the firmware calls FLAG_APPLY and ignores.

Network setup:

- The setup service takes an address of the Cabin AP for a saved connection in site mode (setup_service.py:775-780) although `_is_site_client_connection` rejects it (:354): a board left on its Cabin AP never opens the setup hotspot. Site networks in 10.42.x.x never count as connected.
- A withdrawal that fails is swallowed and drops both handles (setup_service.py:549-557): the old address stays announced for the life of the process, and the next registration meets its name. A registration that fails is only logged (540-543) and left to the watchdog's next round.
- A hotspot that goes down by itself, or whose profile is deleted by /forget in site mode, is never opened again, since `_hotspot_active` stays set (setup_service.py:623, 730-748; in `network_race`).
- An mDNS registration of the watchdog that meets one of a switch leaks the older announcement. Two POST /connect at once both pass `_switching`. `wifi_connect` deletes a working saved profile before it tries the new one, and after ten looks reports success with whatever address there is (:405-408). /forget deletes the Cabin profile in site mode.

Agent campaign:

- The operator may run a phase by hand, or clean up, beside a campaign that stopped on it, and the next campaign goes on from there (agent_campaign.py:200-208, 251), where `docs/history/campaigns/show-orchestration-v1/install-and-run.md:171` says "Do not manually advance past a failed hard gate."
- A commit whose worktree cannot be removed, or whose result cannot be written, is deleted by the cleanup's `branch -D` (agent_pipeline.py:1182-1234, agent_worktree.py:260). An unforced cleanup removes a dirty worktree (agent_worktree.py:248).
- The reviewer is shown `git diff base`, which omits the untracked files that `git add -A` commits (agent_pipeline.py:831, 981), and its own edits of a file already modified do not change the names that are compared (:964).
- A merge can succeed and be reported failed when the check for a clean tree after it fails (agent_campaign.py:290, 335-337).

## 6. What is not modelled

`PROJECT.json` ("components") says for each part what is left out and why. In short:

- out of TLC's reach, or without state: floating-point rendering, signal processing of audio and video, bench images of the firmware, acceptance and monitoring scripts, the kiosk (a client whose state is what the service returns), and `broadcast` of the WebSocket, which nothing calls;
- left out so far: auxiliary triggers with the starry sky, the storage of scenes, authentication, node resolution and profile refresh, the drift of clocks, sequences across the wrap of 2^32, a half-sent transaction of LedOutput, images that show immediately or stop in an emergency.

## 7. The plan

Every safety property that a run checks is proved; what is left are the parts that section 6 leaves out, the auxiliary triggers first.
