# A verification project for SoundSync

SoundSync is a headless Bluetooth A2DP receiver: a Rust daemon captures the
audio of a phone in PipeWire, equalises it, streams it to browsers and routes
it to a sound card, an AirPlay sink or a Chromecast. Its own logic is
coordination: a dozen tokio tasks that talk over channels and watches, drive
`pactl` and other helpers one call at a time, and share PipeWire, BlueZ and the
network with programs they do not control. This project models that
coordination in TLA+, checks it with TLC and proves part of it with TLAPS.

Paths such as `output/controller.rs` are relative to `src/` of the crate.

## 1. Inventory

| Component | State it keeps | Operations | Interacts with | What is hard | What makes it correct |
|---|---|---|---|---|---|
| Output controller (`output/controller.rs`) | active output, loopback module id, cast session and its health, probed devices, raop module id | select sink / Chromecast, clear, 10 s refresh, teardown, startup and exit | `POST /api/output` (bounded channel), PipeWire by `pactl`, cast tasks by a stop watch, `AppState` | every `pactl` call is an await; PipeWire, commands and shutdown move in between; what it loads outlives it | the output shown is the one driven; no route is abandoned; requests win in their order; ids it unloads are its own |
| Output discovery (`output/discovery.rs`) | what the last probe offered | run avahi-browse and `pactl list short sinks`, parse, merge, look up a choice | the controller, `GET /api/outputs` | one device is printed once per protocol and interface, in any order, or in part | every device is offered once, by an address that can be cast to |
| Cast session (`cast/client.rs`) | connection, read buffer, `loaded`, time of the last bytes | connect, launch, load, heartbeat, stop | the Chromecast, the controller | half-open links, stop at any await, frames that arrive together | one LOAD; dead links are reaped, live ones spared; a stop ends it |
| Cast wire format (`cast/proto.rs`, `messages.rs`) | bytes not yet consumed | frame, decode, answer | the cast session | the link cuts frames anywhere; one may not decode | every whole frame is answered once and in order |
| EQ controller and filter chain (`audio/eq_controller.rs`, `filter_chain.rs`, `pw/filter_ctl.rs`) | gains, node id, supervisor handle | enable, disable, change gains | `POST /api/eq`, a supervised process, PipeWire nodes, the route watch | the node comes and goes by itself; the route is applied by another task | UI, route and process agree |
| Reconcile loop and null sink (`daemon.rs`, `pw/null_sink.rs`, `pw/routing.rs`, `pw/events.rs`) | desired route, debounce window | `ensure_null_sink`, sweep, set the default sink, admin restart | `pactl subscribe`, PipeWire, WirePlumber | three callers, retries with sleeps, events lost while the subscription is down | one live null sink; the default sink follows the route |
| Process lifetime and supervision (`main.rs`, `sys/supervisor.rs`) | shutdown watch, join handles | signal, backstop, critical-task supervisor, unit restart | systemd, every task | the first future of a `select!` drops the others; helper calls block | ends when asked to; fatal only on a real death |
| Command runner (`sys/command.rs`) | a child and its two pipes | spawn, poll, kill, reap, read | every caller of a helper | nobody drains the pipes; a grandchild may keep them open | a call returns by its deadline and leaves no child |
| Bluetooth manager and devices (`bluetooth/manager.rs`, `bluer_devices.rs`, `events.rs`) | devices and their states | discovery events, 2 s probe, connect/forget | BlueZ over D-Bus, `AppState` | lagging broadcast, read before subscribe | devices shown are those of BlueZ |
| Pairing window and service (`bluetooth/pairing.rs`, `service.rs`, `name_config.rs`) | deadline of the window, the adapter's name | open/close, rename, setup | BlueZ, the HCI tool, a file, `AppState` | setters that fail, effects that fail one by one, crashes | pairable only while the window is open; one name everywhere |
| Media and artwork (`bluetooth/media.rs`, `avrcp.rs`, `artwork.rs`) | bound player, artwork cache | track change, poll, reconnect, transport commands | D-Bus, an HTTP lookup | a late answer for an older track | artwork belongs to the track shown |
| Application state (`state.rs`) | the snapshot, a broadcast bus | set and publish | everybody | the publish is outside the lock | events and state agree in the end |
| Status socket (`web/server.rs`, `ws.rs`) | per client: subscription, idle timer | snapshot, forward, keepalive, signalling | event bus, WebRTC command channel | lagging subscribers, half-open clients, a full channel | a client converges to the state; a silent one is reaped |
| WebRTC (`web/webrtc/*`) | a peer connection and an Opus pump per session | offer, ICE, stop, failure callback | status socket, capture bus | re-offers, callbacks of replaced connections | one pump per session, none after stop |
| Capture, Opus, audio stream (`audio/capture.rs`, `pw/capture_cmd.rs`, `pw/quantum.rs`, `web/webrtc/pump.rs`, `rtp.rs`, `web/stream.rs`) | partial frame, PCM bus, RTP timeline, permits | choose the tool, cut frames, encode, send, serve a pipeline | the capture process, peer connections, HTTP clients | reads and restarts cut the bytes; counters wrap at different widths; a permit has four ways to end | packets carry the time of their frames; permits come back |
| Installation and diagnosis (`install.rs`, `wireplumber/*`, `doctor.rs`, `sys/fs.rs`) | configuration files, adapter class | apply-wireplumber-config, apply-adapter-config, doctor | the host, WirePlumber, administrators | remove-then-write, a mute `wireplumber --version`, keys looked for as text | success is reported only when it is one; the doctor tells the truth |
| Spectrum and DSP, configuration store, distribution identity, test doubles, web UI, packaging | - | - | - | - | - |

`PROJECT.json` lists each with its status, and all the hazards with their lines.

## 2. Modules and how they correspond to the code

The style is the same everywhere: one action per stretch of code between two
awaits (or two helper calls), `pc`-like variables for the await a task is at,
environment actions for what PipeWire, the network or another program may do.
What may go wrong is a constant: `Faults`, a set of faults an instance
admits, or `Environments`, a set of such sets of which each behaviour draws one at
the start (`faults`, `events` or `accidents`, which never changes), so that one
run checks a property under exactly the faults it is claimed for. Operators
that follow "Variant:" in a comment are wrong versions of the operator below
them; nothing uses them, and substituting one must break a property.

### Outputs

- **OutputRoute** is what a user of the output API is promised: accepted requests
  are served one by one and in order, each either shows what it asked for or
  nothing, and in between the output shown can only go away.
- **OutputController** is `run_output_controller` with its surroundings. `pc` is
  the await the task is parked at (`unload` and `load` within a command, `probe`
  in the refresh tick, `exitUnload` and `exitRaop` on the way out). `handling` is
  the command being served, `unloading` the id that `teardown_loopback` took.
  `modules` is what each PipeWire module id stands for, `task`/`castDev`/`stopped`
  are the spawned cast tasks, which live on after the controller has dropped
  their handle. `published` is what `AppState` shows. Around the task:
  `Submit` (the bounded `try_send` of `web/output.rs`), the shutdown watch,
  `MainReturns`/`FatalExit`/`Crash`/`Start` for the process, whose children in
  flight may still be executed (`InFlight`). The probes by avahi and pactl are one
  await that yields any set of Chromecasts.
- **Discovery** is that probe in detail: `printed` is what avahi-browse and `pactl
  list short sinks` print, line by line with fields that may be missing, and
  `chromecasts`/`offered` what parsing, sorting by protocol and `dedup_by` leave of
  it, said by the positions that are kept (`Kept`). `CastTo` is where a choice
  ends up, `lanIp` the address the Chromecast is told to pull from.
- **CastLife** is the life of a cast task as OutputController reckons with it;
  **CastSession** is `run_cast_session` itself, every `write_all` an await of its
  own, time in heartbeats (5 s), frames reduced to the three kinds the code tells
  apart. That CastSession implements CastLife is checked and proved, so
  OutputController's abstraction is justified and not assumed.
- **CastWire** is the same session byte by byte: length prefixes, reads that end
  anywhere, the drain loop, a frame that does not decode, and the answer to
  each message by type and by what a RECEIVER_STATUS says of our application.
  `ends` remembers with which byte each frame ended, so that what has arrived whole
  is known without decoding it.
- **MCOutputs** checks OutputController and Discovery: a behaviour is one of either.

### Audio routing

- **EqRouting** puts together the EQ controller, the supervised filter chain, the
  default-sink half of `bring_up` with its two callers, and PipeWire's nodes and
  default sink. `busy` says who is inside `bring_up`: it has no await once the null
  sink exists, so its callers exclude each other. `events` is the channel of graph
  events reduced to whether one is pending, all that the debounced loop looks at.
- **NullSink** is the other half of `bring_up`: `ensure_null_sink`, one action per
  `pactl` call, for its callers startup (with the sweep), reconcile and admin.
  `running` is the caller that holds the shared task; it is handed over only at the
  retry sleep. `modules` distinguishes a module with a node from one without. The
  second lookup of a sink that no load of the caller's own yielded (`FindAgain`) may
  come back empty, and the sweep is then skipped.
- **CaptureSetup** holds what `run_daemon` decides once: the capture tool, its
  source and the latency derived from PipeWire's quantum and rate. **AudioStream**
  extends it by what happens then: the capture process whose bytes `read_exact`
  cuts into frames (`partial`, `pcm`), the Opus pump of a session with its
  `RtpTimeline` (`upto`, `timestamp`, `sequence`; a lag is clamped to what a u32 counts,
  and `longest` remembers the longest one), and `GET /api/stream` with its
  semaphore (`http`, `pipeline`, `permits`).
- **Installation** has the one-shot subcommands, processes beside the daemon:
  `apply` and `doctor` are where each of them is, call by call; `files`, `tmp` and
  `live` the configuration of WirePlumber on disk, half written and loaded; `host`
  what is installed. A file is the load-bearing keys it sets and those its comments
  mention, since the doctor looks for text.
- **MCAudioHost** checks EqRouting and Installation.

### Process

- **Shutdown** is the `select!` of `main.rs`: the daemon, the backstop and the
  critical-task supervisor on one task, which helper calls block (`blocked`, in
  seconds); the signal handler, the critical tasks, the supervised units and
  systemd. `Tick` passes a second when nothing that is due is left undone.
- **CommandRun** is one helper call: the child that writes into a pipe nobody
  reads, may wedge, exit or leave the pipe to a process of its own (`heir`), and
  the caller that polls for its end, kills, reaps and reads. In Shutdown such a
  call is the time it blocks its caller, in the other modules one await.
- **MCTasks** checks Shutdown, CommandRun, CastSession and CastWire.

### Bluetooth

- **BtDevices** follows a connection from BlueZ to the UI: `bluez` and `node` are
  the world, `told` and `adapterTold` the D-Bus signals on their way, `dPc`, `todo`,
  `cur` and `got` the discovery task with its read-then-act gaps, `watcher` one task
  per device, `events` the broadcast channel that drops its oldest entry when it is
  full, `devices` the manager's map and `shown` what the bridge has copied to
  `AppState`. The manager polls events before its probe, as its `select!` does.
- **PairingWindow** is `run_pairing_window`: every place in `pc` is an await, a
  change of the window is two D-Bus calls with commands, time, adapter resets, a
  crash or the return of `main` in between. `asked` and `age` are history for
  `LastCommandWins`. **BtService** extends it by `run_bluetooth` around the window: the
  setup of the adapter, then the command loop joined to the window (`at`), a
  rename as four effects on `alias`, `hciName`, `file` and `shown`, and `failed`
  for those that did not come off.
- **MediaArt** is `run_media_manager`, with `pc` its awaits, `rank` and `track` what
  BlueZ would answer, `fails` the health count, `artKey`/`artUrl` the artwork cache,
  and `fetch` the lookups, tasks of their own in the four steps between which the
  manager may publish. An artwork is named after the track it was fetched for, so
  `ArtMatches` can tell a wrong one.

### Web

- **WebSession** composes `AppState` with its event bus (a version per part;
  `writing` is what a task has written under the lock and not yet published),
  `ws_connection` for every client (`conn`, `next`, `lagged`, `idle`), the bounded
  command channel (`chan`), the command loop (`loop`, `serving`) and the
  `WebrtcController` it owns (`sessions`, `ice`, `pump`), with the callbacks of the
  peer connections as senders of their own (`failing`).
- **MCWebSession** checks WebSession and AudioStream.

The other **MC...** modules are what TLC runs; that of OutputController adds a
symmetry set, that of MediaArt narrows the initial states, that of PairingWindow
is about BtService. The modules whose name ends in **Proofs** hold the theorems, one
for each group of modules above: **OutputProofs** (OutputController, Discovery),
**TaskProofs** (Shutdown, CommandRun, CastSession, CastWire), **AudioHostProofs** (EqRouting,
Installation), **NullSinkProofs**, **BtDevicesProofs**, **BtServiceProofs**
(PairingWindow, BtService), **MediaArtProofs** and **WebProofs** (WebSession, AudioStream, CaptureSetup).

## 3. What each run checks

| Run (module) | Distinct states | Question |
|---|---|---|
| `output_routes` (MCOutputs) | 128 thousand | With a crash and a second start: are the ids the controller unloads its own (`TrackedIdsAreOurs`)? Does every handler hand over the route before it (`NoNewStray`)? Is a leftover raop module reclaimed (`RaopReclaimed`)? Are dead casts dropped (`DeadCastCleared`), does a shutdown complete (`ShutdownCompletes`)? And whatever avahi and pactl print, in whatever order: is every device offered once, by the best address it announced (`MergedOnce`)? |
| `output_faults` (MCOutputController) | 1.1 million | With lost, late and garbled answers, PipeWire restarts and crashes: does what is shown match what is driven (`RouteMatchesActive`), is OutputRoute implemented (`ServesInOrder`)? |
| `eq` (MCAudioHost) | 2.5 million | Do UI, route, supervisor and the gains of the node agree between commands (`UiTruthful`)? Does the loop never sleep over a moved default sink (`DriftNoticed`)? Is what the doctor says of an untouched host true (`DoctorTruthful`)? Does a subcommand that reports success have it, and is no file ever half written (`AppliedMeansDone`)? |
| `null_sink` (MCNullSink) | 499 thousand | Is there one live null sink at most (`OneNullSink`), is the last one never taken away (`KeepsLiveSink`), and a lost one replaced once its event was received (`LossHealed`)? |
| `bt_devices` (MCBtDevices) | 276 thousand | When everything is delivered, does the UI show as connected exactly what is (`ShownIsTrue`), and nothing BlueZ has forgotten (`RemovedIsGone`)? Does the playing state follow the audio node whatever was missed (`AudioFollows`)? |
| `pairing` (MCPairingWindow) | 625 thousand | Does the last command decide (`LastCommandWins`)? Is the adapter off whenever the window is closed (`ClosedIsOff`)? Does a window that nobody extends close, over a crash too (`WindowExpires`)? Do alias, HCI name and file follow the name shown, each unless its own update failed (`NameAgrees`), and does the name outlive the process (`NameKept`)? |
| `media` (MCMediaArt) | 162 thousand | Is artwork only shown with its track (`ArtMatches`), a stale connection given up (`StaleIsDropped`), a streaming player kept (`Sticky`)? Is what it plays shown in the end, with its artwork (`MediaFollows`)? |
| `web` (MCWebSession) | 169 thousand | Does a socket that did not lag show the state (`ViewCurrent`)? Is every live peer connection and pump in the map, and every session in the map sure to be stopped (`NoLeakedSession`)? Is a client that vanishes reaped, whatever its handler does and however full the channel (`SilentReaped`)? Does a packet carry the time of a whole frame, over wraps and every lag that its counter holds (`PacketsInTime`)? Does every permit come back (`StreamsBounded`)? |
| `shutdown` (MCTasks) | 67 thousand | No fatal exit without a death (`FatalIsReal`) and none withheld (`DeathIsFatal`). Does a helper call return with its child reaped (`CallReturns`)? Is a live cast link spared (`NoFalseLoss`) and a half-open one reaped (`HalfOpenReaped`), does a stop end a connected session (`StopEnds`), is CastLife implemented (`LivesAsReckoned`)? Is every frame that arrived whole answered once and in order (`WireAnswered`)? |

The runs that end in a violation each hold one sentence of the code's comments
against the code; `PROJECT.json` quotes the sentence in "findings".

| Run | What the counterexample shows |
|---|---|
| `eq_unnoticed` (`RouteReflected`) | the route changes after the node's event was consumed: no reconcile applies it. |
| `shutdown_parks` (`CleanPathOwns`) | a critical task that ends before the daemon parks `main` for good, unpolled backstop included. |
| `installation_drift` (`DriftReported`) | a dropped seat-monitoring setting passes the doctor, since the header comment of the file spells the same words. |

The modules also state their type invariants (`TypeOK`); section 4 says which of
them are proved. Those of BtDevices, MediaArt, PairingWindow and Shutdown are in no
configuration, but are theorems; `INVARIANT TypeOK` there checks them too. The same
holds of further invariants that no run lists: `LastRequestWins`,
`NeverForcedInService`, `GraceGiven`, `LoadedOnce`, `OutputIsWhole`,
`KilledOnlyParked` (whose premise needs a `TimeoutStopSec` above 28 in `shutdown.cfg`, or
no "wedged" there), and of the action property `CastTasksLive`.

### Where the properties stop

Some properties are claimed under fewer faults than the code may meet, because the
code does not keep them under the others. The guard in the property names the
faults it holds under:

- `TrackedIdsAreOurs` (in `output_routes`) has no PipeWire restart: after one, the
  tracked id may be another client's module, and the teardown unloads it.
- `RouteMatchesActive` speaks of what the controller tracks. A cast session that was
  only signalled may still load its stream beside the next output.
- `RaopReclaimed` speaks of a task that ran to its end. `main` returns without
  joining it, so an unload at exit may not come; the next start then finds the
  module and unloads it at its own end.
- `MergedOnce` takes an address as avahi prints it. `controller.rs:299` wants to refuse
  a device without an IPv4 address, but its guard never holds; such a device is cast
  to by its IPv6 address without brackets. The LAN address is read once (`main.rs:222`).
- `StopEnds` starts once the cast session is connected: in the TLS handshake it does
  not see the stop signal, and has no timeout.
- `WireAnswered` says what the code does with a frame that does not decode: it is
  taken for a lack of bytes, and nothing after it is answered any more.
- The gains in `UiTruthful` (`GainsLive`) have no exits of the process and no failing
  calls: the supervisor brings a new one up with the gains of the moment the EQ was
  enabled.
- Disabling the EQ kills its node right after the route was sent, before the
  reconcile loop has moved the default sink off it; no property claims otherwise.
- `OneNullSink`: a `pactl list` that fails once is taken for an absent module, a
  refused unload leaves a duplicate, a load that timed out may have been executed, and
  the admin restart interleaves with the reconcile loop at the retry sleep, after
  which neither looks again whether the sink exists, so both load it.
- `KeepsLiveSink`: the sweep spares the first module of the name even when it has no
  node, and unloads the live one; so modules without a node are left out.
- `LossHealed` starts from an event that was received. What happens while
  `pactl subscribe` is being restarted leaves none, so after a restart of
  pipewire-pulse the null sink may stay away.
- `DoctorTruthful` and `AppliedMeansDone` speak of a host that nobody else changes while
  the subcommand runs, and of a WirePlumber that answered. One that does not makes apply take
  the Lua format for granted and remove a working file of the other, and makes the
  doctor accept a Lua file that WirePlumber 0.5 ignores.
- `KilledOnlyParked` says that the backstop of `main.rs` ends the process within
  systemd's patience, if that is longer than the backstop and the helper calls in
  which it is not polled. A `TimeoutStopSec` above the backstop, which is what the
  comment at `main.rs:309-313` asks for, is enough only if helper calls answer: two
  that hang in a row take 20 s, so it would have to exceed 28 s.
- `CallReturns` supposes that no process of the child's keeps its pipe open: the
  reading after the exit has no deadline.
- `ShownIsTrue` and `RemovedIsGone` hold when every change has a listener and no
  event is dropped. A device known but not paired when discovery begins gets no
  watcher; an address stays in `watched` after its device is removed, so its watcher
  is not replaced; what changes between a read and the action on it goes unseen; a
  lagging receiver skips events and nothing reads the devices again; a `Disconnected`
  that comes after `DeviceRemoved` puts the device back into the list.
- `AudioFollows` supposes that the event channel is empty again and again: the probe
  is polled after the events, and a steady stream of them starves it.
- `ClosedIsOff` and `WindowExpires` leave failing setters out: `run_pairing_window`
  ignores their errors and does not try again, although `pairing.rs:20` promises that
  the adapter can never get wedged open. `WindowExpires` leaves out a stopped process
  as well, since `main` does not join the Bluetooth task.
- `NameKept` leaves out a write of the name that failed or was cut short: the file is
  written in place (`name_config.rs:40`). The file is taken to be read as it stands when
  the process starts: `main.rs:155` takes one that cannot be read for an absent one, so a
  read that fails just once brings the default name back, which is not modelled.
- `StaleIsDropped` starts from a connection on which a player was found. The loop
  that looks for a player counts no failures, so one that goes stale there is kept
  and no later player is ever seen, although `media.rs:404` speaks of a reconnect.
- `MediaFollows` says what is shown in the end. Before that a lookup may bring back an
  older track for up to one poll, since it publishes what it read some steps earlier;
  and it supposes that the poll gets its turn, whose timer every signal and command
  restarts.
- `ViewCurrent` covers the parts of `AppState` that one task writes and the clients
  that did not lag. Media has two writers, who may publish in the other order, and a
  client that lagged is never sent the state again.
- `PacketsInTime` ends with the first lag of 2^32 frames or more (`longest < STAMPS`).
  `pump.rs:63` clamps the count to `u32::MAX`, so the timeline then falls behind for good;
  the cut to 32 bits that the clamp avoids would have been exact, because both counters
  are reckoned modulo at most 2^32. At 50 frames a second that is a lag of 2.7 years.
- `NoLeakedSession` does not say that a working session is spared: a failure callback
  names the session and not the connection, so a late one stops the connection that
  a re-offer has put in its place.
- `StreamsBounded` counts pipelines that feed a client. `kill_on_drop` reaches the shell
  only, so those of clients that have gone may run on until they next write.

### Bounds

All bounds are constants of the configurations or named in the modules.

- Outputs: one sink, one Chromecast, which may be selected again while its session
  lives. Module ids: in `output_routes` one more than can be tracked at once, so
  that a stray or foreign one exists; in `output_faults` two. Cast task ids: in
  `output_faults` two, the one in the session and the one that was told to stop, in
  `output_routes` one; `IdLeft` refuses a Chromecast only when none is free. `MaxStarts` is 2
  in `output_routes`, for one crash and its recovery, and 1 in `output_faults`, which has
  the failures of `pactl` instead.
- The command channels hold one or two entries instead of 16 and 32: two are
  enough for order to matter and for the channel to be full while a handler runs.
- Discovery: printouts of up to three lines, so that two devices, or one over both
  protocols beside another, come in every order.
- CastSession: two frames in a read and two status reads (`MaxFrames`, `MaxReads`)
  are what the single LOAD needs to be doubled, within a read and across reads. Time
  saturates by itself (the deadline). CastWire: a byte has two values and a prefix
  two bytes, so that lengths need both; a read takes at most three bytes, fewer than
  a frame; four frames are enough for a PING, two statuses and one that is garbled.
- CommandRun: a pipe of one unit, a child that writes two, a deadline of two polls.
- EqRouting: two processes (`MaxSpawns`) for a node that lingers beside its
  successor; two vectors of gains; a command channel of one entry.
- Installation: one change of the host by others (`MaxChanges`) per behaviour, beside
  subcommands that may be run any number of times; accidents in four sets.
- NullSink: `MAX_ATTEMPTS` is 2 instead of 10; the retry loop does not depend on
  the count. Three module ids: two leftovers and one that is loaded.
- AudioStream: frames of two bytes, four frames, a bus of one, so that every cut and
  a lag occur; timestamps modulo 3 with 2 per frame and sequence numbers modulo 2,
  so that both wrap, at different frames, and a lag of three is one that is clamped;
  one permit for two clients.
- BtDevices: one device, since devices share nothing but the order of the channel;
  a channel of two events (one report may send two) that overflows in the environment
  with bursts; two reports on their way to each task (`MaxTold`).
- PairingWindow: a tick is half a minute, windows of one and three ticks, so that an
  extension may shorten or lengthen; two commands in the channel; two starts. BtService:
  two names and a default, one of them also in the environment; a channel of one.
- MediaArt: two players and two tracks, two lookups at a time (a track, another one and
  back), a threshold of 2 instead of 5. `MCInit` begins with one streaming player, or
  with none where players come and go; lookups find nothing there (`art` is left out).
- WebSession: two clients and two peer connections, so that a re-offer replaces one and
  both contend for a channel of one; a bus of two with three events, so that a
  client lags; two writes to each part. The ping and idle times are those of the code.
- Shutdown has the timeouts of the code and of the unit file in seconds: 8, 15
  and 10. Two critical tasks of seven and both units.

### Fairness

Weak fairness of a task's steps stands for the tokio scheduler together with the
timeout of helper calls (`sys/command.rs`, 10 s), which ends every await on
`pactl`. In Shutdown the daemon and the watchdogs get strong fairness, because
helper calls disable and re-enable them again and again and `select!` polls its
futures in random order. The discovery task, the watchers
and the probe of BtDevices get it too: the first two need room in the channel, which
the manager makes again and again, the last an empty one. So do, in WebSession, the
senders that wait for room in the command channel (`Pass`, `Close`, `FailureReported`):
tokio's bounded channel serves its waiters in turn. PairingWindow and MediaArt
assume that D-Bus calls return. PipeWire is fair only in bringing up the node of a
running process, dropping that of a dead one, and coming back after a restart;
systemd in restarting what ended; the kernel in reporting a peer that acknowledges
nothing. Nothing is assumed of the network, of the Chromecast, of a helper's child,
of users or of faults.

In an MC module that combines parts, an action is fair only in the behaviours that
are about its part: in the others it is never taken.

## 4. What is proved

The theorems hold for every value of the constants that the modules' named
assumptions admit: any sets of outputs, ids, clients, names and gains, any capacities,
durations and widths. "Faults" in the last column says what the property itself
leaves out.

| Theorem | Property | Faults |
|---|---|---|
| OutputProofs: `TypeCorrect` | `TypeOK` | all |
| `RouteCorrect` | `RouteMatchesActive` | all |
| `OrderCorrect` | `LastRequestWins` | all |
| `TrackedIdsCorrect` | `TrackedIdsAreOurs` | no PipeWire restart |
| `RaopCorrect` | `RaopReclaimed` | no `pactl` answer lost, late or garbled |
| `NoStrayCorrect` | `NoNewStray` | the same |
| `RouteImplemented` | `ServesInOrder` | all |
| `CastTasksMove` | `CastTasksLive` | all |
| `MergedHolds` | `MergedOnce` | all |
| TaskProofs: `ProcessTypeCorrect` | `TypeOK` of Shutdown | all |
| `FatalHolds`, `BackstopHolds` | `FatalIsReal`, `NeverForcedInService` | all |
| `GraceHolds` | `GraceGiven` | all |
| `BackstopInTime` | `KilledOnlyParked` | all; its premise bounds the time that helper calls may hang |
| `CallHolds` | `OutputIsWhole` | all |
| `SessionTypeCorrect`, `LoadsOnce` | `SessionTypeOK`, `LoadedOnce` | all |
| `DeadlineIsSilence` | `NoFalseLoss` | all |
| `ImplementsCastLife` | `LivesAsReckoned` | all |
| `WireHolds` | `WireAnswered` | all |
| AudioHostProofs: `TypeCorrect` | `TypeOK` | all |
| `UiHolds` | `UiTruthful` | all; its part `GainsLive` with a process and calls that do not fail |
| `NoticedHolds` | `DriftNoticed` | all |
| `AppliedHolds`, `DoctorHolds` | `AppliedMeansDone`, `DoctorTruthful` | all; the properties name what must not intervene |
| NullSinkProofs: `TypeCorrect` | `TypeOK` | all |
| `OneSinkHolds` | `OneNullSink` | those the property names |
| `LiveSinkHolds` | `KeepsLiveSink` | those the property names |
| BtDevicesProofs: `TypeCorrect` | `TypeOK` | all |
| `ShownHolds`, `RemovedHolds` | `ShownIsTrue`, `RemovedIsGone` | those the properties name |
| BtServiceProofs: `WindowTypeCorrect` | `TypeOK` of PairingWindow | all |
| `ServiceRunsWindow` | `Spec` of PairingWindow, by `ServiceSpec` | all |
| `ClosedHolds` | `ClosedIsOff` | no failing setter |
| `LastCommandHolds` | `LastCommandWins` | all |
| `NamesAgree`, `NameSurvives` | `NameAgrees`, `NameKept` | all |
| MediaArtProofs: `TypeCorrect` | `TypeOK` | all |
| `ArtHolds` | `ArtMatches` | all |
| WebProofs: `ViewsHold`, `NoSessionLeaks` | `ViewCurrent`, `NoLeakedSession` | all |
| `StreamsHold` | `StreamsBounded` | all |
| `PacketsHold` | `PacketsInTime` | all; its premise bounds a lag by `STAMPS` |
| `LatencyExceedsQuantum` | (an operator) | two periods fit 32 bits |

The arguments:

- **OutputController.** `RouteInv` strengthens `RouteMatchesActive`, which speaks only
  of the controller at rest, to every `pc`: within a handler there is neither a tracked
  loopback nor a session (the teardown took both), and `published` still shows the
  values before; while the task is down everything is None. `OrderInv` says that the
  last of the sequence handled command, queue is `requested`, and with both empty that
  nothing or `requested` is active. `TrackedIdsAreOurs` is inductive relative to
  `RouteInv`, which says that `unloading` and `loopbackId` are never both set; a fresh
  id is an unused one, so a load disturbs no tracked id, and an unload only the one in
  `unloading`. `RaopInv` says that at most one id stands for module-raop-discover and
  that, past boot, it is the one in `raopId`. `RouteImplemented` is a step simulation:
  `Submit` maps to `Accept`, the last step of each handler to `Serve`, the loss of a
  cast to `Lose`, the end of the process or of the task to `Halt`; all others stutter.
  `CastTasksMove` is the other half of `ImplementsCastLife`: a session implements
  CastLife, and the controller moves each of its tasks by a step of CastLife or not
  at all (`LifeStep`), until the id is free and begins another life.
- **Discovery.** `MergeInv`: what is offered is computed from the two printouts it
  remembers. That the positions kept have one increasing enumeration (`InOrder` is a
  CHOOSE) is an induction over their number, made by looking at the least number for
  which it fails. From it: what `DedupBy` keeps is the first of every key, sorting by
  protocol puts any IPv4 line before the others, so the first line of a device is an
  IPv4 line if it has one.
- **CastSession.** `SessionInv` adds to the types that nothing is loaded before the
  select loop (`NotLoadedYet`) and that a link that was never silent leaves one PING
  unanswered at most, so the deadline cannot pass (`OnePing`). With it every step is one
  of CastLife or a stutter.
- **CastWire.** `RoundTrip`: a prefix reads back as the length it was written from,
  for any byte and prefix width that can hold it. Both recursions are unfolded by
  `Recursion`, which shows that a function defined from one number to the next exists
  as far as it is asked for. `WireInv`: the bytes in the buffer and on the link are
  what is left of all that was sent once the answered frames are taken off
  (`Remains`), and what was answered is what they deserve (`Handled`). So the buffer
  always begins with a whole frame or with the beginning of one, whatever the reads
  were; of two beginnings of one sequence the shorter begins the longer (`Begins`).
- **EqRouting.** `EqInv` carries `UiTruthful` through the handlers: `Told` is what holds
  at rest, `Halves` what a half-done command has set up so far, and `Driven` says that
  without exits and failing calls the controller drives the node of the running
  process. `DriftNoticed` is inductive by itself: whatever moves the default sink
  leaves an event, and the loop sleeps only without one.
- **Installation.** `ApplyInv` follows a subcommand from one call to the next: what it
  removed stays away and what it renamed stays as long as nobody disturbs it, and a
  configuration that was loaded after that is the one on disk. `DoctorInv` says for
  each check from which place on its verdict is in, and that it is then the truth.
- **NullSink.** `SinkInv`: while `pactl` answers and nobody uses the admin restart, one
  caller is inside `ensure_null_sink` (`Alone`), and its place says what lives: nothing
  where it is about to unload or load, one at most where it verifies or looks again
  (`Places`).
  `KeepInv`, for modules that all have a node: whoever is between two calls holds the
  task (`Turns`), so it is about to unload something only if it is not live or not the last
  (`Holds`). A startup that learnt no id of the sink has nothing to sweep. That a list
  that is not empty has a first module needs well-foundedness of
  the naturals.
- **Shutdown.** `ExitInv` says that an end that was counted as a death is one
  (`EndsAccounted`), and that the backstop runs only after a request. From the arming
  on, what the timer still grants and what has passed since the request add up to
  `BACKSTOP` at least (`Grace`), so a forced exit never cuts the teardown short. The
  bound from above is `PatienceInv`: no stretch of helper calls begins after a request,
  so until the backstop is armed, the age of the request and what main is still
  blocked for add up to one such stretch at most, and from then on the age and the
  timer to that and `BACKSTOP` (`InTime`). The bound is tight: with a `TimeoutStopSec`
  of just that, systemd may come first.
- **CommandRun.** `CallInv` ties the place of the caller to its child: while the
  output is read the child has ended by itself with nothing left to write, and so the
  end of the pipe is the end of the output.
- **BtDevices.** `Lasting` says of the events on their way that a state will have
  been reached by the last of them: some event brings it and none after it takes it
  away. `Up(d)` and `There(d)` are what the manager will make of its queue, by this;
  `UpInv` ties it to the last report of the device's watcher, and to BlueZ where no
  report is on its way, or somebody is still about to look (`WillSurface`). `GoneInv`
  says that a device that is gone and would stay in the list has a removal to be
  heard (`ToHear`). All are relative to `HeldInv`: nothing changes while the
  discovery task acts on what it read, which the faults that the properties exclude break.
- **BtService.** `ServiceIsWindow`: a step of the service is one of PairingWindow or
  leaves its variables alone, so that whatever is proved of the window holds below the
  service. `OffInv` follows the two setters of a change of the window; `NameInv`
  says for each effect of a rename from which place on it is done, and that it then
  is the name being given, or did fail. `CommandInv`: the command sent last is the
  last one queued, or the one that is being obeyed (`Handled`); a window that is open
  for `age` ticks has `duration - age` left at least, so that only the deadline of the
  last Open, a Close or the shutdown leaves the inner loop.
- **MediaArt.** `CacheInv`: the cached url is that of the cached key or none, what is
  about to be published has its own artwork or none, and a new track none. A lookup
  that returns changes the cache only under its own key.
- **AudioStream.** `PermitInv`: permits and clients that are fed add up to
  `STREAM_MAX`, by the cardinality of the set of such clients when one joins or leaves.
  `TimeInv` says how far the counters are ahead of the last packet at every await of
  the pump, as long as no lag was clamped (below `STAMPS`, `Clamped` changes nothing), and
  `PacketTimed` follows by arithmetic modulo any width (`AddWrapped`); `FrameInv` does
  the same for the bytes of a capture process.
- **WebSession, what is shown.** `BusInv`: the last event of a part that one task
  writes carries its latest published version, which is the state or, between the
  write and the publication, one less. `ViewInv`: a client that has no such event
  before it shows that version or the state; the second is the case of a snapshot taken
  between the write and its publication, which is why a client can be ahead of the
  bus, but not behind it. That one task writes the EQ and two write media is a fact
  about the cardinality of sets (`EqIsTheControllers`).
- **WebSession, what lives.** `OffersInv`: an offer that is queued or being served is
  its client's only one, and its handler waits for the answer, so no second offer can
  enter the map while the first is on its way. `MapsTo`: sessions and living peer
  connections name one another, so a Stop frees exactly what it takes out of the map.
  `StopInv`: a session that is being offered is not in the map, a loop that returned
  leaves the map empty, and the handler of what is in it has its Stop before it.
- **CaptureSetup.** The latency asked of the tool lasts two quantum periods and
  50 ms at least, for every quantum and rate, by the properties of `div_ceil`.

Every safety property of a passing run is a theorem. What stays with TLC: every
liveness property (`DeadCastCleared`, `ShutdownCompletes`, `HalfOpenReaped`,
`StopEnds`, `CallReturns`, `LossHealed`, `DeathIsFatal`, `AudioFollows`,
`WindowExpires`, `StaleIsDropped`, `Sticky`, `MediaFollows`, `SilentReaped`) and
ENABLED, which are out of the prover's reach. The induction theorems of the library
are too; where a proof needs induction (Discovery, CastWire) it takes the least
counterexample, which the well-foundedness of the naturals provides. No RECURSIVE
operator is used. The three runs that end in a violation need no proof.

## 5. What is not modelled

`PROJECT.json` gives the reason for each component. Left out on purpose: JSON and
protobuf encodings, signal processing, SDP and what webrtc-rs negotiates, routing and
TLS of the web server, logging, the web UI and packaging. Of files only what the
code looks for in them, of helper output only what parsing yields. Within the modelled
components:

- names, icons and addresses of Bluetooth devices; status, position and album of
  media; the escapes of avahi; the presets of the EQ and its SPA-JSON;
- `GET` handlers, `identify`, the runtime's wait for blocking helper calls after
  `main` returned, the durations of back-off;
- two configuring subcommands at once, and the user whose WirePlumber a
  `systemctl --user` of root reaches;
- code that nothing calls: `stop_discovery`, `get_status`, `media_stop`,
  `receiver_stop`, `split_frames`, `config_store`, `PairingGate`, the distribution's
  identity.

Observed while modelling, and covered by no property:

- media commands accepted while no player is bound wait in their channel and go to
  the next player (`media.rs`);
- the quantum is probed once (`daemon.rs:101`), so a later change of it leaves the
  capture with the latency of the start; the conversion to `u32` (`quantum.rs:28`) cuts
  a quantum that does not fit;
- an Opus pump that fails is not restarted, whatever `pump.rs:44` says: it is a bare
  `tokio::spawn`;
- the name that the user sets is written below the home of the user of the daemon,
  where the one-shot unit of the adapter, which runs as root, does not look;
- the candidates for an adapter are sorted as strings, so hci10 comes before hci2.

## 6. What would come next

1. *Compositions*: EqRouting over NullSink (the null sink may be missing when the
   route goes back to it); WebSession below the Bluetooth and output modules, which
   write through it; Installation beside a running WirePlumber of the daemon.
2. *Abstract specifications*: "one live null sink" as a two-state machine for
   NullSink; a register with eventual delivery for the event bus; a window with a
   deadline for PairingWindow.
3. *Proofs*: the step simulations of those abstract specifications; the safety
   part of the leads-to properties (that a step towards the goal is never undone).
