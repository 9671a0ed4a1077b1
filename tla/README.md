# Sonn Client: TLA+ specification

Sonn Client turns a small Linux box (a Raspberry Pi with a sound card or two) into
one or more rooms of a Sonn audio server. It speaks one audio protocol, Sendspin;
a small HTTP management API tells it what to be: the device reports its sound
cards and its state, and every answer of the server is the whole *desired state*.

This directory models that program in TLA+, checks the models with TLC on small
instances, and proves the properties that matter most with TLAPS for every value
of the constants. File and line references are to `src/src/`.

## 1. Inventory

| Component | State it keeps | Operations | Talks to |
|---|---|---|---|
| **Supervisor, players** (`supervisor.rs`, `player.rs`) | map of running players, each with its restart key, the settings asked for last and pushed last; the watch and stop receivers; queue of volume requests | reconcile a desired state, stop and join, build and spawn, adjust, apply a volume request, tear down | audio threads (stop and settings channels, join), registry, status loop (watch), remotes (queue) |
| **Audio thread** (`player.rs`) | Sendspin session with an open card, level, delay | report, take settings, stop, end | registry, supervisor |
| **Status registry** (`status.rs`) | snapshot per player and per source; pairing, bluetooth and beoremote status | register, update, retain, snapshot | everybody writes, the status loop reads |
| **Attachment** (`main.rs`, `server_api.rs`, `discovery.rs`, `config.rs`) | declined servers, remembered server, failure count | discover, announce, register, choose, say goodbye, status loop, give up | servers over HTTP, configuration file, supervisor, hooks |
| **Configuration file** (`config.rs`) | device id, pinned url, attached server; two candidate paths | load, rescue the id of a broken file, move it aside, create, remember | Attachment |
| **Self-update** (`update.rs`, `install.rs`) | binary, previous binary, pending marker, start count | install, confirm, guard (before every start) | component reconciliation, systemd |
| **Supervisor, sources** (`supervisor.rs`, `source.rs`) | map of running sources; per source the signal policy (level sensing) | reconcile, capture, start/stop on signal | source threads, registry, Bluetooth |
| **Bluetooth input** (`bluetooth/*`) | adapter settings, active transport, streaming state with the remotes it has quieted, command bus | serve, follow the stream, follow volume, quiet and wake remotes | BlueZ, supervisor, registry, volume queue |
| **Beoremote bridge** (`beoremote/*`) | menu, GATT write queue, HID state | serve a remote, handle keys, publish | BlueZ, server, volume queue, registry |
| **Pairing** (`pairing.rs`) | whether a window is open; pairing status | open a window, discover, pair with retries, forget bonds | BlueZ, registry |
| **Pure parts** | - | level scaling, ranking of servers, device enumeration, log ring | their callers |

What is hard about each, and what makes it correct:

* **Players.** The supervisor awaits in the middle of a reconcile (joining threads)
  while polls, stops, presses, hot-plugs and the threads themselves go on; levels
  are moved by three parties. *Correct*: one thread per card and per room
  (`OneThreadPerCard`), what runs is what was asked (`SettledAsDesired`,
  `EventuallyAsDesired`), nothing plays on unaccounted for (`NoOrphanThread`), no
  needless interruption (`OnlyRebuildsInterrupt`), and levels that follow whoever
  moved them last (`PlaysWhatWasPushed`, `PressNeverJumps`, `SeedNotSetpoint`,
  `ReportCatchesUp`).
* **Attachment.** Several servers answer in any order, some claim, some by hand,
  some not at all; answers and goodbyes are lost; the device restarts anywhere.
  *Correct*: the device leaves its server only on purpose (`LeavesOnlyOnPurpose`,
  `StaysHome`), dismisses no server it belongs to (`GoodbyesToOthers`), and a device
  that one server has ends up playing for it (`EventuallyServed`).
* **Configuration.** Files are written in place, on two paths. *Correct*: a device
  keeps its identity over crashes (`OneIdentity`); what is remembered is what was
  chosen last (`RemembersItsServer`, `ImplementsHome`).
* **Self-update.** A power cut between any two steps; a build that starts but
  never reaches a server; a step that fails half way. *Correct*: an unconfirmed build
  is in place only with the way back beside it (`WayBack`), a confirmed one goes only
  for one that was asked for (`KeepsConfirmed`), the files as a whole are a trial that
  ends (`ImplementsTrial`), and the device comes back to serving (`ServesAgain`).
* **Sources, level sensing.** The same supervisor, with threads that time a change of
  signal against a hold that may change meanwhile. *Correct*: what runs is what was
  asked (`SourcesAsDesired`), a change is told only after it was held for as long as the
  settings in force say (`ChangesAreHeld`), settings arrive (`SettingsReach`).
* **Bluetooth.** A transport replaced by another, or gone, between two D-Bus calls; a
  phone and a remote sharing one radio; a full queue in front of it. *Correct*: one
  source per transport (`NeverTwice`), every remote that was quieted is called back
  (`CallsBack`), a phone that plays is heard (`Heard`), its slider is followed
  (`SliderFollowed`).
* **Beoremote, menu.** A menu that moves between publishing, reading and picking;
  services left behind in BlueZ by an aborted session. *Correct*: the service keeps its
  handles (`HandlesStay`), a pick is looked up in the menu that is served
  (`StartsFromServed`), and the server's menu is served in the end (`EventuallyServed`).
* **Beoremote, keys.** A task that outlives its bridge, several of them over the same
  devices. *Correct*: keys are reported only while somebody reads them (`HidMeansKeys`),
  no path is kept for ever (`NoForgottenPath`), each loss of a device is handled once and
  before it is grabbed again (`ImplementsGrabs`), a device that stays is read
  (`KeysComeBack`).
* **Pairing.** Commands in pairs; a bond forgotten before the remote is there again;
  attempts that finish after they were given up; a restart in the middle. *Correct*: the
  report is that of the one window (`ReportsTheWindow`), others keep their bonds
  (`OthersKept`), what is reported as paired is (`PairedIsBonded`), who looks at the
  screen sees one window after the other, each with its own outcome
  (`ImplementsScreen`), the guard is given back (`WindowCloses`).

The hazards that matter most, each at its line, are `hazards` in `PROJECT.json`, with
the properties that are about them. Smaller ones are named where they belong below.

## 2. Plan

Most important behaviour first; each step is a module, an `MC` module with its
configurations, and a `_proofs` module with its theorems.

| Step | Modules | Abstract specification | State |
|---|---|---|---|
| 1 | `PlayerSupervisor` | `Speakers` | done |
| 2 | `Attachment`, with the configuration file | `Home` | done |
| 3 | `Update`: install, marker, guard, confirmation | `Trial` | done |
| 4 | `Bluetooth`: endpoint, streams, quieting and waking, volume | | done |
| 5 | `Sources`: the source half of the supervisor, level sensing | | done |
| 6 | `RemoteMenu`, `RemoteKeys`, `Pairing` | `Grabs` (keys), `Screen` (pairing) | done |
| 7 | pure algorithms against reference definitions: level scaling, ranking of servers, device deduplication, log ring | | open |
| 8 | a composition of `Attachment` and `PlayerSupervisor` over their shared channels, replacing the environment actions (`Poll`, `StopPolling`, `Reattach`) of the one, and the place `serving` of the other | | open |

Every invariant, action property and refinement that a run checks is also proved, and of
the temporal properties all but those of liveness (section 11); a composition as in 8
would bring theorems of its own.

## 3. `PlayerSupervisor`

### State

| Variable | Code |
|---|---|
| `pc` | where `supervisor::run` is: top of the loop, stopping stale players, starting wanted ones, the `select!`, the teardown after the loop, returned |
| `desired`, `changed` | the `watch` channel of desired states and whether its newest value is unseen |
| `stop` | the stop channel |
| `current` | the `desired` clone being reconciled (supervisor.rs:111) |
| `settled` | history: the desired state the pass before ended with; no action looks at it |
| `running` | `HashMap<String, RunningPlayer>`; `None` is "no entry" |
| `stale`, `joining`, `todo` | the local state of `reconcile_players` between awaits: ids still to stop, the thread being joined, wanted players not yet visited |
| `thread` | the OS threads: what each was built with, its channels, its session |
| `registry` | the player entries of `status::Registry` |
| `volumes` | the volume queue |
| `present` | sound cards the system has |

`output` stands for the whole of a player's configuration that only a rebuild can
change (device, codecs, format, hooks, mixer): the code compares all of it as one
`restart_key`. Settings that are applied live are `volume`, `muted` and `delay`.

### Actions

`TakeDesired`, `StopPlayer`, `JoinThread`, `EndStops`, `AdjustPlayer`, `BuildFails`,
`SpawnPlayer`, `EndStarts` are `reconcile_players` cut where other tasks and threads
can be seen in between: at the join it awaits, and at each player it starts, since
audio threads run in parallel with it. `SeeDesired`, `SeeStop`, `ApplyVolume` are the
arms of the `select!` and the check at the top of the loop, `EndTeardown` the end of
`run`, and `Reattach` the next turn of `main::run`'s loop: fresh channels and map, the
same registry. `ReportStatus`, `TakeSettings`, `SeeThreadStop`, `SessionEnds` are the
arms of `player::run`. `SessionMoves` is what the Sendspin session does by itself: it
is a library, modelled from how `player.rs` uses it (it changes its status; dropped,
it closes the card; it may return for good). `Poll`, `StopPolling`, `Press` and `Plug`
are the status loop, the remotes and the hardware as the supervisor sees them.

`SeedNotSetpoint` is stated over `settled`, that is over the desired states themselves,
and not over the `last_desired` the code keeps for each player: a build that mixed up its
own notes, for example by noting a press as something the server asked for, would hand
the server's level to the thread on the next poll, and violates it.

`HashMap` iteration order, and the order of the arms of a `select!`, are
nondeterministic. The order in which wanted players are visited is too: the code
follows the server's list, which may have any order.

### Assumptions about the environment

* A desired state gives no two of its players the same sound card
  (`DesiredConfig`). The code does not enforce it; the server offers each card once.
* A session that returns has closed its card. An audio thread that is told to stop
  does stop (`WF` of `SeeThreadStop`), which is what the join relies on.
* A thread is reported dead only by being joined: the code never polls a
  `JoinHandle`.

### The abstract specification

`Speakers` keeps one thing, what each room plays through: a silent room may take a
card nobody has, and a room may give its card back. `ImplementsSpeakers` is the
refinement with `playing` read off the live threads (`Playing`): a card is never handed
over or shared, and moving to another card passes through silence.

## 4. `Attachment`

### State

| Variable | Code |
|---|---|
| `pc` | where `run` is: not running, writing its first configuration, searching, announcing, choosing done and goodbyes under way, in the status loop, stopping what it ran |
| `config` | the `Config` in memory: id, `attached_server`, `server_url` |
| `disk`, `writable` | the two candidate files, each absent, a configuration or not TOML; and the paths that can be written |
| `write` | `write_config` under way: on which path, and whether the file is open, which has emptied it |
| `declined` | the servers that answered "no such endpoint"; `Expire` is the ten minutes |
| `toAsk`, `asking`, `tries` | the loops of `announce` over the candidates and of `register` over its attempts |
| `claimedBy`, `others` | `claimed` and `others` of `announce`: answers, not servers, which may have changed since |
| `server`, `farewell`, `failures` | the server chosen, the servers still to be told, failed polls in a row |
| `at`, `up`, `claim`, `knows` | the servers: address, whether they answer, what they say of the device, whether they know its hardware (409 if not) |
| `introduced` | the ids the device has been registered under; kept for `OneIdentity` |

A configuration is its id, the server remembered and the server pinned; nothing
else in the file changes whose the device is. Servers are named by their addresses
in the device's state, as base URLs are in the code, and have an identity of their own
only outside it.

### Actions

`Boot` and `BootAfresh` are `load_or_create_config`; `OpenFile`, `FillFile`,
`TryFallback` and `GiveUpWriting` cut `write_config` where power can be lost. While a
write is under way `announce` waits: no other action of the device is enabled.
`Discover`, the four `Register...` actions (one for each answer, each a whole turn of
the loop, with the change of memory it makes), `NobodyHasIt`, `Choose`, `SayGoodbye` and
`Attach` are `announce` and what `run` does with its result. `PollAnswered`,
`PollUnknown`, `PollFails` are the arms of `status_loop`, `Detach` is the return of
the supervisor; what is played in between is section 3.

Around the device, servers claim, release, are replaced by builds with and without the
client API, fail (forgetting hardware if they were restarted), return and move; power
is lost (`Crash`, at the places `CrashesAt`); an operator pins a server or breaks the
file (`Edit`); the service is given other rights (`Remount`). The last two happen to a
device that is not running.

Constants select what may happen: `LosesRights`, `Typos`, `TornWrites`, `Moves`,
`ReleaseForgets`, `CrashesAt`. The runs leave out exactly what is fatal, and section 10
says what becomes of each property when it is let in.

### Assumptions about the environment

* A server has one address at a time, and two servers have different ones.
* A server that is told goodbye, or released by a person, does not claim the device
  any more; with `ReleaseForgets` it also answers the next poll with 409.
* A broken file still has its `device_id` line, in the spelling the device wrote.
* A registration is answered by the server as it is at that moment; an answer that is
  lost counts as none. The goodbye may find nobody, and is not repeated.

### The abstract specification

`Home` keeps the home a device has and whom it plays for: it settles while it plays for
nobody, plays for its home only, and stops. `ImplementsHome` reads the home off the
disk, as a restart would: so the device's memory is durable before it plays, and it
never plays for a server that it would not come back to.

## 5. `Update`

### State

| Variable | Code |
|---|---|
| `current`, `previous`, `staged` | the binary the unit starts, the copy beside it, the new build before the rename (update.rs) |
| `marker`, `counted` | the pending marker with the starts counted so far, and the guard's shell variable |
| `pc` | where the service is: in the guard script, starting, registering, confirming, serving, or at a step of `install` |
| `wanted`, `target` | the version of the desired state, and the one being installed |
| `playing` | what `reconcile` asks the registry: whether a player streams |
| `trusted`, `calm` | history: the build confirmed last; whether anything still goes wrong |

A file is a build, `Torn` (a part of one) or absent. Versions and builds are the same
thing: the code compares version strings, which name the release that is downloaded.

### Actions

The `Guard...` actions are the script `rollback_guard` prints, cut where it opens a
file, since opening empties it: an interrupted count leaves an empty marker, which reads
as 0. `Start` to `DropPrevious` are a start of the client up to `confirm_started`;
`Reconcile` is the supervisor's pass over the components, and `Unpack` to `Swap` the
steps of `install`, each of which may fail (`InstallFails`) or be the last (`Cut`).
Downloading, hashing and unpacking touch one temporary place and are one step.

### Assumptions

* The service was installed with the guard, and its first binary works.
* A rename is atomic, and a file whose copy returned is on the disk.
* In the run and all theorems but that of the types, no failure (of arming, renaming, or removing the
  marker at the confirmation) leaves an armed marker behind a
  client that goes on running (`WritesMarker`; section 10 shows what happens otherwise).

### The abstract specification

`Trial` knows the build the device trusts and at most one on trial, which ends confirmed
or with the trusted one back. `ImplementsTrial` reads the trial off the disk: it is
what is in place, if that is not what was confirmed last. It follows that a device never
tries one build out after another without an answer in between.

## 6. `Bluetooth`

### State

| Variable | Code |
|---|---|
| `session`, `slot`, `slider` | what BlueZ says of each transport; the endpoint's one transport; the phone's volume |
| `remote` | each paired remote: connected, disconnected by us, or asleep |
| `pc`, `seen` | where the radio task is in its poll, and the transport this poll is about |
| `reading` | the path `follow_stream` remembers as the one being read |
| `streaming`, `fresh` | the `Streaming` kept, and the one under construction |
| `toWake`, `failed` | remotes left in the loop of `wake_the_radio`; history: a transport taken without an audio path |
| `lastVolume`, `requests`, `commands` | `last_volume` of `follow_volume`, the supervisor's volume queue, the command bus |

### Actions

`Tick` starts a poll, `StreamStops`, `AlreadyReading`, `NotReading` are what
`follow_stream` finds, `Acquire`, `StartSource`, `Quiet`, `Keep` the way to a new
stream, `Wake` and `Awake` the end of one, `VolumeMoved` and `SendVolume`
`follow_volume`. Between any two the phones (`SetConfiguration` to
`ClearConfiguration`, the endpoint's handlers) and the remotes go on, and the
supervisor may abort the task (`Abort`, `Spawn`). `Keep` replaces a stream that is still
there with whatever it held, as the assignment in the code does.

### Assumptions

* BlueZ uses a transport path for one session only, and there is no acquiring when there
  is no music on the transport. An abort unregisters the endpoint, and the transports go.
* Any call may fail. A transport whose state cannot be read counts as one without music
  (transport.rs:184), so that `StreamStops` may end a stream that plays on; `AcquireFails`
  and `VolumeStays` are open at any time too.
* `Control` is `config.control`: without it the phone's slider is not looked at.
* A remote that answers a call is connected; calling may fail without a trace.

## 7. `Sources`

### State

| Variable | Code |
|---|---|
| `desired`, `changed`, `pc`, `current`, `stale`, `joining`, `todo`, `running` | as in `PlayerSupervisor`, for `reconcile_sources` |
| `thread`, `stop`, `handed`, `unread` | the source threads and their two channels |
| `settings`, `settled`, `present`, `candidate` | `SignalPolicy`: settings in force, whether there is a baseline, the signal told last, the age of a change that is being timed |
| `level`, `fresh` | the level watch, which keeps the last measurement |
| `differs` | history: for how long every level looked at has told of a change |
| `row` | the source's row in the registry |

A timestamp is kept as an age, counted up to `MaxAge`, past the longest hold.

### Actions

The supervisor's are those of `PlayerSupervisor`, with the source's own ways: a source
that goes on gets new settings if they changed (`Adjust`), and without an endpoint and
with nothing running the pass ends early (`NothingToDo`), rows and all. `TearDown` is
the end of the loop and the start of the next supervisor. `Settle`, `Agree`, `Suspect`,
`Wait`, `Confirm` are the paths through `SignalPolicy::observe`, `TakeSettings` is its
`update`, `SeeStop`, `SessionEnds`, `Report` the rest of `source::run`.

### Assumptions

* A level at the threshold is a signal, and a scale of two levels and two thresholds
  tells that apart. A thread that is told to stop does (`SF` of `SeeStop`).

## 8. `RemoteMenu` and `RemoteKeys`

The two halves of the bridge share no state but the volume queue: the one lives in its
D-Bus session, the other in a task that is spawned once per bridge and never ended.

### `RemoteMenu`: state

| Variable | Code |
|---|---|
| `menu`, `up` | the server's menu, and whether it answers |
| `app`, `owner` | the applications BlueZ has of us, and the static `OWNER`: the connection that can take one back |
| `attrs`, `sameDaemon` | the values of the GATT attributes; whether the bus name still has the owner the bridge noted |
| `link`, `shown` | of each remote, its connection and the lists it has read |
| `pc`, `published`, `next`, `tells`, `listed` | where `serve_remote` is, the revision it published last, the one it is writing, whether and which remotes it will send away |
| `writes`, `pick` | the queue of GATT writes, by the menu each position was read in, and the one being handled |
| `started` | history: the last pick the server started |

A pick is a position in a list; the model keeps the menu it was read from, since that is
what the position means. `SelectRefreshes` covers both ways to be turned down: another
revision, and a position that the menu does not have.

`restarts` counts what could otherwise happen for ever (bluetoothd, the bridge, a signal
that cannot be sent) up to `MaxRestarts`; it bounds faults, not the program.

### `RemoteKeys`: state

| Variable | Code |
|---|---|
| `bridge`, `tasks` | the bridge that runs, and those whose key task was spawned and still runs |
| `present`, `reader` | the kernel's input devices, and the reader thread of each task and device; a device is grabbed by one |
| `open`, `keys`, `busy` | the `HashSet` of paths, the channel from the readers, and the event being handled |
| `hid`, `requests` | `hid_connected` of the report, if there is one; the supervisor's volume queue |

`Rescan`, `TakeClosed`, `TakeKey`, `SendVolume`, `SendKey` are `keys::run`; `Press` and
`ReaderCloses` its blocking readers, which wait when the channel is full. `Bridges`
bounds how many bridges one process starts.

### `RemoteKeys`: the abstract specification

`Grabs` keeps what each task has of each device: nothing, the reading of it, its loss, or
the news of its loss. One task reads a device at a time, and one that has lost it may come
for it again only after it was told and took note. `ImplementsGrabs` reads that off the
reader threads and the lists of open paths (`Life`): a path on the list without a reader is
one whose end is still to be handled. So no event is handled for a device that came back
meanwhile, which keys.rs:151 would forget although it is read.

## 9. `Pairing`

| Variable | Code |
|---|---|
| `open` | the static `PAIRING` |
| `pc`, `target`, `found`, `tries` | each task that a `pair_remote` command spawned, and its local state |
| `report` | the pairing status of the registry |
| `listed`, `seen`, `bonded` | BlueZ: objects, devices present (advertising or connected), bonds |
| `ready`, `late` | remotes in pairing mode; a `Pair()` that goes on after its attempt was given up |
| `had`, `dropped` | history: the bonds when a window opened, what was forgotten on command since |

`PairRemote` is the command, `Enter` and `Ignored` the guard, `StartScan` to `Paired`
the steps of `run_pairing`, `Fails`, `TimesOut`, `GivesUp` its error paths, each with
the report and the guard it ends in. `ForgetRemote` is the other command, `Restart` the
process. Around it the remotes come, go and change mode, and BlueZ drops objects and
finishes late (`BondsLate`).

Assumptions: `Pair()` succeeds only with a remote in pairing mode that BlueZ lists and has
no bond with; removing a device takes its bond; an unbonded object goes some time after the
device fell silent. `PairRemote` is the hand of the server: nothing bounds how often it
asks, and two windows asked for at once are as many as the guard distinguishes. `Asks` is
what a command may name: an address, or `None` for whatever remote is found.

The abstract specification, `Screen`, leaves tasks, guard, attempts and the radio out: a
window is opened when none is shown, ends in an outcome that speaks of the remote it was
opened for (or, if for any, of one), and bonds are lost on command or to the window that
is shown. `ImplementsScreen` maps `shown` to the report of the registry: a command that finds
a window open shows nothing, and one window's outcome is never shown as another's.

## 10. Runs

| Run | Instance | Checks | Shows |
|---|---|---|---|
| `rooms` | 2 rooms, 2 cards, 2 threads; 3 desired states (both cards; the cards swapped; one room, louder than the scale); sessions may give up; fairness | `OneThreadPerCard` `SettledAsDesired` `NoOrphanThread` `PlaysWhatWasPushed` `OnlyRebuildsInterrupt` `ImplementsSpeakers` `EventuallyAsDesired` | who runs, with which card, for whom; and that what is asked for ends up running, hot-plug included |
| `level` | 1 room, levels 0..3, presses down, up and absolute, live changes with and without mute, 3 desired states, one without endpoint; fairness | `PressNeverJumps` `SeedNotSetpoint` `ReportCatchesUp` | the level under all three parties that move it, and the report of it |
| `homes` | 2 servers, 3 addresses, 2 ids; servers move; typos; power lost anywhere but while the first file is written; one address with a 404 in it; 1 attempt, 1 failure | `OneIdentity` `LeavesOnlyOnPurpose` `GoodbyesToOthers` `ImplementsHome` | the device's identity and whose it is |
| `stays` | 2 servers, 2 addresses; no, one or both paths writable, and more later; pinned to the second server; power lost anywhere; 1 attempt, 2 failures | `RemembersItsServer` `StaysHome` | a restart comes back, and nobody takes a device that its server keeps |
| `served` | 2 servers, one at an address with a 404 in it, 2 attempts, 2 failures; fairness | `EventuallyServed` | a device that one server has ends up with it |
| `update` | 2 builds that work and one that exits at once, 3 starts, failures at every step that does not arm a marker, power lost anywhere; fairness | `WayBack` `KeepsConfirmed` `ImplementsTrial` `ServesAgain` | an update can be tried, confirmed and undone, whatever is interrupted |
| `phones` | 2 sessions that may overlap, 1 remote, 2 slider positions, queues of one; starts that fail, aborts; fairness | `NeverTwice` `CallsBack` `Heard` `SliderFollowed` | streams over phones that come, go and replace each other |
| `line` | 1 source, 2 inputs, 2 levels, holds 0 and 1, 5 desired states; fairness | `SourcesAsDesired` `ChangesAreHeld` `SettingsReach` | a line input whose level, settings, device and endpoint change |
| `menu` | 2 menus and the empty one, 1 remote, a queue of one, 2 faults; fairness | `HandlesStay` `StartsFromServed` `EventuallyServed` | a menu that moves under a remote, over restarts of every party |
| `keys` | 2 bridges, 1 device, queues of one; fairness | `HidMeansKeys` `NoForgottenPath` `KeysComeBack` `ImplementsGrabs` | key tasks that outlive their bridge |
| `pair` | 2 windows, 2 remotes, 2 attempts, commands for one remote or for any; fairness | `ReportsTheWindow` `OthersKept` `PairedIsBonded` `WindowCloses` `ImplementsScreen` | a window, a second command, late answers, restarts |
| `taken` | 1 window, 2 remotes, 1 attempt | `OnlyTheOneInHand` is violated | see below |

The passing runs check deadlock too: no module ever stops.

### Bounds

* `rooms`, `level`: two rooms and two cards are the smallest instance with a swap, the case
  the join exists for. `SpawnPlayer` needs a thread identity that is free, and with two of
  them a spawn before the join is still possible for one room while the other holds
  none. Four levels let a step overshoot at either end from the middle. The volume queue
  has one place: a request is applied one at a time and what happens while it waits is
  up to the other processes. `MaxDelay` is 0: the delay is carried along with the level
  and never computed with (the proofs cover every bound).
* `homes`, `stays`, `served`: two servers are what `announce` is about, its own one and
  another, either of which may claim, by hand or not. `REGISTER_ATTEMPTS` and
  `MAX_STATUS_FAILURES` are 3 in the code; 1 and 2 cover giving up at once and after a
  repetition. A second id is what a device that lost its own would make up; a third
  address is one to move to.
* `update`: two good builds, so that there is an update from a confirmed build to another,
  and a bad one. `MAX_START_ATTEMPTS` is 3 as in the code.
* `phones`: two sessions are what one slot is replaced by. Two slider positions, the ends
  of the scale. The queues of one are full as soon as anything is in them.
* `line`: one source, since sources share only the order in which they are visited, and
  the join of one (`joining`) blocks the loop whether or not there is another. Holds of
  0 and 1 tick with ages up to 2 have "before", "at" and "past" the hold.
* `menu`: two menus to move between; two faults, so that a restart can be followed by
  another before the first is dealt with.
* `keys`: a second bridge is the one the first one's task outlives. One device suffices for
  two tasks to compete for, and for the close of a device to be overtaken by its return
  under the same path.
* `pair`: one remote to pair and one to lose; a second command while the first runs. A
  command names the first or none: naming the second would swap the two.

### Fairness

Nothing is assumed of people, servers' minds, hardware or faults; what is assumed is that
the program's own steps go on:

* `PlayerSupervisor`: the supervisor's task is scheduled and every arm of its `select!`
  that stays ready is eventually taken (tokio's `select!` picks at random); each thread's
  runtime likewise serves reports, settings and stop; and the status loop keeps polling,
  on a timer, and hands over what it gets whether it changed or not. The liveness
  properties assume a server that settles and a card that stays in.
* `Attachment`: one task that waits for nothing but timers and requests with a timeout,
  and systemd starts it again (`WF` of `Device` as a whole); ten minutes pass (`WF` of
  `Expire`). `EventuallyServed` asks for a server that has the device from some time on,
  with all servers answering and the others saying that they do not have it, and for a
  device that is left running.
* `Update`: the script runs on, systemd starts the unit again (`Restart=always`), the
  client reaches a server sooner or later, `install` goes on. That is one `WF` for each.
  `ServesAgain` speaks of the time from which nothing fails and power stays (`calm`);
  the server may go on asking for the bad build.
* `Bluetooth`: D-Bus calls return, the interval ticks, the supervisor takes what is in its
  queue. A call may fail, but not each time: `SF` of `NotReading` (the state of a transport
  that plays is read now and then), of `Acquire` and of `VolumeMoved`. The reader of a
  stream that was ended gives the socket back at its next packet (transport.rs:130), so
  that the one `Acquire` waits for is not in its own way.
* `Sources`: `WF` of the supervisor's pass; `SF` of `TakeSettings` and `SeeStop`, which
  compete with levels and reports in one `select!` of the thread.
* `RemoteMenu`: the bridge's waits are timers or calls that return. `SF` of
  `RegisterApplication` (a daemon that is there accepts one now and then), and of
  `PollTick` and `DaemonReplaced`, which compete with writes in one `select!`.
* `RemoteKeys`: `SF` of `Take` and `Rescan` (one `select!`), of `SendVolume` and
  `ReaderCloses` (tokio's channels serve their senders first come, first served), `WF` of the rest.
* `Pairing`: `WF` of each window's step: whatever it waits for has a time limit, or is a call
  BlueZ answers.

### Where code and comments differ

One has a run. `taken`: a window without an address takes the first remote present, and a
remote that is merely connected is present (pairing.rs:621), so a remote that somebody
uses while another one is being paired loses its bond. The comment
(pairing.rs:311-314) says that pairing means "start over" for the remote in one's hand,
and "emphatically" not for the others. `OthersKept`, which does hold, excepts the remote
the window found.

The others are stated in the modules, as a definition that no run checks or a constant
that the runs set to the harmless value:

| Where | What happens | How to see it |
|---|---|---|
| supervisor.rs:318 | `apply_volume` drops a request whose result equals what was *pushed* last, though it is computed from what is *reported*: after a live mute, a press that lands on the pushed level leaves the room muted, which supervisor.rs:309 says it should not | `PressUnmutes` in `level` |
| supervisor.rs:158 | without an endpoint the registry is cleaned only if some player runs: a room shown as an error stays reported, against status.rs:249. Sources have the same early return (supervisor.rs:350) | `RemovedRoomsAreNotReported` in `rooms`, with a desired state without endpoint; proved (`RemovedRoomsGo`) if every desired state has one |
| player.rs:266 | a session that returns for good ends its thread, the map keeps the entry, and nothing starts it again until the configuration changes; supervisor.rs:1 promises to keep what runs equal to what was asked. Likewise source.rs:215 | `EventuallyAsDesired` without the second conjunct of `Playable` |
| config.rs:225 | the file is written in place: power lost after it was emptied, or a disk that is full by then, leaves no id to rescue | `TornWrites = TRUE` in `homes`: `OneIdentity` |
| config.rs:106 | a broken file is moved aside before its replacement is written; the rescued id is in between nowhere the next start would look | `CrashesAt <- Anywhere` in `homes`: `OneIdentity` |
| config.rs:87 | a write falls back to the second path, a start reads the first as long as it can (a device whose rights were reduced) | `LosesRights = TRUE` in `stays`: `RemembersItsServer` |
| main.rs:359 | a device that remembers one server and is pinned to another waits for the first, which it never asks | `Pins = {a1}` in `served`: `EventuallyServed` |
| main.rs:355 | the remembered server is an address; main.rs:151 says that a server that moved needs no help | `Moves = TRUE` in `served`: `EventuallyServed` |
| main.rs:525 | `status_loop` does not look at `claimed`: a release is noticed only if the next poll is answered with 409 | `ReleaseForgets = FALSE` in `served`: `EventuallyServed` |
| main.rs:449 | any error whose text has a 404 in it reads as "answered, but has no client API"; it delays the device by ten minutes and no more | `Named404` in `served` |
| update.rs:134 | the marker cannot be armed, or the rename after it fails, or a confirmed update's marker cannot be removed: the client goes on with an armed marker, and the next update rewrites the copy under it | `"kept"`, `"armed"` or `"registered"` in `FailsAt` of `update`: `WayBack`, `KeepsConfirmed` |
| update.rs:198 | a build that runs and never registers is never restarted, so nothing is counted against it | `Mute = {bad}` in `update`: `ServesAgain` |
| update.rs:71 | whether a player streams is read before the download, and the process replaced after it; the comment says never mid-stream | `NeverMidStream` in `update` |
| bluetooth/mod.rs:626 | a stream that is replaced by another is dropped with its list of quieted remotes, and so is one that is aborted; mod.rs:788 says they are called back the moment the music stops | `NoRemoteLeftAside` in `phones` |
| beoremote/mod.rs:325 | a remote that keeps its link shows the lists it read, while its picks go up with the revision published since; api.rs:7 says that the revision keeps it from starting the wrong thing | `StartsWhatIsShown` in `menu` |
| beoremote/gatt.rs:658 | bluetoothd replaced between registering and asking for its name: the bridge compares with the new daemon, which has no service of ours (if nobody answers, it compares with none, and notices the daemon only while it is away) | `RestartsUnseen = TRUE` in `menu`: `EventuallyServed` |
| beoremote/keys.rs:107 | a key task outlives its bridge, keeps the devices it has, and answers to its own zone | `ReadByTheBridge` in `keys` |
| status.rs:203 | the bridge rewrites `hid_connected` on each poll from a flag nothing sets: an open device is reported as none from the next poll on | the converse of `HidMeansKeys` |

Smaller ones, without a definition: a hook that hangs stops the polls (hooks.rs:93), a
download that hangs stops the supervisor (update.rs:103), commands still queued when
the radio is restarted are lost (bluetooth/mod.rs:211), a reader or an ffmpeg that ends by
itself is not noticed (bluetooth/mod.rs:631), the lists of a menu are set one after the
other while a remote may read them (beoremote/mod.rs:357), a bridge that is switched
off leaves its service with BlueZ (supervisor.rs:571), an orphaned key task's requests
are dropped after the device attached again (beoremote/keys.rs:180), the senders of the
volume queue wait where supervisor.rs:29 wants a surplus dropped, pairing from the command
line is another process, which the guard does not cover (main.rs:905).

## 11. Proofs

Each component's theorems are in its `_proofs` module. They hold for any sizes of its
sets and any bounds, under the named assumptions of the component's module (constants
of the right type, `None` different from every value it is the absence of), which
TLC evaluates in every run; further assumptions are named in the tables.

Each module proves type correctness, `Spec => []TypeOK`, which the other theorems rest
on and which therefore no run repeats. What else is proved:

| Module | Theorem | Property | Needs |
|---|---|---|---|
| `PlayerSupervisor_proofs` | `CardsExclusive`, `NoOrphans`, `OnlyRebuilds`, `SleepsSettled`, `PushedIsPlayed`, `NoJump`, `PollsAreSeeds`, `Refinement`, `JoinsAreAnswered`, `PassesEnd`, `RemovedRoomsGo` | below | below |
| `Attachment_proofs` | `RestartComesBack`, `OnlyOnPurpose`, `DeviceImplementsHome`, `KeepsItsIdentity`, `OthersAreTold`, `StaysWithItsServer`, `RoundsEnd` | below | below |
| `Update_proofs` | `AlwaysAWayBack` | `[]WayBack` | `WritesMarker` |
| | `ConfirmedIsKept` | `KeepsConfirmed` | `WritesMarker` |
| | `FilesImplementTrial` | `ImplementsTrial` | `WritesMarker` |
| | `ServesInBoundedSteps` | every step lowers a bounded count, below | `WritesMarker` |
| `Bluetooth_proofs` | `OneSourcePerTransport` | `[]NeverTwice` | |
| | `RemotesAreCalledBack` | `CallsBack` | |
| `Sources_proofs` | `WhatRunsIsAsked` | `[]SourcesAsDesired` | |
| | `ChangesOutlastTheHold` | `ChangesAreHeld` | |
| | `JoinsAreAnswered` | whoever is told to stop is waited for, and there | |
| | `PassesEnd` | every step lowers a bounded count, below | finitely many sources |
| `RemoteMenu_proofs` | `ServiceKeepsItsHandles` | `[]HandlesStay` | |
| | `PicksStartFromServed` | `StartsFromServed` | |
| `RemoteKeys_proofs` | `ReportedKeysArrive` | `[]HidMeansKeys` | |
| | `PathsAreForgotten` | `[]NoForgottenPath` | |
| | `KeysImplementGrabs` | `ImplementsGrabs` | |
| `Pairing_proofs` | `OneWindowIsReported` | `[]ReportsTheWindow` | |
| | `OtherRemotesKept` | `[]OthersKept` | |
| | `ReportedIsPaired` | `[]PairedIsBonded` | |
| | `PairingImplementsScreen` | `ImplementsScreen` | |
| | `GuardIsHeld` | `open` exactly while a window runs | |
| | `WindowsRunDown` | every step lowers a bounded count, below | |

**Only model-checked** is liveness: `EventuallyAsDesired`, both `EventuallyServed`,
`ServesAgain`, `Heard`, `SliderFollowed`, `SettingsReach`, `KeysComeBack`, `WindowCloses`
and `ReportCatchesUp`. Liveness under fairness is
outside what the prover does. What is proved is the half of it that is about steps: for
`ServesAgain` and `WindowCloses`, and for the passes of the supervisor and the rounds of
announcements that `EventuallyAsDesired`, `SettingsReach` and `EventuallyServed` of
`Attachment` go through, a number that is bounded for every value of the constants sinks with
each step on the way, whatever the others do meanwhile. So no pass, round, window or
update goes on in circles, and what is left to fairness is that a step is taken.

### `PlayerSupervisor`

`PlayerSupervisor_proofs` proves, for any sets of players, cards, threads and desired
states, any scale and any presses:

| Theorem | Statement |
|---|---|
| `TypeCorrect` | `Spec => []TypeOK` |
| `CardsExclusive` | `Spec => []OneThreadPerCard` |
| `NoOrphans` | `Spec => []NoOrphanThread` |
| `OnlyRebuilds` | `Spec => OnlyRebuildsInterrupt` |
| `SleepsSettled` | `Spec => []SettledAsDesired` |
| `PushedIsPlayed` | `Spec => []PlaysWhatWasPushed` |
| `NoJump` | `Spec => PressNeverJumps` |
| `PollsAreSeeds` | `Spec => SeedNotSetpoint` |
| `Refinement` | `Spec => ImplementsSpeakers` |
| `JoinsAreAnswered` | a live thread has been told to stop exactly if it is the one being joined; whatever is joined exists |
| `PassesEnd` | a pass, or the teardown, takes at most `3 * Cardinality(Players) + 3` steps of the supervisor, if the players are finitely many |
| `RemovedRoomsGo` | `Spec => []RemovedRoomsAreNotReported`, if every desired state names an endpoint |

All but the last two rest on the named assumptions of `PlayerSupervisor` only: constants of the right
type, desired states with a card per room, and `None` different from every value it is
the absence of. TLC evaluates them in every run.

**The argument.** `OneThreadPerCard` is not inductive: it says nothing about the map the
supervisor spawns from. The invariant `IInv` adds

* `Accounted`: every thread that exists is in the map, under its owner and with its
  key, or is the one being joined, and conversely the map's threads exist;
* `CardsDiffer`: the entries of the map, and the thread being joined, name different
  cards;
* `Phases`: what the supervisor knows at each place of its loop. While it stops and
  starts players, whatever is not stale is wanted by its very key, and by the time it
  spawns, nothing is stale and nothing is being joined;
* `Leaving`: on the way out everything in the map is stale, and once out the map and
  the registry are empty.

When a player is spawned, everything in the map is wanted, the desired state has
different cards for different players, and no thread exists outside the map; so the
card is free. Each action has a lemma `<Action>IInv`; the thread actions share
`ShapeKept` and `PhasesKept` (a step that changes no thread's owner or key and leaves
the map alone disturbs nothing). `OnlyRebuilds` uses `StaleForAReason` of `Phases`, and
`Refinement` maps every step to a `Take`, a `Release` or a stutter: spawning is the only
step that makes a room play, the end of a thread the only one that silences it.

`SleepsSettled` and `PushedIsPlayed` each add an invariant to `IInv`. `Settling` follows
a pass of the supervisor: every player in the map is registered; while players are being
started, each wanted one that was seen to either runs by what was asked or is registered
as an error (`Seen`), and asleep all of them are. It survives the threads' reports because
a thread belongs to a player of the map unless it is being joined (`Accounted`), so that
no report overwrites the error of a player that does not run. `Heeded` says of each live
thread of the map that its channel holds what was pushed last, and that it plays so once
it has taken it; different players having different threads, a push to one leaves the
others heeding. `NoJump` is arithmetic (`StepMoves`) once only `ApplyVolume` is seen to
take a request off the queue.

`PollsAreSeeds` has to relate what the code notes per player to what the server said. Its
invariant `AsSettled` says that until a pass visits a player, the `last_desired` noted for
it is what the desired state of the pass before (`settled`) asks for: a press leaves
the note alone (`PressKeepsAsked`), and a pass does not end before it has seen to every
player of the map (`Settling`, `KeptAsWanted`). `OnlyVisitsHand` and `OutsideHandsNothing`
show that, presses apart, only a visit puts anything into a thread's channel, and only
into that of the player visited; the visit compares with the note, hence with `settled`.

`JoinsAreAnswered` is what the join under `spawn_blocking` relies on: a thread is told to
stop by `StopPlayer` alone, which joins it next, and neither reports nor settings take the
word back (`SameStops`). So the supervisor never waits for a thread nobody told, and
no thread ends behind its back because of a stop meant for another. `PassesEnd` counts a
stop and a join for each stale player and a look at each wanted one; no action but those
of the pass itself touches what is counted. `RemovedRoomsGo` shows
that the divergence of section 10 at supervisor.rs:158 has no other cause than a state
without endpoint.

### `Attachment`

`Attachment_proofs` proves, for any servers, addresses, ids and limits, for servers
that move, forget or not, typos or not, and power lost at any set of places unless
stated:

| Theorem | Statement | Needs |
|---|---|---|
| `TypeCorrect` | `Spec => []TypeOK` | |
| `OnlyOnPurpose` | `Spec => LeavesOnlyOnPurpose` | |
| `RestartComesBack` | `Spec => []RemembersItsServer` | `~LosesRights` |
| `DeviceImplementsHome` | `Spec => ImplementsHome` | `~LosesRights` |
| `KeepsItsIdentity` | `Spec => []OneIdentity` | `~LosesRights`, `~TornWrites`, no power loss while `booting` |
| `OthersAreTold` | `Spec => GoodbyesToOthers` | `~LosesRights` |
| `StaysWithItsServer` | `Spec => StaysHome` | `~LosesRights`, `~Typos` |
| `RoundsEnd` | a round takes at most `Cardinality(Addresses) * (RegisterAttempts + 6) + RegisterAttempts + 11` steps of the device | finitely many addresses |

`RestartComesBack` needs its assumption and `KeepsItsIdentity` its last two, as the
counterexamples of section 10 show. `StaysWithItsServer` excludes typos: the start after one
saves the rescued id alone, and with it the server is gone.

**The argument.** What a start would find (`Loaded`) depends on which path was written
last, so `RemembersItsServer` alone is not inductive. `IInv` adds

* `NothingWhereNotWritable`: a path that cannot be written holds nothing, so that a write
  to the other path is not hidden behind an older file;
* `WritesMemory`: what is being written is what is in memory, on the second path only if
  the first cannot be written;
* `MemoryOnDisk`: between writes a start would find what is in memory, and past its
  first start a device always has a path to write to, so that a write cannot be given up;
* `Places`: no write is under way while searching or playing, and the server chosen is
  the one remembered.

`DeviceImplementsHome` follows: while the device plays, nothing is written
(`ServingStep`), and it starts to play by attaching only (`StartsServing`). `KeepsItsIdentity`
adds `OneId`: all ids there are, at the servers, in memory and in the two files, are
the same, and once a server knows one it is on the disk whenever power may be lost.
`OnlyOnPurpose` needs type correctness only: a step that changes the memory of a running
device is `RegisterUnclaimed` or `Choose`. `OthersAreTold` adds that the server chosen is
not on the list of those to be told (`ChosenIsNotTold`); that nothing is being written
while goodbyes are said gives the rest.

`StaysHome` is neither an invariant nor about steps: it speaks of what holds from any
moment at which the device plays for a server on, for as long as that server keeps it.
`AtHome(a)` is what such a moment leaves behind: while the device runs, its memory names `a`
and nothing is being written; while it does not, a start would find `a`; and of the claims by
hand it has heard in the announcement under way, all are `a`'s. A step before and after
which the server keeps the device preserves it: whatever the others answer, only a claim by
hand could take the device from a server it remembers, and there is none; and a start reads
back what was in memory (`IInv`), which is where typos and lost rights would break it. A
device that plays has heard no claims yet that it could act upon later
(`NothingHeardElsewhere`).

`RoundsEnd` counts for each candidate its attempts and the write its answer may cause, then
the choice with its write, and a goodbye for each address. It needs nothing of the servers,
which may appear, vanish and change their minds in the middle of the round.

### `Update`

`SafeUpdate` relates the files to where the service is. `OnDisk`: without a marker the
confirmed build is in place; with one it is in place, or beside it and whole. `Underway`:
what each step of `install`, the guard and the confirmation have done so far; while a copy
is being written no marker is armed, so a torn copy is never what the guard puts back.
`WritesMarker` says that no failure leaves an armed marker behind a client that
goes on (`"kept"`, `"armed"`, `"registered"` are not in `FailsAt`): with such a marker
the next update would tear the copy the guard counts on.

`ServesInBoundedSteps`: `StepsLeft` counts, from each place, the steps to serving, ten for
each start the guard still grants; it is at most `10 * (MaxStartAttempts + 2)`, and once
nothing goes wrong any more (`calm`) a step of guard, client or `install` that leads away
from where the device is lowers it (`Nearer`). It needs `CanRun`: what was confirmed is not
a build that exits at once, so that a start without a marker comes up. The device can thus
not go round for ever between a bad build and its guard.

### `Bluetooth`

`InPlace` says what the radio holds at each place of its poll. `NeverTwice` follows from
`SourceInv`: whatever the radio knows of was configured once (`AllKnown`), so it cannot be
configured again; a stream that goes on beside the transport being looked at, or
read, has lost the slot for good (`Superseded`); and what is started is what this look is
about (`ReadsSeen`). `CallsBack` is a property of steps, proved from the types.

### `Sources`

`Settled` and `Timed` bound the age of a candidate by the time for which all levels told of
a change, since both start anew on the same events; `Confirm` compares the first with the
hold. `SourcesAsDesired` needs `Accounted` (a thread that exists is in the map or being
joined), `Stopping` and `Starting` (what is not stale is kept; what was visited is as
asked, or shown as an error) and `Resting` (between passes, all of it). `JoinsAreAnswered` and
`PassesEnd` are those of `PlayerSupervisor`; here an entry of the map always has a thread.

### `RemoteMenu`, `RemoteKeys`, `Pairing`

`OneApplication`: an application of an earlier session is left only where the next session
will take it back, and `owner` is then the connection that can. `ServesPublished`: where
no write is on its way, the attributes hold what the bridge believes published, and a
pick is started only when that is the server's menu.

`GrabInv` accounts for each path on a task's list (`Accounted`): either a reader has it, or
exactly one event about its end is in the channel or in hand, never both and never two;
and two tasks do not read one device (`Alone`). Without the count the
refinement could not be shown: a second notice would make a task forget a path it reads
again. `NoForgottenPath` follows from the same account, and `Rescan` maps to a `Grab` of
its device, every other step to `Lose`, `Tell`, `Forget` or a stutter.

`WindowInv` is `Guarded` (the one window that runs holds the guard, and knows its remote
once it has found one), `Minds` (its report, the bonds of the others, and that what it
paired stays paired) and `PairedIsBonded`. `ScreenInv` adds that what is shown as scanning
is shown by a window that holds the guard, and that a window has found the remote it was
opened for, if it was opened for one; with it each step maps to one of `Screen` or a stutter.
`GuardIsHeld` is the converse of `Guarded`, that no path out of a window forgets the guard.
`WindowsRunDown` counts the places a task has before it and the attempts it has left, at
most `PairAttempts + 7`, and shows that each of its steps lowers the count, whatever
the others do.

## 12. Not modelled

* **Whole parts**: Bluetooth metadata and the commands that make a phone play, pause or
  skip (reads and calls without a state of ours); hooks; the log ring; device
  enumeration; identity, health, the ALSA callback, installation. `PROJECT.json` gives
  the reason of each.
* Inside `Attachment`: a write that opens its file and then fails (a full disk), which
  leaves what a power cut at that place leaves (`TornWrites`); `preferred_server_name` and `preferred_server_mac`, which narrow
  the candidates; commands carried by a status answer, except those of `Pairing`; the
  connection hooks, which are assumed to return; the order of two claimants that are
  otherwise equal (`claimed_at`), where either may be chosen; a server found under two
  addresses at once, which gets its own goodbye (main.rs:399).
* Inside `PlayerSupervisor`: names, formats and error texts in reports, and two enabled
  players under one id or on one card. Sources, bridge and Bluetooth are reconciled by the
  same loop after the players; they share nothing with them but the order, so each
  has its own module, in which the loop does nothing else.
* Inside `Update`: the contents of a download and its hash; the list of components, which
  is compared by its text, so that an update is tried again only when something in it
  changed; in the model it may be tried again at any time.
* Inside `Bluetooth`: the calls of `inspect`, the name and pairing mode of the adapter, a
  reader or a decoder that ends by itself, the error path that restarts `serve`.
* Inside `RemoteMenu`: a call for the daemon's name that fails (gatt.rs:658, section 10);
  the moment between an abort and the end of the task, at its next await; positions, encodings, handles and the other 40 attributes; absolute
  volumes a remote writes; the list of remotes the settings name.
* Inside `Pairing`: the D-Bus signals behind discovery; whether trusting and connecting
  afterwards succeeds, which the code logs only.
* The HTTP transport, ALSA, BlueZ, the kernel and the Sendspin protocol are libraries and
  services: they appear as environments that may do what the code has to expect.
