# A TLA+ verification of tio-gui

tio-gui is a set of serial terminal programs: a GTK application for Linux that
runs `tio` in terminal tabs (`src/main.c`), portable serial applications with
their own port driver (`src/serial_main.c`, `src/serial_windows_main.c`), and a
remote gateway that gives a browser control of a serial port (`remote/`,
`src/serial_agent.c`). This directory models the parts of it whose correctness
depends on an order of events that a test hardly produces, checks them with TLC
on small instances, and proves the most important results with TLAPS for all
values of the constants. Paths below are relative to the repository.

## 1. Inventory

| Component | State it keeps | Operations | Interacts with | What is hard | What makes it correct |
|---|---|---|---|---|---|
| settings store `src/settings.c` 605-892 | two slot files with a modular counter, `path.lock`, `store_mutex` | load, save | every application instance, the file system | concurrent instances and threads, crashes, damaged files, wraparound | the last committed snapshot is what a load returns; one fault costs one snapshot |
| native serial port `src/native_serial.c` | event and command queues, counts, connection flag, worker thread | start, send, line, pulse, poll, idle, finish, stop | its owner (a session or the agent) | two threads, partial writes, disconnects, reconnects | nothing replayed, lost silently or reordered; finish returns |
| remote gateway `remote/gateway.py` 33-297 | owner, lease, event buffer and cursors, fault, the agent's call in progress | claim, release, request, poll, event, supervise | pages over HTTP, agent over pipes | threads, lost answers, late polls, a hanging agent | one owner, one session per lease, events once and without a gap |
| serial agent `src/serial_agent.c` | the session | open, close, send, line, devices | gateway, native port | order of events and replies | last events before the reply of a close |
| browser page `remote/app.js` | generation, cursor, connection intent, receive buffer | take and release control, poll, connect, send | gateway | stale events of an earlier session | what is shown belongs to the present session |
| Linux session tabs `src/main.c` | tabs: child process, spawn in flight, recorder, log path, configured device; the window: dialog, draining, saved | connect, disconnect, record, load a profile, close a tab or the window, second launch | `tio` processes, settings, recorder | asynchronous spawns and dialogs that outlive their tab | one session per device; no tab freed under its work |
| Linux sending `src/main.c`, `src/sequence.c`, `src/transfer.c` | the raw tap and its references, timers, the sequence's step and delay, the transfer's phase | type, quick send, run, pause, transfer, Modbus | `tio`'s socket, `sz`/`rz` | reads and writes in flight, reboots, dialogs | one talker; nothing goes out after a loss; typing comes back |
| portable tabs `src/serial_main.c`, `src/serial_tools.h`, `src/native_bridge.c` | sessions over native ports, their events, sends, the bridge, log, recorder | connect, send, run, transfer, close, import, quit | native port, recorder | the polling timer against the worker, draining, recordings | as above; what is received reaches the log; closing ends |
| Windows tabs `src/serial_windows_main.c` | sessions, their events, log | connect, disconnect, close, quit | native port | the same | the portable program implements it |
| recorder and replay `src/capture.c` | queue, parts, two byte counts, one write in flight; events, index, virtual time | record, stop, completion of a write; play, pause, speed | sessions, main loop, file system, analyzer | re-entry, rotation, failures; clock arithmetic | what is on disk is in order and loadable, up to the limits of a replay; time never jumps |
| network, MQTT, Modbus, Bluetooth LE, CAN tools | sockets, packet identifiers, queues, the call or request under way | connect, send, receive, close | GIO, BlueZ, kernel, devices | asynchronous callbacks after close, late answers | what is shown was asked; what was begun is undone |
| plugins `src/plugin.c` | a run: directory, process, output, deadline | run, cancel, close | sandboxed process | a process that hangs, closes its output or fails | every run ends and leaves nothing |
| sequence editor, send history `src/sequence_ui.h`, `src/main.c` | rows, saved list, what is shown of it; history, cursor, draft | edit, save, load, delete; recall, send, clear | settings, the other tabs | shared lists | what is typed stays; a saved sequence goes only where its user pointed |
| line, log, analyzer, log view `src/text_line.h`, `src/log_model.c`, `src/analyzer.c`, `src/main.c` | line and cursor; entries; filtered list; what follows the end | feed, evict, filter, select, pause, scroll | sessions, replay, GTK | bytes of a character, eviction, animation | the view is what was received, and moves only as it should |
| HTTP server, settings contents, highlighter, search, conversions, translations, packaging | - | - | - | single requests or values | section 6 |

The hazards that these parts are exposed to, each at its line, are listed in
`PROJECT.json`; the properties below are stated for them.

## 2. Modules

* `SettingsStore` models every step of `tio_settings_save_to_store` and
  `tio_settings_load_from_store`. Threads belong to processes: the mutex is one per
  process, the `fcntl` lock belongs to a process and does not conflict with
  itself. A save is the steps `StartSave` (trylock), `LockFile`/`LockFails`, two
  `ReadSlot` in either order, `Choose` (the refusals), `RemoveTarget` (only where
  a replacement has a gap), `Rename` (the replacement by
  `g_file_set_contents_full`), `Protect` (the last `chmod`), `CloseLock`,
  `Unlock`; a load is `StartLoad`, two `ReadSlot`, `FinishLoad`, without a lock.
  `Crash` ends all threads of a process at any of these points. A file's content
  is its kind, its counter and the number of its commit; hashing and parsing are
  abstracted to "valid or not", as SHA-256 makes them.
* `SnapshotRegister` is what the store promises: a register with a value and a
  fallback. `SettingsStore` implements it (`ImplementsRegister`) with the value
  read as what a load of the files would return.
* `SettingsStoreProofs`, `NativeSerialProofs`, `GatewayProofs`, `SessionTabsProofs`,
  `SessionSendProofs` and `PortableTabsProofs` hold the theorems about the module of the same
  name, `ToolProofs` those about the parts in `Toolbox` and about `Tools`, and `SequenceSums` the
  lemmas on sums over sequences, recursive functions, prefixes, removals, bags and texts of
  numbered references that `NativeSerialProofs` and `ToolProofs` rest on (section 5).
* `NativeSerial` models the worker's loop label by label and the calls of the
  thread that owns the port. Writes are partial, reads and writes fail, the
  queues fill up, the port reconnects, and the owner finishes at any point.
* `Gateway` models `Gateway` and `Agent` of `gateway.py`, the agent's process as it
  is seen through its pipe, and the pages. Every block under `condition` is one
  action; the operation lock, the call with its time limit, the reader thread and
  the supervisor are separate. Polls travel on their own: they may arrive late and
  their answers may be lost.
* `SessionTabs` models the window of the Linux application: its tabs, the `tio` process,
  recorder, log path and configured device of each, and how a tab and the window close. An
  action is a callback of the main loop with everything it calls: `Connect` is `connect_tio`,
  `SpawnFailed`/`SpawnSucceeded` are `on_spawn_finished`, `Reaped` is `on_child_exited`,
  `CloseRequest` is `on_window_close_request`, `FinishClose` is `tio_app_finish_close_tab`
  with the window's own close when the last tab goes. Dialogs are modal and answered later,
  what was confirmed runs in an idle function after that, and a deferred close waits in a
  timer. A recorder is what `Capture` promises of one: once stopped, it finishes.
* `SessionSend` looks into one of these tabs: what it sends, and on which connection. The
  `tap` is `TioRawTap` with its references, the read and the write under way; `SessionTick` is the
  look at the device once a second (`on_session_tick`); `Pass` is time that passes for the
  sequence's timer; a transfer is its connection to the socket, its program and its time
  limit. What is written carries whether the tab saw the connection lost since it was asked for.
* `PortableTabs` models the portable program's tabs. `Tick` is the tab's timer with all it
  does in its order: the transfer and the bridge first, then the batch of events, then what
  an end or a failing log makes of the session. The worker is what `NativeSerial` shows its
  owner: it queues events, writes what it accepted, loses and reopens the port. `StopTab` is
  in disconnecting, closing, importing and quitting.
* `WindowsTabs` is the program of `serial_windows_main.c`, with the same tabs without tools.
  `PortableTabs` implements it (`LikeWindows`): hiding the tools and a tab held open by its
  recording, each of its steps is a step of that program or none; importing settings is
  the one thing it does besides.
* The tools are modules of their own, each one variable, a record: `Capture` (a step of C
  code is an operator from a recorder to the recorders the file system lets it become; an
  action is an entry point followed by all of `pump`), `Network`, `Mqtt`, `Modbus`, `Ble`,
  `Can` with the pure functions of `Dbc`, `Plugin`, `SequenceEditor`, `SendHistory`,
  `TextLine`, `Analyzer` (with the log model and the replay) and `LogView`. Peers, brokers,
  BlueZ, devices, processes and other tabs are the environment, which does what it may do at
  any moment. Handlers that GTK calls within one another are composed in the order of the
  calls (`LogView`).
* `Toolbox` has the tools and views whose invariants are proved, side by side. It extends
  `Capture`, `Network`, `Mqtt`, `Can`, `SequenceEditor`, `SendHistory` and `Analyzer`, whose
  actions have names of their own, and has `Modbus`, `Ble`, `Plugin` and `LogView` as instances. It states
  their properties by what they are about: `ConnectionsSound`, `DevicesSound`,
  `EditorsSound`, `ViewsSound` (and `Recorded` of `Capture`). `ToolboxAssumption` joins the
  assumptions of the parts on their constants.
* `Tools` adds the one whose results are only model-checked (`TextLine`) and
  makes one specification of all twelve. They share no state and call nothing of each
  other, so the states of the whole are those of the parts: `which` picks the part of a
  behavior at the start, the others stay as they begin, and fairness is that of the part.
  A step of `ToolsSpec` is one of the part that was picked and leaves the others, so that a
  behavior of it is, for each part, one of that part's own specification, which is what the
  theorems are about. One run therefore checks what twelve would; `MCTools` gives it its
  frames, files, bytes and recordings.

The other `MC*` modules give the constants their values; each `.cfg` is one run.

Where parts meet they are composed by what one shows the other: `SessionTabs` and
`PortableTabs` take a recorder to be what `Capture` shows (it ends once stopped), and
`PortableTabs` and `Gateway` take a native port to be what `NativeSerial` shows (its events
in order, its queue dropped at a disconnect).

### Correspondence

`PROJECT.json` "map" names for each definition the lines it stands for. The names
are the source's where it has one (`Pump`, `OpenPart`, `Reset`, `Supervise`, ...).
The operators named like a definition with a suffix or a twist (`TargetAlwaysPrimary`,
`PumpKeepsFileOpen`, `UndoneScan`, ...) are wrong forms of the definition they stand
before; each is there to show that a property rejects it, and nothing else uses it.

## 3. Runs

| Run | Instance | What it shows |
|---|---|---|
| `SettingsStore.cfg` | 2 processes, 3 threads (two in one process), counters 0..7, 3 commits, 2 faults | mutual exclusion, the newest snapshot wins also across the wrap, committed snapshots survive crashes, loads are recent, saves spare the selected slot, the locks are freed, the register is implemented |
| `SettingsStoreGap.cfg` | two threads; expected violation | finding 1 |
| `NativeSerial.cfg` | 3 units of queue in both directions, writes of at most 2, 3 commands, 2 connections | nothing replayed, lost or miscounted; idle means drained; pulses end; finish returns |
| `Gateway.cfg` | 2 pages, buffer of 1 event, 3 leases, 2 events, 2 polls under way | isolation of leases, gapless delivery, sessions have an owner, the supervisor acts |
| `GatewayLatePoll.cfg` | buffer of 2 events; expected violation | finding 2 |
| `SessionTabs.cfg` | 2 tabs, 2 connections, also both at once in one tab, 1 device | no tab is freed under a spawn or a recording, no recording without a session, distinct logs, what closes goes |
| `SessionTabsHeldPort.cfg` | 2 devices; expected violation | finding 3 |
| `SessionTabsTwoSpawns.cfg` | as `SessionTabs.cfg`; expected violation | finding 5 |
| `SessionSend.cfg` | 1 tab, 2 sessions in a row, 2 taps, 2 steps with a delay of one pass | references exact, one talker, nothing after a loss, paced sequences, typing returns |
| `PortableTabs.cfg` | 2 tabs, one of them only opened and closed, 1 port, 2 queued events | the bridge is alone, nothing after a told loss, logs complete, recordings outlived, closing ends, like Windows |
| `PortableReconnect.cfg` | 1 tab; expected violation | finding 4 |
| `MCTools.cfg` | see below | the tools |

Bounds. Three threads give a save against a save of the same process, against one of
another, and a load against both. A counter range of 8 keeps every relation
between two adjacent counters and the half range, and the store starts just before its
counter wraps; three commits replace each slot, two faults may take both. Three commands and two
connections are what a replay needs: one command done, one partly written, one
waiting when the connection ends. Leases count each claim and each end: three are a page
that takes control after another lost it, with a poll of the first still on its way, beside
one of the second. A buffer of one event overflows with the second. Two tabs
with two connections between them are a tab beside the one that closes, a tab that a
second launch adds to a closing window, and a tab that connects again, after the first or
while it is under way. One tab with two
sessions is enough for what is sent on the wrong one, since the taps and timers of other tabs
are their own. In the portable program tabs meet at the ports, the dialogs and the window: one
with all the tools, one that closes beside it. Two queued events put a disconnect and the
reconnect, or data and the end, into one batch.

The tools: five records of up to two units rotate a part of four twice and expire parts, and
parts of three records have more than a replay takes (two; a file of `ReplayLimit` is still
loaded, as no part of the code's sizes exceeds it);
two connections of a network window let callbacks of the last one come while the next is up,
and three sends of up to two units meet a queue of three; two packet identifiers wrap with one still
pending; three transactions of Modbus wrap; two devices, one of them contested by another
program, and one characteristic; frames of two bytes of two bits, which signals cross in both
byte orders; a plugin with one unit of output; two editors' lists of two names; a history of
two of three texts; lines of four bytes with characters of one and two; a recording of three
events over three moments, a log of two lines, two loads; a log of three lines of which one is
shown. The cases at stake are an eviction, a wrap, a full queue, a split
character: each happens within them, and the mutants show that each matters. One bound matters the other way:
`MaxReceived = 2` with `ParseBudget = 1` makes the part of `BacklogEnds` on MQTT (`Unparsed`: what
was received does not wait for ever) about what is left when nothing more arrives, which the
idle source has to go on with. With more room a broker that sends steadily always finds
something waiting, although each packet is parsed in turn, and `Unparsed` would not say so.

Bounds are CONSTANTS that appear only in guards: `MaxCommits`, `MaxFaults`, `MaxRecords`,
`MaxCommands`, `MaxConns`, `MaxRead`, `MaxEvents`, `MaxLeases`, `MaxPosts`, `MaxTabs`, `MaxSpawns`,
`MaxConnects`, `MaxSessions`, `MaxTaps`, `Loader`, `Plain`, `Logging`, `MaxSends`, `MaxLoads`,
`MaxClears`, and the like in the tools. Limits of the code have the same form but small values
(`QueueLimit`, `MaxPending`, `MaxHistory`, ...). Symmetry is used only in a run without liveness
(`GatewayLatePoll.cfg`); in `Gateway.cfg` the first page to take control is called `a`. Deadlock
checking is off because every bounded model stops at its bounds, and a program that nobody
uses stops too.

Every property of a passing run has a mutant in `PROJECT.json`: a plausible bug of a
mapped definition that makes TLC find the property violated. The properties of `MCTools.cfg`,
which join those of several tools, have one for each tool.

### Fairness

* `LocksFreed`: weak fairness of each thread's next step within a call; the calls are
  sequential code that waits for nobody (both locks are tried, never awaited).
* `FinishReturns`: weak fairness of the worker thread and of the join.
* `SupervisorActs`: weak fairness of the reader and of each thread that
  is in a call (its time limit ends it), and strong fairness of the supervisor. The
  supervisor tries the operation lock for a tenth of a second twice a second; the lock
  is freed and taken again by pages, so weak fairness would let it starve for ever.
  Strong fairness assumes that it does not miss every moment in which the lock is free,
  which the code does not force but the scheduler gives with probability one. Pages
  have no fairness: nothing makes a browser act.
* `CloseCompletes`: weak fairness of the main loop's timers and idle functions, of the end
  of a spawn (VTE always calls back), of a recorder that was stopped
  and of `tio` exiting once it was sent SIGHUP. No dialog need ever be answered.
* `InputReturns`: weak fairness of the transfer's timers and of the exit of a program that was
  killed. A transfer that goes on may go on for ever.
* `CloseEnds` (portable): weak fairness of each tab's timer, of the bridge's deadline, of the end of
  a killed program and of a stopped recorder. The port need never answer.
* `WorkEnds`, `BacklogEnds` (tools): weak fairness of the completion of a write, which GIO
  delivers with or without an error; of timers (MQTT's tick, the scan's limit, the replay's and the
  analyzer's, the frames of the log's animation); of calls that have a time limit (D-Bus, Modbus);
  of the plugin worker's loop and of its deadline. Brokers, devices, processes, other programs and the
  user have none.

## 4. What the properties say

Each is stated in words above its definition; in short:

* Settings store: `MutualExclusion`, `NewestSelected`, `CommittedSurvives`, `LoadIsRecent` (without
  faults a load is never older than its beginning; one fault costs one snapshot),
  `SaveSparesSelected`, `LocksFreed`, and the refinement `ImplementsRegister`.
* Native port: `NeverReplayed` (a byte accepted on one connection is not written on the next, and the
  queue is of one connection), `IdleMeansDrained` (`tio_native_idle` is true only when every accepted
  command was executed), `CountersExact` (`queued` and `sending`; bytes that were read are queued, or the
  connection ends and says so), `PulsedLineLowered`, `FinishReturns`.
* Gateway: `LeaseIsolation`, `StreamIsWhole`, `SessionHasOwner`, `SupervisorActs`.
* Session tabs: `FreedWhenDone` (no callback finds its tab freed, unless its tab had two spawns
  under way, finding 5; no recording is cut off),
  `RecordingHasSession`, `LogsDistinct`, `CloseCompletes`.
* Sending: `TapRefs` (a tap lives as long as it is used), `OneTalker` (a transfer or Modbus has the
  connection for itself), `NeverAfterLoss` (nothing scheduled outlives a loss that the tab saw),
  `SequencePaced`, `InputReturns`.
* Portable tabs: `BridgeAlone`, `NeverAfterLoss`, `ReceivedIsLogged`, `RecordingOutlived`,
  `CloseEnds`, `LikeWindows`.
* Tools: `Recorded` (exact accounts, order, limits, and parts that can be loaded unless they have
  more records than a replay takes), `ConnectionsSound`
  (references exact, what is reported as sent was written; an honest broker is never found
  malformed), `DevicesSound` (what a Bluetooth
  call switched on is switched off; a run of a plugin leaves nothing; a Modbus answer is of the
  request it is shown for; the CAN socket is closed once, and a file of signals is taken
  whole), `EditorsSound` (what is being typed stays while the history is browsed, names of saved
  sequences are distinct, a list that nobody else changed is the one acted on, and, `SavedStay`,
  an editor's step takes a saved sequence away only by saving over its name, or by Delete at the
  place that is selected), `ViewsSound` (the views against
  what they follow, the log of a replay against the events of its recording, the list against
  its filter), `ResultsSound` (signals are decoded as a reference definition by bit positions
  says; the edited line against a line of columns),
  `NothingJumps` (a replay's time, a paused log), `WorkEnds`, `BacklogEnds`.

### Findings

1. `SettingsStoreGap` - a load takes no lock and reads the slots one after the other. With
   a replacement that removes the target first (`docs/settings-storage.md` 45-47, Windows), two
   saves in a row let one load find both slots missing: the application starts with
   defaults although a store exists.
2. `GatewayLatePoll` - a poll does not name its lease. One of an earlier lease of the same
   page that arrives late can acknowledge, and so discard, events of the new lease that the
   page never received (`docs/remote-serial.md` 107-108). `StreamIsWhole` therefore
   excludes leases in which that happened (the history variable `strayed`).
3. `SessionTabsHeldPort` - whether a port is held is decided by the configured device of the
   other connected tabs, but loading a profile into a connected tab, saving its quick buttons
   or exporting the settings replaces that configuration while its `tio` keeps the port it
   opened. Another tab is then let in on the same port (`README.md` 63: "refused with a plain
   message").
4. `PortableReconnect` - what a quick button or a sequence has scheduled is cancelled when the
   tab's timer reads the status of a disconnect. If the worker reopens the port before, it is
   sent on the new connection (`docs/serial-portable.md` 31-32: "Disconnect cancels pending work;
   it is never replayed on reconnect").
5. `SessionTabsTwoSpawns` - `action_connect` checks only that the tab has no process, so the
   shortcut can start a second spawn in a tab while the first is under way. `spawn_pending` is one
   flag for both and the first callback clears it: a window (or tab) that is closed then goes
   with the second spawn still to come, whose callback finds its tab freed (`docs/acceptance.md`
   348-349: "Window close asks before stopping live sessions, then drains recording/spawn work").
   `FreedWhenDone` therefore excludes the tabs in which that happened (the history variable
   `doubled`).

Not runs of their own, seen while modelling:

* When the `chmod` after the replacement of a slot fails, the save reports an error, yet its
  snapshot is the one later loads return, although `docs/settings-storage.md` 52-53 says "The
  last successful full snapshot wins". In `SettingsStore` the replacement is the commit.
* The recorder rotates by size and age, and `tio_replay_load` refuses more than 1,000,000
  records (`capture.c` 274). A part may be set to 128 MiB, which holds more than twice as many
  records of a byte each: it is rotated away and cannot be replayed, although
  `docs/acceptance.md` 160-161 says "Each part is independently playable". A part of the default
  16 MiB is too small for that. `PartsLoadable` therefore speaks of parts with no more records.
* With two spawns in a tab (finding 5) the second connection replaces, in `SessionSend`, a tap
  that still has its tab. That run has one spawn at a time (`MaxSpawns = 1`), and what it shows
  holds for users who do not connect a tab twice at once.
* The watch of the device looks once a second: a board that reboots between two looks is
  not seen, and a sequence goes on (`SessionSend`).
* Deleting or loading a saved sequence goes by the position in a list that another tab's
  editor may have changed, so that Delete may take a sequence that the user does not see there
  (`sequence_ui.h` 179-181). `SavedStay` allows that one place and no other, and `SelectsShown`
  holds as long as nobody changed the list.
* A Modbus read on the serial line takes a late answer to another read of as many registers,
  which its frame does not tell apart.
* A terminal scrolled to its end with a selection keeps its mark of new output, so that a
  later pause reports some without any; a search match on the last screen of the log resumes following and
  loses its selection.

## 5. Proofs

Each theorem holds for all values of the constants that satisfy the assumptions of its
module, which TLC evaluates on every run: any threads, tabs, pages, ports and taps, any
size of a queue, a buffer or a write, any bounds. Where a theorem has a hypothesis of its
own it is named below. Each argument is an inductive invariant, `IInv` (`Base` in
`SessionTabsProofs`, one for each part in `ToolProofs`), which TLC checked on the run's instance before it was proved. One
lemma per action or handler (`...Keeps`, `...Step`) shows that it preserves the invariant;
the temporal steps are one `PTL` each.

| Module | Theorems |
|---|---|
| `SettingsStoreProofs` | `TypeCorrect`, `Exclusion`, `NewestWins`, `Durability`, `SparesSelected`, `IsARegister`, `LoadsAreRecent` |
| `NativeSerialProofs` | `BytesNeverReplayed`, `CountersStayExact`, `IdleIsDrained`, `PulsesLowerTheirLine` |
| `GatewayProofs` | `LeasesStayIsolated`, `SessionsHaveOwners`, `StreamsAreWhole` |
| `SessionTabsProofs` | `TypeCorrect`, `RecordingsHaveSessions`, `LogsStayDistinct`, `TabsFreedWhenDone` |
| `SessionSendProofs` | `TapsAreHeld`, `NothingIsStale`, `OneTalksAtATime`, `StepsKeepTheirDistance` |
| `PortableTabsProofs` | `BridgesAreAlone`, `LossIsFinal`, `NothingIsMissed`, `RecordingsEndFirst`, `DoesLikeWindows` |
| `ToolProofs` | `RecordingsAreWhole`; `BlePartsAccounted`, `PluginRunsClean`, `ModbusShowsAnswers`, `CanBusExact` and with them `DevicesAccounted`; `LogFollows`, `ReplaysShown` and with them `ViewsFollow`; `PausedViewsStay`; `PeersTold`, `BrokerServes` and with them `ConnectionsTold`; `DraftsKept`, `SequencesKept` and with them `EditorsKeep`; `SavedSequencesStay`; of `ToolsSpec`, `ToolsHold` and `NothingMovesAlone` |

### The settings store

`IInv` is the conjunction of

* `TypeOK`;
* `LockInv` - a thread past its `trylock` is the holder of its process's mutex, and one
  past the file lock belongs to the process that holds it. Neither alone excludes two
  writers: the mutex does not reach another process, the file lock does not separate the
  threads of one. Together they give `MutualExclusion`;
* `DiskInv` - of two valid slots one follows the other: its counter is the other's successor
  and its commit the later one, so that the modular distance is 1 or -1 and never half a range;
* `FaultFreeInv` - while no fault has struck, a load of the files returns the last commit;
* `ViewInv` - what a thread inside the lock has read is still what is on disk, except for a
  slot it removed itself, unless a fault has struck since it took the lock. It makes
  `Target` spare the selected slot.

Lemmas on `Distance`, `Succ`, `Select` and `Target` carry the modular arithmetic.

`IsARegister` is the refinement of `SnapshotRegister`, whose value is what a load of the
files would return and whose fallback is the copy behind it (`Behind`). With two adjacent
copies (`TwoCopies`) a replacement of the older one makes the register's `Commit`; of the
other steps only a fault, or making room for a replacement, changes either: `DamageValue`
or `DropFallback`.

`LoadsAreRecent` is about loads, which take no lock and may see one slot before and the
other after any number of saves. Such a pair need not be adjacent: two copies are compared
rightly because the distance of their counters is that of their snapshots (`CopiesInv`, over
the copies on disk and those in the hands of loads), as long as that is less than half a
range. Hence the hypothesis `MaxCommits < Half`, which says that fewer than 2^63 snapshots
are ever committed; `BoundInv` keeps commits and the saves under way within it. `RecentInv`
says that one of the two copies a load has read, or will find, is not older than its
beginning (`Known`): a replacement takes the older one, and what it leaves is the newest.

### The native port

`IInv` follows a command. `PhaseInv` says what the flags and queues may be at each label of
the worker, `QueueInv` that the queue is the tail of what was accepted, all for the
connection that is up, with the command under way before it; `DoneInv` that what was
accepted before is whole on the wire; `WireInv` that the next byte to be written continues
the wire (`Continues`). From these follow `NeverReplayed` and `IdleMeansDrained`.
`StreamInv` and `SendInv` are the equations of the counters. They are about sums over
queues of any length, from which elements are taken at the front and added at the end:
`SequenceSums` proves what that does to the fold `FoldLeft` of the community modules. Its
induction over the length is over the set of the numbers for which a sum splits
(`NatInSet`, from the well-foundedness of <), since the library's induction rule takes an
operator and cannot be instantiated here.

### The gateway

`LockInv` says that the holder of the operation lock is alone with an operation, and that
the owner it found stays until it is done. With `AgentInv` this makes a session, and every
event in the pipe, one of the lease in force, and the pipe empty when a lease ends: an
answer to `close` comes after the last events, and where it does not come the agent is
stopped. `BufferInv` says that the buffer is the stretch of the stream after what was
acknowledged, `PageInv` that a page knows a beginning of its own lease's stream, `PostInv`
that a poll which is held in this lease is the only one, has its page's cursor and finds the
buffer beginning there. The three theorems follow; for the last part of `StreamIsWhole`
`PageInv` relates cursor and acknowledgement unless a late poll came between (`strayed`,
finding 2).

### The session tabs

For any number of tabs, connections and devices, and without a further assumption: `TypeCorrect`,
`RecordingsHaveSessions`, `LogsStayDistinct` and `TabsFreedWhenDone`. `Base` adds to the first three

* `IdInv` - a connection has one number, given once; without it a process could be reaped
  under the number of a spawn;
* `AbsentInv` - a tab that was freed, or is not made yet, has no process, recording or log
  path: a tab that is made later starts clean, and so cannot share a path it never asked for.

`SpawnInv` adds that the tab of a spawn waits for it and has only that one, which is what
`spawn_pending` means and what every test for it relies on, unless a second spawn began in it
meanwhile (`doubled`). `PathExists` is the counting argument behind `log_path_in_use`: at most
`MaxTabs - 1` other tabs are open, so one of `MaxTabs` suffixes is free.

### Sending

`TapInv` counts the references of a tap as those who use it (`Held`), and says that the tap
of the session is attached; a tap is freed by whoever drops the last. `RunnerInv` says that a
sequence whose step was written has waited for what its delay has left to wait
(`quiet + left >= Rest`), which gives `SequencePaced`, and that a step being written is
awaited. `OneTalker` is inductive with these. Most steps send nothing, begin nothing and
may only end a sequence or a timer (`Calm`); they are one lemma.

### The portable tabs

What the record of a tab promises (`Sound`: its types, `Alone`, `Asked`, nothing missed) is
kept by each operation that the code has on a tab, `Deliver`, `Drain`, `StopTab`,
`BridgeTick`, `TransferUpdate`, `CancelSends` and so on, whoever calls it; the actions only
compose them. That is where every way to end a session drains its events first and cancels
what waits. `PageInv` says that a tab which does not exist has nothing.

`DoesLikeWindows` follows the same operations without the tools (`WithoutTools`): each
leaves the Windows program's fields alone, or does to them what that program's own operation
does, so that each step is one of its steps, changes nothing of it, or is one of the two
differences that `LikeWindows` names: an import, and a tab that is held open by its recording.

### The recorder

`RecordingsAreWhole` is `Recorded` of `Capture`, for all limits, sizes of lines and times that
`LimitsAssumption` admits. What a recorder promises (`Sound`) is kept by each step that the C
code is made of, one lemma each: the header before the queue, a rotation that fails half-way, a
discarded queue, a write that ends whole or cut, a deletion that fails. Three facts carry it.
The header of a part waits at the head of the queue exactly while its part is empty
(`HeaderWaits` in `PartsSound`), so that no line gets in before it. While the queue will still
be written (`Live`: no error, or a write in flight that is older than it), what was written and
the records of the queue are all that was accepted. And each line of a file is the accepted one of
its number, in growing numbers (`Filed`), which is why a part that was rotated away loads and why
an error spoils only the current one. The limits on number and total size (`Within`) hold between
the trimming in `written` and the next completed write. That the number of parts and their total
fit again after trimming needs `DiskLimit >= PartBytes`, which `tio_capture_new` checks: the last
part stays, and alone it must fit.

### The connections

`NetInv` says of each connection that its count is that of its holders (`Counted`), that one
that is closed or still connecting has no watch and nothing queued while one that is watched
has its owner (`Alive`), that told and waiting sends are what was accepted and the wire is what
was confirmed and the part of the first send that went out (`Told`), and that the queue is
counted and bounded (`Queue`, over `Total` of `SequenceSums`). Within a notice of the socket
(`writable`) the watch may outlive the queue: `MidFits` is what each `g_socket_send` keeps, and by
induction over the budget (`NetWritten`) what the loop leaves, whatever the socket took; `NetLeft`
then drops the watch. `stop` and `tio_network_free` give back exactly what their holder had.

`MqttInv` is about a client and what its broker still owes. `Owed`: each answer that is owed
waits in the table of requests, and each that was received and not parsed waits there too, is
owed no more and is there once; identifiers in the table are distinct. So a broker that was
honest finds its answer in the table when it is parsed, whatever was asked meanwhile.
`NextIdFree` is why distinct identifiers last: fewer than `MaxPendingRequests` of `MaxId`
numbers are taken, so that `next_id`, going round, finds one that is not (`MaxPendingRequests
<= MaxId` is an assumption; the code has 64 of 65535). `Greeted` keeps the first packet of an
honest broker its greeting. `ParsePackets` is followed packet by packet (`HandleSound`), the
chunk that arrives likewise (`SentSound`), each by induction over the index of a recursive
function.

### The tools for devices

* `BleInv` accounts for everything that BlueZ has switched on for this window: it is noted in
  the window, or its call has succeeded and was not completed yet, or it is `stray`, done after
  the call had timed out, which nobody is told (`ScanAccounted`, `NotifyAccounted`,
  `ConnectAccounted`). Once the window is gone nothing is noted (`OnlyOpen`), so that what is left
  is being undone. `SelectionFits` keeps the characteristic that is read of the selected device.
* `PluginInv` follows a run: before it starts and after it is over there is neither directory
  nor file; a process runs only while the worker polls or kills it; after the end of its output
  the output is whole (`Reads`); and a run that ended without an error had a process that
  succeeded (`Ended`).
* `ModbusInv`: of a request that waits, every answer due under its transaction is its own, and
  while it is not written none is (`Numbered`). That is where the number matters: answers to
  requests that timed out stay due.
* `CanInv`: the socket is watched as long as it is open, and a watched socket has its owner, so
  that a free drops first the watch and then the last reference.

### The editors

`SendInv`: what was being typed is the entry while nothing is browsed, and the draft otherwise
(`Remembers`); the history and the menu have no line twice and are within their limits, which
`tio_settings_push_history` keeps because it takes a line out before it adds it
(`FirstRemoved`, `HistPushed`). `EditorInv`: of the saved sequences that decode no two have
a name in common, and an editor that nobody else's change made stale shows their names in order;
removing and replacing in a list is followed place by place (`RemovedIs`, `ListRemoved`). The same
lemmas say which sequences a change of the list leaves in it (`OthersStay`, `EditorDeletes`,
`EditorSaves`), from which `SavedSequencesStay` follows: Save takes only those of its own name,
since it looks for the name, Delete only the one in the selected place.

### The views

`LogInv` has what the handlers, which GTK calls within one another, rely on: a view is never
beyond its end (`InRange`); one that follows has nothing selected and no news (`Follows`); the
animation runs only in one that is shown and follows (`Animates`). Each handler keeps `ViewFits`
by a lemma of its own; `update_highlight_cursor` and `update_scroll_button`, called at the end
of each, restore `CaretFits` and `ButtonFits`, which do not hold in between.
`PausedViewsStay` follows from the same lemmas, which also say that a paused view keeps its
position unless the text became shorter than it.

`AnalyzerInv` is about the window on a replay. `ReplayFits`: the texts of the log and the open
line are the latest of the recording up to the position (`LatestOf`), from its own file, and
the open line has received bytes only, which is why a command may be entered before it while
what was received stays in order (`LatestInserted`). Events are fed one by one (`FedFits`,
`FedUpToFits`): the next one is later than all (`LatestGrows`, `LatestPadded`). When the limits
take the oldest entries (`Retained`), what is left has no gap (`LatestShifted`; these four are
lemmas of `SequenceSums`, `LatestParts` says how they apply to `LatestOf`), and an entry
that was just added may go too. `EntriesFit`: the numbers of the entries end with the last one
given and run without a gap, so that a line listed and an entry of one number are the same.
`LoadsFit`: the serials of loads are distinct and each ends once, so that the replay shown is of
the last one asked for. `RowsFit` is why a following list with nothing to do is current.
`AnchoredTime`, `FasterTime` and `PausedTime` say that the arithmetic of the clock shows the
same time before and after a change; `NothingMovesAlone` puts them together with the log view.

### Together

A step of `ToolsSpec` is one of each part or leaves it (`EachSteps`), so that `ToolsInv`, which
has the invariants of the eleven parts of `Toolbox`, is inductive. `ToolsHold` is what the
invariants of the run say but `ResultsSound`, and `EditorsSound`; `NothingMovesAlone` is its action
property.

### What is only model-checked

* The liveness properties (`LocksFreed`, `FinishReturns`, `SupervisorActs`, `CloseCompletes`,
  `InputReturns`, `CloseEnds`, `WorkEnds`, `BacklogEnds`): fairness and ENABLED are out of the
  prover's reach.
* `ResultsSound`: that a signal is decoded as its bit positions say takes powers of two with
  a variable exponent, and that the edited line is the line of columns an equivalence between
  bytes and characters for every control sequence; both are checked against reference
  definitions over bounded inputs.

`TypeOK` of `SettingsStore` and `SessionTabs` is a theorem and is not checked by a run; those
of the other proved modules are conjuncts of `CountersExact`, `StreamIsWhole`, `TapRefs` and
`BridgeAlone`.

## 6. Not modelled

Contents and wording: what a snapshot, a record, a line or a message holds, hashing and
JSON, unless a property tells them apart. Time is a nondeterministic choice (a limit may
pass at any point where the code looks at it), so that no result depends on a duration; the
deadlines of the native writer (five seconds against a configured delay) are therefore
outside. Power loss is as strong as GLib's durable replacement says. Outside as well, since they keep
no state that outlives a call or only show it: HTTP framing, tokens and rate limits of the gateway; the
page's connection intent, views and quick sends; widgets, menus, shortcuts and fonts; the dialogs that
edit a profile; search and highlighting of a line; payloads, line formats, presets and options; the
settings' keys; the terminal emulation (VTE, libvterm); plots, colour rules and CSV export of the
analyzer; the plugin engines and the sandbox's rules; translations and packaging. The unit tests of the
repository cover the pure ones.

## 7. Plan

What is left, in order:

1. The browser page's connection intent against stale events, composed with `Gateway`.
2. Proofs: the edited line (`TextLine`) against its columns, one control sequence at a time.
