------------------------------- MODULE SessionSend -------------------------------
(***************************************************************************)
(* What one tab of the Linux application sends, and on which connection    *)
(* (src/main.c with sequence.c, sequence_ui.h and transfer.c).             *)
(*                                                                         *)
(* A session is a tio process; its socket carries the raw bytes, and the   *)
(* tab's client of it is the tap. Whether tio has the device open is       *)
(* looked at once a second. Quick buttons and sequences write to the tap,  *)
(* typed text and line commands to the terminal of tio; a file transfer    *)
(* and Modbus are further clients of the socket and want it for themselves.*)
(*                                                                         *)
(* One thread; user, timers, async completions and the processes           *)
(* interleave. tio, VTE, the file dialog and sz/rz are external. Reads     *)
(* that deliver bytes leave what is modelled as it was.                    *)
(***************************************************************************)
EXTENDS Integers, FiniteSets

CONSTANTS Steps,       \* steps of the sequence that is run
          Rest,        \* its delay, in passes of Pass
          MaxSessions, \* bound: spawns ever begun
          MaxSpawns,   \* bound: spawns under way at once
          MaxTaps      \* bound: taps in memory at once

ASSUME BoundAssumption == {Steps, Rest, MaxSessions, MaxSpawns, MaxTaps} \subseteq Nat \ {0}

VARIABLES
    \* TioTab
    pid, socket,     \* the session of child_pid and of socket_path, 0 for none
    observed, watch, \* observed_connected, session_timer
    raw,             \* the tap of the session, 0 for none
    timer,           \* raw_connect_timer # 0
    quick, runner, line, transfer, transferTimer, input,
    dialog, modbus,  \* the file dialog, the modal Modbus window
    tap,             \* TioRawTap, in memory while refs # 0
    \* the main loop, VTE, tio and the device
    timers,          \* timeouts of raw_tap_try_connect that exist
    made, spawning, alive, listening, device,
    quiet            \* time that passed, unpaused, since the runner's last write ended

process == <<pid, socket, made, spawning, alive, listening, device>>
link == <<raw, timer, timers>>
sources == <<quick, runner, line>>
file == <<transfer, transferTimer, input, dialog, modbus>>
vars == <<process, observed, watch, link, tap, sources, file, quiet>>

Session == 1..MaxSessions
Tap == 1..MaxTaps

\* `stale`: the tab saw its connection lost since the payload was asked for.
NoTap == [attached |-> FALSE, reading |-> FALSE, sending |-> "none", stale |-> FALSE,
          failed |-> FALSE, refs |-> 0]
NoQuick == [on |-> FALSE, stale |-> FALSE]
NoRunner == [state |-> "none", paused |-> FALSE, loop |-> FALSE, finishing |-> FALSE,
             awaiting |-> FALSE, step |-> 0, left |-> 0, stale |-> FALSE]
NoTransfer == [phase |-> "none", cancelled |-> FALSE, timer |-> FALSE]

Init == /\ pid = 0 /\ socket = 0 /\ made = 0 /\ spawning = {} /\ alive = {}
        /\ listening = {} /\ device = FALSE
        /\ observed = FALSE /\ watch = FALSE
        /\ raw = 0 /\ timer = FALSE /\ timers = 0 /\ tap = [t \in Tap |-> NoTap]
        /\ quick = NoQuick /\ runner = NoRunner /\ line = FALSE
        /\ transfer = NoTransfer /\ transferTimer = FALSE /\ input = TRUE
        /\ dialog = FALSE /\ modbus = FALSE /\ quiet = Rest

TransferActive == transfer.phase \in {"connecting", "running"}
RunnerActive == runner.state = "active"
Sending == raw # 0 /\ tap[raw].sending # "none"
User == ~dialog /\ ~modbus

\* tio_connection_device()
Connected == pid \in alive /\ device
-----------------------------------------------------------------------------
(* What ends with a connection *)

\* tio_transfer_cancel(), timed out or not
CancelTransfer(keepTimer) ==
    transfer' = IF TransferActive
                THEN [transfer EXCEPT !.cancelled = TRUE, !.timer = keepTimer /\ @]
                ELSE transfer

\* (Beside a definition, a wrong form of it that the properties are expected to
\* reject; nothing else uses these.)
PausedSurvives == IF runner.paused THEN runner ELSE NoRunner
\* The runner that a lost connection leaves, and the quick command.
RunnerLeft == NoRunner
QuickLeft == NoQuick
Lose == /\ runner' = [RunnerLeft EXCEPT !.stale = RunnerLeft # NoRunner]
        /\ quick' = [QuickLeft EXCEPT !.stale = QuickLeft # NoQuick]

\* g_source_remove(raw_connect_timer)
DropTimer == /\ timers' = IF timer THEN timers - 1 ELSE timers
             /\ timer' = FALSE

Release(t, n) == IF t.refs <= n THEN NoTap ELSE [t EXCEPT !.refs = @ - n]
Detach == IF raw = 0 THEN tap
          ELSE [tap EXCEPT ![raw] = Release([@ EXCEPT !.attached = FALSE], 1)]

\* raw_tap_stop(); the socket is the caller's to set
RawTapStop == /\ CancelTransfer(TRUE)
              /\ line' = FALSE
              /\ Lose
              /\ DropTimer
              /\ raw' = 0 /\ tap' = Detach

\* observe_connection()
Observe(now) ==
    /\ observed' = now
    /\ IF observed /\ ~now
       THEN CancelTransfer(TRUE) /\ Lose
       ELSE UNCHANGED <<transfer, quick, runner>>
-----------------------------------------------------------------------------
(* Sessions *)

\* connect_tio(), by the button or, while a spawn is under way, by its shortcut
ConnectTio ==
    /\ User /\ pid = 0 /\ made < MaxSessions /\ Cardinality(spawning) < MaxSpawns
    /\ made' = made + 1
    /\ spawning' = spawning \cup {made'}
    /\ RawTapStop
    /\ socket' \in {made', 0} \* build_socket_path() may find none
    /\ observed' = FALSE
    /\ UNCHANGED <<pid, alive, listening, device, watch, transferTimer, input, dialog,
                   modbus, quiet>>

\* disconnect_tio()
DisconnectTio ==
    /\ User /\ pid # 0
    /\ RawTapStop /\ socket' = 0
    /\ UNCHANGED <<pid, made, spawning, alive, listening, device, observed, watch,
                   transferTimer, input, dialog, modbus, quiet>>

SpawnFailed(s) ==
    /\ s \in spawning
    /\ spawning' = spawning \ {s}
    /\ pid' = 0
    /\ RawTapStop /\ socket' = 0
    /\ UNCHANGED <<made, alive, listening, device, observed, watch, transferTimer,
                   input, dialog, modbus, quiet>>

FreeTap == CHOOSE t \in Tap : tap[t].refs = 0
AttachTap == /\ raw' = FreeTap
             /\ tap' = [tap EXCEPT ![FreeTap] = [NoTap EXCEPT !.attached = TRUE, !.reading = TRUE,
                                                              !.refs = 2]]
CanAttach == socket \in listening /\ \E t \in Tap : tap[t].refs = 0

\* on_spawn_finished(): the socket is tried at once, then on a timer
SpawnSucceeded(s) ==
    /\ s \in spawning
    /\ spawning' = spawning \ {s}
    /\ pid' = s /\ alive' = {s} \* VTE hangs up what the terminal ran before
    /\ \/ socket = 0 /\ UNCHANGED <<link, tap>>
       \/ CanAttach /\ AttachTap /\ UNCHANGED <<timer, timers>>
       \/ socket # 0 /\ timer' = TRUE /\ timers' = timers + 1 /\ UNCHANGED <<raw, tap>>
    /\ device' \in BOOLEAN
    /\ Observe(device')
    /\ watch' = TRUE
    /\ UNCHANGED <<socket, made, listening, line, transferTimer, input, dialog, modbus,
                   quiet>>

TioListens(s) == /\ s \in alive \ listening /\ s = socket
                 /\ listening' = listening \cup {s}
                 /\ UNCHANGED <<pid, socket, made, spawning, alive, device, observed, watch, link,
                                tap, sources, file, quiet>>

\* The device comes or goes, and tio opens or closes it.
DeviceChanges == /\ pid \in alive
                 /\ device' = ~device
                 /\ UNCHANGED <<pid, socket, made, spawning, alive, listening, observed, watch,
                                link, tap, sources, file, quiet>>

TioExits == /\ alive # {}
            /\ alive' = {} /\ device' = FALSE /\ listening' = {}
            /\ UNCHANGED <<pid, socket, made, spawning, observed, watch, link, tap, sources,
                           file, quiet>>

ChildExited ==
    /\ pid # 0 /\ pid \notin alive
    /\ pid' = 0 /\ observed' = FALSE /\ watch' = FALSE
    /\ RawTapStop /\ socket' = 0
    /\ UNCHANGED <<made, spawning, alive, listening, device, transferTimer, input,
                   dialog, modbus, quiet>>

\* on_session_tick(), once a second
SessionTick ==
    /\ watch
    /\ Observe(Connected)
    /\ UNCHANGED <<process, watch, link, tap, line, transferTimer, input, dialog, modbus,
                   quiet>>
-----------------------------------------------------------------------------
(* The tap *)

\* raw_tap_try_connect() on its timer; it gives up after 40 attempts
TryConnect ==
    /\ timers > 0
    /\ timers' = timers - 1 /\ timer' = FALSE
    /\ \/ CanAttach /\ pid # 0 /\ AttachTap
       \/ UNCHANGED <<raw, tap>>
    /\ UNCHANGED <<process, observed, watch, sources, file, quiet>>

ReadReleasesOnce(t) == Release([tap[t] EXCEPT !.attached = FALSE, !.reading = FALSE], 1)
\* Its own reference and, at the end of the stream, that of the session.
ReadReleases(t) == Release([tap[t] EXCEPT !.attached = FALSE, !.reading = FALSE],
                           IF tap[t].attached THEN 2 ELSE 1)
\* on_raw_tap_read() of a detached tap, or at the end of the stream: the tab loses
\* its tap, whichever one that is
ReadEnds(t) ==
    /\ tap[t].reading
    /\ raw' = IF tap[t].attached THEN 0 ELSE raw
    /\ tap' = [tap EXCEPT ![t] = ReadReleases(t)]
    /\ UNCHANGED <<process, observed, watch, timer, timers, sources, file, quiet>>

\* on_payload_written()
PayloadWritten(t) ==
    /\ tap[t].sending # "none"
    /\ \E failed \in BOOLEAN :
           tap' = [tap EXCEPT ![t] = Release([@ EXCEPT !.sending = "none", !.stale = FALSE,
                                                       !.failed = failed], 1)]
    /\ quiet' = IF tap[t].sending = "runner" /\ t = raw THEN 0 ELSE quiet
    /\ UNCHANGED <<process, observed, watch, link, sources, file>>

Payload(t, by, stale) == [t EXCEPT !.sending = by, !.stale = stale, !.refs = @ + 1]
Write(by, stale) == tap' = [tap EXCEPT ![raw] = Payload(@, by, stale)]
\* send_payload(): whether it would write
Ready == ~TransferActive /\ pid # 0 /\ raw # 0 /\ observed /\ ~Sending
-----------------------------------------------------------------------------
(* Quick buttons *)

\* on_quick_button_clicked(); a button is insensitive until the device is open
QuickSend ==
    /\ User /\ pid # 0 /\ observed /\ ~RunnerActive /\ ~quick.on
    /\ Ready /\ Write("user", FALSE)
    /\ UNCHANGED <<process, observed, watch, link, sources, file, quiet>>
QuickSchedule ==
    /\ User /\ pid # 0 /\ observed /\ ~RunnerActive /\ ~quick.on
    /\ quick' = [NoQuick EXCEPT !.on = TRUE]
    /\ UNCHANGED <<process, observed, watch, link, tap, runner, line, file, quiet>>
\* quick_send_delayed(): dropped when it cannot be sent
QuickDue ==
    /\ quick.on
    /\ IF Ready THEN Write("user", quick.stale) ELSE UNCHANGED tap
    /\ quick' = NoQuick
    /\ UNCHANGED <<process, observed, watch, link, runner, line, file, quiet>>
-----------------------------------------------------------------------------
(* Sequences *)

\* sequence_action("run")
RunSequence ==
    /\ User /\ ~RunnerActive /\ ~quick.on /\ raw # 0 /\ pid # 0
    /\ \E loop \in BOOLEAN : runner' = [NoRunner EXCEPT !.state = "active", !.loop = loop]
    /\ quiet' = Rest
    /\ UNCHANGED <<process, observed, watch, link, tap, quick, line, file>>

StopSequence ==
    /\ User /\ runner # NoRunner
    /\ runner' = NoRunner
    /\ UNCHANGED <<process, observed, watch, link, tap, quick, line, file, quiet>>

\* sequence_action("pause") and tio_sequence_runner_pause(); sequence_paused is
\* the `paused` of the runner while there is one that runs.
PauseSequence ==
    /\ User /\ RunnerActive
    /\ runner' = [runner EXCEPT !.paused = ~@]
    /\ UNCHANGED <<process, observed, watch, link, tap, quick, line, file, quiet>>

\* sequence_ui_tick() takes the runner away when it ended.
SequenceUiTick ==
    /\ runner.state \in {"done", "failed"}
    /\ runner' = NoRunner
    /\ UNCHANGED <<process, observed, watch, link, tap, quick, line, file, quiet>>

\* Time passes for the runner; a pause keeps what remained of its delay.
Pass ==
    /\ RunnerActive /\ ~runner.paused
    /\ runner.left > 0 \/ quiet < Rest
    /\ runner' = [runner EXCEPT !.left = IF @ > 0 THEN @ - 1 ELSE 0]
    /\ quiet' = IF quiet < Rest THEN quiet + 1 ELSE Rest
    /\ UNCHANGED <<process, observed, watch, link, tap, quick, line, file>>

NotAwaited(step) == [runner EXCEPT !.step = step, !.finishing = step = Steps, !.left = Rest]
\* A step is sent: the delay starts once it was written.
StepSent(step) == [runner EXCEPT !.step = step, !.finishing = step = Steps, !.awaiting = TRUE]

\* tick() of the runner: a probe of the transport (sequence_send) comes first
RunnerDue == RunnerActive /\ ~runner.paused /\ runner.left = 0
Broken == ~(pid # 0 /\ raw # 0 /\ ~tap[raw].failed /\ observed)
RunnerFails == /\ RunnerDue
               /\ Broken \/ (~Sending /\ TransferActive /\ ~runner.awaiting
                             /\ (runner.finishing => runner.loop))
               /\ runner' = [runner EXCEPT !.state = "failed"]
               /\ UNCHANGED <<process, observed, watch, link, tap, quick, line, file,
                              quiet>>
RunnerRests == /\ RunnerDue /\ ~Broken /\ ~Sending /\ runner.awaiting
               /\ runner' = [runner EXCEPT !.awaiting = FALSE, !.left = Rest]
               /\ UNCHANGED <<process, observed, watch, link, tap, quick, line, file,
                              quiet>>
RunnerEnds == /\ RunnerDue /\ ~Broken /\ ~Sending /\ ~runner.awaiting
              /\ runner.finishing /\ ~runner.loop
              /\ runner' = [runner EXCEPT !.state = "done"]
              /\ UNCHANGED <<process, observed, watch, link, tap, quick, line, file,
                             quiet>>
RunnerSends == /\ RunnerDue /\ ~Broken /\ Ready /\ ~runner.awaiting
               /\ runner.finishing => runner.loop
               /\ Write("runner", runner.stale)
               /\ runner' = StepSent(IF runner.finishing THEN 1 ELSE runner.step + 1)
               /\ UNCHANGED <<process, observed, watch, link, quick, line, file, quiet>>
-----------------------------------------------------------------------------
(* Line commands, Modbus and file transfers *)

\* Nothing is being sent that another client of the socket would meet.
Exclusive == /\ ~TransferActive /\ ~line /\ ~RunnerActive /\ ~quick.on /\ ~Sending

\* on_line_control() of a level: a script, whose name tio will ask for; a pulse
\* and a break are typed at once and leave nothing behind
LineControl ==
    /\ User /\ pid # 0 /\ Exclusive
    /\ line' = TRUE
    /\ UNCHANGED <<process, observed, watch, link, tap, quick, runner, file, quiet>>
\* line_command_prompt(): tio asks for the name, or 5 s are over
LinePrompt ==
    /\ line
    /\ line' = FALSE
    /\ UNCHANGED <<process, observed, watch, link, tap, quick, runner, file, quiet>>

OpenModbus ==
    /\ User /\ raw # 0 /\ observed /\ Exclusive
    /\ modbus' = TRUE
    /\ UNCHANGED <<process, observed, watch, link, tap, sources, transfer, transferTimer,
                   input, dialog, quiet>>
CloseModbus ==
    /\ modbus /\ modbus' = FALSE
    /\ UNCHANGED <<process, observed, watch, link, tap, sources, transfer, transferTimer,
                   input, dialog, quiet>>

ChooseFile ==
    /\ User /\ observed
    /\ dialog' = TRUE
    /\ UNCHANGED <<process, observed, watch, link, tap, sources, transfer, transferTimer,
                   input, modbus, quiet>>

StillConnected == raw # 0 /\ observed
\* What was true when the dialog opened is looked at again.
MayTransfer == raw # 0 /\ observed /\ Exclusive
\* transfer_file_selected(): given up or refused, not startable, or started
FileSelected ==
    /\ dialog /\ dialog' = FALSE
    /\ \/ UNCHANGED <<transfer, transferTimer, input>>
       \/ /\ MayTransfer
          /\ transfer' = NoTransfer
          /\ UNCHANGED <<transferTimer, input>>
       \/ /\ MayTransfer
          /\ transfer' = [phase |-> "connecting", cancelled |-> FALSE, timer |-> TRUE]
          /\ transferTimer' = TRUE /\ input' = FALSE
    /\ UNCHANGED <<process, observed, watch, link, tap, sources, modbus, quiet>>

TransferCancelled ==
    /\ User /\ TransferActive
    /\ CancelTransfer(TRUE)
    /\ UNCHANGED <<process, observed, watch, link, tap, sources, transferTimer, input,
                   dialog, modbus, quiet>>
TransferTimeout ==
    /\ TransferActive /\ transfer.timer
    /\ CancelTransfer(FALSE)
    /\ UNCHANGED <<process, observed, watch, link, tap, sources, transferTimer, input,
                   dialog, modbus, quiet>>

\* finish(): what is left of it has no effect.
Ended == NoTransfer
\* connected() of transfer.c: the socket client connected or not, the program runs
TransferConnected ==
    /\ transfer.phase = "connecting"
    /\ transfer' \in {Ended} \cup (IF transfer.cancelled THEN {}
                                   ELSE {[transfer EXCEPT !.phase = "running"]})
    /\ UNCHANGED <<process, observed, watch, link, tap, sources, transferTimer, input,
                   dialog, modbus, quiet>>
TransferExited ==
    /\ transfer.phase = "running"
    /\ transfer' = Ended
    /\ UNCHANGED <<process, observed, watch, link, tap, sources, transferTimer, input,
                   dialog, modbus, quiet>>
\* A program that was killed does exit.
KilledExits == transfer.cancelled /\ TransferExited

TickForgetsInput == /\ transferTimer /\ ~TransferActive
                    /\ transferTimer' = FALSE
                    /\ UNCHANGED <<process, observed, watch, link, tap, sources, transfer,
                                   input, dialog, modbus, quiet>>
\* transfer_tick()
TransferTick ==
    /\ transferTimer /\ ~TransferActive
    /\ input' = TRUE /\ transferTimer' = FALSE
    /\ UNCHANGED <<process, observed, watch, link, tap, sources, transfer, dialog, modbus,
                   quiet>>
-----------------------------------------------------------------------------
Next == \/ ConnectTio \/ DisconnectTio
        \/ \E s \in Session : SpawnFailed(s) \/ SpawnSucceeded(s) \/ TioListens(s)
        \/ DeviceChanges \/ TioExits \/ ChildExited \/ SessionTick \/ TryConnect
        \/ \E t \in Tap : ReadEnds(t) \/ PayloadWritten(t)
        \/ QuickSend \/ QuickSchedule \/ QuickDue
        \/ RunSequence \/ StopSequence \/ PauseSequence \/ SequenceUiTick \/ Pass
        \/ RunnerFails \/ RunnerRests \/ RunnerEnds \/ RunnerSends
        \/ LineControl \/ LinePrompt \/ OpenModbus \/ CloseModbus
        \/ ChooseFile \/ FileSelected \/ TransferCancelled \/ TransferTimeout
        \/ TransferConnected \/ TransferExited \/ TransferTick

Spec == Init /\ [][Next]_vars

\* Timers run, a socket client ends its attempt and a killed program exits.
Fairness == /\ WF_vars(TransferTimeout) /\ WF_vars(TransferConnected) /\ WF_vars(KilledExits)
            /\ WF_vars(TransferTick)
FairSpec == Spec /\ Fairness
-----------------------------------------------------------------------------
TypeOK == /\ {pid, socket, made} \subseteq 0..MaxSessions
          /\ spawning \subseteq Session /\ alive \subseteq Session /\ listening \subseteq Session
          /\ {device, observed, watch, timer, line, transferTimer, input, dialog,
              modbus} \subseteq BOOLEAN
          /\ raw \in 0..MaxTaps /\ timers \in Nat /\ quiet \in 0..Rest
          /\ tap \in [Tap -> [attached : BOOLEAN, reading : BOOLEAN, stale : BOOLEAN,
                              sending : {"none", "user", "runner"}, failed : BOOLEAN,
                              refs : 0..3]]
          /\ quick \in [on : BOOLEAN, stale : BOOLEAN]
          /\ runner \in [state : {"none", "active", "failed", "done"}, paused : BOOLEAN,
                         loop : BOOLEAN, finishing : BOOLEAN, awaiting : BOOLEAN,
                         step : 0..Steps, left : 0..Rest, stale : BOOLEAN]
          /\ transfer \in [phase : {"none", "connecting", "running"},
                           cancelled : BOOLEAN, timer : BOOLEAN]

\* A tap is in memory exactly as long as the session, a read or a write uses it:
\* the end of the stream, a disconnect, a write that is still going out and a new
\* connection may come in any order (raw_tap_unref).
TapRefs ==
    /\ TypeOK
    /\ \A t \in Tap : tap[t].refs = (IF tap[t].attached THEN 1 ELSE 0)
                                    + (IF tap[t].reading THEN 1 ELSE 0)
                                    + (IF tap[t].sending # "none" THEN 1 ELSE 0)

\* "A sequence must never continue by surprise when a board reboots" (main.c:1369),
\* nor a quick command that was scheduled: what is written was asked for since the
\* last connection that the tab saw lost, paused in between or not.
NeverAfterLoss == \A t \in Tap : ~tap[t].stale

\* A file transfer and a Modbus window have the connection to themselves: no
\* payload goes out beside them, typed text does not reach tio during a transfer,
\* although both began after a dialog, with timers and writes under way.
OneTalker == /\ TransferActive \/ modbus => ~Sending
             /\ TransferActive => ~input /\ ~line
             /\ modbus => ~RunnerActive /\ ~quick.on /\ ~line

\* Between two steps of a sequence its delay passes, counted from when the step
\* before was written, and not while the sequence is paused (tick, sequence.c).
SequencePaced ==
    [][\A t \in Tap : /\ tap[t].sending # "runner" /\ tap'[t].sending = "runner"
                      /\ runner.step # 0
           => quiet = Rest /\ ~runner.paused]_vars

\* However a transfer ends (its program, its connection, the device, the session,
\* a timeout), typed text reaches tio again, unless the user goes for another one.
InputReturns == ~input ~> input \/ dialog
=============================================================================
