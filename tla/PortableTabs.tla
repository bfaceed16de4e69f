------------------------------- MODULE PortableTabs -------------------------------
(***************************************************************************)
(* The tabs of the portable application: serial_main.c, with the tools of  *)
(* serial_tools.h and the socket bridge of native_bridge.c.                *)
(*                                                                         *)
(* A tab talks to a native serial session (NativeSerial): it sends to it,  *)
(* asks whether it is idle, and polls its events on a timer, `Tick`. Quick *)
(* buttons, sequences and typed text share the session; a file transfer or *)
(* the Modbus window has it alone, through a bridge. Ending a session,     *)
(* closing a tab, importing settings and quitting all go through StopTab.  *)
(*                                                                         *)
(* The worker thread of the session, the recorder's writes, dialogs and    *)
(* programs interleave with the handlers of the one UI thread. A session   *)
(* is reduced to what its caller sees of it; sends are who asked and since *)
(* when.                                                                   *)
(***************************************************************************)
EXTENDS Naturals, Sequences, FiniteSets, SequencesExt

CONSTANTS Tab,      \* tabs
          Plain,    \* bound: the tabs that are opened and closed only
          Path,     \* ports
          Logging,  \* bound: whether sessions log what they receive
          MaxEvents \* bound: events queued when the worker adds one

ASSUME TabAssumption ==
    /\ Plain \subseteq Tab /\ IsFiniteSet(Tab) /\ Tab # {}
    /\ Logging \subseteq BOOLEAN /\ MaxEvents \in Nat \ {0}

VARIABLES tab,    \* tab[t]: the record of a tab and of the session it has
          app,    \* running, closing (App.closing), gone
          dialog  \* the modal dialog that is open, if any

vars == <<tab, app, dialog>>

None == "none"
\* Since when something waits to be sent: on this connection, or the connection
\* was lost meanwhile, or the tab has also been told so.
Mark == {"this", "lost", "told"}

\* serial, keeps: the port of the session, whether it retries (reconnect, auto_connect);
\* port, events, out: the worker's port, the events and the sends it has queued;
\* connected: what STATUS said last; missed: an event with received bytes left the
\* queue of a session that logs and is not in the log.
NewTab(page) == [page |-> page, capture |-> None, serial |-> None, keeps |-> FALSE,
                 port |-> "closed", events |-> <<>>, out |-> {}, connected |-> FALSE,
                 log |-> FALSE, missed |-> FALSE, quick |-> None, runner |-> None,
                 transfer |-> None, bridge |-> None, deadline |-> "unset", modbus |-> FALSE]
NoDialog == [kind |-> None]

Init == /\ \E S \in SUBSET Tab \ {{}} :
               tab = [t \in Tab |-> NewTab(IF t \in S THEN "open" ELSE None)]
        /\ app = "running" /\ dialog = NoDialog

\* tio_native_idle(), tio_sequence_runner_active(), tio_transfer_active()
Idle(s) == s.port = "open" /\ s.out = {}
Running(s) == s.runner # None
Active(s) == s.transfer \in {"active", "cancelled"}
Recording(s) == s.capture \in {"recording", "stopping"}
\* Nobody else is about to send.
Quiet(s) == s.quick = None /\ ~Running(s)

\* tio_native_send(): whatever the tab believes, the worker has to have the port
Sent(s, by, since) == IF s.port = "open"
                      THEN [s EXCEPT !.out = @ \cup {[by |-> by, since |-> since]}]
                      ELSE s
-----------------------------------------------------------------------------
(* Events *)

\* cancel_sends(), and beside it, as beside other definitions below, a wrong form
CancelQuick(s) == [s EXCEPT !.quick = None]
CancelSends(s) == [s EXCEPT !.quick = None, !.runner = None]
\* tio_transfer_cancel()
Cancel(s) == IF Active(s) THEN [s EXCEPT !.transfer = "cancelled"] ELSE s

Aged(mark, from, to) == IF mark = from THEN to ELSE mark
Age(s, from, to) == [s EXCEPT !.quick = Aged(@, from, to), !.runner = Aged(@, from, to)]

\* STATUS after these events, of which the last that carries one decides
StatusAfter(taken, before) ==
    LET said == {i \in DOMAIN taken : taken[i] \in {"up", "down"}}
    IN IF said = {} THEN before ELSE taken[Max(said)] = "up"
\* The first k events, as tick() takes them.
Deliver(s, k) ==
    LET taken == SubSeq(s.events, 1, k)
        rest == [s EXCEPT !.events = SubSeq(@, k + 1, Len(@)),
                          !.connected = StatusAfter(taken, @)]
    IN IF Contains(taken, "down") THEN Age(CancelSends(rest), "lost", "told") ELSE rest

\* What is not delivered when the session is freed (tio_native_stop) is lost.
Discard(s) == [s EXCEPT !.missed = @ \/ (s.log /\ Contains(s.events, "rx")), !.events = <<>>]

OneTick(s) == LET rx == SelectInSeq(s.events, LAMBDA e : e = "rx")
              IN Deliver(s, IF rx = 0 THEN Len(s.events) ELSE rx)
\* Joined, the worker adds nothing more; the ticks go on until the queue is empty.
Drain(s) == Deliver(s, Len(s.events))

\* The session of the tab with everything that hangs on it
Stopped(s, capture) ==
    LET free == [CancelSends(s) EXCEPT !.modbus = FALSE, !.transfer = None, !.bridge = None]
        ended == IF s.serial = None THEN free ELSE Discard(Drain(free))
    IN [NewTab(s.page) EXCEPT !.missed = ended.missed, !.capture = capture]
StopSerial(s) == Stopped(s, s.capture)
\* stop_tab()
StopTab(s) == Stopped(s, IF s.capture = "recording" THEN "stopping" ELSE s.capture)
-----------------------------------------------------------------------------
(* The bridge, for a transfer or for Modbus *)

\* tio_native_bridge_tick(): what came for it is passed on while it lasts, what
\* its client sends only once everything before is written; or the client is gone.
BridgeTick(s) ==
    {[s |-> s, ok |-> TRUE]} \cup
    (IF s.bridge \in {"linked", "eof"} /\ Idle(s)
     THEN {[s |-> [s EXCEPT !.bridge = "eof"], ok |-> TRUE], [s |-> s, ok |-> FALSE]} \cup
          (IF s.bridge = "linked" THEN {[s |-> Sent(s, "bridge", "this"), ok |-> TRUE]} ELSE {})
     ELSE {})
Drained(s) == s.bridge = "eof" /\ Idle(s)

HeldUntilDrained(s) ==
    [s EXCEPT !.deadline = IF @ = "unset" THEN "set" ELSE @,
              !.bridge = IF Drained(s) THEN None ELSE @]
\* A transfer that ended leaves its bridge until its last bytes are written,
\* the device is gone or two seconds are over.
Released(s) ==
    IF Active(s) \/ s.bridge = None THEN s
    ELSE [s EXCEPT !.deadline = IF @ = "unset" THEN "set" ELSE @,
                   !.bridge = IF Drained(s) \/ ~s.connected \/ s.deadline = "passed"
                              THEN None ELSE @]

\* transfer_update(): the states it may leave
TransferUpdate(s) ==
    LET closed == [s EXCEPT !.modbus = FALSE, !.bridge = None]
        told == IF s.connected THEN s ELSE Cancel(s)
    IN CASE s.modbus /\ s.bridge # None ->
                IF ~s.connected THEN {closed}
                ELSE {IF b.ok THEN b.s ELSE closed : b \in BridgeTick(s)}
         [] ~(s.modbus /\ s.bridge # None) /\ s.transfer = None -> {[s EXCEPT !.bridge = None]}
         [] OTHER ->
                {Released(IF b.ok THEN b.s ELSE Cancel(b.s)) : b \in BridgeTick(told)}

\* incoming(): one client; Modbus comes again for each request
ClientLinks(t) ==
    /\ \/ tab[t].transfer = "active" /\ tab[t].bridge = "waiting"
       \/ tab[t].modbus /\ tab[t].bridge \in {"waiting", "eof"}
    /\ tab' = [tab EXCEPT ![t].bridge = "linked"]
    /\ UNCHANGED <<app, dialog>>
-----------------------------------------------------------------------------
(* The timer of a tab *)

\* tick() takes 256 KiB at most: all events, or up to one that carries bytes
Batch(s) == {Len(s.events)} \cup {k \in DOMAIN s.events : s.events[k] = "rx"}
EndedAnyway(s, taken) == \E e \in {"done", "down"} : Contains(taken, e)
Ended(s, taken) == \/ Contains(taken, "done")
                   \/ Contains(taken, "down") /\ ~s.keeps

\* A full bridge cancels its transfer, a log that cannot be written the session.
Tick(t) ==
    /\ tab[t].page # None
    /\ \E u \in TransferUpdate(tab[t]), full \in BOOLEAN, logFails \in BOOLEAN :
           \E k \in Batch(u) :
               LET taken == SubSeq(u.events, 1, k)
                   rx == Contains(taken, "rx")
                   fed == IF full /\ rx /\ u.bridge # None THEN Cancel(Deliver(u, k))
                          ELSE Deliver(u, k)
               IN tab' = [tab EXCEPT ![t] =
                      CASE u.serial = None -> u
                        [] u.serial # None /\ (Ended(u, taken) \/ (logFails /\ rx /\ u.log)) ->
                               StopTab(fed)
                        [] OTHER -> fed]
    /\ UNCHANGED <<app, dialog>>

DeadlinePasses(t) == /\ tab[t].deadline = "set"
                     /\ tab' = [tab EXCEPT ![t].deadline = "passed"]
                     /\ UNCHANGED <<app, dialog>>
-----------------------------------------------------------------------------
(* The worker of a session (NativeSerial), and programs *)

Moved(s, port, event) ==
    [(IF s.port = "open" /\ port # "open" THEN Age(s, "this", "lost") ELSE s)
         EXCEPT !.port = port, !.events = Append(@, event),
                !.out = IF port = "open" THEN @ ELSE {}]
Worker(t, ports, port, event) ==
    /\ tab[t].serial # None /\ tab[t].port \in ports
    /\ Len(tab[t].events) < MaxEvents
    /\ tab' = [tab EXCEPT ![t] = Moved(@, port, event)]
    /\ UNCHANGED <<app, dialog>>
Retries(t) == {"closed"} \cup (IF tab[t].keeps THEN {"lost"} ELSE {})

PortOpens(t) == Worker(t, Retries(t), "open", "up")
PortOpenFails(t) == Worker(t, Retries(t), "lost", "down")
PortFails(t) == Worker(t, {"open"}, "lost", "down")
GivesUp(t) == Worker(t, {"lost"}, "over", "done")
Receives(t) == Worker(t, {"open"}, "open", "rx")
Written(t) == /\ tab[t].out # {}
              /\ tab' = [tab EXCEPT ![t].out = {}]
              /\ UNCHANGED <<app, dialog>>

\* Its program exits or could not be started; one that was killed does exit.
TransferEnds(t) == /\ Active(tab[t])
                   /\ tab' = [tab EXCEPT ![t].transfer = "ended"]
                   /\ UNCHANGED <<app, dialog>>
KilledEnds(t) == tab[t].transfer = "cancelled" /\ TransferEnds(t)
\* The recorder wrote what was pending and closed its file.
CaptureFinishes(t) == /\ tab[t].capture = "stopping"
                      /\ tab' = [tab EXCEPT ![t].capture = "finished"]
                      /\ UNCHANGED <<app, dialog>>
-----------------------------------------------------------------------------
(* Sessions *)

\* What the modal windows, the closing tab and the closing window let the user reach.
User(t) == /\ app = "running" /\ dialog = NoDialog /\ tab[t].page = "open"
           /\ \A u \in Tab : ~tab[u].modbus
Tools(t) == User(t) /\ t \notin Plain
Become(t, s) == tab' = [tab EXCEPT ![t] = s] /\ UNCHANGED <<app, dialog>>

\* connect_clicked() of a tab without a session; refused, it changes nothing
Connect(t, path) ==
    /\ Tools(t) /\ tab[t].serial = None
    /\ \A other \in Tab \ {t} : tab[other].serial # path
    /\ \E keeps \in BOOLEAN, log \in Logging :
           Become(t, [tab[t] EXCEPT !.serial = path, !.keeps = keeps, !.log = log])
\* connect_clicked() of a tab with one, F6
Disconnect(t) == User(t) /\ tab[t].serial # None /\ Become(t, StopTab(tab[t]))

\* send_bytes(): typed, pasted or answered by the terminal
SendBytes(t) == /\ tab[t].page # None /\ tab[t].bridge = None /\ Quiet(tab[t])
                /\ tab[t].port = "open"
                /\ Become(t, Sent(tab[t], "user", "this"))

QuickClicked(t) ==
    /\ Tools(t) /\ tab[t].connected /\ tab[t].bridge = None /\ Quiet(tab[t])
    /\ \/ Become(t, [tab[t] EXCEPT !.quick = "this"])
       \/ Become(t, Sent(tab[t], "quick", "this"))
\* quick_due()
QuickDue(t) == /\ tab[t].quick # None
               /\ Become(t, [Sent(tab[t], "quick", tab[t].quick) EXCEPT !.quick = None])

\* sequence_action("run") and "stop"
RunSequence(t) == /\ Tools(t) /\ Quiet(tab[t]) /\ tab[t].connected /\ tab[t].bridge = None
                  /\ Become(t, [tab[t] EXCEPT !.runner = "this"])
StopSequence(t) == /\ Tools(t) /\ Running(tab[t])
                   /\ Become(t, [tab[t] EXCEPT !.runner = None])
\* tick() of the runner: it fails, ends, or sends through sequence_send()
RunnerEnds(t) == /\ Running(tab[t])
                 /\ ~tab[t].connected \/ tab[t].bridge # None \/ Idle(tab[t])
                 /\ Become(t, [tab[t] EXCEPT !.runner = None])
RunnerSends(t) == /\ Running(tab[t]) /\ tab[t].connected /\ tab[t].bridge = None
                  /\ Idle(tab[t])
                  /\ Become(t, Sent(tab[t], "runner", tab[t].runner))

MayBridgeUnflushed(s) == s.connected /\ s.port = "open" /\ Quiet(s)
\* What has the port alone begins when all that was sent before is written.
MayBridge(s) == s.connected /\ Idle(s) /\ Quiet(s)
Bridged(s) == [s EXCEPT !.bridge = "waiting", !.deadline = "unset"]

\* modbus_rtu()
OpenModbus(t) == /\ Tools(t) /\ MayBridge(tab[t]) /\ tab[t].bridge = None
                 /\ Become(t, [Bridged(tab[t]) EXCEPT !.modbus = TRUE, !.deadline = tab[t].deadline])
CloseModbus(t) == /\ tab[t].modbus /\ dialog = NoDialog
                  /\ Become(t, [tab[t] EXCEPT !.modbus = FALSE])

\* start_transfer(), of the file that was chosen: it may not start
StartTransfer(t) ==
    /\ MayBridge(tab[t]) /\ ~Active(tab[t])
    /\ tab' = [tab EXCEPT ![t] = [Bridged(@) EXCEPT !.transfer = "active"]]
FailTransfer(t) ==
    /\ MayBridge(tab[t]) /\ ~Active(tab[t])
    /\ tab' = [tab EXCEPT ![t] = [@ EXCEPT !.transfer = None, !.bridge = None, !.deadline = "unset"]]
\* transfer_cancel(), or its timeout
CancelTransfer(t) == tab[t].transfer = "active" /\ Become(t, Cancel(tab[t]))
-----------------------------------------------------------------------------
(* Dialogs, closing and quitting *)

Ask(kind, t) == dialog' = [kind |-> kind, of |-> t] /\ UNCHANGED <<tab, app>>
Answered(kind, t) == dialog = [kind |-> kind, of |-> t] /\ dialog' = NoDialog
DialogGivenUp == /\ dialog # NoDialog
                 /\ dialog' = NoDialog /\ UNCHANGED <<tab, app>>

\* on_capture_clicked(): a recording is stopped, or a file is asked for
StopCapture(t) == /\ Tools(t) /\ Recording(tab[t])
                  /\ Become(t, [tab[t] EXCEPT !.capture = "stopping"])
ChooseCapture(t) == Tools(t) /\ ~Recording(tab[t]) /\ tab[t].connected /\ Ask("capture", t)
\* capture_selected() and start_capture()
CaptureSelected(t) == /\ Answered("capture", t)
                      /\ tab[t].connected /\ ~Recording(tab[t])
                      /\ tab' = [tab EXCEPT ![t].capture = "recording"]
                      /\ UNCHANGED app
ChooseTransfer(t) == Tools(t) /\ Ask("transfer", t)
TransferSelected(t) == /\ Answered("transfer", t)
                       /\ StartTransfer(t) \/ FailTransfer(t)
                       /\ UNCHANGED app

\* tab_free() of the tabs of S; a window that stays keeps one tab at least
AfterFree(S, left) ==
    [t \in Tab |-> IF t \notin S THEN left[t]
                   ELSE NewTab(IF \A u \in Tab \ S : left[u].page = None
                               THEN (IF t = CHOOSE x \in S : TRUE THEN "open" ELSE None)
                               ELSE None)]
FreeAtOnce(t) == tab' = AfterFree({t}, [tab EXCEPT ![t] = StopTab(@)])
\* remove_tab(): the tab stays, insensitive, until its recording is finished
RemoveTab(t) ==
    IF Recording(StopTab(tab[t]))
    THEN tab' = [tab EXCEPT ![t] = [StopTab(@) EXCEPT !.page = "closing"]]
    ELSE tab' = AfterFree({t}, [tab EXCEPT ![t] = StopTab(@)])

\* close_tab_clicked()
CloseTab(t) == User(t) /\ IF tab[t].serial = None THEN RemoveTab(t) /\ UNCHANGED <<app, dialog>>
                                                  ELSE Ask("close", t)
CloseTabDone(t) == /\ Answered("close", t) /\ tab[t].page = "open"
                   /\ RemoveTab(t) /\ UNCHANGED app
\* close_after_recording()
CloseAfterRecording(t) == /\ tab[t].page = "closing" /\ ~Recording(tab[t])
                          /\ tab' = AfterFree({t}, tab) /\ UNCHANGED <<app, dialog>>

AddTab(t) == /\ app = "running" /\ dialog = NoDialog /\ \A u \in Tab : ~tab[u].modbus
             /\ tab[t].page = None /\ Become(t, NewTab("open"))

\* quit() and finish_quit(): nothing happens when the settings cannot be saved
Quit ==
    LET stopped == [t \in Tab |-> StopTab(tab[t])]
    IN IF \E t \in Tab : Recording(stopped[t])
       THEN app' = "closing" /\ tab' = stopped
       ELSE app' = "gone" /\ tab' = [t \in Tab |-> NewTab(None)]
FinishQuit == /\ app = "closing" /\ \A t \in Tab : ~Recording(tab[t])
              /\ app' = "gone" /\ tab' = [t \in Tab |-> NewTab(None)]
              /\ UNCHANGED dialog
\* close_requested()
CloseRequested ==
    /\ app = "running" /\ dialog = NoDialog /\ \A t \in Tab : ~tab[t].modbus
    /\ IF \E t \in Tab : tab[t].serial # None
       THEN dialog' = [kind |-> "quit"] /\ UNCHANGED <<tab, app>>
       ELSE Quit /\ UNCHANGED dialog
QuitDone == dialog = [kind |-> "quit"] /\ dialog' = NoDialog /\ Quit

\* settings_file() and import_settings(): the tabs are those of the file
ChooseImport == /\ \E t \in Tab : User(t)
                /\ dialog' = [kind |-> "import"] /\ UNCHANGED <<tab, app>>
ImportSettings ==
    /\ dialog = [kind |-> "import"] /\ dialog' = NoDialog
    /\ app = "running"
    /\ \A t \in Tab : tab[t].serial = None /\ ~Recording(tab[t])
    /\ \E S \in SUBSET Tab \ {{}} : tab' = [t \in Tab |-> NewTab(IF t \in S THEN "open" ELSE None)]
    /\ UNCHANGED app
-----------------------------------------------------------------------------
Next == \/ \E t \in Tab : \/ Tick(t) \/ DeadlinePasses(t) \/ ClientLinks(t)
                          \/ PortOpens(t) \/ PortOpenFails(t) \/ PortFails(t) \/ GivesUp(t)
                          \/ Receives(t) \/ Written(t) \/ TransferEnds(t) \/ CaptureFinishes(t)
                          \/ \E path \in Path : Connect(t, path)
                          \/ Disconnect(t) \/ SendBytes(t) \/ QuickClicked(t) \/ QuickDue(t)
                          \/ RunSequence(t) \/ StopSequence(t) \/ RunnerEnds(t) \/ RunnerSends(t)
                          \/ OpenModbus(t) \/ CloseModbus(t) \/ CancelTransfer(t)
                          \/ StopCapture(t) \/ ChooseCapture(t) \/ CaptureSelected(t)
                          \/ ChooseTransfer(t) \/ TransferSelected(t)
                          \/ CloseTab(t) \/ CloseTabDone(t) \/ CloseAfterRecording(t) \/ AddTab(t)
        \/ DialogGivenUp \/ FinishQuit \/ CloseRequested \/ QuitDone
        \/ ChooseImport \/ ImportSettings

Spec == Init /\ [][Next]_vars

\* Timers run; a killed program exits; a recorder's writes end.
Fairness == /\ \A t \in Tab : /\ WF_vars(Tick(t)) /\ WF_vars(DeadlinePasses(t))
                              /\ WF_vars(KilledEnds(t)) /\ WF_vars(CaptureFinishes(t))
                              /\ WF_vars(CloseAfterRecording(t))
            /\ WF_vars(FinishQuit)
FairSpec == Spec /\ Fairness
-----------------------------------------------------------------------------
TypeOK ==
    /\ tab \in [Tab -> [page : {None, "open", "closing"},
                        capture : {None, "recording", "stopping", "finished"},
                        serial : Path \cup {None}, keeps : BOOLEAN,
                        port : {"closed", "open", "lost", "over"},
                        events : Seq({"up", "down", "rx", "done"}),
                        out : SUBSET [by : {"user", "quick", "runner", "bridge"}, since : Mark],
                        connected : BOOLEAN, log : BOOLEAN, missed : BOOLEAN,
                        quick : Mark \cup {None}, runner : Mark \cup {None},
                        transfer : {None, "active", "cancelled", "ended"},
                        bridge : {None, "waiting", "linked", "eof"},
                        deadline : {"unset", "set", "passed"}, modbus : BOOLEAN]]
    /\ app \in {"running", "closing", "gone"}

\* A transfer or the Modbus window has the serial port to itself: nothing that was
\* sent before it is still to be written, and no timer of a quick button or a
\* sequence goes off beside it. quick_due() does not look (serial_tools.h:21).
BridgeAlone ==
    /\ TypeOK
    /\ \A t \in Tab : tab[t].bridge # None => /\ Quiet(tab[t])
                                              /\ \A s \in tab[t].out : s.by = "bridge"

\* A quick command or a sequence that waits does not outlive a disconnect of which
\* the tab was told: what such a one sends was asked for since.
NeverAfterLoss == \A t \in Tab : \A s \in tab[t].out : s.by # "bridge" => s.since # "told"

\* However a session ends (the user, an error of the device, a full queue, the
\* tab, an import, the window), what was received reaches the log before it closes.
ReceivedIsLogged == \A t \in Tab : ~tab[t].missed

\* A tab is not freed while its recording has writes to do (serial-portable.md:41).
RecordingOutlived == [][\A t \in Tab : Recording(tab[t]) => tab'[t].capture # None]_vars

\* Waiting for a recording, a tab closes and the window too in the end; and the port
\* comes back from a transfer that was cancelled or lost its device, and from the
\* Modbus window, so that what the user types is sent again.
CloseEnds ==
    /\ \A t \in Tab : tab[t].page = "closing" ~> tab[t].page # "closing"
    /\ app = "closing" ~> app = "gone"
    /\ \A t \in Tab : tab[t].bridge # None ~>
           \/ tab[t].bridge = None \/ tab[t].transfer = "active" \/ tab[t].modbus

\* Without its tools, and while no recording holds a tab open, the portable program
\* does what the Windows program does (WindowsTabs), but for the import of settings:
\* each step is a step of it or changes nothing it has.
WithoutTools(s) == [page |-> s.page, serial |-> s.serial, keeps |-> s.keeps, port |-> s.port,
                    events |-> s.events, connected |-> s.connected, log |-> s.log,
                    missed |-> s.missed]
Windows == INSTANCE WindowsTabs WITH
    app <- IF app = "running" THEN app ELSE "gone",
    dialog <- IF dialog.kind \in {"close", "quit"} THEN dialog ELSE NoDialog,
    tab <- [t \in Tab |-> WithoutTools(IF app = "running" THEN tab[t] ELSE NewTab(None))]
LikeWindows ==
    /\ Windows!Init
    /\ [][\/ \E t \in Tab : "closing" \in {tab[t].page, tab'[t].page}
          \/ ImportSettings \/ Windows!Next]_(Windows!vars)

\* "Disconnect cancels pending work; it is never replayed on reconnect"
\* (serial-portable.md:32), whether the tab was told of the disconnect or not.
NeverReplayed == \A t \in Tab : \A s \in tab[t].out : s.by # "bridge" => s.since = "this"
=============================================================================
