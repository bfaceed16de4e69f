------------------------------- MODULE SessionTabs -------------------------------
(***************************************************************************)
(* The window of the Linux application (src/main.c): its tabs, the tio     *)
(* process and the recorder of each, and how a tab and the window close.   *)
(*                                                                         *)
(* All of it runs on one thread; what interleaves are the user, callbacks  *)
(* (a spawn ends, a process is reaped, a dialog is answered), timers, idle *)
(* functions and second launches of the program. A dialog is modal and     *)
(* answers in a later step; what is confirmed runs in an idle function     *)
(* after that. A recorder is what Capture promises of one: stopped, it     *)
(* finishes. VTE is external: a spawn ends with a process or an error, a   *)
(* terminal that is destroyed or given another process hangs the old one   *)
(* up. An action of the user on a tab stands for switching to it as well.  *)
(***************************************************************************)
EXTENDS Integers, FiniteSets

CONSTANTS Device,
          MaxTabs,     \* bound: tabs ever made
          MaxSpawns,   \* bound: spawns under way in a tab when it connects
          MaxConnects  \* bound: connections ever begun

ASSUME BoundAssumption == /\ Device # {}
                          /\ MaxTabs \in Nat \ {0}
                          /\ {MaxSpawns, MaxConnects} \subseteq Nat

VARIABLES
    \* TioApp
    tabs, made,  \* the open tabs, how many there ever were
    dialog, confirmed, saved, draining, window,
    idle,        \* idle functions that are due
    \* TioTab
    dropdown,    \* the device its widget shows
    config,      \* config.device
    pid, pending, log, recorder, closing, deferred,
    \* VTE and the system; doubled (history): tabs in which a spawn began while another
    \* was under way
    spawning, procs, connects, doubled

settings == <<dropdown, config>>
session == <<pid, pending, log>>
system == <<spawning, procs, connects, doubled>>
ending == <<closing, deferred>>
screen == <<dialog, confirmed, saved, draining, window>>
vars == <<tabs, made, idle, settings, session, recorder, system, ending, screen>>

Id == 1..MaxTabs
NoDialog == [kind |-> "none", tab |-> 0]
Dialog == {NoDialog, [kind |-> "window", tab |-> 0]}
          \cup [kind : {"tab", "recording"}, tab : Id]
TheWindow == 0 \* the idle function that closes the window

Init == /\ made \in Id /\ tabs = 1..made
        /\ dropdown \in [Id -> Device] /\ config = dropdown
        /\ pid = [t \in Id |-> 0] /\ log = [t \in Id |-> 0]
        /\ pending = [t \in Id |-> FALSE]
        /\ recorder = [t \in Id |-> "finished"]
        /\ closing = [t \in Id |-> FALSE] /\ deferred = [t \in Id |-> FALSE]
        /\ spawning = {} /\ procs = {} /\ connects = 0 /\ doubled = {}
        /\ dialog = NoDialog /\ window = "open" /\ idle = {}
        /\ confirmed = FALSE /\ saved = FALSE /\ draining = FALSE

\* The window takes input: no dialog is in front and it is not made insensitive.
User == window = "open" /\ ~draining /\ dialog = NoDialog
\* So does the content of the tab; shortcuts reach a tab that is closing as well.
UserIn(t) == User /\ t \in tabs /\ ~closing[t]

Live(t) == pid[t] # 0 \/ pending[t] \/ recorder[t] # "finished"

\* kill(pid, SIGHUP), for each of some processes.
HangUp(ids) == {IF p.id \in ids /\ p.state = "runs" THEN [p EXCEPT !.state = "hung up"] ELSE p :
                p \in procs}
\* A terminal that goes hangs up every process it ran.
OfTabs(T) == {p.id : p \in {q \in procs : q.tab \in T}}

\* raw_tap_stop(), of what is modelled here: it stops the recorder, which still has
\* to write, unless it cannot.
StopTap(T) ==
    \E stopped \in [T -> {"stopping", "finished"}] :
        recorder' = [t \in Id |-> IF t \in T /\ recorder[t] = "records"
                                 THEN stopped[t] ELSE recorder[t]]
-----------------------------------------------------------------------------
(* Settings *)

SelectDevice(t, d) ==
    /\ UserIn(t)
    /\ dropdown' = [dropdown EXCEPT ![t] = d]
    /\ UNCHANGED <<tabs, made, idle, config, session, recorder, system, ending, screen>>

\* Saving the quick buttons or exporting the settings takes the widgets into the
\* configuration of the session, connected or not.
CaptureSettings(t) ==
    /\ UserIn(t)
    /\ config' = [config EXCEPT ![t] = dropdown[t]]
    /\ UNCHANGED <<tabs, made, idle, dropdown, session, recorder, system, ending, screen>>

LoadProfile(t, d) ==
    /\ UserIn(t)
    /\ config' = [config EXCEPT ![t] = d]
    /\ dropdown' = [dropdown EXCEPT ![t] = d]
    /\ UNCHANGED <<tabs, made, idle, session, recorder, system, ending, screen>>
-----------------------------------------------------------------------------
(* Connections *)

\* tab_holding_device()
Holding(d, t) == {o \in tabs \ {t} : pid[o] # 0 /\ config[o] = d}

\* (Beside a definition, a wrong form of it that the properties of this module are
\* expected to reject; nothing else uses these.)
FreeOfRunning(t) == CHOOSE n \in Id : \A o \in tabs \ {t} : pid[o] # 0 => log[o] # n
\* The log path of a template, with a suffix that no other tab's path has.
FreePath(t) == CHOOSE n \in Id : \A o \in tabs \ {t} : log[o] # n

\* connect_tio(), once nothing refused the connection.
Spawn(t, d) ==
    /\ connects < MaxConnects
    /\ connects' = connects + 1
    /\ spawning' = spawning \cup {[id |-> connects', tab |-> t, device |-> d]}
    /\ doubled' = IF \E r \in spawning : r.tab = t THEN doubled \cup {t} ELSE doubled
    /\ pending' = [pending EXCEPT ![t] = TRUE]
    /\ \E path \in {0, FreePath(t)} : log' = [log EXCEPT ![t] = path]
    /\ StopTap({t})
    /\ UNCHANGED <<pid, procs>>

\* connect_tio() from the button or the shortcut; the shortcut works while a
\* spawn is under way. Bad options or a missing log directory end it early.
Connect(t) ==
    /\ User /\ t \in tabs /\ pid[t] = 0
    /\ Cardinality({r \in spawning : r.tab = t}) < MaxSpawns
    /\ Holding(dropdown[t], t) = {}
    /\ config' = [config EXCEPT ![t] = dropdown[t]]
    /\ \/ Spawn(t, dropdown[t])
       \/ UNCHANGED <<session, recorder, system>>
       \/ log' = [log EXCEPT ![t] = 0] /\ UNCHANGED <<pid, pending, recorder, system>>
    /\ UNCHANGED <<tabs, made, idle, dropdown, ending, screen>>

Disconnect(t) ==
    /\ User /\ t \in tabs /\ pid[t] # 0
    /\ procs' = HangUp({pid[t]})
    /\ StopTap({t})
    /\ UNCHANGED <<tabs, made, idle, settings, session, spawning, connects, doubled, ending,
                   screen>>

\* on_spawn_finished(), of a spawn that failed and of one that did not.
SpawnFailed(r) ==
    /\ r.tab \in tabs
    /\ spawning' = spawning \ {r}
    /\ pending' = [pending EXCEPT ![r.tab] = FALSE]
    /\ pid' = [pid EXCEPT ![r.tab] = 0]
    /\ log' = [log EXCEPT ![r.tab] = 0]
    /\ StopTap({r.tab})
    /\ UNCHANGED <<tabs, made, idle, settings, procs, connects, doubled, ending, screen>>
SpawnSucceeded(r) ==
    /\ r.tab \in tabs
    /\ spawning' = spawning \ {r}
    /\ pending' = [pending EXCEPT ![r.tab] = FALSE]
    /\ pid' = [pid EXCEPT ![r.tab] = r.id]
    /\ procs' = HangUp(OfTabs({r.tab}))
                \cup {[id |-> r.id, tab |-> r.tab, device |-> r.device,
                       state |-> IF closing[r.tab] THEN "hung up" ELSE "runs"]}
    /\ UNCHANGED <<tabs, made, idle, settings, log, recorder, connects, doubled, ending, screen>>
SpawnFinished == \E r \in spawning : SpawnFailed(r) \/ SpawnSucceeded(r)

\* tio ends, by itself or because it was hung up.
Exit(p) ==
    /\ p.state # "exited"
    /\ procs' = (procs \ {p}) \cup {[p EXCEPT !.state = "exited"]}
    /\ UNCHANGED <<tabs, made, idle, settings, session, recorder, spawning, connects, doubled,
                   ending, screen>>
HungUpExits == \E p \in procs : p.state = "hung up" /\ Exit(p)

ReapedKeepsTap(p) ==
    /\ p.state = "exited"
    /\ procs' = procs \ {p}
    /\ pid' = [t \in Id |-> IF t \in tabs /\ pid[t] = p.id THEN 0 ELSE pid[t]]
    /\ UNCHANGED <<tabs, made, idle, settings, pending, log, recorder, spawning,
                   connects, doubled, ending, screen>>
\* on_child_exited(), when the process is the one of its tab.
Reaped(p) ==
    /\ p.state = "exited"
    /\ procs' = procs \ {p}
    /\ pid' = [t \in Id |-> IF t \in tabs /\ pid[t] = p.id THEN 0 ELSE pid[t]]
    /\ StopTap({t \in tabs : pid[t] = p.id})
    /\ UNCHANGED <<tabs, made, idle, settings, pending, log, spawning, connects, doubled,
                   ending, screen>>
ChildExited == \E p \in procs : Reaped(p)
-----------------------------------------------------------------------------
(* Recordings *)

ChooseRecording(t) ==
    /\ UserIn(t) /\ pid[t] # 0 /\ recorder[t] = "finished"
    /\ dialog' = [kind |-> "recording", tab |-> t]
    /\ UNCHANGED <<tabs, made, idle, settings, session, recorder, system, ending,
                   confirmed, saved, draining, window>>

\* capture_file_finished(): the tab is looked up again, and may have none.
RecordingChosen ==
    /\ window = "open" /\ dialog.kind = "recording"
    /\ dialog' = NoDialog
    /\ \/ /\ dialog.tab \in tabs /\ pid[dialog.tab] # 0 /\ recorder[dialog.tab] = "finished"
          /\ recorder' = [recorder EXCEPT ![dialog.tab] = "records"]
       \/ UNCHANGED recorder
    /\ UNCHANGED <<tabs, made, idle, settings, session, system, ending, confirmed, saved,
                   draining, window>>

\* The user stops it, or it fails; with nothing to write it is finished at once.
RecorderStops(t) ==
    /\ recorder[t] = "records"
    /\ StopTap({t})
    /\ UNCHANGED <<tabs, made, idle, settings, session, system, ending, screen>>

\* The last write ended and the file is closed.
RecorderFinishes(t) ==
    /\ recorder[t] = "stopping"
    /\ recorder' = [recorder EXCEPT ![t] = "finished"]
    /\ UNCHANGED <<tabs, made, idle, settings, session, system, ending, screen>>
-----------------------------------------------------------------------------
(* The window closes *)

\* The tabs T are freed, and so is everything of theirs.
Free(T) == /\ tabs' = tabs \ T
           /\ procs' = HangUp(OfTabs(T))
           /\ pid' = [t \in Id |-> IF t \in T THEN 0 ELSE pid[t]]
           /\ log' = [t \in Id |-> IF t \in T THEN 0 ELSE log[t]]
           /\ deferred' = [t \in Id |-> deferred[t] /\ t \notin T]

\* save_workspace() takes the settings of the active tab first.
TakeActive == IF tabs = {} THEN UNCHANGED config
              ELSE \E t \in tabs : config' = [config EXCEPT ![t] = dropdown[t]]

AskToClose == /\ dialog' = IF dialog.kind = "none" THEN [kind |-> "window", tab |-> 0]
                                                   ELSE dialog
              /\ UNCHANGED <<tabs, config, session, procs, recorder, ending, confirmed, saved,
                             window>>
SaveFails == /\ ~saved
             /\ TakeActive
             /\ confirmed' = FALSE
             /\ UNCHANGED <<tabs, session, procs, recorder, ending, dialog, saved, window>>
StopAll == /\ IF saved THEN UNCHANGED config ELSE TakeActive
           /\ saved' = TRUE
           /\ closing' = [t \in Id |-> closing[t] \/ t \in tabs]
           /\ StopTap(tabs)
           /\ UNCHANGED <<pending, confirmed>>

StillRecording(t) == recorder'[t] # "finished"
\* What a tab has to wait for before it may be freed.
Unfinished(t) == pending[t] \/ recorder'[t] # "finished"

\* The window is destroyed, its dialogs before it (destroy_transient_windows).
WindowGoes == window' = "gone" /\ draining' = FALSE /\ dialog' = NoDialog

\* on_window_close_request(); `still` is whether the window is still waiting for
\* recordings should it stay open.
CloseRequest(still) ==
    /\ IF ~confirmed /\ \E t \in tabs : Live(t)
       THEN AskToClose /\ draining' = still
       ELSE \/ SaveFails /\ draining' = still
            \/ /\ StopAll
               /\ IF \E t \in tabs : Unfinished(t)
                  THEN /\ draining' = TRUE
                       /\ procs' = HangUp({pid[t] : t \in tabs})
                       /\ UNCHANGED <<tabs, pid, log, deferred, dialog, window>>
                  ELSE Free(tabs) /\ WindowGoes
    /\ UNCHANGED <<made, dropdown, spawning, connects, doubled>>

CloseWindow == User /\ CloseRequest(FALSE) /\ UNCHANGED idle

\* on_confirm_window_close(): the window closes in an idle function.
CloseWindowAnswered ==
    /\ window = "open" /\ dialog.kind = "window"
    /\ dialog' = NoDialog
    /\ \/ confirmed' = TRUE /\ idle' = idle \cup {TheWindow}
       \/ UNCHANGED <<confirmed, idle>>
    /\ UNCHANGED <<tabs, made, settings, session, recorder, system, ending, saved, draining,
                   window>>
IdleCloseWindow ==
    /\ TheWindow \in idle /\ idle' = idle \ {TheWindow}
    /\ IF window = "open" THEN CloseRequest(draining)
       ELSE UNCHANGED <<tabs, made, settings, session, recorder, system, ending, screen>>

\* close_after_capture()
DrainTick == /\ window = "open" /\ draining
             /\ \A t \in tabs : ~pending[t] /\ recorder[t] = "finished"
             /\ CloseRequest(FALSE)
             /\ UNCHANGED idle
-----------------------------------------------------------------------------
(* Tabs open and close *)

AddTab(d) == /\ made < MaxTabs
             /\ made' = made + 1
             /\ tabs' = tabs \cup {made'}
             /\ dropdown' = [dropdown EXCEPT ![made'] = d]
             /\ config' = [config EXCEPT ![made'] = d]

NewTab == /\ User
          /\ \E d \in Device : AddTab(d)
          /\ UNCHANGED <<idle, session, recorder, system, ending, screen>>

\* The command line of a second launch may connect the tab it made.
CommandLine(t, d) == \/ Holding(d, t) = {} /\ Spawn(t, d)
                     \/ UNCHANGED <<session, recorder, system>>
\* A second launch adds a tab, whatever the window is doing.
Launch(d) == /\ window = "open"
             /\ AddTab(d)
             /\ CommandLine(made', d)
             /\ UNCHANGED <<idle, ending, screen>>

\* tio_app_finish_close_tab(): a tab that something is under way for is freed
\* later; the last one takes the window with it, unless its save fails.
FinishClose(t) ==
    /\ closing' = [closing EXCEPT ![t] = TRUE]
    /\ StopTap({t})
    /\ IF Unfinished(t)
       THEN /\ deferred' = [deferred EXCEPT ![t] = TRUE]
            /\ UNCHANGED <<tabs, pid, log, procs, screen>>
       ELSE /\ Free({t})
            /\ IF tabs # {t} THEN UNCHANGED screen
               ELSE \/ /\ ~saved /\ confirmed' = FALSE
                       /\ UNCHANGED <<dialog, saved, draining, window>>
                    \/ saved' = TRUE /\ WindowGoes /\ UNCHANGED confirmed
    /\ UNCHANGED <<made, settings, pending, spawning, connects, doubled>>

\* tio_app_close_tab()
CloseTab(t) ==
    /\ User /\ t \in tabs
    /\ IF Live(t) \/ log[t] # 0
       THEN /\ dialog' = [kind |-> "tab", tab |-> t]
            /\ UNCHANGED <<tabs, made, settings, session, recorder, system, ending,
                           confirmed, saved, draining, window>>
       ELSE FinishClose(t)
    /\ UNCHANGED idle

\* on_close_tab_response(): what has a process by now is hung up.
CloseTabAnswered ==
    /\ window = "open" /\ dialog.kind = "tab"
    /\ dialog' = NoDialog
    /\ \/ /\ dialog.tab \in tabs /\ ~closing[dialog.tab]
          /\ procs' = HangUp({pid[dialog.tab]})
          /\ idle' = idle \cup {dialog.tab}
       \/ UNCHANGED <<procs, idle>>
    /\ UNCHANGED <<tabs, made, settings, session, recorder, spawning, connects, doubled, ending,
                   confirmed, saved, draining, window>>
\* close_tab_after_dialog(): the tab is looked up again.
IdleCloseTab(t) ==
    /\ t \in idle /\ idle' = idle \ {t}
    /\ IF t \in tabs /\ ~closing[t] THEN FinishClose(t)
       ELSE UNCHANGED <<tabs, made, settings, session, recorder, system, ending, screen>>

\* close_tab_after_io()
DeferredTick(t) == /\ deferred[t] /\ ~pending[t] /\ recorder[t] = "finished"
                   /\ FinishClose(t)
                   /\ UNCHANGED idle
-----------------------------------------------------------------------------
Next == \/ \E t \in Id : \/ \E d \in Device : SelectDevice(t, d) \/ LoadProfile(t, d)
                         \/ CaptureSettings(t)
                         \/ Connect(t) \/ Disconnect(t)
                         \/ ChooseRecording(t) \/ RecorderStops(t) \/ RecorderFinishes(t)
                         \/ CloseTab(t) \/ IdleCloseTab(t) \/ DeferredTick(t)
        \/ SpawnFinished
        \/ \E p \in procs : Exit(p)
        \/ ChildExited
        \/ RecordingChosen
        \/ NewTab
        \/ \E d \in Device : Launch(d)
        \/ CloseWindow \/ CloseWindowAnswered \/ IdleCloseWindow \/ DrainTick
        \/ CloseTabAnswered

Spec == Init /\ [][Next]_vars

\* The main loop runs what is due, VTE ends a spawn, a recorder that is stopped
\* finishes, and tio exits when it is hung up. Nobody need answer a dialog.
Fairness == /\ WF_vars(SpawnFinished) /\ WF_vars(HungUpExits) /\ WF_vars(ChildExited)
            /\ WF_vars(IdleCloseWindow) /\ WF_vars(DrainTick)
            /\ \A t \in Id : /\ WF_vars(RecorderFinishes(t))
                             /\ WF_vars(IdleCloseTab(t))
                             /\ WF_vars(DeferredTick(t))
FairSpec == Spec /\ Fairness
-----------------------------------------------------------------------------
Request == [id : 1..MaxConnects, tab : Id, device : Device]
Process == [id : 1..MaxConnects, tab : Id, device : Device,
            state : {"runs", "hung up", "exited"}]

\* The types; no dialog outlives the window, and a process has one spawn.
TypeOK == /\ made \in 0..MaxTabs /\ tabs \subseteq 1..made
          /\ dropdown \in [Id -> Device] /\ config \in [Id -> Device]
          /\ pid \in [Id -> 0..MaxConnects] /\ log \in [Id -> 0..MaxTabs]
          /\ pending \in [Id -> BOOLEAN]
          /\ recorder \in [Id -> {"finished", "records", "stopping"}]
          /\ closing \in [Id -> BOOLEAN] /\ deferred \in [Id -> BOOLEAN]
          /\ spawning \subseteq Request /\ procs \subseteq Process
          /\ connects \in 0..MaxConnects /\ doubled \subseteq Id
          /\ dialog \in Dialog /\ window \in {"open", "gone"}
          /\ idle \subseteq Id \cup {TheWindow}
          /\ {confirmed, saved, draining} \subseteq BOOLEAN
          /\ window = "gone" => dialog = NoDialog
          /\ \A r \in spawning, p \in procs : r.id # p.id

\* What is under way keeps its tab: the callback of a spawn (on_spawn_finished)
\* finds the tab it was given, unless two spawns were under way in it (whose first
\* callback ends the waiting for both), and a tab is freed, with the window too, only
\* after its recording was written to the end. Two ways of closing, a deferred close
\* and a spawn or a file dialog that ends in between must all respect it.
FreedWhenDone == /\ \A r \in spawning : r.tab \in tabs \cup doubled
                 /\ \A t \in Id \ tabs : recorder[t] = "finished" /\ pid[t] = 0

\* docs/acceptance.md: "Window close asks before stopping live sessions, then drains
\* recording/spawn work". Of two spawns in one tab (action_connect does not look at
\* spawn_pending) only the first is waited for. A window that goes with several tabs
\* was closed itself (on_window_close_request), not with its last tab.
WindowDrainsSpawns ==
    [][Cardinality(tabs) > 1 /\ window' = "gone" => spawning' = {}]_vars

\* A recording belongs to a session: whichever way the process of a tab ends or is
\* lost, and whenever the file of the recording was chosen, nothing is recorded
\* for a tab without a process (raw_tap_stop on every such path).
RecordingHasSession == \A t \in Id : recorder[t] = "records" => pid[t] # 0

\* Sessions that are open never share a log file, those that are still being
\* spawned and those that ended included (log_path_in_use).
LogsDistinct == \A t, o \in tabs : t # o /\ log[t] # 0 => log[t] # log[o]

\* A tab that is closing, by itself or with its window, does go: no spawn, no
\* recording begun late and no tab of a second launch keeps it for ever.
CloseCompletes == \A t \in Id : closing[t] ~> t \notin tabs

\* README.md: "Connecting to a port another session already holds is refused".
\* What connect_tio looks at is the configured device of the other session, which
\* may no longer be the one its tio has open.
HeldPortRefused ==
    [][\A r \in spawning' \ spawning : \A p \in procs :
           p.tab \in tabs \ {r.tab} /\ pid[p.tab] = p.id /\ p.state = "runs"
               => p.device # r.device]_vars
=============================================================================
