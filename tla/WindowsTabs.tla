------------------------------ MODULE WindowsTabs ------------------------------
(***************************************************************************)
(* The tabs of the native program for Windows, serial_windows_main.c: a    *)
(* session is started, polled by the timer of its tab, and stopped by the  *)
(* user, its own end, a log that cannot be written, the tab or the window. *)
(*                                                                         *)
(* It is what the portable program (PortableTabs) does without its tools,  *)
(* and PortableTabs implements it. What a tab sends goes to the worker and *)
(* changes nothing here.                                                   *)
(***************************************************************************)
EXTENDS Naturals, Sequences, SequencesExt

CONSTANTS Tab, Path,  \* as in PortableTabs
          MaxEvents   \* bound: events queued when the worker adds one

VARIABLES tab, app, dialog

vars == <<tab, app, dialog>>

None == "none"
NoDialog == [kind |-> None]
\* serial, keeps: the port of the session, whether it reconnects; port, events: of
\* its worker; missed: received bytes left the queue and are not in the log.
NewTab(page) == [page |-> page, serial |-> None, keeps |-> FALSE, port |-> "closed",
                 events |-> <<>>, connected |-> FALSE, log |-> FALSE, missed |-> FALSE]

Init == /\ \E S \in SUBSET Tab \ {{}} :
               tab = [t \in Tab |-> NewTab(IF t \in S THEN "open" ELSE None)]
        /\ app = "running" /\ dialog = NoDialog

User(t) == app = "running" /\ dialog = NoDialog /\ tab[t].page = "open"
Become(t, s) == tab' = [tab EXCEPT ![t] = s] /\ UNCHANGED <<app, dialog>>
-----------------------------------------------------------------------------
\* STATUS after these events, of which the last that carries one decides
StatusAfter(taken, before) ==
    LET said == {i \in DOMAIN taken : taken[i] \in {"up", "down"}}
    IN IF said = {} THEN before ELSE taken[Max(said)] = "up"
\* The first k events, as tick() takes them.
Deliver(s, k) == [s EXCEPT !.events = SubSeq(@, k + 1, Len(@)),
                           !.connected = StatusAfter(SubSeq(s.events, 1, k), @)]

\* tio_native_stop() frees what was not polled.
Discard(s) == [s EXCEPT !.missed = @ \/ (s.log /\ Contains(s.events, "rx"))]
\* stop_tab(): joined, the worker adds nothing more; ticks until the queue is empty
StopTab(s) == [NewTab(s.page) EXCEPT !.missed = Discard(Deliver(s, Len(s.events))).missed]

\* 256 KiB at most: all events, or up to one that carries bytes
Batch(s) == {Len(s.events)} \cup {k \in DOMAIN s.events : s.events[k] = "rx"}
Ended(s, taken) == Contains(taken, "done") \/ (Contains(taken, "down") /\ ~s.keeps)

\* A log that cannot be written ends the session.
Tick(t) ==
    /\ tab[t].serial # None
    /\ \E k \in Batch(tab[t]), logFails \in BOOLEAN :
           LET taken == SubSeq(tab[t].events, 1, k)
               cannotLog == logFails /\ tab[t].log /\ Contains(taken, "rx")
               told == Deliver(tab[t], k)
           IN Become(t, IF Ended(tab[t], taken) \/ cannotLog THEN StopTab(told) ELSE told)
-----------------------------------------------------------------------------
(* The worker of a session (NativeSerial) *)

Worker(t, ports, port, event) ==
    /\ tab[t].serial # None /\ tab[t].port \in ports
    /\ Len(tab[t].events) < MaxEvents
    /\ Become(t, [tab[t] EXCEPT !.port = port, !.events = Append(@, event)])
Retries(t) == {"closed"} \cup (IF tab[t].keeps THEN {"lost"} ELSE {})

PortOpens(t) == Worker(t, Retries(t), "open", "up")
PortOpenFails(t) == Worker(t, Retries(t), "lost", "down")
PortFails(t) == Worker(t, {"open"}, "lost", "down")
GivesUp(t) == Worker(t, {"lost"}, "over", "done")
Receives(t) == Worker(t, {"open"}, "open", "rx")
-----------------------------------------------------------------------------
\* connect_clicked(): refused, it changes nothing
Connect(t, path) ==
    /\ User(t) /\ tab[t].serial = None
    /\ \A other \in Tab \ {t} : tab[other].serial # path
    /\ \E keeps, log \in BOOLEAN :
           Become(t, [tab[t] EXCEPT !.serial = path, !.keeps = keeps, !.log = log])
Disconnect(t) == User(t) /\ tab[t].serial # None /\ Become(t, StopTab(tab[t]))

\* remove_tab() and tab_free(); the window keeps one tab at least
RemoveTab(t) ==
    LET last == \A u \in Tab \ {t} : tab[u].page = None
    IN tab' = [tab EXCEPT ![t] = NewTab(IF last THEN "open" ELSE None)]

\* close_tab_clicked(), close_tab_done()
CloseTab(t) == /\ User(t)
               /\ IF tab[t].serial = None
                  THEN RemoveTab(t) /\ UNCHANGED <<app, dialog>>
                  ELSE dialog' = [kind |-> "close", of |-> t] /\ UNCHANGED <<tab, app>>
CloseTabDone(t) == /\ dialog = [kind |-> "close", of |-> t] /\ dialog' = NoDialog
                   /\ tab[t].page = "open" /\ RemoveTab(t) /\ UNCHANGED app
DialogGivenUp == dialog # NoDialog /\ dialog' = NoDialog /\ UNCHANGED <<tab, app>>

\* new_tab()
AddTab(t) == /\ app = "running" /\ dialog = NoDialog
             /\ tab[t].page = None /\ Become(t, NewTab("open"))

\* quit(): nothing happens when the settings cannot be saved
Quit == app' = "gone" /\ tab' = [t \in Tab |-> NewTab(None)]
\* close_requested()
CloseRequested == /\ app = "running" /\ dialog = NoDialog
                  /\ IF \E t \in Tab : tab[t].serial # None
                     THEN dialog' = [kind |-> "quit"] /\ UNCHANGED <<tab, app>>
                     ELSE Quit /\ UNCHANGED dialog
QuitDone == dialog = [kind |-> "quit"] /\ dialog' = NoDialog /\ Quit
-----------------------------------------------------------------------------
Next == \/ \E t \in Tab : \/ Tick(t) \/ PortOpens(t) \/ PortOpenFails(t) \/ PortFails(t)
                          \/ GivesUp(t) \/ Receives(t) \/ Disconnect(t)
                          \/ CloseTab(t) \/ CloseTabDone(t) \/ AddTab(t)
                          \/ \E path \in Path : Connect(t, path)
        \/ DialogGivenUp \/ CloseRequested \/ QuitDone

Spec == Init /\ [][Next]_vars
=============================================================================
