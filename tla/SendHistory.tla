-------------------------------- MODULE SendHistory --------------------------------
(***************************************************************************)
(* The send bar of a tab and the history of what was sent, main.c and      *)
(* settings.c. The tabs share one history; each browses it with a cursor   *)
(* of its own, an index from the newest entry, keeps what was being typed  *)
(* before it browsed, and lists the newest entries in a menu it rebuilds   *)
(* when it sends. One tab is modelled; of the others, that they send and   *)
(* clear. typed is what the user last gave the entry, for the properties.  *)
(***************************************************************************)
EXTENDS Naturals, Sequences, SequencesExt

CONSTANTS MaxHistory, \* entries of the history (100)
          MaxListed,  \* entries of the menu (25)
          SentText    \* what is typed, "" among it

SendHistoryAssumption == {MaxHistory, MaxListed} \subseteq Nat \ {0}

VARIABLE send

\* running: the tab's tio is; listed: the rows of its menu
HistoryInit == send = [history |-> <<>>, listed |-> <<>>, cursor |-> 0, draft |-> "", entry |-> "", typed |-> "",
                       running |-> FALSE]

\* tio_settings_push_history(): the newest last, and once; beside it, a wrong form
Limited(added) == IF Len(added) > MaxHistory THEN Tail(added) ELSE added
PushAgain(history, text) == Limited(Append(history, text))
Push(history, text) == Limited(Append(RemoveFirst(history, text), text))
\* refresh_history_ui()
Newest(history) == SubSeq(Reverse(history), 1, IF Len(history) < MaxListed THEN Len(history) ELSE MaxListed)

\* on_send_entry_changed()
Type(text) == send' = [send EXCEPT !.entry = text, !.typed = text, !.cursor = 0]
\* history_navigate(): up to an older entry or down, and at 0 to what was typed
At(s, cursor) == IF cursor = 0 THEN s.draft ELSE s.history[Len(s.history) - cursor + 1]
Kept(s) == IF s.cursor = 0 THEN [s EXCEPT !.draft = s.entry] ELSE s
Go(cursor) == /\ send.history # <<>> /\ cursor # send.cursor
              /\ send' = LET s == Kept(send) IN [s EXCEPT !.entry = At(s, cursor), !.cursor = cursor]
Up == Go(IF send.cursor < Len(send.history) THEN send.cursor + 1 ELSE Len(send.history))
Down == /\ send.cursor > 0
        /\ Go(IF send.cursor <= Len(send.history) THEN send.cursor - 1 ELSE Len(send.history))
\* send_entry_contents()
SendEntry == /\ send.running /\ send.entry # ""
             /\ send' = LET h == Push(send.history, send.entry)
                        IN [send EXCEPT !.history = h, !.listed = Newest(h), !.cursor = 0, !.draft = "",
                                        !.entry = "", !.typed = ""]
\* on_history_row_activated(): what was listed, though it is gone from the history
Pick(i) == send' = [send EXCEPT !.entry = send.listed[i], !.typed = send.listed[i], !.cursor = 0]
\* on_history_clear_clicked(): the button is insensitive when nothing is listed. What was
\* typed is given up for what the entry shows.
Clear == /\ send.listed # <<>>
         /\ send' = [send EXCEPT !.history = <<>>, !.listed = <<>>, !.cursor = 0, !.draft = "",
                                 !.typed = send.entry]
\* Another tab sends or clears
SentElsewhere == \/ \E text \in SentText \ {""} : send' = [send EXCEPT !.history = Push(@, text)]
                 \/ send.history # <<>> /\ send' = [send EXCEPT !.history = <<>>]

\* tio starts or ends
Run == send' = [send EXCEPT !.running = ~@]
\* The settings are imported (bound: a history that the program wrote); rebuilt menus also
\* follow a change of language
WrittenHistories == {h \in UNION {[1..n -> SentText \ {""}] : n \in 0..MaxHistory} : IsInjective(h)}
Import == /\ ~send.running
          /\ \E h \in WrittenHistories : send' = [send EXCEPT !.history = h, !.listed = Newest(h)]
Relist == send' = [send EXCEPT !.listed = Newest(send.history)]

HistoryNext == \/ \E text \in SentText : Type(text)
               \/ Up \/ Down \/ SendEntry \/ Clear \/ SentElsewhere \/ Run \/ Import \/ Relist
               \/ \E i \in DOMAIN send.listed : Pick(i)
HistorySpec == HistoryInit /\ [][HistoryNext]_send
-----------------------------------------------------------------------------
\* What was being typed is not lost by browsing, whatever the other tabs send and clear
\* meanwhile: it stays behind the cursor, and is in the entry when the cursor is back.
\* (As long as the history is empty the cursor does not come back.)
DraftKept == send.typed = (IF send.cursor = 0 THEN send.entry ELSE send.draft)
\* The history holds nothing twice and no more than its limit.
HistoryDistinct == Len(send.history) <= MaxHistory /\ IsInjective(send.history)
\* What the menu lists has no line twice either and is what the history was, newest first.
ListedBounded == Len(send.listed) <= MaxListed /\ IsInjective(send.listed)

HistorySound == DraftKept /\ HistoryDistinct /\ ListedBounded
=============================================================================
