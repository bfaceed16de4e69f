--------------------------------- MODULE LogView ---------------------------------
(***************************************************************************)
(* The two views of a tab's output, main.c: the terminal (VTE) and the     *)
(* highlighted log (GtkTextView), one of them shown, and the button that   *)
(* goes back to the end of the one that is.                                *)
(*                                                                         *)
(* The highlighted view follows the output by an animation that runs once  *)
(* a frame. GTK lays text out after it was added, moves the view when the  *)
(* range shrinks, and signals each change of the range and of the value;   *)
(* what the handlers do within one another is composed here, in the order  *)
(* of the calls. Heights are in lines. Not modelled: the blink's phase,    *)
(* how fast the spring moves, what a search matches.                       *)
(***************************************************************************)
EXTENDS Naturals

CONSTANTS MaxText, \* lines that are retained (10000)
          Page     \* lines that a view shows

LogViewAssumption == {MaxText, Page} \subseteq Nat \ {0}

VARIABLE view

\* Of the highlighted view: the lines in the buffer and those laid out, the first line
\* shown, where the animation is; whether it follows, has unseen output, is pressed, has
\* a selection, has the focus; the animation, the blink timer and the caret. Of the
\* terminal: whether it is at its end, follows, has unseen output, a selection. Then which
\* of the two is shown, whether the tab is; the button, and whether it says "New output".
Init == view = [text |-> 0, upper |-> 0, value |-> 0, position |-> 0, follow |-> TRUE, pending |-> FALSE,
                pointerDown |-> FALSE, selected |-> FALSE, focused |-> FALSE,
                tick |-> FALSE, timer |-> FALSE, caret |-> FALSE,
                tEnd |-> TRUE, tFollow |-> TRUE, tPending |-> FALSE, tSelected |-> FALSE,
                active |-> FALSE, current |-> TRUE, button |-> FALSE, news |-> FALSE]

Mapped(v) == v.active /\ v.current
Bottom(v) == IF v.upper > Page THEN v.upper - Page ELSE 0
AtEnd(v) == v.value >= Bottom(v)
-----------------------------------------------------------------------------
(* The handlers and what they call: what each makes of a view v; beside some, wrong forms *)

\* update_highlight_cursor()
Caret(v) == [v EXCEPT !.caret = Mapped(v) /\ v.focused /\ v.follow /\ ~v.pointerDown /\ ~v.selected]
\* update_scroll_button()
Button(v) == [Caret(v) EXCEPT !.button = ~(IF v.active THEN v.follow ELSE v.tFollow),
                              !.news = IF v.active THEN v.pending ELSE v.tPending]
\* stop_highlight_scroll()
Stop(v) == [v EXCEPT !.tick = FALSE, !.position = 0]
\* scroll_highlight_to_bottom()
ToBottom(v) ==
    IF ~Mapped(v) \/ AtEnd(v) THEN [Stop(v) EXCEPT !.value = Bottom(v)]
    ELSE IF v.tick THEN v ELSE [v EXCEPT !.tick = TRUE, !.position = v.value]
\* on_highlight_scrolled(), when the value has changed; a selection is dropped at the end
Scrolled(v) == IF v.follow \/ v.pointerDown THEN v
               ELSE IF AtEnd(v) THEN Button([v EXCEPT !.follow = TRUE, !.selected = FALSE, !.pending = FALSE])
               ELSE Button(v)
\* on_highlight_content_changed(), when the range has
ContentChanged(v) ==
    LET f == [v EXCEPT !.follow = v.follow /\ ~v.selected] IN Button(IF f.follow THEN ToBottom(f) ELSE f)
PausesOnly(v) == Button([v EXCEPT !.follow = FALSE])
Pauses(v) == Button(Stop([v EXCEPT !.follow = FALSE]))
\* on_highlight_selection_changed(): selected or not, as a change
Selection(v, b) == IF v.selected = b THEN v
                   ELSE IF b THEN Pauses([v EXCEPT !.selected = TRUE]) ELSE Scrolled([v EXCEPT !.selected = FALSE])
\* on_terminal_selection_changed(), on_terminal_scrolled(), on_terminal_content_changed()
TerminalSelection(v, b) ==
    IF v.tSelected = b THEN v ELSE Button([v EXCEPT !.tSelected = b, !.tFollow = ~b /\ v.tEnd])
TerminalScrolled(v, end) ==
    LET s == IF end THEN TerminalSelection([v EXCEPT !.tEnd = TRUE], FALSE) ELSE [v EXCEPT !.tEnd = FALSE]
    IN IF s.tFollow = end THEN s ELSE Button([s EXCEPT !.tFollow = end, !.tPending = @ /\ ~end])
TerminalChanged(v) ==
    LET f == [v EXCEPT !.tFollow = @ /\ ~v.tSelected]
    IN IF f.tFollow THEN TerminalScrolled(f, TRUE)
       ELSE IF f.tPending THEN f ELSE Button([f EXCEPT !.tPending = TRUE])
\* on_highlight_map() and on_highlight_unmap(): the view is shown or hidden as by a change
Mapping(v, shown) ==
    IF Mapped(v) = Mapped(shown) THEN shown
    ELSE IF Mapped(shown) THEN LET m == Caret([shown EXCEPT !.timer = TRUE]) IN IF m.follow THEN ToBottom(m) ELSE m
    ELSE [Stop(shown) EXCEPT !.timer = FALSE, !.caret = FALSE, !.focused = FALSE]
-----------------------------------------------------------------------------
(* What happens *)

\* update_highlight_display(): a line is added; with the oldest its selection may go
Fed(v, lost) == LET t == [v EXCEPT !.text = IF @ < MaxText THEN @ + 1 ELSE @]
                IN IF lost /\ v.text = MaxText THEN Selection(t, FALSE) ELSE t
DisplayScrolls(v) == Button([ToBottom(v) EXCEPT !.pending = ~v.follow])
Display(v) == Button([IF v.follow THEN ToBottom(v) ELSE v EXCEPT !.pending = ~v.follow])
Receive(lost) == view' = Display(Fed(view, lost))

\* GTK lays the text out: the range changes, and the value when it is out of it
Layout == /\ view.upper # view.text
          /\ view' = LET v == [view EXCEPT !.upper = view.text]
                     IN IF AtEnd(v) /\ v.value > Bottom(v)
                        THEN Scrolled(ContentChanged([v EXCEPT !.value = Bottom(v)])) ELSE ContentChanged(v)

\* animate_highlight_scroll(): at most a page behind; on by what time has passed
Still(v) == ~v.follow \/ v.pointerDown \/ v.selected
NextPositions(v) == LET from == IF Bottom(v) > v.position + Page THEN Bottom(v) - Page ELSE v.position
                    IN IF from >= Bottom(v) THEN {Bottom(v)} ELSE (from + 1)..Bottom(v)
ArrivedBeyond(v, next) == next > Bottom(v)
Arrived(v, next) == next = Bottom(v)
Frame == /\ view.tick
         /\ IF Still(view) THEN view' = Stop(view)
            ELSE \E next \in NextPositions(view) :
                    LET v == [view EXCEPT !.value = next, !.position = next]
                    IN view' = IF Arrived(view, next) THEN Stop(v) ELSE v

\* on_highlight_wheel(), upwards, and what the window then does; wheel down, bar or touch
WheelUp(y) == /\ Mapped(view) /\ y <= view.value
              /\ view' = LET p == Pauses(view)
                         IN IF y = view.value THEN p ELSE Scrolled([p EXCEPT !.value = y])
UserScroll(y) == /\ Mapped(view) /\ y <= Bottom(view) /\ y # view.value
                 /\ view.follow => y > view.value
                 /\ view' = Scrolled([view EXCEPT !.value = y])
\* on_highlight_pointer_pressed() and _released()
Press == /\ Mapped(view) /\ ~view.pointerDown
         /\ view' = Pauses([view EXCEPT !.pointerDown = TRUE])
Release == /\ view.pointerDown
           /\ view' = LET v == [view EXCEPT !.pointerDown = FALSE] IN IF v.selected THEN v ELSE Scrolled(v)
Select(b) == /\ Mapped(view) /\ (b => view.text > 0)
             /\ view' = Selection(view, b)
Focus(b) == Mapped(view) /\ view' = Caret([view EXCEPT !.focused = b])
\* blink_highlight_cursor()
Blink == view.timer /\ view' = Caret(view)

\* on_scroll_bottom_clicked(), also for Enter
Resume == view' = IF view.active
                  THEN LET v == Selection(view, FALSE)
                       IN Button(ToBottom([v EXCEPT !.follow = TRUE, !.pending = FALSE]))
                  ELSE LET v == TerminalScrolled(TerminalSelection(view, FALSE), TRUE)
                       IN Button([v EXCEPT !.tFollow = TRUE, !.tPending = FALSE])
\* on_clear_terminal_clicked() and action_clear_terminal()
Clear == view' = Selection([Stop(TerminalScrolled(TerminalSelection(view, FALSE), TRUE)) EXCEPT !.text = 0], FALSE)
\* on_highlight_toggled() (bound: no search is open); the tab is left or shown again
Toggle == LET shown == [view EXCEPT !.active = ~@] IN view' = Button(Mapping(view, shown))
Switch == LET shown == [view EXCEPT !.current = ~@] IN view' = Mapping(view, shown)
\* search_run() with a query: the match, if there is one, is selected and shown
Search(y) == /\ Mapped(view)
             /\ \/ view' = Pauses(view)
                \/ /\ view.text > 0 /\ y <= Bottom(view)
                   /\ view' = LET v == Selection(Pauses(view), TRUE)
                              IN IF y = v.value THEN v ELSE Scrolled([v EXCEPT !.value = y])

TerminalOutput(end) == view' = TerminalChanged([view EXCEPT !.tEnd = @ /\ end])
TerminalScroll(end) == /\ ~view.active /\ end # view.tEnd
                       /\ view' = TerminalScrolled(view, end)
TerminalSelect(b) == /\ ~view.active
                     /\ view' = TerminalSelection(view, b)

Line == 0..MaxText
Next ==
    \/ Layout \/ Frame \/ Press \/ Release \/ Blink \/ Resume \/ Clear \/ Toggle \/ Switch
    \/ \E y \in Line : WheelUp(y) \/ UserScroll(y) \/ Search(y)
    \/ \E b \in BOOLEAN : Receive(b) \/ Select(b) \/ Focus(b) \/ TerminalOutput(b)
                          \/ TerminalScroll(b) \/ TerminalSelect(b)

\* GTK lays out and draws frames.
Fairness == WF_view(Layout) /\ WF_view(Frame)
Spec == Init /\ [][Next]_view /\ Fairness
-----------------------------------------------------------------------------
(* Properties *)

\* The animation never runs in a view that is hidden or paused, whatever paused it, so
\* that a frame between two events cannot move what the user reads.
AnimatesOnlyFollowing == view.tick => Mapped(view) /\ view.follow /\ ~view.selected
\* The caret stands at the end of the output: it is seen in no view that is hidden, not
\* focused or paused, and nothing blinks in a hidden one.
CaretAtEnd == /\ view.caret => Mapped(view) /\ view.focused /\ view.follow /\ ~view.pointerDown /\ ~view.selected
              /\ ~Mapped(view) => ~view.timer
\* The button of the two views is there exactly when the one shown is paused, though each
\* is paused and resumed by handlers of its own; the log's never reports what is seen.
ButtonOfShown == /\ view.button = ~(IF view.active THEN view.follow ELSE view.tFollow)
                 /\ view.pending => ~view.follow
\* A terminal that follows is at its end and has no selection.
TerminalAtEnd == view.tFollow => view.tEnd /\ ~view.tSelected

Sound == AnimatesOnlyFollowing /\ CaretAtEnd /\ ButtonOfShown /\ TerminalAtEnd

\* The program never moves a log that is paused: only the user or a search does, or GTK
\* when the log became shorter.
PausedStays ==
    (~view.follow /\ ~view'.follow /\ view.value # view'.value)
        => \/ view'.value = Bottom(view') /\ view'.upper < view.upper
           \/ \E y \in Line : WheelUp(y) \/ UserScroll(y) \/ Search(y)

\* The animation arrives, however often output moves its end.
Moving == view.tick
=============================================================================
