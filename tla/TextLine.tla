-------------------------------- MODULE TextLine --------------------------------
(***************************************************************************)
(* text_line.h: how the bytes of a device edit the line that is not ended  *)
(* yet, for the highlighted view and for the log model.                    *)
(*                                                                         *)
(* The program keeps the line as UTF-8 bytes and the cursor as a position  *)
(* among them, and edits byte by byte. What it promises is an editor of    *)
(* columns, one character in each, which runs beside it here. Of the bytes *)
(* there are an ASCII character, the two of another one, and those with a  *)
(* meaning. What is fed arrives in units: characters, controls, commands.  *)
(***************************************************************************)
EXTENDS Naturals, Sequences, FiniteSets, SequencesExt

CONSTANTS Limit, \* bytes of a line (16384)
          Unit   \* the units that may arrive

TextLineAssumption == Limit \in Nat \ {0}

VARIABLE text

LeastOf(m, n) == IF m <= n THEN m ELSE n
MostOf(m, n) == IF m >= n THEN m ELSE n
Digits == <<"1", "2", "3">>
Final == {"P", "X", "@", "J", "K", "G", "C", "D", "m", "l", "h"}

\* line: bytes; cursor: a position; mode: text, escape, csi or osc; of a command:
\* its parameter, whether it is unsupported or private; hidden: the cursor is;
\* continuation: bytes the character lacks. Of columns: cells, column. exact: the
\* limit was not met.
Empty == [line |-> <<>>, cursor |-> 0, mode |-> "text", oscEsc |-> FALSE, parameter |-> 0,
          unsupported |-> FALSE, private |-> FALSE, hidden |-> FALSE, continuation |-> 0,
          cells |-> <<>>, column |-> 0, exact |-> TRUE]
Init == text = Empty

Part(line, from, to) == SubSeq(line, from + 1, to) \* bytes from..to-1
Blanks(n) == [i \in 1..n |-> " "]
Starts(line, p) == p < Len(line) => line[p + 1] # "tail"
-----------------------------------------------------------------------------
(* Bytes *)

\* tio_text_line_next() and tio_text_line_previous(): over the tail of a character;
\* beside them, wrong forms
NextByte(line, p) == IF p < Len(line) THEN p + 1 ELSE p
Following(line, p) == CHOOSE q \in p..Len(line) : /\ Starts(line, q) /\ (p < Len(line) => q > p)
                                                  /\ \A r \in (p + 1)..(q - 1) : ~Starts(line, r)
Previous(line, p) ==
    IF p = 0 THEN 0
    ELSE CHOOSE q \in 0..(p - 1) : /\ q = 0 \/ Starts(line, q)
                                   /\ \A r \in (q + 1)..(p - 1) : ~Starts(line, r)
\* Characters of the line before p
Characters(line, p) == Cardinality({q \in 0..(LeastOf(p, Len(line)) - 1) : q = 0 \/ Starts(line, q)})
\* n steps: to the right as far as the limit, also past the end, or to the left
Right(line, p, n) ==
    LET at[i \in 0..n] == IF i = 0 THEN p
                          ELSE IF at[i - 1] >= Limit THEN at[i - 1]
                          ELSE IF at[i - 1] < Len(line) THEN Following(line, at[i - 1]) ELSE at[i - 1] + 1
    IN at[n]
Left(line, p, n) == LET at[i \in 0..n] == IF i = 0 THEN p ELSE Previous(line, at[i - 1]) IN at[n]
\* Where the n characters from p on end, in the line
After(line, p, n) == LET at[i \in 0..n] == IF i = 0 THEN p ELSE Following(line, at[i - 1]) IN at[n]

\* The commands: what each makes of the line and the cursor
DeleteCharacters(t, n, blank) ==
    LET start == LeastOf(t.cursor, Len(t.line))
        end == After(t.line, start, n)
        cells == IF blank THEN Characters(t.line, end) - Characters(t.line, start) ELSE 0
    IN [t EXCEPT !.line = Part(t.line, 0, start) \o Blanks(cells) \o Part(t.line, end, Len(t.line))]
InsertBlanks(t, n) ==
    LET blanks == LeastOf(n, Limit - t.cursor)
        room == LeastOf(Len(t.line) - t.cursor, Limit - t.cursor - blanks)
        tail == CHOOSE k \in 0..room : /\ k = 0 \/ Starts(t.line, t.cursor + k)
                                       /\ \A l \in (k + 1)..room : ~Starts(t.line, t.cursor + l)
    IN IF t.cursor >= Len(t.line) \/ t.cursor >= Limit THEN t
       ELSE [t EXCEPT !.line = Part(t.line, 0, t.cursor) \o Blanks(blanks) \o Part(t.line, t.cursor, t.cursor + tail)]
EraseToEnd(t) == [t EXCEPT !.line = Part(@, 0, LeastOf(t.cursor, Len(@)))]
Overhang(t) == IF t.cursor > Len(t.line) THEN t.cursor - Len(t.line) ELSE 0
EraseAll(t) == [t EXCEPT !.line = <<>>, !.cursor = Characters(t.line, t.cursor) + Overhang(t)]
EraseToCursor(t) ==
    LET end == Following(t.line, LeastOf(t.cursor, Len(t.line)))
        cells == Characters(t.line, end)
    IN [t EXCEPT !.line = Blanks(cells) \o Part(t.line, end, Len(t.line)),
                 !.cursor = IF t.cursor >= Len(t.line) THEN cells + Overhang(t) ELSE cells - 1]
Shows(t, final) ==
    IF t.parameter = 3 /\ final \in {"l", "h"} THEN [t EXCEPT !.hidden = final = "l"] ELSE t
Edits(t, final) ==
    LET n == MostOf(1, t.parameter)
    IN CASE final = "P" -> DeleteCharacters(t, n, FALSE)
         [] final = "X" -> DeleteCharacters(t, n, TRUE)
         [] final = "@" -> InsertBlanks(t, n)
         [] final \in {"J", "K"} /\ t.parameter = 0 -> EraseToEnd(t)
         [] final = "K" /\ t.parameter = 1 -> EraseToCursor(t)
         [] final = "K" /\ t.parameter = 2 -> EraseAll(t)
         [] final = "G" -> [t EXCEPT !.cursor = Right(t.line, 0, n - 1)]
         [] final = "C" -> [t EXCEPT !.cursor = Right(t.line, t.cursor, n)]
         [] final = "D" -> [t EXCEPT !.cursor = Left(t.line, t.cursor, n)]
         [] OTHER -> t
Command(t, final) == IF t.unsupported THEN t ELSE IF t.private THEN Shows(t, final) ELSE Edits(t, final)

\* A byte of text: the first of a character replaces the one at the cursor, past the
\* end blanks go before it
TypeByte(t, byte) ==
    LET tail == byte = "tail" /\ t.continuation > 0
        kept == IF tail THEN t.line
                ELSE Part(t.line, 0, t.cursor) \o Part(t.line, Following(t.line, t.cursor), Len(t.line))
        padded == IF t.cursor > Len(t.line) THEN t.line \o Blanks(t.cursor - Len(t.line))
                  ELSE IF t.cursor < Len(t.line) THEN kept ELSE t.line
        typed == [t EXCEPT !.continuation = IF tail THEN @ - 1 ELSE IF byte = "lead" THEN 1 ELSE 0,
                           !.line = padded]
    IN IF t.cursor >= Limit THEN t
       ELSE IF Len(padded) >= Limit THEN typed
       ELSE [typed EXCEPT !.line = InsertAt(padded, t.cursor + 1, byte), !.cursor = @ + 1]

\* A byte of a command that began with ESC [
FeedCommand(t, byte) ==
    CASE byte \in Range(Digits) ->
             [t EXCEPT !.parameter = LeastOf(Limit, @ * 10 + CHOOSE i \in DOMAIN Digits : Digits[i] = byte)]
      [] byte \in Final -> [Command(t, byte) EXCEPT !.mode = "text"]
      [] byte = "?" /\ ~t.private /\ t.parameter = 0 -> [t EXCEPT !.private = TRUE]
      [] OTHER -> [t EXCEPT !.unsupported = TRUE]
\* A byte of the line
FeedText(t, byte) ==
    CASE byte = "CR" -> [t EXCEPT !.cursor = 0, !.continuation = 0]
      [] byte = "LF" -> [t EXCEPT !.cursor = 0, !.continuation = 0, !.line = <<>>]
      [] byte = "BS" -> [t EXCEPT !.cursor = Previous(t.line, @), !.continuation = 0]
      [] byte = "BEL" -> [t EXCEPT !.continuation = 0]
      [] OTHER -> TypeByte(t, byte)
\* tio_text_line_feed(); the line that LF ends is taken by the caller
Feed(t, byte) ==
    CASE t.mode = "osc" -> [t EXCEPT !.oscEsc = byte = "ESC",
                                     !.mode = IF byte = "BEL" \/ (t.oscEsc /\ byte = "\\") THEN "text" ELSE @]
      [] t.mode # "osc" /\ byte = "ESC" -> [t EXCEPT !.mode = "escape", !.continuation = 0]
      [] t.mode = "csi" /\ byte # "ESC" -> FeedCommand(t, byte)
      [] t.mode = "escape" /\ byte # "ESC" ->
             [t EXCEPT !.mode = IF byte = "[" THEN "csi" ELSE IF byte = "]" THEN "osc" ELSE "text",
                       !.oscEsc = FALSE, !.parameter = 0, !.unsupported = FALSE, !.private = FALSE]
      [] t.mode = "text" /\ byte # "ESC" -> FeedText(t, byte)
-----------------------------------------------------------------------------
(* Columns *)

Number(unit) == LET d == SelectSeq(unit, LAMBDA b : b \in Range(Digits))
                IN IF d = <<>> THEN 0 ELSE CHOOSE i \in DOMAIN Digits : Digits[i] = d[1]
Plain(unit) == unit[1] = "ESC" /\ unit[2] = "[" /\ Len(SelectSeq(unit, LAMBDA b : b \in Range(Digits))) <= 1
                   /\ \A i \in DOMAIN unit : unit[i] \notin {"?", ";"}
Typed(c, character) ==
    LET padded == c.cells \o Blanks(MostOf(0, IF c.column > Len(c.cells) THEN c.column - Len(c.cells) ELSE 0))
    IN [c EXCEPT !.cells = Part(padded, 0, c.column) \o <<character>> \o Part(padded, c.column + 1, Len(padded)),
                 !.column = @ + 1]
Told(c, final, parameter) ==
    LET n == MostOf(1, parameter)
        size == Len(c.cells)
        from == LeastOf(c.column, size)
        to == LeastOf(c.column + n, size)
    IN CASE final = "P" -> [c EXCEPT !.cells = Part(@, 0, from) \o Part(@, to, size)]
         [] final = "X" -> [c EXCEPT !.cells = [i \in 1..size |-> IF i > from /\ i <= to THEN " " ELSE @[i]]]
         [] final = "@" -> IF from = size THEN c ELSE [c EXCEPT !.cells = Part(@, 0, from) \o Blanks(n) \o Part(@, from, size)]
         [] final \in {"J", "K"} /\ parameter = 0 -> [c EXCEPT !.cells = Part(@, 0, from)]
         [] final = "K" /\ parameter = 1 -> [c EXCEPT !.cells = [i \in 1..size |-> IF i <= c.column + 1 THEN " " ELSE @[i]]]
         [] final = "K" /\ parameter = 2 -> [c EXCEPT !.cells = <<>>]
         [] final = "G" -> [c EXCEPT !.column = n - 1]
         [] final = "C" -> [c EXCEPT !.column = @ + n]
         [] final = "D" -> [c EXCEPT !.column = IF @ > n THEN @ - n ELSE 0]
         [] OTHER -> c
Edited(c, unit) ==
    CASE unit = <<"a">> -> Typed(c, "a")
      [] unit = <<"lead", "tail">> -> Typed(c, "e")
      [] unit = <<"CR">> -> [c EXCEPT !.column = 0]
      [] unit = <<"LF">> -> [c EXCEPT !.column = 0, !.cells = <<>>]
      [] unit = <<"BS">> -> [c EXCEPT !.column = IF @ > 0 THEN @ - 1 ELSE 0]
      [] Len(unit) > 2 -> IF Plain(unit) THEN Told(c, Last(unit), Number(unit)) ELSE c
      [] OTHER -> c

\* What the columns are as bytes: the line, and the position of the cursor
Bytes(cells) == FoldLeft(LAMBDA bytes, c : bytes \o (IF c = "e" THEN <<"lead", "tail">> ELSE <<c>>), <<>>, cells)
Position(c) == IF c.column <= Len(c.cells) THEN Len(Bytes(Part(c.cells, 0, c.column)))
               ELSE Len(Bytes(c.cells)) + c.column - Len(c.cells)
\* A unit arrives. Where columns meet the limit they are given up until the line ends.
Input(unit) ==
    LET fed == FoldLeft(Feed, text, unit)
        columns == IF text.exact THEN Edited(text, unit) ELSE text
        exact == \/ unit = <<"LF">>
                 \/ text.exact /\ Len(Bytes(columns.cells)) < Limit /\ Position(columns) < Limit
    IN text' = [fed EXCEPT !.exact = exact,
                           !.cells = IF exact /\ text.exact THEN columns.cells ELSE <<>>,
                           !.column = IF exact /\ text.exact THEN columns.column ELSE 0]

Next == \E unit \in Unit : Input(unit)

Spec == Init /\ [][Next]_text
-----------------------------------------------------------------------------
\* A line never outgrows the limit, nor does the cursor leave it (text_line.h).
LineBounded == Len(text.line) <= Limit /\ text.cursor \in 0..Limit
\* The bytes are those of the characters in the columns, and the cursor is before
\* the first byte of the one in its column, or as far behind the end as there:
\* no command splits a character or miscounts one (text_line.h).
ColumnsExact == text.exact => text.line = Bytes(text.cells) /\ text.cursor = Position(text)
Sound == LineBounded /\ ColumnsExact
=============================================================================
