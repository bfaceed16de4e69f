----------------------------------- MODULE Can -----------------------------------
(***************************************************************************)
(* The CAN window of can_ui.c with the SocketCAN interface of can.c it has *)
(* open, and the DBC definitions it decodes frames with.                   *)
(*                                                                         *)
(* The interface and the bus behind it are external: frames of any kind    *)
(* come at any time, reading or writing may fail. The user opens, closes,  *)
(* sends and loads definitions, a dialog may outlive the window.           *)
(* The interface is counted by its owner and by the watch of its socket.   *)
(***************************************************************************)
EXTENDS Dbc

CONSTANTS CanFrame, \* frames that may come: id, extended, kind (data, rtr or error), bytes
          File,     \* files that may be chosen, as sequences of lines
          Length    \* lengths of payloads the user may send

CanAssumption == /\ \A f \in CanFrame : f.kind \in {"data", "rtr", "error"} /\ f.bytes \in Seq(0..(2 ^ Width - 1))
                 /\ Length \subseteq Nat

VARIABLE can

NoBus == [refs |-> 0, source |-> FALSE, closed |-> TRUE, fd |-> FALSE]
NoDbc == [valid |-> FALSE, messages |-> <<>>]
NoFrame == [id |-> 0, extended |-> FALSE, kind |-> "none", bytes |-> <<>>]
NotSent == [fd |-> FALSE, length |-> 0]
\* bus: the one that is counted; owned: the window has it; dbc: what is decoded with;
\* dialog: one is open; frame, shown: the last one decoded with it, and what was shown;
\* sent: the last frame sent since then
CanInit == can = [window |-> "open", bus |-> NoBus, owned |-> FALSE, dbc |-> NoDbc, dialog |-> FALSE,
                  frame |-> NoFrame, shown |-> Nothing, sent |-> NotSent]

\* unref(): the last one frees
Unref(bus) == IF bus.refs > 1 THEN [bus EXCEPT !.refs = @ - 1] ELSE NoBus
\* A wrong form, that forgets the watch
FreeOwner(bus) == IF bus = NoBus THEN bus ELSE Unref([bus EXCEPT !.source = FALSE, !.closed = TRUE, !.fd = FALSE])
\* tio_can_free(): the watch goes, and with it its reference
FreeBus(bus) ==
    LET unwatched == IF bus.source THEN Unref([bus EXCEPT !.source = FALSE]) ELSE bus
    IN IF bus = NoBus THEN bus ELSE Unref([unwatched EXCEPT !.closed = TRUE, !.fd = FALSE])
-----------------------------------------------------------------------------
(* readable() *)

Readable == can.bus.source /\ ~can.bus.closed
\* A frame, that event() shows: what is decoded of it is of data only.
Receive(f) ==
    /\ Readable
    /\ can' = IF f.kind = "data" THEN [can EXCEPT !.frame = f, !.shown = Decode(can.dbc, f), !.sent = NotSent]
              ELSE [can EXCEPT !.frame = f, !.shown = Nothing, !.sent = NotSent]
\* Something that is no frame is passed over (its message is all there is to see). An
\* error ends the watch and closes, the window keeps what is left.
ReadFails == Readable /\ can' = [can EXCEPT !.bus = Unref([@ EXCEPT !.source = FALSE, !.closed = TRUE, !.fd = FALSE])]
-----------------------------------------------------------------------------
(* The window *)

\* connect_clicked(): what was open is freed first, and it may not open then
ConnectBus(opens) ==
    /\ can.window = "open"
    /\ can' = [can EXCEPT !.owned = opens,
                          !.bus = IF opens THEN [refs |-> 2, source |-> TRUE, closed |-> FALSE, fd |-> TRUE]
                                  ELSE FreeBus(can.bus)]
DisconnectBus == can.window = "open" /\ can' = [can EXCEPT !.owned = FALSE, !.bus = FreeBus(@)]

\* tio_can_send(): which frames it takes; a payload longer than 8 bytes has to be as
\* long as a frame can be
MaySendFrame(id, extended, fd, brs, rtr, length) ==
    /\ ~can.bus.closed /\ (extended \/ id = "standard")
    /\ length <= (IF fd THEN 64 ELSE 8) /\ ~(fd /\ rtr) /\ ~(~fd /\ brs)
    /\ fd /\ length > 8 => length \in {12, 16, 20, 24, 32, 48, 64}
\* send_clicked(), when the frame is written
SendFrame(id, extended, fd, brs, rtr, length) ==
    /\ can.window = "open" /\ can.owned /\ MaySendFrame(id, extended, fd, brs, rtr, length)
    /\ can' = [can EXCEPT !.sent = [fd |-> fd, length |-> length]]

LoadDbc == can.window = "open" /\ ~can.dialog /\ can' = [can EXCEPT !.dialog = TRUE]
\* dbc_selected(): a file that is refused leaves what there was
Selected(old, file) == IF Parse(file).valid THEN Parse(file) ELSE old
DbcSelected(file) ==
    /\ can.dialog
    /\ can' = IF can.window = "gone" THEN [can EXCEPT !.dialog = FALSE]
              ELSE [can EXCEPT !.dialog = FALSE, !.dbc = Selected(@, file),
                               !.frame = NoFrame, !.shown = Nothing]
DialogCancelled == can.dialog /\ can' = [can EXCEPT !.dialog = FALSE]

\* free_view()
CloseCanWindow ==
    /\ can.window = "open"
    /\ can' = [can EXCEPT !.window = "gone", !.owned = FALSE, !.bus = FreeBus(@), !.dbc = NoDbc,
                          !.frame = NoFrame, !.shown = Nothing, !.sent = NotSent]

CanNext == \/ ReadFails \/ DisconnectBus \/ LoadDbc \/ DialogCancelled \/ CloseCanWindow
           \/ \E f \in CanFrame : Receive(f)
           \/ \E opens \in BOOLEAN : ConnectBus(opens)
           \/ \E file \in File : DbcSelected(file)
           \/ \E id \in {"standard", "long"}, extended, fd, brs, rtr \in BOOLEAN, length \in Length :
                  SendFrame(id, extended, fd, brs, rtr, length)

CanSpec == CanInit /\ [][CanNext]_can
-----------------------------------------------------------------------------
Held(h) == IF h THEN 1 ELSE 0
\* The interface is there as long as its owner or its watch is, the socket is closed
\* once and before either is gone, and never left open.
BusExact == /\ can.bus.refs = Held(can.owned) + Held(can.bus.source)
            /\ can.bus.fd = ~can.bus.closed
            /\ can.bus.fd => can.owned /\ can.bus.source

\* What is shown of a frame is what the numbers its bytes make, read from either end,
\* have in the place of each signal, for exactly the signals that are there.
Number(bytes) == FoldLeft(LAMBDA n, b : n * 2 ^ Width + b, 0, bytes)
InPlace(s, bytes) ==
    LET fromTop == s.start + Width - 1 - 2 * (s.start % Width)
        below == IF s.little THEN s.start ELSE Width * Len(bytes) - fromTop - s.bits
    IN (Number(IF s.little THEN Reverse(bytes) ELSE bytes) \div 2 ^ below) % 2 ^ s.bits
DecodedRight == can.shown.kind = "values" =>
    LET m == CHOOSE m \in Range(can.dbc.messages) : m.id = can.frame.id /\ m.extended = can.frame.extended
        there(s) == Multiplexed(s) => \E x \in Range(m.signals) :
                        Selector(x) /\ InPlace(x, can.frame.bytes) = s.mux.of
        raw(s) == InPlace(s, can.frame.bytes)
        signed(s) == IF s.sign /\ 2 * raw(s) >= 2 ^ s.bits THEN raw(s) - 2 ^ s.bits ELSE raw(s)
    IN can.shown.values = [n \in {s.name : s \in {x \in Range(m.signals) : there(x)}} |->
           LET s == CHOOSE x \in Range(m.signals) : x.name = n IN signed(s) * s.factor + s.offset]
\* Definitions that were refused are never decoded with.
DbcValid == can.dbc.valid \/ can.dbc = NoDbc
=============================================================================
