--------------------------------- MODULE Modbus ---------------------------------
(***************************************************************************)
(* The Modbus master of modbus.c and its window, modbus_ui.c: one request  *)
(* at a time, over a TCP connection of its own or over the serial session, *)
(* made by a thread and answered to the UI thread. There are no retries.   *)
(*                                                                         *)
(* A device may answer a request at any time or never, so that the answer  *)
(* to a request that was given up may come while the next one waits: on    *)
(* the serial line, or through a gateway. Registers are two bytes wide; a  *)
(* function that reads and one that writes stand for the six.              *)
(***************************************************************************)
EXTENDS Naturals, FiniteSets

CONSTANTS MaxAddress,     \* the last address (65535)
          MaxQuantity,    \* the most that may be read (125 or 2000)
          Unit,           \* units on the line
          MaxTransaction, \* the last transaction number (65535)
          Value           \* what is written

ModbusAssumption == MaxAddress \in Nat /\ MaxQuantity \in Nat /\ MaxTransaction \in Nat \ {0, 1}

VARIABLE modbus

None == [function |-> "none"]
Read == [function : {"read"}, unit : Unit, address : 0..MaxAddress, quantity : 0..(MaxQuantity + 1)]
Write == [function : {"write"}, unit : Unit, address : 0..MaxAddress, value : Value]

\* window: tcp, rtu or none; request: the one the thread is at; job: what it is
\* doing; transaction: of the last request; due: requests a device may still answer,
\* with their transactions; shown: whose answer was taken for the answer to whom.
Closed == [window |-> "none", request |-> None, job |-> "none", transaction |-> 0,
           due |-> {}, shown |-> [to |-> None, taken |-> None]]

Init == modbus = Closed

\* tio_modbus_frame() of a request that is not refused
Valid(r) == r.function = "read" =>
                r.quantity \in 1..MaxQuantity /\ r.address + r.quantity <= MaxAddress + 1
\* tio_modbus_decode() of the answer to the request d: the frames of TCP have the
\* number of the transaction, those of the line have not; a write is echoed, of a
\* read the number of bytes is told. Beside it, a wrong form.
AcceptsAnyNumber(m, d) ==
    /\ d.request.function = m.request.function /\ d.request.unit = m.request.unit
    /\ IF m.request.function = "write" THEN d.request = m.request
       ELSE d.request.quantity = m.request.quantity
Accepts(m, d) ==
    /\ m.window = "tcp" => d.transaction = m.transaction
    /\ d.request.function = m.request.function /\ d.request.unit = m.request.unit
    /\ IF m.request.function = "write" THEN d.request = m.request
       ELSE d.request.quantity = m.request.quantity
-----------------------------------------------------------------------------
Open(window) == modbus = Closed /\ modbus' = [Closed EXCEPT !.window = window]
\* free_view(): the thread is cancelled, and what it returns is dropped
CloseWindow == modbus.window # "none" /\ modbus' = Closed

\* run(): one at a time. What is due since the one before the last does not come.
Run(r) ==
    /\ modbus.window # "none" /\ modbus.job = "none"
    /\ modbus' = [modbus EXCEPT !.transaction = (@ + 1) % (MaxTransaction + 1), !.request = r,
                                !.job = "connecting", !.shown = Closed.shown,
                                !.due = {d \in @ : d.transaction = modbus.transaction}]

\* worker(): the request is refused, or there is no connection, or it is not written
Fails == modbus.job = "connecting" /\ modbus' = [modbus EXCEPT !.job = "over"]
Written ==
    /\ modbus.job = "connecting" /\ Valid(modbus.request)
    /\ modbus' = [modbus EXCEPT !.job = "reading",
                                !.due = @ \cup {[request |-> modbus.request,
                                                 transaction |-> modbus.transaction]}]
\* A device answers what is due: with an exception, a frame that is damaged, or one
\* that is sound.
Answered(d, sound) ==
    /\ modbus.job = "reading"
    /\ modbus' = [modbus EXCEPT !.job = "over", !.due = @ \ {d},
                                !.shown = IF sound /\ Accepts(modbus, d)
                                          THEN [to |-> modbus.request, taken |-> d] ELSE @]
\* An answer that comes while nobody waits is lost.
Unheard(d) == modbus.job # "reading" /\ modbus' = [modbus EXCEPT !.due = @ \ {d}]
\* The deadline, an error, the end before a frame is complete
GivesUp == modbus.job = "reading" /\ modbus' = [modbus EXCEPT !.job = "over"]
\* completed()
Completed == modbus.job = "over" /\ modbus' = [modbus EXCEPT !.job = "none", !.request = None]

Next == \/ \E window \in {"tcp", "rtu"} : Open(window)
        \/ CloseWindow \/ Fails \/ Written \/ GivesUp \/ Completed
        \/ \E r \in Read \cup Write : Run(r)
        \/ \E d \in modbus.due : Unheard(d) \/ \E sound \in BOOLEAN : Answered(d, sound)

Spec == Init /\ [][Next]_modbus
\* Connecting, reading and the UI's loop end: connect and read have time limits.
Fairness == WF_modbus(Fails) /\ WF_modbus(GivesUp) /\ WF_modbus(Completed)
-----------------------------------------------------------------------------
\* What the window shows is the answer to the request it shows it for: over TCP of
\* this very transaction, on the line of a write with the same contents. A late
\* answer on the line to another read of as many registers is not told apart.
ShownIsAsked ==
    LET s == modbus.shown
    IN s # Closed.shown =>
           /\ modbus.window = "tcp" => s.taken.transaction = modbus.transaction
           /\ modbus.window = "tcp" \/ s.to.function = "write" => s.taken.request = s.to
           /\ Valid(s.to)
\* The window is given back to the user after each request.
Running == modbus.job # "none"
=============================================================================
