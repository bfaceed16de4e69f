------------------------------ MODULE NativeSerial ------------------------------
(***************************************************************************)
(* The native serial session of src/native_serial.c. The UI thread queues  *)
(* commands (bytes to send, line changes, pulses) and polls events; a      *)
(* worker thread finds and opens the port, reads, sends and reconnects.    *)
(* They share a mutex over {stop, connected, queued, sending} and the two  *)
(* queues. A worker step ends where it has touched shared state; setting   *)
(* connected and pushing the STATUS event are one step, as no call of the  *)
(* UI thread tells the states between them from those around.              *)
(*                                                                         *)
(* A command is its number in the history `accepted`; a byte is a command  *)
(* and an offset. Time is left out: a pulse, an output delay or the write  *)
(* deadline is over at any moment, or not yet.                             *)
(***************************************************************************)
EXTENDS Integers, Sequences, SequencesExt

CONSTANTS SendLimit,   \* SEND_LIMIT: weight of the commands queued
          QueueLimit,  \* QUEUE_LIMIT: bytes in the events queued
          Chunk,       \* the most bytes one read or write moves
          Sizes,       \* sizes of a payload the caller sends
          MaxCommands, \* bound: commands accepted
          MaxConns,    \* bound: connections made
          MaxRead,     \* bound: bytes the device sends
          MaxEvents    \* bound: events queued when a connection is attempted

ASSUME LimitAssumption == /\ {SendLimit, QueueLimit, Chunk} \subseteq Nat \ {0}
                          /\ Sizes \subseteq Nat \ {0}
                          /\ {MaxCommands, MaxConns, MaxRead, MaxEvents} \subseteq Nat

VARIABLES reconnect,  \* config.reconnect
          auto,       \* config.auto_connect, until a device was selected
          ui,         \* the UI thread: live, joining the worker, finished, destroyed
          stop, connected, queued, sending,   \* under the mutex
          events,     \* queue of events
          commands,   \* queue of commands
          pc,         \* where the worker is
          pending,    \* the command the worker has taken, 0 for none
          offset,     \* bytes of it written
          due,        \* its pulse has begun (pulse_due)
          overflow,   \* the event queue was full
          accepted,   \* history: every command accepted, with its connection
          wire,       \* history: every byte written to a port
          conn,       \* history: number of the connection
          raised,     \* history: a pulse holds its line high
          lineFault,  \* history: the system refused to lower a line
          got,        \* history: bytes read
          polled      \* history: bytes of the RX and TX events polled

shared == <<stop, connected, queued, sending, events, commands>>
local == <<pc, pending, offset, due, overflow>>
history == <<accepted, wire, conn, raised, lineFault, got, polled>>
vars == <<reconnect, auto, ui, shared, local, history>>

-----------------------------------------------------------------------------
(* Helpers *)

Kinds == {"data", "line", "pulse"}
Event(kind, size) == [kind |-> kind, size |-> size]
\* What a command adds to `sending`.
Weight(id) == IF accepted[id].kind = "data" THEN accepted[id].size ELSE 1
SumOf(numbers) == FoldLeft(LAMBDA sum, n : sum + n, 0, numbers)
WeightOf(ids) == SumOf([i \in DOMAIN ids |-> Weight(ids[i])])
BytesIn(kinds) ==
    SumOf([i \in DOMAIN events |-> IF events[i].kind \in kinds THEN events[i].size ELSE 0])

\* status(): the worker publishes its connection and tells the UI.
Status(up) == /\ connected' = up
              /\ events' = Append(events, Event(IF up THEN "up" ELSE "down", 0))

Room(size) == queued + size <= QueueLimit
\* emit_bytes() (Beside a definition, a wrong form of it that the properties of
\* this module are expected to reject; nothing else uses these.)
EmitDropping(kind, size) ==
    /\ overflow' = overflow
    /\ queued' = IF Room(size) THEN queued + size ELSE queued
    /\ events' = IF Room(size) THEN Append(events, Event(kind, size)) ELSE events
Emit(kind, size) ==
    /\ overflow' = ~Room(size)
    /\ queued' = IF Room(size) THEN queued + size ELSE queued
    /\ events' = IF Room(size) THEN Append(events, Event(kind, size)) ELSE events

Goto(label) == pc' = label

Init == /\ reconnect \in BOOLEAN /\ auto \in BOOLEAN
        /\ ui = "live"
        /\ stop = FALSE /\ connected = FALSE /\ queued = 0 /\ sending = 0
        /\ events = <<>> /\ commands = <<>>
        /\ pc = "retry" /\ pending = 0 /\ offset = 0 /\ due = FALSE /\ overflow = FALSE
        /\ accepted = <<>> /\ wire = <<>> /\ conn = 0
        /\ raised = FALSE /\ lineFault = FALSE
        /\ got = 0 /\ polled = [rx |-> 0, tx |-> 0]

-----------------------------------------------------------------------------
(* The UI thread *)

\* tio_native_send, tio_native_line and tio_native_pulse; a call refused
\* changes nothing.
Accept(kind, size) ==
    /\ ui = "live" /\ Len(accepted) < MaxCommands
    /\ connected
    /\ IF kind = "data" THEN sending + size <= SendLimit ELSE sending < SendLimit
    /\ LET c == [kind |-> kind, size |-> size, conn |-> conn]
       IN  accepted' = Append(accepted, c)
    /\ commands' = Append(commands, Len(accepted'))
    /\ sending' = sending + (IF kind = "data" THEN size ELSE 1)
    /\ UNCHANGED <<reconnect, auto, ui, stop, connected, queued, events, local,
                   wire, conn, raised, lineFault, got, polled>>

Send(size) == Accept("data", size)
LineOrPulse == Accept("line", 0) \/ Accept("pulse", 0)

\* tio_native_poll
Poll == /\ ui \in {"live", "finished"}
        /\ events # <<>>
        /\ LET e == Head(events)
           IN  /\ queued' = queued - e.size
               /\ polled' = CASE e.kind = "rx" -> [polled EXCEPT !.rx = @ + e.size]
                              [] e.kind = "tx" -> [polled EXCEPT !.tx = @ + e.size]
                              [] OTHER -> polled
        /\ events' = Tail(events)
        /\ UNCHANGED <<reconnect, auto, ui, stop, connected, sending, commands, local,
                       accepted, wire, conn, raised, lineFault, got>>

\* tio_native_finish: the thread is stopped and joined.
Finish == /\ ui = "live"
          /\ stop' = TRUE
          /\ ui' = "joining"
          /\ UNCHANGED <<reconnect, auto, connected, queued, sending, events, commands,
                         local, history>>

Join == /\ ui = "joining"
        /\ pc = "ended"
        /\ ui' = "finished"
        /\ UNCHANGED <<reconnect, auto, shared, local, history>>

\* tio_native_stop, once the worker is joined: what is left is dropped.
Destroy == /\ ui = "finished"
           /\ ui' = "destroyed"
           /\ commands' = <<>> /\ sending' = 0
           /\ events' = <<>> /\ queued' = 0
           /\ polled' = [rx |-> polled.rx + BytesIn({"rx"}),
                         tx |-> polled.tx + BytesIn({"tx"})]
           /\ UNCHANGED <<reconnect, auto, stop, connected, local,
                          accepted, wire, conn, raised, lineFault, got>>
-----------------------------------------------------------------------------
(* The worker: finding and opening the port *)

\* The outer loop: stop, or another attempt once a second has passed.
Retry == /\ pc = "retry"
         /\ \/ stop /\ Goto("done")
            \/ ~stop /\ Len(events) < MaxEvents /\ conn < MaxConns /\ Goto("select")
         /\ UNCHANGED <<reconnect, auto, ui, shared, pending, offset, due, overflow,
                        history>>

\* select_device() finds none: the worker ends unless it is to wait for one.
SelectFails == /\ pc = "select"
               /\ Status(FALSE)
               /\ Goto(IF reconnect \/ auto THEN "retry" ELSE "done")
               /\ UNCHANGED <<reconnect, auto, ui, stop, queued, sending, commands,
                              pending, offset, due, overflow, history>>

Select == /\ pc = "select"
          /\ auto' = FALSE
          /\ Goto("open")
          /\ UNCHANGED <<reconnect, ui, shared, pending, offset, due, overflow, history>>

\* open_port(), or setting the lines' defaults, fails.
OpenFails == /\ pc = "open"
             /\ Status(FALSE)
             /\ Goto(IF reconnect THEN "retry" ELSE "done")
             /\ UNCHANGED <<reconnect, auto, ui, stop, queued, sending, commands,
                            pending, offset, due, overflow, history>>

Open == /\ pc = "open"
        /\ conn' = conn + 1
        /\ Status(TRUE)
        /\ pending' = 0 /\ offset' = 0 /\ due' = FALSE /\ overflow' = FALSE
        /\ Goto("loop")
        /\ UNCHANGED <<reconnect, auto, ui, stop, queued, sending, commands,
                       accepted, wire, raised, lineFault, got, polled>>
-----------------------------------------------------------------------------
(* The worker: a turn of the inner loop *)

LeaveLoop == /\ Goto("leave")
             /\ UNCHANGED <<reconnect, auto, ui, shared, pending, offset, due, overflow,
                            history>>

Stopping == pc = "loop" /\ stop /\ LeaveLoop

ReadFails == pc = "loop" /\ ~stop /\ LeaveLoop

ReadNothingEvenStopped ==
    /\ pc = "loop"
    /\ Goto("take")
    /\ UNCHANGED <<reconnect, auto, ui, shared, pending, offset, due, overflow, history>>

ReadNothing == /\ pc = "loop" /\ ~stop
               /\ Goto("take")
               /\ UNCHANGED <<reconnect, auto, ui, shared, pending, offset, due,
                              overflow, history>>

Read(size) == /\ pc = "loop" /\ ~stop
              /\ got + size <= MaxRead
              /\ got' = got + size
              /\ Emit("rx", size)
              /\ Goto(IF overflow' THEN "leave" ELSE "take")
              /\ UNCHANGED <<reconnect, auto, ui, stop, connected, sending, commands,
                             pending, offset, due, accepted, wire, conn, raised,
                             lineFault, polled>>

\* The next command, unless one is under way.
Take == /\ pc = "take"
        /\ IF pending = 0 /\ commands # <<>>
           THEN /\ pending' = Head(commands) /\ commands' = Tail(commands)
                /\ offset' = 0 /\ due' = FALSE
           ELSE UNCHANGED <<pending, commands, offset, due>>
        /\ Goto(IF pending' = 0 THEN "loop" ELSE "run")
        /\ UNCHANGED <<reconnect, auto, ui, stop, connected, queued, sending, events,
                       overflow, history>>

\* A line change or a pulse is done, whether or not the system refused it.
Line == /\ pc = "run"
        /\ accepted[pending].kind = "line"
        /\ Status(TRUE) \/ UNCHANGED <<connected, events>>
        /\ Goto("complete")
        /\ UNCHANGED <<reconnect, auto, ui, stop, queued, sending, commands, pending,
                       offset, due, overflow, history>>

\* A pulse begins: its line is raised. If that is refused it ends at once.
PulseBegins == /\ pc = "run"
               /\ accepted[pending].kind = "pulse" /\ ~due
               /\ due' = TRUE
               /\ \/ raised' = TRUE /\ UNCHANGED <<connected, events>>
                  \/ Status(TRUE) /\ UNCHANGED raised
               /\ UNCHANGED <<reconnect, auto, ui, stop, queued, sending, commands, pc,
                              pending, offset, overflow, accepted, wire, conn,
                              lineFault, got, polled>>

\* Meanwhile the worker goes on reading. The same holds while an output delay
\* lasts, and when the port takes no byte before the write deadline.
Wait == /\ pc = "run"
        /\ accepted[pending].kind = "pulse" => due /\ raised
        /\ accepted[pending].kind # "line"
        /\ Goto("loop")
        /\ UNCHANGED <<reconnect, auto, ui, shared, pending, offset, due, overflow,
                       history>>

Lower == /\ raised' \in {raised, FALSE}
         /\ lineFault' = (lineFault \/ raised')

PulseEnds == /\ pc = "run"
             /\ accepted[pending].kind = "pulse" /\ due
             /\ Lower
             /\ Status(TRUE) \/ UNCHANGED <<connected, events>>
             /\ Goto("complete")
             /\ UNCHANGED <<reconnect, auto, ui, stop, queued, sending, commands, pending,
                            offset, due, overflow, accepted, wire, conn, got, polled>>

\* write_port() fails, or the write deadline passed without a byte.
WriteFails == pc = "run" /\ accepted[pending].kind = "data" /\ LeaveLoop

\* The port takes some bytes; each chunk written is reported.
Write(count) ==
    /\ pc = "run"
    /\ accepted[pending].kind = "data"
    /\ count <= accepted[pending].size - offset
    /\ LET byte(i) == [id |-> pending, at |-> offset + i - 1, conn |-> conn]
       IN  wire' = wire \o [i \in 1..count |-> byte(i)]
    /\ Emit("tx", count)
    /\ offset' = IF overflow' THEN offset ELSE offset + count
    /\ Goto(IF overflow' THEN "leave"
            ELSE IF offset' = accepted[pending].size THEN "complete" ELSE "loop")
    /\ UNCHANGED <<reconnect, auto, ui, stop, connected, sending, commands, pending, due,
                   accepted, conn, raised, lineFault, got, polled>>

CompleteClearsCount ==
    /\ pc = "complete"
    /\ sending' = 0
    /\ pending' = 0
    /\ Goto("loop")
    /\ UNCHANGED <<reconnect, auto, ui, stop, connected, queued, events, commands,
                   offset, due, overflow, history>>

Complete == /\ pc = "complete"
            /\ sending' = sending - Weight(pending)
            /\ pending' = 0
            /\ Goto("loop")
            /\ UNCHANGED <<reconnect, auto, ui, stop, connected, queued, events, commands,
                           offset, due, overflow, history>>
-----------------------------------------------------------------------------
(* The worker: the connection ends *)

Leave == /\ pc = "leave"
         /\ Status(FALSE)
         /\ Goto("close")
         /\ UNCHANGED <<reconnect, auto, ui, stop, queued, sending, commands, pending,
                        offset, due, overflow, history>>

CloseRaised == /\ pc = "close"
               /\ pending' = 0
               /\ Goto("discard")
               /\ UNCHANGED <<reconnect, auto, ui, shared, offset, due, overflow, history>>

\* A pulse under way ends early; the port is closed, the command dropped.
Close == /\ pc = "close"
         /\ IF pending # 0 /\ due THEN Lower ELSE UNCHANGED <<raised, lineFault>>
         /\ pending' = 0
         /\ Goto("discard")
         /\ UNCHANGED <<reconnect, auto, ui, shared, offset, due, overflow, accepted,
                        wire, conn, got, polled>>

DiscardKeepsCommands ==
    /\ pc = "discard"
    /\ sending' = 0
    /\ Goto(IF ~reconnect \/ overflow THEN "done" ELSE "retry")
    /\ UNCHANGED <<reconnect, auto, ui, stop, connected, queued, events, commands,
                   pending, offset, due, overflow, history>>

\* discard_commands(), then another attempt or the end.
Discard == /\ pc = "discard"
           /\ commands' = <<>> /\ sending' = 0
           /\ Goto(IF ~reconnect \/ overflow THEN "done" ELSE "retry")
           /\ UNCHANGED <<reconnect, auto, ui, stop, connected, queued, events,
                          pending, offset, due, overflow, history>>

Done == /\ pc = "done"
        /\ events' = Append(events, Event("done", 0))
        /\ Goto("ended")
        /\ UNCHANGED <<reconnect, auto, ui, stop, connected, queued, sending, commands,
                       pending, offset, due, overflow, history>>

Connecting == Retry \/ SelectFails \/ Select \/ OpenFails \/ Open
Looping == \/ Stopping \/ ReadFails \/ ReadNothing \/ \E size \in 1..Chunk : Read(size)
           \/ Take \/ Line \/ PulseBegins \/ Wait \/ PulseEnds \/ WriteFails
           \/ \E count \in 1..Chunk : Write(count)
           \/ Complete
Leaving == Leave \/ Close \/ Discard \/ Done
Worker == Connecting \/ Looping \/ Leaving

UI == (\E size \in Sizes : Send(size)) \/ LineOrPulse \/ Poll \/ Finish \/ Join \/ Destroy

Next == Worker \/ UI
Spec == Init /\ [][Next]_vars

\* The worker thread keeps running, and a UI thread that joins it returns when
\* it ended. Nothing makes the UI poll, send or finish.
FairSpec == Spec /\ WF_vars(Worker) /\ WF_vars(Join)
-----------------------------------------------------------------------------
(* Properties *)

Ids == 1..Len(accepted)
WrittenWhole(id) ==
    \E i \in DOMAIN wire : wire[i].id = id /\ wire[i].at = accepted[id].size - 1

\* Every variable has its type.
TypeOK ==
    /\ {reconnect, auto, stop, connected, due, overflow, raised, lineFault} \subseteq BOOLEAN
    /\ ui \in {"live", "joining", "finished", "destroyed"}
    /\ pc \in {"retry", "select", "open", "loop", "take", "run", "complete", "leave",
              "close", "discard", "done", "ended"}
    /\ {queued, sending, got, conn, polled.rx, polled.tx} \subseteq Nat
    /\ \A i \in DOMAIN events :
           events[i].kind \in {"up", "down", "rx", "tx", "done"} /\ events[i].size \in 0..Chunk
    /\ \A i \in Ids : accepted[i].kind \in Kinds /\ accepted[i].conn \in 1..conn
    /\ \A i \in DOMAIN commands : commands[i] \in Ids
    /\ pending \in 0..Len(accepted) /\ offset \in 0..(IF pending = 0 THEN offset ELSE Weight(pending))
    /\ \A i \in DOMAIN wire : wire[i].id \in Ids

\* "Bytes are never replayed after reconnect" (native_serial.h): every byte on a
\* wire was accepted for the connection it was written to, and is written once,
\* in the order of acceptance and without gaps. Nor will it be: what the worker may
\* still send belongs to the connection that is up, since a queue of the last
\* connection is gone before the next one opens.
NeverReplayed ==
    /\ \A i \in DOMAIN wire :
           /\ wire[i].conn = accepted[wire[i].id].conn
           /\ \A id \in 1..(wire[i].id - 1) :
                  accepted[id].kind = "data" /\ accepted[id].conn = wire[i].conn
                      => WrittenWhole(id)
    /\ \A i \in 1..(Len(wire) - 1) :
           \/ wire[i + 1].id = wire[i].id /\ wire[i + 1].at = wire[i].at + 1
           \/ wire[i + 1].id > wire[i].id /\ wire[i + 1].at = 0
    /\ connected => \A i \in DOMAIN commands : accepted[commands[i]].conn = conn

\* "Worker queue drained; safe to advance a sequence" (tio_native_idle): when it
\* says so, every byte accepted on this connection is on the wire and reported.
IdleMeansDrained ==
    connected /\ sending = 0 =>
        /\ \A id \in Ids : accepted[id].kind = "data" /\ accepted[id].conn = conn
                              => WrittenWhole(id)
        /\ polled.tx + BytesIn({"tx"}) = Len(wire)

\* The counters that bound the queues stay exact through writes in chunks,
\* failed connections and discarded commands, and stay within the bounds.
\* "Disconnected to avoid silently losing data": a byte that was read or written
\* and that no event reports ends the session, with no other connection.
CountersExact ==
    /\ TypeOK
    /\ queued = BytesIn({"rx", "tx"}) /\ queued <= QueueLimit
    /\ pc # "discard" =>
          sending = WeightOf(commands) + (IF pending = 0 THEN 0 ELSE Weight(pending))
    /\ sending <= SendLimit
    /\ got # polled.rx + BytesIn({"rx"}) \/ Len(wire) # polled.tx + BytesIn({"tx"}) =>
          pc \in {"leave", "close", "discard", "done", "ended"}

\* A pulse never leaves its line raised when its command is gone, whichever way
\* the connection ended, unless the system refused to lower it.
PulsedLineLowered ==
    raised /\ ~lineFault => pending # 0 /\ accepted[pending].kind = "pulse" /\ due

\* tio_native_finish, which joins the worker on the UI thread, returns.
FinishReturns == ui = "joining" ~> ui = "finished"
=============================================================================
