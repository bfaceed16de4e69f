--------------------------- MODULE NativeSerialProofs ---------------------------
(***************************************************************************)
(* Proofs about NativeSerial, for queues, payloads and histories of any    *)
(* size. The invariant follows the way of a command: accepted for the      *)
(* connection that is up, in the queue, taken, on the wire, done.          *)
(***************************************************************************)
EXTENDS NativeSerial, SequenceSums

Up == {"loop", "take", "run", "complete"}
EventKinds == {"up", "down", "rx", "tx", "done"}
Labels == {"retry", "select", "open", "loop", "take", "run", "complete", "leave",
           "close", "discard", "done", "ended"}
EventRecord == {e \in [kind : EventKinds, size : 0..Chunk] :
                   e.kind \in {"rx", "tx"} \/ e.size = 0}
Command == [kind : Kinds, size : Nat, conn : Nat]
WireByte == [id : Nat, at : Nat, conn : Nat]

Typed ==
    /\ reconnect \in BOOLEAN /\ auto \in BOOLEAN /\ stop \in BOOLEAN /\ connected \in BOOLEAN
    /\ due \in BOOLEAN /\ overflow \in BOOLEAN /\ raised \in BOOLEAN /\ lineFault \in BOOLEAN
    /\ ui \in {"live", "joining", "finished", "destroyed"}
    /\ pc \in Labels
    /\ queued \in Nat /\ sending \in Nat /\ got \in Nat /\ conn \in Nat
    /\ pending \in Nat /\ offset \in Nat
    /\ polled \in [rx : Nat, tx : Nat]
    /\ events \in Seq(EventRecord)
    /\ accepted \in Seq(Command)
    /\ commands \in Seq(Nat)
    /\ wire \in Seq(WireByte)

\* What has an end is where it belongs: a command is accepted for a connection that
\* was made, and what the queue, the taken command, the flags and the UI thread may
\* be at each place of the worker.
PhaseInv ==
    /\ \A i \in Ids : accepted[i].conn \in 1..conn
    /\ \A i \in Ids : accepted[i].kind = "data" => accepted[i].size > 0
    /\ connected <=> pc \in Up \cup {"leave"}
    /\ connected => conn > 0
    /\ pc \in {"retry", "select", "open", "done", "ended"} =>
           commands = <<>> /\ sending = 0
    /\ pc \in {"retry", "select", "open", "discard", "done", "ended"} => pending = 0
    /\ pc \in {"run", "complete"} => pending # 0
    /\ pc = "complete" /\ accepted[pending].kind = "data" =>
           offset = accepted[pending].size
    /\ overflow => pc \in {"leave", "close", "discard", "done", "ended"}
    /\ ui \in {"finished", "destroyed"} => pc = "ended"

\* How many commands left the queue.
Taken == Len(accepted) - Len(commands)

\* The queue holds the last commands accepted, all of this connection; the one
\* under way came before them.
QueueInv ==
    /\ Len(commands) <= Len(accepted)
    /\ \A i \in DOMAIN commands : commands[i] = Taken + i
    /\ \A i \in DOMAIN commands : accepted[commands[i]].conn = conn
    /\ pending # 0 => /\ pending = Taken
                      /\ accepted[pending].conn = conn
                      /\ offset <= Weight(pending)

\* What the worker is done with on this connection is on the wire.
DoneInv ==
    connected => \A id \in Ids :
        /\ accepted[id].kind = "data" /\ accepted[id].conn = conn
        /\ id <= Taken /\ id # pending
        => WrittenWhole(id)

\* The first two parts of NeverReplayed, and what they need of the next write: it
\* continues the last byte written, or begins after all that was written.
OnOwnWire == \A i \in DOMAIN wire :
    /\ wire[i].conn = accepted[wire[i].id].conn
    /\ \A id \in 1..(wire[i].id - 1) :
           accepted[id].kind = "data" /\ accepted[id].conn = wire[i].conn
               => WrittenWhole(id)
InOrder == \A i \in 1..(Len(wire) - 1) :
    \/ wire[i + 1].id = wire[i].id /\ wire[i + 1].at = wire[i].at + 1
    \/ wire[i + 1].id > wire[i].id /\ wire[i + 1].at = 0
Continues ==
    IF offset = 0 THEN \A i \in DOMAIN wire : wire[i].id < pending
    ELSE /\ Len(wire) > 0
         /\ wire[Len(wire)].id = pending
         /\ wire[Len(wire)].at = offset - 1
WireInv ==
    /\ \A i \in DOMAIN wire : wire[i].id \in 1..Taken
    /\ OnOwnWire
    /\ InOrder
    /\ pc \in Up /\ pending # 0 /\ accepted[pending].kind = "data" => Continues

\* What was read or written is reported, polled, or has ended the session.
StreamInv ==
    /\ queued = BytesIn({"rx", "tx"}) /\ queued <= QueueLimit
    /\ got = polled.rx + BytesIn({"rx"}) \/ overflow
    /\ \/ Len(wire) = polled.tx + BytesIn({"tx"})
       \/ overflow /\ (connected => pending # 0)

SendInv ==
    /\ pc # "discard" =>
          sending = WeightOf(commands) + (IF pending = 0 THEN 0 ELSE Weight(pending))
    /\ sending <= SendLimit

PulseInv ==
    /\ PulsedLineLowered
    /\ pc = "complete" /\ raised => lineFault

IInv == /\ Typed /\ PhaseInv /\ QueueInv /\ DoneInv /\ WireInv
        /\ StreamInv /\ SendInv /\ PulseInv

-----------------------------------------------------------------------------
(* Sums over the queues *)

\* The fold that SumOf is, as a total.
LEMMA SumIsTotal ==
    ASSUME NEW s, NEW n \in Nat, DOMAIN s = 1..n
    PROVE  SumOf(s) = Total(s, n)
BY FoldIsTotal DEF SumOf

\* Nothing weighs nothing.
LEMMA SumOfNone == ASSUME NEW s, DOMAIN s = {} PROVE SumOf(s) = 0
<1>1. DOMAIN s = 1..0
      OBVIOUS
<1> QED BY <1>1, SumIsTotal, TotalNone

\* An element at the end adds itself.
LEMMA SumAppended ==
    ASSUME NEW n \in Nat, NEW s, DOMAIN s = 1..n, NEW t, DOMAIN t = 1..(n + 1),
           Agree(s, t, n)
    PROVE  SumOf(t) = SumOf(s) + t[n + 1]
<1>1. SumOf(t) = Total(t, n + 1) /\ SumOf(s) = Total(s, n)
      BY SumIsTotal
<1>2. Total(s, n) = Total(t, n)
      BY TotalSame
<1> QED BY <1>1, <1>2, TotalNext

\* The first element, and the rest.
LEMMA SumFirst ==
    ASSUME NEW n \in Nat, NEW t, DOMAIN t = 1..(n + 1), NEW s, DOMAIN s = 1..n,
           \A i \in 1..(n + 1) : t[i] \in Nat, \A i \in 1..n : s[i] = t[i + 1]
    PROVE  SumOf(t) = t[1] + SumOf(s)
<1>1. SumOf(t) = Total(t, n + 1) /\ SumOf(s) = Total(s, n)
      BY SumIsTotal
<1> QED BY <1>1, TotalFirst

\* The sum of natural numbers is one.
LEMMA SumNat ==
    ASSUME NEW n \in Nat, NEW s, DOMAIN s = 1..n, \A i \in 1..n : s[i] \in Nat
    PROVE  SumOf(s) \in Nat
BY SumIsTotal, TotalNat

\* What the provers need of the limits.
LEMMA Limits == /\ SendLimit \in Nat /\ QueueLimit \in Nat /\ Chunk \in Nat
                /\ 0 < SendLimit /\ 0 < QueueLimit /\ 0 < Chunk
                /\ \A size \in Sizes : size \in Nat /\ 0 < size
BY LimitAssumption

\* An event has a kind and a size.
LEMMA EventSizes ==
    ASSUME Typed
    PROVE  \A i \in DOMAIN events : events[i].kind \in EventKinds /\ events[i].size \in Nat
<1> SUFFICES ASSUME NEW i \in DOMAIN events
             PROVE  events[i].kind \in EventKinds /\ events[i].size \in Nat
    OBVIOUS
<1>1. events[i] \in EventRecord
      BY DEF Typed
<1> QED BY <1>1, Limits DEF EventRecord

\* The bytes of the events queued are a number.
LEMMA BytesNat == ASSUME Typed, NEW kinds PROVE BytesIn(kinds) \in Nat
<1> DEFINE s == [i \in DOMAIN events |-> IF events[i].kind \in kinds THEN events[i].size ELSE 0]
<1>1. Len(events) \in Nat /\ DOMAIN s = 1..Len(events)
      BY DEF Typed
<1>2. \A i \in 1..Len(events) : s[i] \in Nat
      BY EventSizes DEF Typed
<1> HIDE DEF s
<1>3. SumOf(s) \in Nat
      BY <1>1, <1>2, SumNat
<1> QED BY <1>3 DEF BytesIn, s

\* An event queued adds its bytes, if they are of the kinds that are counted.
LEMMA BytesAppended ==
    ASSUME Typed, NEW kinds, NEW e \in EventRecord, events' = Append(events, e)
    PROVE  BytesIn(kinds)' = BytesIn(kinds) + (IF e.kind \in kinds THEN e.size ELSE 0)
<1> DEFINE n == Len(events)
           s == [i \in DOMAIN events |-> IF events[i].kind \in kinds THEN events[i].size ELSE 0]
           t == [i \in DOMAIN events' |-> IF events'[i].kind \in kinds THEN events'[i].size ELSE 0]
<1>1. n \in Nat /\ DOMAIN s = 1..n /\ DOMAIN t = 1..(n + 1)
      BY DEF Typed
<1>2. Agree(s, t, n)
      BY DEF Typed, Agree
<1>3. t[n + 1] = IF e.kind \in kinds THEN e.size ELSE 0
      BY DEF Typed
<1> HIDE DEF n, s, t
<1>4. SumOf(t) = SumOf(s) + t[n + 1]
      BY <1>1, <1>2, SumAppended
<1>5. BytesIn(kinds) = SumOf(s) /\ BytesIn(kinds)' = SumOf(t)
      BY DEF BytesIn, s, t
<1> QED BY <1>3, <1>4, <1>5

\* An event polled takes its bytes with it.
LEMMA BytesPolled ==
    ASSUME Typed, NEW kinds, events # <<>>, events' = Tail(events)
    PROVE  BytesIn(kinds) = BytesIn(kinds)' +
               (IF Head(events).kind \in kinds THEN Head(events).size ELSE 0)
<1> DEFINE n == Len(events) - 1
           s == [i \in DOMAIN events' |-> IF events'[i].kind \in kinds THEN events'[i].size ELSE 0]
           t == [i \in DOMAIN events |-> IF events[i].kind \in kinds THEN events[i].size ELSE 0]
<1>1. n \in Nat /\ DOMAIN s = 1..n /\ DOMAIN t = 1..(n + 1)
      BY DEF Typed
<1>2. \A i \in 1..(n + 1) : t[i] \in Nat
      BY EventSizes DEF Typed
<1>3. \A i \in 1..n : s[i] = t[i + 1]
      BY DEF Typed
<1>4. t[1] = IF Head(events).kind \in kinds THEN Head(events).size ELSE 0
      BY DEF Typed
<1>5. \A i \in 1..n : s[i] \in Nat
  <2> HIDE DEF n, s, t
  <2>1. \A i \in 1..n : i + 1 \in 1..(n + 1)
        BY <1>1
  <2> QED BY <1>2, <1>3, <2>1
<1> HIDE DEF n, s, t
<1>6. SumOf(t) = t[1] + SumOf(s)
      BY <1>1, <1>2, <1>3, SumFirst
<1>7. BytesIn(kinds) = SumOf(t) /\ BytesIn(kinds)' = SumOf(s)
      BY DEF BytesIn, s, t
<1>8. SumOf(s) \in Nat /\ t[1] \in Nat
      BY <1>1, <1>2, <1>5, SumNat
<1> QED BY <1>4, <1>6, <1>7, <1>8

\* The bytes stay with the events.
LEMMA BytesKept ==
    ASSUME NEW kinds, events' = events PROVE BytesIn(kinds)' = BytesIn(kinds)
BY DEF BytesIn

\* Every command has a weight, and data weighs more than nothing.
LEMMA WeightNat ==
    ASSUME Typed, PhaseInv, NEW id \in Ids
    PROVE  Weight(id) \in Nat /\ Weight(id) > 0
<1>1. accepted[id] \in Command
      BY DEF Typed, Ids
<1>2. accepted[id].kind = "data" => accepted[id].size > 0
      BY DEF PhaseInv
<1> QED BY <1>1, <1>2 DEF Weight, Command

\* The weight of the queue is a number, and nothing only when the queue is empty.
LEMMA QueueWeight ==
    ASSUME Typed, PhaseInv, \A i \in DOMAIN commands : commands[i] \in Ids
    PROVE  WeightOf(commands) \in Nat
<1> DEFINE s == [i \in DOMAIN commands |-> Weight(commands[i])]
<1>1. Len(commands) \in Nat /\ DOMAIN s = 1..Len(commands)
      BY DEF Typed
<1>2. \A i \in 1..Len(commands) : s[i] \in Nat
      BY <1>1, WeightNat
<1> HIDE DEF s
<1>3. SumOf(s) \in Nat
      BY <1>1, <1>2, SumNat
<1> QED BY <1>3 DEF WeightOf, s

\* An empty queue weighs nothing, another one something.
LEMMA QueueWeightZero ==
    ASSUME Typed, PhaseInv, \A i \in DOMAIN commands : commands[i] \in Ids
    PROVE  WeightOf(commands) = 0 <=> commands = <<>>
<1> DEFINE s == [i \in DOMAIN commands |-> Weight(commands[i])]
<1>1. CASE commands = <<>>
  <2>1. DOMAIN s = {}
        BY <1>1
  <2> HIDE DEF s
  <2>2. SumOf(s) = 0
        BY <2>1, SumOfNone
  <2> QED BY <1>1, <2>2 DEF WeightOf, s
<1>2. CASE commands # <<>>
  <2> DEFINE n == Len(commands) - 1
             r == [i \in 1..n |-> s[i + 1]]
  <2>1. n \in Nat /\ DOMAIN s = 1..(n + 1) /\ DOMAIN r = 1..n
        BY <1>2 DEF Typed
  <2>2. \A i \in 1..(n + 1) : s[i] \in Nat /\ s[i] > 0
        BY <2>1, WeightNat
  <2>3. \A i \in 1..n : r[i] = s[i + 1] /\ r[i] \in Nat
    <3>1. \A i \in 1..n : r[i] = s[i + 1] /\ i + 1 \in 1..(n + 1)
          BY <2>1
    <3> HIDE DEF n, s, r
    <3> QED BY <2>2, <3>1
  <2> HIDE DEF n, s, r
  <2>4. SumOf(r) \in Nat
        BY <2>1, <2>3, SumNat
  <2>5. SumOf(s) = s[1] + SumOf(r)
    <3>1. \A i \in 1..(n + 1) : s[i] \in Nat
          BY <2>2
    <3>2. \A i \in 1..n : r[i] = s[i + 1]
          BY <2>3
    <3> QED BY <2>1, <3>1, <3>2, SumFirst
  <2>6. s[1] \in Nat /\ s[1] > 0
        BY <2>1, <2>2
  <2>7. WeightOf(commands) = SumOf(s)
        BY DEF WeightOf, s
  <2> QED BY <1>2, <2>4, <2>5, <2>6, <2>7
<1> QED BY <1>1, <1>2

\* Once the queue was dropped it weighs nothing.
LEMMA NoneQueued == ASSUME commands' = <<>> PROVE WeightOf(commands)' = 0
<1> DEFINE s == [i \in DOMAIN commands' |-> Weight(commands[i])']
<1>1. DOMAIN s = {}
      OBVIOUS
<1> HIDE DEF s
<1>2. SumOf(s) = 0
      BY <1>1, SumOfNone
<1> QED BY <1>2 DEF WeightOf, s

\* A command accepted adds its weight to the queue's.
LEMMA WeightAccepted ==
    ASSUME Typed, PhaseInv, \A i \in DOMAIN commands : commands[i] \in Ids,
           NEW c \in Command, accepted' = Append(accepted, c),
           commands' = Append(commands, Len(accepted) + 1)
    PROVE  /\ WeightOf(commands)' = WeightOf(commands)
                                       + (IF c.kind = "data" THEN c.size ELSE 1)
           /\ \A id \in Ids : Weight(id)' = Weight(id)
<1> DEFINE n == Len(commands)
           s == [i \in DOMAIN commands |-> Weight(commands[i])]
           t == [i \in DOMAIN commands' |-> Weight(commands[i])']
<1>1. n \in Nat /\ DOMAIN s = 1..n /\ DOMAIN t = 1..(n + 1)
      BY DEF Typed
<1>2. \A id \in Ids : accepted'[id] = accepted[id]
      BY DEF Typed, Ids
<1>3. \A id \in Ids : Weight(id)' = Weight(id)
      BY <1>2 DEF Weight
<1>4. Agree(s, t, n)
  <2> SUFFICES ASSUME NEW i \in 1..n PROVE s[i] = t[i]
      BY DEF Agree
  <2>1. i \in DOMAIN commands /\ i \in DOMAIN commands' /\ commands'[i] = commands[i]
        BY DEF Typed
  <2>2. commands[i] \in Ids
        BY <2>1
  <2> QED BY <2>1, <2>2, <1>2 DEF Weight
<1>5. t[n + 1] = IF c.kind = "data" THEN c.size ELSE 1
  <2>1. commands'[n + 1] = Len(accepted) + 1 /\ n + 1 \in DOMAIN commands'
        BY DEF Typed
  <2>2. accepted'[Len(accepted) + 1] = c
        BY DEF Typed
  <2> QED BY <2>1, <2>2 DEF Weight
<1> HIDE DEF n, s, t
<1>6. SumOf(t) = SumOf(s) + t[n + 1]
      BY <1>1, <1>4, SumAppended
<1>7. WeightOf(commands) = SumOf(s) /\ WeightOf(commands)' = SumOf(t)
      BY DEF WeightOf, s, t
<1> QED BY <1>3, <1>5, <1>6, <1>7

\* A command taken leaves with its weight.
LEMMA WeightTaken ==
    ASSUME Typed, PhaseInv, \A i \in DOMAIN commands : commands[i] \in Ids,
           commands # <<>>, commands' = Tail(commands), accepted' = accepted
    PROVE  /\ WeightOf(commands) = Weight(Head(commands)) + WeightOf(commands)'
           /\ WeightOf(commands)' \in Nat
<1> DEFINE n == Len(commands) - 1
           t == [i \in DOMAIN commands |-> Weight(commands[i])]
           s == [i \in DOMAIN commands' |-> Weight(commands[i])']
<1>1. n \in Nat /\ DOMAIN s = 1..n /\ DOMAIN t = 1..(n + 1)
      BY DEF Typed
<1>2. \A i \in 1..(n + 1) : t[i] \in Nat
      BY <1>1, WeightNat
<1>3. \A i \in 1..n : s[i] = t[i + 1]
  <2> SUFFICES ASSUME NEW i \in 1..n PROVE s[i] = t[i + 1]
      OBVIOUS
  <2>1. i \in DOMAIN commands' /\ i + 1 \in DOMAIN commands /\ commands'[i] = commands[i + 1]
        BY DEF Typed
  <2> QED BY <2>1 DEF Weight
<1>4. t[1] = Weight(Head(commands))
      BY DEF Typed
<1>5. \A i \in 1..n : s[i] \in Nat
  <2> HIDE DEF n, s, t
  <2>1. \A i \in 1..n : i + 1 \in 1..(n + 1)
        BY <1>1
  <2> QED BY <1>2, <1>3, <2>1
<1> HIDE DEF n, s, t
<1>6. SumOf(t) = t[1] + SumOf(s)
      BY <1>1, <1>2, <1>3, SumFirst
<1>7. WeightOf(commands) = SumOf(t) /\ WeightOf(commands)' = SumOf(s)
      BY DEF WeightOf, s, t
<1>8. SumOf(s) \in Nat
      BY <1>1, <1>5, SumNat
<1> QED BY <1>4, <1>6, <1>7, <1>8

\* The queue's weight stays with the queue and the commands accepted.
LEMMA WeightKept ==
    ASSUME commands' = commands, accepted' = accepted
    PROVE  /\ WeightOf(commands)' = WeightOf(commands)
           /\ \A id : Weight(id)' = Weight(id)
BY DEF WeightOf, Weight

-----------------------------------------------------------------------------
(* Every step keeps the invariant *)

\* The session starts with nothing.
LEMMA InitIInv == Init => IInv
<1> SUFFICES ASSUME Init PROVE IInv
    OBVIOUS
<1> USE DEF Init
<1>1. Typed
  <2>1. /\ events \in Seq(EventRecord) /\ accepted \in Seq(Command)
        /\ commands \in Seq(Nat) /\ wire \in Seq(WireByte)
        OBVIOUS
  <2>2. polled \in [rx : Nat, tx : Nat]
        OBVIOUS
  <2> QED BY <2>1, <2>2 DEF Typed, Labels
<1>2. PhaseInv /\ QueueInv /\ DoneInv
      BY DEF PhaseInv, QueueInv, DoneInv, Ids, Up, Taken
<1>3. WireInv
      BY DEF WireInv, OnOwnWire, InOrder, Up
<1>4. StreamInv
  <2>1. \A kinds : BytesIn(kinds) = 0
    <3> TAKE kinds
    <3> DEFINE s == [i \in DOMAIN events |-> IF events[i].kind \in kinds THEN events[i].size ELSE 0]
    <3>1. DOMAIN s = {}
          OBVIOUS
    <3> HIDE DEF s
    <3>2. SumOf(s) = 0
          BY <3>1, SumOfNone
    <3> QED BY <3>2 DEF BytesIn, s
  <2> QED BY <2>1, Limits DEF StreamInv
<1>5. SendInv
  <2>1. WeightOf(commands) = 0
        BY <1>1, <1>2, QueueWeightZero
  <2> QED BY <2>1, Limits DEF SendInv
<1>6. PulseInv
      BY DEF PulseInv, PulsedLineLowered
<1> QED BY <1>1, <1>2, <1>3, <1>4, <1>5, <1>6 DEF IInv

\* The queue and what is under way are commands that were accepted.
LEMMA QueueIds ==
    ASSUME IInv
    PROVE  /\ Taken \in Nat /\ Taken <= Len(accepted) /\ Len(commands) \in Nat
           /\ \A i \in DOMAIN commands : commands[i] \in Ids
           /\ pending # 0 => pending \in Ids
BY DEF IInv, Typed, QueueInv, Taken, Ids

\* A step that touches neither commands nor bytes, and at most reports a status.
Quiet ==
    /\ UNCHANGED <<accepted, commands, wire, sending, conn, pending, offset, overflow,
                   queued, got, polled>>
    /\ connected' => connected
    /\ (pc = "discard" => pc' = pc) /\ (pc' \in Up => pc \in Up)
    /\ events' = events \/ \E kind \in {"up", "down", "done"} :
                              events' = Append(events, Event(kind, 0))

LEMMA QuietKeeps ==
    ASSUME IInv, Quiet
    PROVE  QueueInv' /\ DoneInv' /\ WireInv' /\ StreamInv' /\ SendInv'
<1> USE DEF Quiet
<1>1. WeightOf(commands)' = WeightOf(commands) /\ Weight(pending)' = Weight(pending)
      BY WeightKept
<1>2. \A kinds \in {{"rx", "tx"}, {"rx"}, {"tx"}} : BytesIn(kinds)' = BytesIn(kinds)
  <2> TAKE kinds \in {{"rx", "tx"}, {"rx"}, {"tx"}}
  <2>1. CASE events' = events
        BY <2>1, BytesKept
  <2>2. ASSUME NEW kind \in {"up", "down", "done"}, events' = Append(events, Event(kind, 0))
        PROVE  BytesIn(kinds)' = BytesIn(kinds)
    <3>1. Event(kind, 0) \in EventRecord /\ Event(kind, 0).kind \notin kinds
          BY Limits DEF Event, EventRecord, EventKinds
    <3>2. BytesIn(kinds)' = BytesIn(kinds) + 0
          BY <2>2, <3>1, BytesAppended DEF IInv
    <3>3. BytesIn(kinds) \in Nat
          BY BytesNat DEF IInv
    <3> QED BY <3>2, <3>3
  <2> QED BY <2>1, <2>2
<1>3. QueueInv'
      BY <1>1 DEF IInv, QueueInv, Taken
<1>4. DoneInv'
      BY DEF IInv, DoneInv, Taken, Ids, WrittenWhole
<1>5. WireInv'
      BY DEF IInv, WireInv, OnOwnWire, InOrder, Continues, Taken, WrittenWhole
<1>6. StreamInv'
      BY <1>2 DEF IInv, StreamInv
<1>7. SendInv'
      BY <1>1 DEF IInv, SendInv
<1> QED BY <1>3, <1>4, <1>5, <1>6, <1>7

\* The steps of the worker and of the UI thread that are quiet.
QuietSteps == \/ Retry \/ SelectFails \/ Select \/ OpenFails \/ Stopping \/ ReadFails
              \/ ReadNothing \/ Line \/ PulseBegins \/ Wait \/ PulseEnds \/ WriteFails
              \/ Leave \/ Done \/ Finish \/ Join

\* A status is an event.
LEMMA StatusTyped ==
    ASSUME Typed, NEW up \in BOOLEAN, Status(up)
    PROVE  /\ connected' = up /\ events' \in Seq(EventRecord)
           /\ \E kind \in {"up", "down", "done"} : events' = Append(events, Event(kind, 0))
<1>1. Event(IF up THEN "up" ELSE "down", 0) \in EventRecord
      BY Limits DEF Event, EventRecord, EventKinds
<1> QED BY <1>1 DEF Status, Typed

LEMMA QuietStepsKeep ==
    ASSUME IInv, QuietSteps
    PROVE  Quiet /\ Typed' /\ PhaseInv' /\ PulseInv'
<1> USE DEF shared, local, history, Goto, LeaveLoop, Ids, IInv, Quiet, Typed, PhaseInv,
        PulseInv, PulsedLineLowered, Up, Labels
<1>1. CASE Retry
      BY <1>1 DEF Retry
<1>2. CASE SelectFails
  <2>1. Status(FALSE)
        BY <1>2 DEF SelectFails
  <2> QED BY <1>2, <2>1, StatusTyped DEF SelectFails
<1>3. CASE Select
      BY <1>3 DEF Select
<1>4. CASE OpenFails
  <2>1. Status(FALSE)
        BY <1>4 DEF OpenFails
  <2> QED BY <1>4, <2>1, StatusTyped DEF OpenFails
<1>5. CASE Stopping
      BY <1>5 DEF Stopping
<1>6. CASE ReadFails
      BY <1>6 DEF ReadFails
<1>7. CASE ReadNothing
      BY <1>7 DEF ReadNothing
<1>8. CASE Line
  <2>1. CASE Status(TRUE)
        BY <1>8, <2>1, StatusTyped DEF Line
  <2>2. CASE UNCHANGED <<connected, events>>
        BY <1>8, <2>2 DEF Line
  <2> QED BY <1>8, <2>1, <2>2 DEF Line
<1>9. CASE PulseBegins
  <2>1. CASE raised' = TRUE /\ UNCHANGED <<connected, events>>
        BY <1>9, <2>1 DEF PulseBegins
  <2>2. CASE Status(TRUE) /\ UNCHANGED raised
        BY <1>9, <2>2, StatusTyped DEF PulseBegins
  <2> QED BY <1>9, <2>1, <2>2 DEF PulseBegins
<1>10. CASE Wait
      BY <1>10 DEF Wait
<1>11. CASE WriteFails
      BY <1>11 DEF WriteFails
<1>12. CASE PulseEnds
  <2>1. CASE Status(TRUE)
        BY <1>12, <2>1, StatusTyped DEF PulseEnds, Lower
  <2>2. CASE UNCHANGED <<connected, events>>
        BY <1>12, <2>2 DEF PulseEnds, Lower
  <2> QED BY <1>12, <2>1, <2>2 DEF PulseEnds
<1>13. CASE Leave
  <2>1. Status(FALSE)
        BY <1>13 DEF Leave
  <2> QED BY <1>13, <2>1, StatusTyped DEF Leave
<1>14. CASE Done
  <2>1. Event("done", 0) \in EventRecord
        BY Limits DEF Event, EventRecord, EventKinds
  <2>2. events' \in Seq(EventRecord)
        BY <1>14, <2>1 DEF Done, IInv, Typed
  <2> QED BY <1>14, <2>2 DEF Done
<1>15. CASE Finish
      BY <1>15 DEF Finish
<1>16. CASE Join
      BY <1>16 DEF Join
<1> QED BY <1>1, <1>2, <1>3, <1>4, <1>5, <1>8, <1>9, <1>10, <1>12, <1>13, <1>14, <1>15,
       <1>6, <1>7, <1>11, <1>16
        DEF QuietSteps

\* A connection begins with nothing to send: what was accepted was for the others.
LEMMA OpenKeeps == ASSUME IInv, Open PROVE IInv'
<1>1. /\ pc = "open" /\ Status(TRUE) /\ conn' = conn + 1 /\ pc' = "loop"
      /\ pending' = 0 /\ offset' = 0 /\ due' = FALSE /\ overflow' = FALSE
      /\ UNCHANGED <<reconnect, auto, ui, stop, queued, sending, commands,
                     accepted, wire, raised, lineFault, got, polled>>
      BY DEF Open, Goto
<1>2. Typed'
  <2>1. Typed /\ connected' = TRUE /\ events' \in Seq(EventRecord)
        BY <1>1, StatusTyped DEF IInv
  <2>2. connected' \in BOOLEAN /\ due' \in BOOLEAN /\ overflow' \in BOOLEAN
        BY <1>1, <2>1
  <2>3. conn' \in Nat /\ pending' \in Nat /\ offset' \in Nat
        BY <1>1, <2>1 DEF Typed
  <2>4. pc' \in Labels
        BY <1>1 DEF Labels
  <2> QED BY <1>1, <2>1, <2>2, <2>3, <2>4 DEF Typed
<1>3. /\ commands = <<>> /\ commands' = <<>> /\ sending = 0 /\ pending = 0
      /\ ~overflow /\ ~connected /\ connected' = TRUE
      BY <1>1, StatusTyped DEF IInv, PhaseInv, Up
<1>4. PhaseInv'
      BY <1>1, <1>2, <1>3 DEF IInv, Typed, PhaseInv, Up, Ids
<1>5. QueueInv'
      BY <1>1, <1>3 DEF IInv, Typed, QueueInv, Taken
<1>6. DoneInv'
      BY <1>1 DEF IInv, Typed, PhaseInv, DoneInv, Ids
<1>7. WireInv'
      BY <1>1 DEF IInv, WireInv, OnOwnWire, InOrder, Continues, Taken, WrittenWhole
<1>8. StreamInv'
  <2>1. PICK kind \in {"up", "down", "done"} : events' = Append(events, Event(kind, 0))
        BY <1>1, StatusTyped DEF IInv
  <2>2. Event(kind, 0) \in EventRecord
        BY Limits DEF Event, EventRecord, EventKinds
  <2>3. ASSUME NEW kinds \in {{"rx", "tx"}, {"rx"}, {"tx"}}
        PROVE  BytesIn(kinds)' = BytesIn(kinds)
    <3>1. BytesIn(kinds)' = BytesIn(kinds) + 0
          BY <2>1, <2>2, BytesAppended DEF IInv, Event
    <3> QED BY <3>1, BytesNat DEF IInv
  <2> QED BY <1>1, <1>3, <2>3 DEF IInv, StreamInv
<1>9. SendInv'
  <2>1. WeightOf(commands)' = WeightOf(commands)
        BY <1>1, WeightKept
  <2> QED BY <1>1, <1>3, <2>1 DEF IInv, SendInv
<1>10. PulseInv'
      BY <1>1, <1>3 DEF IInv, PulseInv, PulsedLineLowered
<1> QED BY <1>2, <1>4, <1>5, <1>6, <1>7, <1>8, <1>9, <1>10 DEF IInv

\* A command is accepted for the connection that is up, and queued last.
LEMMA AcceptKeeps ==
    ASSUME IInv, NEW kind \in Kinds, NEW size \in Nat, kind = "data" => size > 0,
           Accept(kind, size)
    PROVE  IInv'
<1> DEFINE c == [kind |-> kind, size |-> size, conn |-> conn]
           n == Len(accepted)
<1> USE DEF Accept, local
<1>1. c \in Command /\ n \in Nat
      BY DEF IInv, Typed, Command
<1>2. /\ accepted' = Append(accepted, c) /\ commands' = Append(commands, n + 1)
      /\ Len(accepted') = n + 1 /\ accepted'[n + 1] = c
      /\ \A id \in Ids : accepted'[id] = accepted[id]
      BY <1>1 DEF IInv, Typed, Ids
<1>3. Ids' = Ids \cup {n + 1} /\ n + 1 \notin Ids /\ Taken' = Taken
      BY <1>1, <1>2 DEF IInv, Typed, Ids, Taken
<1>4. /\ WeightOf(commands)' = WeightOf(commands) + (IF kind = "data" THEN size ELSE 1)
      /\ \A id \in Ids : Weight(id)' = Weight(id)
      BY <1>1, <1>2, QueueIds, WeightAccepted DEF IInv
<1>5. \A id \in Ids : WrittenWhole(id) => WrittenWhole(id)'
      BY <1>2 DEF WrittenWhole
<1>6. pending # 0 => pending \in Ids
      BY QueueIds
<1>7. Typed'
  <2>1. accepted' \in Seq(Command) /\ commands' \in Seq(Nat)
        BY <1>1, <1>2 DEF IInv, Typed
  <2>2. sending' \in Nat
        BY DEF IInv, Typed
  <2> QED BY <2>1, <2>2 DEF IInv, Typed
<1> HIDE DEF c, n
<1>8. PhaseInv'
  <2>1. connected /\ conn > 0 /\ conn \in Nat
        BY DEF IInv, PhaseInv, Typed
  <2>2. c.conn \in 1..conn /\ (c.kind = "data" => c.size > 0)
        BY <2>1 DEF c
  <2>3. \A i \in Ids : /\ accepted'[i].conn \in 1..conn
                       /\ accepted'[i].kind = "data" => accepted'[i].size > 0
        BY <1>2 DEF IInv, PhaseInv
  <2>6. \A i \in Ids' : /\ accepted'[i].conn \in 1..conn'
                        /\ accepted'[i].kind = "data" => accepted'[i].size > 0
        BY <1>2, <1>3, <2>2, <2>3
  <2>4. pc \in {"run", "complete"} => accepted'[pending] = accepted[pending]
        BY <1>2, <1>6 DEF IInv, PhaseInv
  <2>5. pc \in Up \cup {"leave"}
        BY <2>1 DEF IInv, PhaseInv
  <2> QED BY <2>1, <2>4, <2>5, <2>6 DEF IInv, PhaseInv, Up
<1>9. QueueInv'
  <2>1. Len(commands') = Len(commands) + 1 /\ Len(commands) \in Nat
        BY <1>2 DEF IInv, Typed
  <2>2. \A i \in DOMAIN commands' :
            \/ i \in DOMAIN commands /\ commands'[i] = commands[i]
            \/ i = Len(commands) + 1 /\ commands'[i] = n + 1
    <3>1. n + 1 \in Nat /\ commands \in Seq(Nat)
          BY <1>1 DEF IInv, Typed
    <3> QED BY <1>2, <3>1
  <2>3. n + 1 = Taken + (Len(commands) + 1)
        BY <1>1 DEF IInv, Typed, Taken, n
  <2>4. \A i \in DOMAIN commands' : commands'[i] = Taken' + i
        BY <1>3, <2>2, <2>3 DEF IInv, QueueInv
  <2>5. \A i \in DOMAIN commands' : accepted'[commands'[i]].conn = conn'
    <3> SUFFICES ASSUME NEW i \in DOMAIN commands'
                 PROVE  accepted'[commands'[i]].conn = conn'
        OBVIOUS
    <3>1. c.conn = conn /\ conn' = conn
          BY DEF c
    <3>2. CASE i \in DOMAIN commands /\ commands'[i] = commands[i]
          BY <1>2, <3>1, <3>2, QueueIds DEF IInv, QueueInv
    <3>3. CASE i = Len(commands) + 1 /\ commands'[i] = n + 1
          BY <1>2, <3>1, <3>3
    <3> QED BY <2>2, <3>2, <3>3
  <2>6. Len(commands') <= Len(accepted')
        BY <1>1, <1>2, <2>1 DEF IInv, QueueInv, n
  <2>7. pending' # 0 => /\ pending' = Taken'
                        /\ accepted'[pending'].conn = conn'
                        /\ offset' <= Weight(pending)'
        BY <1>2, <1>3, <1>4, <1>6 DEF IInv, QueueInv
  <2> QED BY <2>4, <2>5, <2>6, <2>7 DEF QueueInv
<1>10. DoneInv'
  <2>1. Taken < n + 1
        BY <1>1, QueueIds DEF n
  <2>2. ~ (n + 1 <= Taken)
        BY <2>1, <1>1, QueueIds
  <2> QED BY <1>2, <1>3, <1>5, <2>2 DEF IInv, DoneInv
<1>11. WireInv'
  <2>1. \A i \in DOMAIN wire : wire[i].id \in 1..Taken /\ wire[i].id \in Ids
        BY QueueIds DEF IInv, WireInv, Ids, Typed
  <2>2. \A i \in DOMAIN wire : \A id \in 1..(wire[i].id - 1) : id \in Ids
        BY <2>1 DEF Ids, IInv, Typed
  <2>3. OnOwnWire'
    <3> SUFFICES ASSUME NEW i \in DOMAIN wire
                 PROVE  /\ wire[i].conn = accepted'[wire[i].id].conn
                        /\ \A id \in 1..(wire[i].id - 1) :
                               accepted'[id].kind = "data" /\ accepted'[id].conn = wire[i].conn
                                   => WrittenWhole(id)'
        BY DEF OnOwnWire
    <3>1. wire[i].conn = accepted'[wire[i].id].conn
          BY <1>2, <2>1 DEF IInv, WireInv, OnOwnWire
    <3>2. ASSUME NEW id \in 1..(wire[i].id - 1), accepted'[id].kind = "data",
                 accepted'[id].conn = wire[i].conn
          PROVE  WrittenWhole(id)'
      <4>1. id \in Ids /\ accepted'[id] = accepted[id]
            BY <1>2, <2>2
      <4> QED BY <1>5, <3>2, <4>1 DEF IInv, WireInv, OnOwnWire
    <3> QED BY <3>1, <3>2
  <2>4. InOrder'
        BY DEF IInv, WireInv, InOrder
  <2>5. Continues' <=> Continues
        BY DEF Continues
  <2> QED BY <1>2, <1>3, <1>6, <2>1, <2>3, <2>4, <2>5 DEF IInv, WireInv
<1>12. StreamInv'
  <2>1. \A kinds : BytesIn(kinds)' = BytesIn(kinds)
        BY BytesKept
  <2> QED BY <2>1 DEF IInv, StreamInv
<1>13. SendInv'
  <2>1. WeightOf(commands) \in Nat
        BY QueueIds, QueueWeight DEF IInv
  <2>2. pending # 0 => Weight(pending)' = Weight(pending) /\ Weight(pending) \in Nat
        BY <1>4, <1>6, WeightNat DEF IInv
  <2>3. pc # "discard" /\ pc' = pc
        BY DEF IInv, PhaseInv, Up
  <2>4. sending' <= SendLimit
        BY Limits DEF IInv, Typed
  <2>5. sending = WeightOf(commands) + (IF pending = 0 THEN 0 ELSE Weight(pending))
        BY <2>3 DEF IInv, SendInv
  <2>6. pending' = pending /\ sending' = sending + (IF kind = "data" THEN size ELSE 1)
        OBVIOUS
  <2>7. sending' = WeightOf(commands)' + (IF pending' = 0 THEN 0 ELSE Weight(pending)')
        BY <1>4, <2>1, <2>2, <2>5, <2>6
  <2> QED BY <2>4, <2>7 DEF SendInv
<1>14. PulseInv'
  <2>1. pending # 0 => accepted'[pending] = accepted[pending]
        BY <1>2, <1>6
  <2> QED BY <2>1 DEF IInv, PulseInv, PulsedLineLowered
<1> QED BY <1>7, <1>8, <1>9, <1>10, <1>11, <1>12, <1>13, <1>14 DEF IInv

\* An event is polled; its bytes leave the queue.
LEMMA PollKeeps == ASSUME IInv, Poll PROVE IInv'
<1> DEFINE e == Head(events)
<1>1. /\ ui = "finished" => pc = "ended"
      /\ events # <<>> /\ events' = Tail(events) /\ queued' = queued - e.size
      /\ UNCHANGED <<reconnect, auto, ui, stop, connected, sending, commands, pc, pending,
                     offset, due, overflow, accepted, wire, conn, raised, lineFault, got>>
      /\ polled' = CASE e.kind = "rx" -> [polled EXCEPT !.rx = @ + e.size]
                     [] e.kind = "tx" -> [polled EXCEPT !.tx = @ + e.size]
                     [] OTHER -> polled
      BY DEF Poll, local, IInv, PhaseInv
<1>2. /\ e \in EventRecord /\ events' \in Seq(EventRecord)
      /\ e.size \in Nat /\ e.kind \in EventKinds /\ (e.kind \notin {"rx", "tx"} => e.size = 0)
  <2>1. e \in EventRecord /\ events' \in Seq(EventRecord)
        BY <1>1 DEF IInv, Typed
  <2> HIDE DEF e
  <2> QED BY <2>1, Limits DEF EventRecord
<1> HIDE DEF e
<1>3. \A kinds : BytesIn(kinds) = BytesIn(kinds)' + (IF e.kind \in kinds THEN e.size ELSE 0)
      BY <1>1, BytesPolled DEF IInv, e
<1>4. Typed' /\ \A kinds : BytesIn(kinds) \in Nat /\ BytesIn(kinds)' \in Nat
  <2>1. polled' \in [rx : Nat, tx : Nat]
    <3>1. polled \in [rx : Nat, tx : Nat]
          BY DEF IInv, Typed
    <3> QED BY <1>1, <1>2, <3>1
  <2>2. \A kinds : BytesIn(kinds) \in Nat
        BY BytesNat DEF IInv
  <2>3. queued' \in Int
        BY <1>1, <1>2 DEF IInv, Typed
  <2>4. (queued' \in Nat => Typed')
        BY <1>1, <1>2, <2>1 DEF IInv, Typed
  <2>5. \A kinds : BytesIn(kinds)' \in Nat
    <3> TAKE kinds
    <3> DEFINE s == [i \in DOMAIN events' |-> IF events'[i].kind \in kinds THEN events'[i].size ELSE 0]
               n == Len(events')
    <3>1. n \in Nat /\ DOMAIN s = 1..n
          BY <1>2
    <3>2. \A i \in 1..n : events'[i] \in EventRecord
          BY <1>2
    <3>3. \A r \in EventRecord : r.size \in Nat
          BY Limits DEF EventRecord
    <3>4. \A i \in 1..n : s[i] \in Nat
          BY <3>1, <3>2, <3>3
    <3> HIDE DEF s, n
    <3>5. SumOf(s) \in Nat
          BY <3>1, <3>4, SumNat
    <3> QED BY <3>5 DEF BytesIn, s
  <2>6. queued' \in Nat
        BY <1>1, <1>2, <1>3, <2>2, <2>5 DEF IInv, StreamInv, EventKinds
  <2> QED BY <2>2, <2>4, <2>5, <2>6
<1>5. PhaseInv' /\ PulseInv'
      BY <1>1 DEF IInv, PhaseInv, PulseInv, PulsedLineLowered, Ids
<1>6. QueueInv' /\ SendInv'
      BY <1>1, WeightKept DEF IInv, QueueInv, SendInv, Taken
<1>7. DoneInv'
      BY <1>1 DEF IInv, DoneInv, Taken, Ids, WrittenWhole
<1>8. WireInv'
      BY <1>1 DEF IInv, WireInv, OnOwnWire, InOrder, Continues, Taken, WrittenWhole
<1>9. StreamInv'
  <2>1. queued' = BytesIn({"rx", "tx"})' /\ queued' <= QueueLimit
    <3>1. queued = BytesIn({"rx", "tx"}) /\ queued <= QueueLimit /\ queued' = queued - e.size
          BY <1>1 DEF IInv, StreamInv
    <3>2. BytesIn({"rx", "tx"}) = BytesIn({"rx", "tx"})' + e.size
          BY <1>2, <1>3, <1>4
    <3>3. BytesIn({"rx", "tx"})' \in Nat
          BY <1>4
    <3> QED BY <1>2, <3>1, <3>2, <3>3, Limits
  <2>2. /\ polled.rx \in Nat /\ polled.tx \in Nat
        /\ polled'.rx = polled.rx + (IF e.kind \in {"rx"} THEN e.size ELSE 0)
        /\ polled'.tx = polled.tx + (IF e.kind \in {"tx"} THEN e.size ELSE 0)
        BY <1>1, <1>2 DEF IInv, Typed
  <2>3. polled'.rx + BytesIn({"rx"})' = polled.rx + BytesIn({"rx"})
        BY <1>2, <1>3, <1>4, <2>2
  <2>4. polled'.tx + BytesIn({"tx"})' = polled.tx + BytesIn({"tx"})
        BY <1>2, <1>3, <1>4, <2>2
  <2> QED BY <1>1, <2>1, <2>3, <2>4 DEF IInv, StreamInv
<1> QED BY <1>4, <1>5, <1>6, <1>7, <1>8, <1>9 DEF IInv

\* What is left is dropped once the worker has ended.
LEMMA DestroyKeeps == ASSUME IInv, Destroy PROVE IInv'
<1>1. /\ pc = "ended" /\ pending = 0 /\ ~connected
      /\ ui' = "destroyed" /\ commands' = <<>> /\ sending' = 0 /\ events' = <<>> /\ queued' = 0
      /\ polled' = [rx |-> polled.rx + BytesIn({"rx"}), tx |-> polled.tx + BytesIn({"tx"})]
      /\ UNCHANGED <<reconnect, auto, stop, connected, pc, pending, offset, due, overflow,
                     accepted, wire, conn, raised, lineFault, got>>
      BY DEF Destroy, local, IInv, PhaseInv, Up
<1>2. \A kinds : BytesIn(kinds)' = 0
  <2> TAKE kinds
  <2> DEFINE s == [i \in DOMAIN events' |-> IF events'[i].kind \in kinds THEN events'[i].size ELSE 0]
  <2>1. DOMAIN s = {}
        BY <1>1
  <2> HIDE DEF s
  <2>2. SumOf(s) = 0
        BY <2>1, SumOfNone
  <2> QED BY <2>2 DEF BytesIn, s
<1>3. \A kinds : BytesIn(kinds) \in Nat
      BY BytesNat DEF IInv
<1>4. Typed' /\ polled'.rx = polled.rx + BytesIn({"rx"}) /\ polled'.tx = polled.tx + BytesIn({"tx"})
  <2>1. polled' \in [rx : Nat, tx : Nat] /\ polled'.rx = polled.rx + BytesIn({"rx"})
        /\ polled'.tx = polled.tx + BytesIn({"tx"})
        BY <1>1, <1>3 DEF IInv, Typed
  <2>2. events' \in Seq(EventRecord) /\ commands' \in Seq(Nat)
        BY <1>1
  <2> QED BY <1>1, <2>1, <2>2 DEF IInv, Typed
<1>5. PhaseInv' /\ PulseInv'
      BY <1>1 DEF IInv, PhaseInv, PulseInv, PulsedLineLowered, Ids
<1>6. QueueInv'
      BY <1>1 DEF IInv, Typed, QueueInv, Taken
<1>7. DoneInv'
      BY <1>1 DEF DoneInv
<1>8. WireInv'
  <2>1. Taken' \in Nat /\ Taken <= Taken'
        BY <1>1, QueueIds DEF IInv, Typed, Taken
  <2>2. \A i \in DOMAIN wire : wire[i].id \in 1..Taken'
        BY <2>1, QueueIds DEF IInv, WireInv
  <2> QED BY <1>1, <2>2 DEF IInv, WireInv, OnOwnWire, InOrder, WrittenWhole, Up
<1>9. StreamInv'
      BY <1>1, <1>2, <1>3, <1>4, Limits DEF IInv, StreamInv, Typed
<1>10. SendInv'
      BY <1>1, NoneQueued, Limits DEF SendInv
<1> QED BY <1>4, <1>5, <1>6, <1>7, <1>8, <1>9, <1>10 DEF IInv

\* What an emission does to the events and their bytes: it reports them, or the
\* session is over.
LEMMA EmitCounts ==
    ASSUME IInv, NEW kind \in {"rx", "tx"}, NEW size \in 1..Chunk, Emit(kind, size)
    PROVE  /\ overflow' \in BOOLEAN /\ queued' \in Nat /\ events' \in Seq(EventRecord)
           /\ queued' = BytesIn({"rx", "tx"})' /\ queued' <= QueueLimit
           /\ \A kinds : BytesIn(kinds) \in Nat
           /\ overflow' => \A kinds : BytesIn(kinds)' = BytesIn(kinds)
           /\ ~overflow' => \A kinds : BytesIn(kinds)' = BytesIn(kinds)
                                          + (IF kind \in kinds THEN size ELSE 0)
<1> DEFINE e == Event(kind, size)
<1>1. e \in EventRecord /\ e.kind = kind /\ e.size = size /\ size \in Nat
      BY Limits DEF Event, EventRecord, EventKinds
<1>2. queued = BytesIn({"rx", "tx"}) /\ queued <= QueueLimit /\ queued \in Nat
      /\ events \in Seq(EventRecord)
      BY DEF IInv, StreamInv, Typed
<1>3. \A kinds : BytesIn(kinds) \in Nat
      BY BytesNat DEF IInv
<1>4. CASE Room(size)
  <2>1. ~overflow' /\ queued' = queued + size /\ events' = Append(events, e)
        BY <1>4 DEF Emit
  <2>2. queued' <= QueueLimit
        BY <1>4, <2>1 DEF Room
  <2> HIDE DEF e
  <2>3. \A kinds : BytesIn(kinds)' = BytesIn(kinds) + (IF kind \in kinds THEN size ELSE 0)
        BY <1>1, <2>1, BytesAppended DEF IInv
  <2>4. events' \in Seq(EventRecord)
        BY <1>1, <1>2, <2>1
  <2>5. overflow' \in BOOLEAN
        BY DEF Emit
  <2>6. queued' \in Nat
        BY <1>1, <1>2, <2>1
  <2>7. queued' = BytesIn({"rx", "tx"})'
        BY <1>2, <2>1, <2>3
  <2> QED BY <1>3, <2>1, <2>2, <2>3, <2>4, <2>5, <2>6, <2>7
<1>5. CASE ~Room(size)
  <2>1. overflow' = TRUE /\ queued' = queued /\ events' = events
        BY <1>5 DEF Emit
  <2>2. \A kinds : BytesIn(kinds)' = BytesIn(kinds)
        BY <2>1, BytesKept
  <2> QED BY <1>2, <1>3, <2>1, <2>2
<1> QED BY <1>4, <1>5

\* Bytes are read: reported to the UI, or too many for the queue.
LEMMA ReadKeeps == ASSUME IInv, NEW size \in 1..Chunk, Read(size) PROVE IInv'
<1>1. /\ pc = "loop" /\ ~overflow /\ connected /\ Emit("rx", size) /\ got' = got + size
      /\ pc' = IF overflow' THEN "leave" ELSE "take"
      /\ UNCHANGED <<reconnect, auto, ui, stop, connected, sending, commands, pending,
                     offset, due, accepted, wire, conn, raised, lineFault, polled>>
      BY DEF Read, Goto, IInv, PhaseInv, Up
<1>2. /\ overflow' \in BOOLEAN /\ queued' \in Nat /\ events' \in Seq(EventRecord)
      /\ queued' = BytesIn({"rx", "tx"})' /\ queued' <= QueueLimit
      /\ \A kinds : BytesIn(kinds) \in Nat
      /\ BytesIn({"tx"})' = BytesIn({"tx"})
      /\ ~overflow' => BytesIn({"rx"})' = BytesIn({"rx"}) + size
      BY <1>1, EmitCounts
<1>3. Typed'
  <2>1. got' \in Nat
        BY <1>1, Limits DEF IInv, Typed
  <2>2. pc' \in Labels
        BY <1>1 DEF Labels
  <2> QED BY <1>1, <1>2, <2>1, <2>2 DEF IInv, Typed
<1>4. PhaseInv'
      BY <1>1 DEF IInv, PhaseInv, Up, Ids
<1>5. QueueInv' /\ SendInv'
      BY <1>1, WeightKept DEF IInv, QueueInv, SendInv, Taken
<1>6. DoneInv'
      BY <1>1 DEF IInv, DoneInv, Taken, Ids, WrittenWhole
<1>7. WireInv'
      BY <1>1 DEF IInv, WireInv, OnOwnWire, InOrder, Continues, Taken, WrittenWhole, Up
<1>8. StreamInv'
  <2>1. got = polled.rx + BytesIn({"rx"}) /\ Len(wire) = polled.tx + BytesIn({"tx"})
        BY <1>1 DEF IInv, StreamInv
  <2>2. polled.rx \in Nat /\ polled.tx \in Nat /\ size \in Nat
        BY DEF IInv, Typed
  <2>3. got' = polled'.rx + BytesIn({"rx"})' \/ overflow'
        BY <1>1, <1>2, <2>1, <2>2
  <2>4. Len(wire') = polled'.tx + BytesIn({"tx"})'
        BY <1>1, <1>2, <2>1
  <2> QED BY <1>2, <2>3, <2>4 DEF StreamInv
<1>9. PulseInv'
      BY <1>1 DEF IInv, PulseInv, PulsedLineLowered
<1> QED BY <1>3, <1>4, <1>5, <1>6, <1>7, <1>8, <1>9 DEF IInv

\* The next command is taken, or the one under way goes on.
LEMMA TakeKeeps == ASSUME IInv, Take PROVE IInv'
<1>1. /\ pc = "take" /\ connected /\ ~overflow
      /\ UNCHANGED <<reconnect, auto, ui, stop, connected, queued, sending, events,
                     overflow, accepted, wire, conn, raised, lineFault, got, polled>>
      /\ pc' = IF pending' = 0 THEN "loop" ELSE "run"
      BY DEF Take, Goto, history, IInv, PhaseInv, Up
<1>2. StreamInv'
  <2>1. \A kinds : BytesIn(kinds)' = BytesIn(kinds)
        BY <1>1, BytesKept
  <2> QED BY <1>1, <2>1 DEF IInv, StreamInv
<1>3. CASE ~(pending = 0 /\ commands # <<>>)
  <2>1. UNCHANGED <<pending, commands, offset, due>>
        BY <1>3 DEF Take
  <2>2. Typed' /\ PhaseInv' /\ PulseInv'
        BY <1>1, <2>1 DEF IInv, Typed, PhaseInv, PulseInv, PulsedLineLowered, Ids, Up, Labels
  <2>3. QueueInv' /\ SendInv'
        BY <1>1, <2>1, WeightKept DEF IInv, QueueInv, SendInv, Taken
  <2>4. DoneInv'
        BY <1>1, <2>1 DEF IInv, DoneInv, Taken, Ids, WrittenWhole
  <2>5. WireInv'
        BY <1>1, <2>1 DEF IInv, WireInv, OnOwnWire, InOrder, Continues, Taken, WrittenWhole, Up
  <2> QED BY <1>2, <2>2, <2>3, <2>4, <2>5 DEF IInv
<1>4. CASE pending = 0 /\ commands # <<>>
  <2>1. /\ pending' = Head(commands) /\ commands' = Tail(commands) /\ offset' = 0 /\ due' = FALSE
        BY <1>4 DEF Take
  <2>2. /\ commands \in Seq(Nat) /\ Len(commands) > 0 /\ Len(accepted) \in Nat
        /\ pending' = commands[1] /\ 1 \in DOMAIN commands
        /\ commands' \in Seq(Nat) /\ Len(commands') = Len(commands) - 1
        /\ \A i \in DOMAIN commands' : i + 1 \in DOMAIN commands /\ commands'[i] = commands[i + 1]
        BY <1>4, <2>1 DEF IInv, Typed
  <2>3. Taken \in Nat /\ Taken' = Taken + 1 /\ Taken' <= Len(accepted)
        BY <1>1, <2>2, QueueIds DEF Taken
  <2>4. pending' = Taken' /\ pending' \in Ids /\ accepted[pending'].conn = conn
        BY <2>2, <2>3, QueueIds DEF IInv, QueueInv
  <2>5. pc' = "run"
        BY <1>1, <2>3, <2>4
  <2>6. Typed'
    <3>1. pending' \in Nat /\ offset' \in Nat
          BY <2>1, <2>3, <2>4
    <3>2. pc' \in Labels /\ due' \in BOOLEAN
          BY <2>1, <2>5 DEF Labels
    <3> QED BY <1>1, <2>2, <3>1, <3>2 DEF IInv, Typed
  <2>7. PhaseInv'
        BY <1>1, <2>3, <2>4, <2>5 DEF IInv, PhaseInv, Ids, Up
  <2>8. QueueInv'
    <3>1. \A i \in DOMAIN commands' : commands'[i] = Taken' + i /\ accepted[commands'[i]].conn = conn
      <4> TAKE i \in DOMAIN commands'
      <4>1. i \in Nat /\ i + 1 \in DOMAIN commands /\ commands'[i] = commands[i + 1]
            BY <2>2
      <4>2. commands[i + 1] = Taken + (i + 1) /\ accepted[commands[i + 1]].conn = conn
            BY <4>1 DEF IInv, QueueInv
      <4> QED BY <2>3, <4>1, <4>2
    <3>2. Weight(pending') \in Nat
          BY <2>4, WeightNat DEF IInv
    <3>3. Weight(pending)' = Weight(pending')
          BY <1>1 DEF Weight
    <3>4. Len(commands') <= Len(accepted')
          BY <1>1, <2>2 DEF IInv, QueueInv
    <3> QED BY <1>1, <2>1, <2>4, <3>1, <3>2, <3>3, <3>4 DEF QueueInv
  <2>9. DoneInv'
    <3> SUFFICES ASSUME NEW id \in Ids, accepted[id].kind = "data", accepted[id].conn = conn,
                        id <= Taken', id # pending'
                 PROVE  WrittenWhole(id)
        BY <1>1 DEF DoneInv, Ids, WrittenWhole
    <3>1. id <= Taken /\ id # pending
          BY <1>4, <2>3, <2>4 DEF Ids
    <3> QED BY <1>1, <3>1 DEF IInv, DoneInv
  <2>10. WireInv'
    <3>1. \A i \in DOMAIN wire : wire[i].id \in 1..Taken /\ wire[i].id \in 1..Taken'
                                /\ wire[i].id < pending'
          BY <2>3, <2>4 DEF IInv, WireInv
    <3>2. OnOwnWire' /\ InOrder'
          BY <1>1 DEF IInv, WireInv, OnOwnWire, InOrder, WrittenWhole
    <3>3. Continues'
          BY <1>1, <2>1, <3>1 DEF Continues
    <3> QED BY <1>1, <3>1, <3>2, <3>3 DEF WireInv
  <2>11. SendInv'
    <3>1. WeightOf(commands) = Weight(pending') + WeightOf(commands)' /\ WeightOf(commands)' \in Nat
          BY <1>1, <1>4, <2>1, QueueIds, WeightTaken DEF IInv
    <3>2. Weight(pending)' = Weight(pending') /\ Weight(pending') \in Nat
          BY <1>1, <2>4, WeightNat DEF Weight, IInv
    <3>3. sending = WeightOf(commands) + 0 /\ sending <= SendLimit
          BY <1>1, <1>4 DEF IInv, SendInv
    <3> QED BY <1>1, <2>3, <2>4, <3>1, <3>2, <3>3 DEF SendInv
  <2>12. PulseInv'
        BY <1>1, <1>4, <2>5 DEF IInv, PulseInv, PulsedLineLowered
  <2> QED BY <1>2, <2>6, <2>7, <2>8, <2>9, <2>10, <2>11, <2>12 DEF IInv
<1> QED BY <1>3, <1>4

\* A command is done: all its bytes are on the wire, its weight leaves the count.
LEMMA CompleteKeeps == ASSUME IInv, Complete PROVE IInv'
<1>1. /\ pc = "complete" /\ connected /\ ~overflow /\ pending # 0 /\ pending \in Ids
      /\ sending' = sending - Weight(pending) /\ pending' = 0 /\ pc' = "loop"
      /\ UNCHANGED <<reconnect, auto, ui, stop, connected, queued, events, commands, offset,
                     due, overflow, accepted, wire, conn, raised, lineFault, got, polled>>
      BY QueueIds DEF Complete, Goto, history, IInv, PhaseInv, Up
<1>2. /\ WeightOf(commands) \in Nat /\ WeightOf(commands)' = WeightOf(commands)
      /\ Weight(pending) \in Nat
      BY <1>1, QueueIds, QueueWeight, WeightNat, WeightKept DEF IInv
<1>3. sending = WeightOf(commands) + Weight(pending) /\ sending <= SendLimit
      BY <1>1 DEF IInv, SendInv
<1>4. Typed'
  <2>1. sending' \in Nat
        BY <1>1, <1>2, <1>3
  <2>2. pc' \in Labels /\ pending' \in Nat
        BY <1>1 DEF Labels
  <2> QED BY <1>1, <2>1, <2>2 DEF IInv, Typed
<1>5. PhaseInv'
      BY <1>1 DEF IInv, PhaseInv, Up, Ids
<1>6. QueueInv'
      BY <1>1 DEF IInv, QueueInv, Taken
<1>7. DoneInv'
  <2> SUFFICES ASSUME NEW id \in Ids, accepted[id].kind = "data", accepted[id].conn = conn,
                      id <= Taken
               PROVE  WrittenWhole(id)
      BY <1>1 DEF DoneInv, Ids, WrittenWhole, Taken
  <2>1. CASE id # pending
        BY <1>1, <2>1 DEF IInv, DoneInv
  <2>2. CASE id = pending
    <3>1. offset = accepted[id].size /\ offset > 0
          BY <1>1, <2>2 DEF IInv, PhaseInv
    <3>2. Continues
          BY <1>1, <2>2 DEF IInv, WireInv, Up
    <3>3. Len(wire) \in DOMAIN wire
          BY <3>1, <3>2 DEF Continues, IInv, Typed
    <3> QED BY <2>2, <3>1, <3>2, <3>3 DEF Continues, WrittenWhole
  <2> QED BY <2>1, <2>2
<1>8. WireInv'
      BY <1>1 DEF IInv, WireInv, OnOwnWire, InOrder, Taken, WrittenWhole
<1>9. StreamInv'
  <2>1. \A kinds : BytesIn(kinds)' = BytesIn(kinds)
        BY <1>1, BytesKept
  <2> QED BY <1>1, <2>1 DEF IInv, StreamInv
<1>10. SendInv'
      BY <1>1, <1>2, <1>3, Limits DEF SendInv
<1>11. PulseInv'
      BY <1>1 DEF IInv, PulseInv, PulsedLineLowered
<1> QED BY <1>4, <1>5, <1>6, <1>7, <1>8, <1>9, <1>10, <1>11 DEF IInv

\* The port is closed; a pulse under way ends, the command taken is dropped.
LEMMA CloseKeeps == ASSUME IInv, Close PROVE IInv'
<1>1. /\ pc = "close" /\ ~connected /\ pending' = 0 /\ pc' = "discard"
      /\ raised' \in BOOLEAN /\ lineFault' \in BOOLEAN
      /\ UNCHANGED <<reconnect, auto, ui, stop, connected, queued, sending, events, commands,
                     offset, due, overflow, accepted, wire, conn, got, polled>>
      BY DEF Close, Goto, Lower, shared, IInv, Typed, PhaseInv, Up
<1>2. Typed'
      BY <1>1 DEF IInv, Typed, Labels
<1>3. PhaseInv'
      BY <1>1 DEF IInv, PhaseInv, Up, Ids
<1>4. QueueInv'
      BY <1>1 DEF IInv, QueueInv, Taken
<1>5. DoneInv'
      BY <1>1 DEF DoneInv
<1>6. WireInv'
      BY <1>1 DEF IInv, WireInv, OnOwnWire, InOrder, Taken, WrittenWhole
<1>7. StreamInv'
  <2>1. \A kinds : BytesIn(kinds)' = BytesIn(kinds)
        BY <1>1, BytesKept
  <2> QED BY <1>1, <2>1 DEF IInv, StreamInv
<1>8. SendInv'
      BY <1>1 DEF IInv, SendInv
<1>9. PulseInv'
  <2>1. CASE pending # 0 /\ due
        BY <1>1, <2>1 DEF Close, Lower, PulseInv, PulsedLineLowered
  <2>2. CASE ~(pending # 0 /\ due)
        BY <1>1, <2>2 DEF Close, IInv, PulseInv, PulsedLineLowered
  <2> QED BY <2>1, <2>2
<1> QED BY <1>2, <1>3, <1>4, <1>5, <1>6, <1>7, <1>8, <1>9 DEF IInv

\* The queue of the connection goes with it.
LEMMA DiscardKeeps == ASSUME IInv, Discard PROVE IInv'
<1>1. /\ pc = "discard" /\ ~connected /\ pending = 0 /\ commands' = <<>> /\ sending' = 0
      /\ pc' = IF ~reconnect \/ overflow THEN "done" ELSE "retry"
      /\ UNCHANGED <<reconnect, auto, ui, stop, connected, queued, events, pending, offset,
                     due, overflow, accepted, wire, conn, raised, lineFault, got, polled>>
      BY DEF Discard, Goto, history, IInv, PhaseInv, Up
<1>2. Typed'
  <2>1. commands' \in Seq(Nat) /\ pc' \in Labels
        BY <1>1 DEF Labels
  <2> QED BY <1>1, <2>1 DEF IInv, Typed
<1>3. PhaseInv'
      BY <1>1 DEF IInv, PhaseInv, Up, Ids
<1>4. QueueInv'
      BY <1>1 DEF IInv, Typed, QueueInv, Taken
<1>5. DoneInv'
      BY <1>1 DEF DoneInv
<1>6. WireInv'
  <2>1. Taken' \in Nat /\ Taken <= Taken'
        BY <1>1, QueueIds DEF IInv, Typed, Taken
  <2>2. \A i \in DOMAIN wire : wire[i].id \in 1..Taken'
        BY <2>1, QueueIds DEF IInv, WireInv
  <2> QED BY <1>1, <2>2 DEF IInv, WireInv, OnOwnWire, InOrder, WrittenWhole
<1>7. StreamInv'
  <2>1. \A kinds : BytesIn(kinds)' = BytesIn(kinds)
        BY <1>1, BytesKept
  <2> QED BY <1>1, <2>1 DEF IInv, StreamInv
<1>8. SendInv'
      BY <1>1, <1>2, <1>3, <1>4, NoneQueued, Limits DEF SendInv
<1>9. PulseInv'
      BY <1>1 DEF IInv, PulseInv, PulsedLineLowered
<1> QED BY <1>2, <1>3, <1>4, <1>5, <1>6, <1>7, <1>8, <1>9 DEF IInv

\* Bytes are written: the next ones of the command under way, after all that came
\* before; they are reported, or the session is over.
LEMMA WriteKeeps == ASSUME IInv, NEW count \in 1..Chunk, Write(count) PROVE IInv'
<1> DEFINE byte(i) == [id |-> pending, at |-> offset + i - 1, conn |-> conn]
           new == [i \in 1..count |-> byte(i)]
           n == Len(wire)
<1>1. /\ pc = "run" /\ connected /\ ~overflow /\ pending # 0 /\ pending \in Ids
      /\ accepted[pending].kind = "data" /\ count <= accepted[pending].size - offset
      /\ Emit("tx", count)
      /\ offset' = (IF overflow' THEN offset ELSE offset + count)
      /\ pc' = (IF overflow' THEN "leave"
                ELSE IF offset' = accepted[pending].size THEN "complete" ELSE "loop")
      /\ UNCHANGED <<reconnect, auto, ui, stop, connected, sending, commands, pending, due,
                     accepted, conn, raised, lineFault, got, polled>>
      BY QueueIds DEF Write, Goto, IInv, PhaseInv, Up
<1>2. wire' = wire \o new
      BY DEF Write
<1>3. /\ overflow' \in BOOLEAN /\ queued' \in Nat /\ events' \in Seq(EventRecord)
      /\ queued' = BytesIn({"rx", "tx"})' /\ queued' <= QueueLimit
      /\ \A kinds : BytesIn(kinds) \in Nat
      /\ ~overflow' => BytesIn({"rx"})' = BytesIn({"rx"})
      /\ ~overflow' => BytesIn({"tx"})' = BytesIn({"tx"}) + count
      BY <1>1, EmitCounts
<1>4. /\ count \in Nat /\ count >= 1 /\ offset \in Nat /\ offset' \in Nat
      /\ accepted[pending].size \in Nat /\ accepted[pending].size = Weight(pending)
      /\ pending \in Nat /\ conn \in Nat /\ pending = Taken /\ accepted[pending].conn = conn
  <2>1. count \in Nat /\ count >= 1 /\ offset \in Nat /\ pending \in Nat /\ conn \in Nat
        BY Limits DEF IInv, Typed
  <2>2. offset' \in Nat
        BY <1>1, <2>1
  <2>3. accepted[pending] \in Command
        BY <1>1 DEF IInv, Typed, Ids
  <2>4. accepted[pending].size \in Nat /\ accepted[pending].size = Weight(pending)
        BY <1>1, <2>3 DEF Command, Weight
  <2>5. pending = Taken /\ accepted[pending].conn = conn
        BY <1>1 DEF IInv, QueueInv
  <2> QED BY <2>1, <2>2, <2>4, <2>5
<1>5. /\ n \in Nat /\ DOMAIN wire = 1..n /\ wire' \in Seq(WireByte) /\ Len(wire') = n + count
      /\ DOMAIN wire' = 1..(n + count)
      /\ \A j \in 1..n : wire'[j] = wire[j]
      /\ \A j \in (n + 1)..(n + count) : wire'[j] = byte(j - n)
  <2>1. new \in Seq(WireByte) /\ Len(new) = count
    <3>1. \A i \in 1..count : byte(i) \in WireByte
          BY <1>4 DEF WireByte
    <3> QED BY <1>4, <3>1
  <2>2. wire \in Seq(WireByte)
        BY DEF IInv, Typed
  <2>3. \A i \in 1..count : new[i] = byte(i)
        OBVIOUS
  <2> HIDE DEF new, byte
  <2>4. /\ n \in Nat /\ DOMAIN wire = 1..n /\ wire' \in Seq(WireByte)
        /\ Len(wire') = n + count /\ DOMAIN wire' = 1..(n + count)
    <3>1. n \in Nat /\ DOMAIN wire = 1..n
          BY <2>2
    <3>2. wire' \in Seq(WireByte)
          BY <1>2, <2>1, <2>2
    <3>3. Len(wire') = n + count
          BY <1>2, <2>1, <2>2
    <3>4. DOMAIN wire' = 1..Len(wire')
          BY <3>2
    <3> QED BY <3>1, <3>2, <3>3, <3>4
  <2>5. \A j \in 1..n : wire'[j] = wire[j]
        BY <1>2, <1>4, <2>1, <2>2
  <2>6. ASSUME NEW j \in (n + 1)..(n + count) PROVE wire'[j] = byte(j - n)
    <3>1. wire'[j] = new[j - n] /\ j - n \in 1..count
          BY <1>2, <1>4, <2>1, <2>2
    <3> QED BY <2>3, <3>1
  <2> QED BY <2>4, <2>5, <2>6
<1>6. \A j \in (n + 1)..(n + count) : /\ wire'[j].id = pending /\ wire'[j].conn = conn
                                     /\ wire'[j].at = offset + (j - n) - 1
  <2> TAKE j \in (n + 1)..(n + count)
  <2>1. wire'[j] = byte(j - n)
        BY <1>5
  <2> HIDE DEF n, new
  <2> QED BY <2>1
<1> HIDE DEF byte, new, n
<1>7. \A id : WrittenWhole(id) => WrittenWhole(id)'
  <2>1. \A j \in 1..n : j \in DOMAIN wire'
        BY <1>4, <1>5
  <2> QED BY <1>1, <1>5, <2>1 DEF WrittenWhole
<1>8. Typed'
  <2>1. pc' \in Labels
        BY <1>1 DEF Labels
  <2> QED BY <1>1, <1>3, <1>4, <1>5, <2>1 DEF IInv, Typed
<1>9. PhaseInv'
      BY <1>1 DEF IInv, PhaseInv, Up, Ids
<1>10. QueueInv'
  <2>1. offset' <= Weight(pending)'
    <3>1. Weight(pending)' = Weight(pending) /\ offset <= Weight(pending)
          BY <1>1, WeightKept DEF IInv, QueueInv
    <3> QED BY <1>1, <1>4, <3>1
  <2> QED BY <1>1, <2>1 DEF IInv, QueueInv, Taken
<1>11. DoneInv'
      BY <1>1, <1>7 DEF IInv, DoneInv, Taken, Ids
<1>12. WireInv'
  <2>1. Continues
        BY <1>1 DEF IInv, WireInv, Up
  <2>2. \A j \in DOMAIN wire' : wire'[j].id \in 1..Taken'
    <3> SUFFICES ASSUME NEW j \in DOMAIN wire' PROVE wire'[j].id \in 1..Taken
        BY <1>1 DEF Taken
    <3>1. CASE j \in 1..n
          BY <1>5, <3>1 DEF IInv, WireInv
    <3>2. CASE j \in (n + 1)..(n + count)
          BY <1>1, <1>4, <1>6, <3>2
    <3> QED BY <1>4, <1>5, <3>1, <3>2
  <2>3. OnOwnWire'
    <3> SUFFICES ASSUME NEW j \in DOMAIN wire'
                 PROVE  /\ wire'[j].conn = accepted[wire'[j].id].conn
                        /\ \A id \in 1..(wire'[j].id - 1) :
                               accepted[id].kind = "data" /\ accepted[id].conn = wire'[j].conn
                                   => WrittenWhole(id)'
        BY <1>1 DEF OnOwnWire
    <3>1. CASE j \in 1..n
          BY <1>5, <1>7, <3>1 DEF IInv, WireInv, OnOwnWire
    <3>2. CASE j \in (n + 1)..(n + count)
      <4>1. wire'[j].id = pending /\ wire'[j].conn = conn
            BY <1>6, <3>2
      <4>2. ASSUME NEW id \in 1..(pending - 1), accepted[id].kind = "data",
                   accepted[id].conn = conn
            PROVE  WrittenWhole(id)'
        <5>1. id \in Ids /\ id <= Taken /\ id # pending
              BY <1>1, <1>4 DEF Ids
        <5> QED BY <1>1, <1>7, <4>2, <5>1 DEF IInv, DoneInv
      <4> QED BY <1>4, <4>1, <4>2
    <3> QED BY <1>4, <1>5, <3>1, <3>2
  <2>4. InOrder'
    <3> SUFFICES ASSUME NEW i \in 1..(n + count - 1)
                 PROVE  \/ wire'[i + 1].id = wire'[i].id /\ wire'[i + 1].at = wire'[i].at + 1
                        \/ wire'[i + 1].id > wire'[i].id /\ wire'[i + 1].at = 0
        BY <1>5 DEF InOrder
    <3>1. CASE i < n
      <4>1. i \in 1..(n - 1) /\ i \in 1..n /\ i + 1 \in 1..n
            BY <1>4, <1>5, <3>1
      <4>2. wire'[i] = wire[i] /\ wire'[i + 1] = wire[i + 1]
            BY <1>5, <4>1
      <4>3. \/ wire[i + 1].id = wire[i].id /\ wire[i + 1].at = wire[i].at + 1
            \/ wire[i + 1].id > wire[i].id /\ wire[i + 1].at = 0
            BY <4>1 DEF IInv, WireInv, InOrder, n
      <4> QED BY <4>2, <4>3
    <3>2. CASE i = n
      <4>1. n \in 1..n /\ n + 1 \in (n + 1)..(n + count)
            BY <1>4, <1>5, <3>2
      <4>2. wire'[n] = wire[n] /\ wire'[n + 1].id = pending /\ wire'[n + 1].at = offset + ((n + 1) - n) - 1
            BY <1>5, <1>6, <4>1
      <4>3. wire'[n + 1].at = offset
            BY <1>4, <1>5, <4>2
      <4>4. CASE offset = 0
        <5>1. wire[n].id < pending /\ wire[n].id \in Nat
              BY <1>5, <2>1, <4>1, <4>4 DEF Continues, IInv, WireInv
        <5> QED BY <1>4, <3>2, <4>2, <4>3, <4>4, <5>1
      <4>5. CASE offset # 0
        <5>1. wire[n].id = pending /\ wire[n].at = offset - 1
              BY <2>1, <4>5 DEF Continues, n
        <5> QED BY <1>4, <3>2, <4>2, <4>3, <5>1
      <4> QED BY <4>4, <4>5
    <3>3. CASE i > n
      <4>1. i \in (n + 1)..(n + count) /\ i + 1 \in (n + 1)..(n + count) /\ i \in Nat
            BY <1>4, <1>5, <3>3
      <4>2. /\ wire'[i].id = pending /\ wire'[i].at = offset + (i - n) - 1
            /\ wire'[i + 1].id = pending /\ wire'[i + 1].at = offset + ((i + 1) - n) - 1
            BY <1>6, <4>1
      <4> QED BY <1>4, <1>5, <4>1, <4>2
    <3> QED BY <1>4, <1>5, <3>1, <3>2, <3>3
  <2>5. pc' \in Up => Continues'
    <3> SUFFICES ASSUME ~overflow' PROVE Continues'
        BY <1>1 DEF Up
    <3>1. n + count \in (n + 1)..(n + count) /\ (n + count) - n = count
          BY <1>4, <1>5
    <3>2. wire'[n + count].id = pending /\ wire'[n + count].at = offset + ((n + count) - n) - 1
          BY <1>6, <3>1
    <3>3. offset' = offset + count /\ offset' # 0 /\ Len(wire') = n + count /\ n + count > 0
          BY <1>1, <1>4, <1>5
    <3>4. wire'[Len(wire')].at = offset' - 1
          BY <1>4, <3>1, <3>2, <3>3
    <3> QED BY <1>1, <3>2, <3>3, <3>4 DEF Continues
  <2> QED BY <2>2, <2>3, <2>4, <2>5 DEF WireInv
<1>13. StreamInv'
  <2>1. got = polled.rx + BytesIn({"rx"}) /\ n = polled.tx + BytesIn({"tx"})
        BY <1>1 DEF IInv, StreamInv, n
  <2>2. polled.rx \in Nat /\ polled.tx \in Nat
        BY DEF IInv, Typed
  <2>3. ~overflow' => got' = polled'.rx + BytesIn({"rx"})'
        BY <1>1, <1>3, <2>1
  <2>4. ~overflow' => Len(wire') = polled'.tx + BytesIn({"tx"})'
    <3>1. BytesIn({"tx"}) \in Nat /\ polled' = polled
          BY <1>1, <1>3
    <3>2. ~overflow' => BytesIn({"tx"})' = BytesIn({"tx"}) + count
          BY <1>3
    <3>3. Len(wire') = n + count /\ n = polled.tx + BytesIn({"tx"})
          BY <1>5, <2>1
    <3>4. Len(wire') = polled.tx + (BytesIn({"tx"}) + count)
          BY <1>4, <2>2, <3>1, <3>3
    <3> QED BY <3>1, <3>2, <3>4
  <2> QED BY <1>1, <1>3, <2>3, <2>4 DEF StreamInv
<1>14. SendInv'
      BY <1>1, WeightKept DEF IInv, SendInv
<1>15. PulseInv'
      BY <1>1 DEF IInv, PulseInv, PulsedLineLowered
<1> QED BY <1>8, <1>9, <1>10, <1>11, <1>12, <1>13, <1>14, <1>15 DEF IInv

-----------------------------------------------------------------------------
(* The theorems *)

LEMMA NextIInv == ASSUME IInv, [Next]_vars PROVE IInv'
<1>1. ASSUME QuietSteps PROVE IInv'
      BY <1>1, QuietStepsKeep, QuietKeeps DEF IInv
<1>2. ASSUME Open PROVE IInv'
      BY <1>2, OpenKeeps
<1>3. ASSUME NEW size \in 1..Chunk, Read(size) PROVE IInv'
      BY <1>3, ReadKeeps
<1>4. ASSUME Take PROVE IInv'
      BY <1>4, TakeKeeps
<1>5. ASSUME NEW count \in 1..Chunk, Write(count) PROVE IInv'
      BY <1>5, WriteKeeps
<1>6. ASSUME Complete PROVE IInv'
      BY <1>6, CompleteKeeps
<1>7. ASSUME Close \/ Discard PROVE IInv'
      BY <1>7, CloseKeeps, DiscardKeeps
<1>8. ASSUME NEW size \in Sizes, Send(size) PROVE IInv'
  <2>1. size \in Nat /\ "data" \in Kinds /\ Accept("data", size)
        BY <1>8, Limits DEF Send, Kinds
  <2>2. "data" = "data" => size > 0
        BY Limits
  <2> QED BY <2>1, <2>2, AcceptKeeps
<1>9. ASSUME LineOrPulse PROVE IInv'
  <2>1. ASSUME NEW kind \in {"line", "pulse"}, Accept(kind, 0) PROVE IInv'
    <3>1. kind \in Kinds /\ 0 \in Nat
          BY DEF Kinds
    <3>2. kind = "data" => 0 > 0
          OBVIOUS
    <3> QED BY <2>1, <3>1, <3>2, AcceptKeeps
  <2> QED BY <1>9, <2>1 DEF LineOrPulse
<1>10. ASSUME Poll \/ Destroy PROVE IInv'
      BY <1>10, PollKeeps, DestroyKeeps
<1>11. ASSUME UNCHANGED vars PROVE IInv'
  <2>1. Quiet /\ Typed' /\ PhaseInv' /\ PulseInv'
        BY <1>11 DEF vars, shared, local, history, Quiet, IInv, Typed, PhaseInv, PulseInv,
           PulsedLineLowered, Ids
  <2> QED BY <2>1, QuietKeeps DEF IInv
<1>12. Next \/ UNCHANGED vars
       OBVIOUS
<1> QED BY <1>1, <1>2, <1>3, <1>4, <1>5, <1>6, <1>7, <1>8, <1>9, <1>10, <1>11, <1>12
        DEF Next, Worker, UI, Connecting, Looping, Leaving, QuietSteps

LEMMA IInvHolds == Spec => []IInv
BY InitIInv, NextIInv, PTL DEF Spec

\* The types of the specification, from those of the proofs.
LEMMA TypesFollow == ASSUME IInv PROVE TypeOK
<1> USE DEF IInv
<1>1. /\ {reconnect, auto, stop, connected, due, overflow, raised, lineFault} \subseteq BOOLEAN
      /\ ui \in {"live", "joining", "finished", "destroyed"}
      BY DEF Typed
<1>2. pc \in {"retry", "select", "open", "loop", "take", "run", "complete", "leave",
              "close", "discard", "done", "ended"}
      BY DEF Typed, Labels
<1>3. {queued, sending, got, conn, polled.rx, polled.tx} \subseteq Nat
      BY DEF Typed
<1>4. ASSUME NEW i \in DOMAIN events
      PROVE  events[i].kind \in {"up", "down", "rx", "tx", "done"} /\ events[i].size \in 0..Chunk
  <2>1. events[i] \in EventRecord
        BY DEF Typed
  <2> QED BY <2>1 DEF EventRecord, EventKinds
<1>5. ASSUME NEW i \in Ids PROVE accepted[i].kind \in Kinds /\ accepted[i].conn \in 1..conn
  <2>1. accepted[i] \in Command
        BY DEF Typed, Ids
  <2> QED BY <2>1 DEF Command, PhaseInv
<1>6. \A i \in DOMAIN commands : commands[i] \in Ids
      BY QueueIds
<1>7. pending \in 0..Len(accepted)
  <2>1. pending \in Nat /\ Len(accepted) \in Nat /\ (pending # 0 => pending \in Ids)
        BY QueueIds DEF Typed
  <2> QED BY <2>1 DEF Ids
<1>8. offset \in 0..(IF pending = 0 THEN offset ELSE Weight(pending))
  <2>1. offset \in Nat
        BY DEF Typed
  <2>2. pending # 0 => Weight(pending) \in Nat /\ offset <= Weight(pending)
        BY QueueIds, WeightNat DEF QueueInv
  <2> QED BY <2>1, <2>2
<1>9. ASSUME NEW i \in DOMAIN wire PROVE wire[i].id \in Ids
  <2>1. wire[i].id \in 1..Taken /\ Taken \in Nat /\ Taken <= Len(accepted)
        BY QueueIds DEF WireInv
  <2>2. Len(accepted) \in Nat
        BY DEF Typed
  <2> QED BY <2>1, <2>2 DEF Ids
<1> QED BY <1>1, <1>2, <1>3, <1>4, <1>5, <1>6, <1>7, <1>8, <1>9 DEF TypeOK

\* When no weight is left, nothing is queued and nothing is under way.
LEMMA NothingLeft ==
    ASSUME IInv, connected, sending = 0
    PROVE  commands = <<>> /\ pending = 0
<1>1. pc # "discard"
      BY DEF IInv, PhaseInv, Up
<1>2. WeightOf(commands) \in Nat /\ (WeightOf(commands) = 0 <=> commands = <<>>)
      BY QueueIds, QueueWeight, QueueWeightZero DEF IInv
<1>3. pending # 0 => Weight(pending) \in Nat /\ Weight(pending) > 0
      BY QueueIds, WeightNat DEF IInv
<1>4. sending = WeightOf(commands) + (IF pending = 0 THEN 0 ELSE Weight(pending))
      BY <1>1 DEF IInv, SendInv
<1> QED BY <1>2, <1>3, <1>4

\* No byte is ever replayed: whatever was accepted for a connection is written to
\* that connection or to none, once, in order and without gaps, however often the
\* port is lost in the middle of a payload and found again.
THEOREM BytesNeverReplayed == Spec => []NeverReplayed
<1>1. IInv => NeverReplayed
      BY DEF IInv, WireInv, OnOwnWire, InOrder, QueueInv, NeverReplayed
<1> QED BY <1>1, IInvHolds, PTL

\* The two counters under the mutex are the weight of the queues they bound, in
\* every state in which the worker holds neither, and never pass their limits; a
\* byte that no event reports ends the session.
THEOREM CountersStayExact == Spec => []CountersExact
<1>1. ASSUME IInv PROVE CountersExact
  <2>1. TypeOK
        BY <1>1, TypesFollow
  <2>2. overflow => pc \in {"leave", "close", "discard", "done", "ended"}
        BY <1>1 DEF IInv, PhaseInv
  <2> QED BY <1>1, <2>1, <2>2 DEF IInv, StreamInv, SendInv, CountersExact
<1> QED BY <1>1, IInvHolds, PTL

\* When tio_native_idle says the queue is drained, every byte accepted on this
\* connection is on the wire and reported: a sequence may advance.
THEOREM IdleIsDrained == Spec => []IdleMeansDrained
<1>1. ASSUME IInv PROVE IdleMeansDrained
  <2> SUFFICES ASSUME connected, sending = 0
               PROVE  /\ \A id \in Ids :
                            accepted[id].kind = "data" /\ accepted[id].conn = conn
                                => WrittenWhole(id)
                      /\ polled.tx + BytesIn({"tx"}) = Len(wire)
      BY DEF IdleMeansDrained
  <2>1. commands = <<>> /\ pending = 0
        BY <1>1, NothingLeft
  <2>2. \A id \in Ids : id <= Taken /\ id # pending
    <3>1. Len(accepted) \in Nat
          BY <1>1 DEF IInv, Typed
    <3> QED BY <2>1, <3>1 DEF Ids, Taken
  <2>3. Len(wire) = polled.tx + BytesIn({"tx"})
        BY <1>1, <2>1 DEF IInv, StreamInv
  <2> QED BY <1>1, <2>2, <2>3 DEF IInv, DoneInv
<1> QED BY <1>1, IInvHolds, PTL

\* A pulse lowers its line whichever way it ends, the loss of the connection in the
\* middle of it included, unless the system refuses.
THEOREM PulsesLowerTheirLine == Spec => []PulsedLineLowered
<1>1. IInv => PulsedLineLowered
      BY DEF IInv, PulseInv
<1> QED BY <1>1, IInvHolds, PTL
=============================================================================
