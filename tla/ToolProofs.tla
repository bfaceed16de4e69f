------------------------------- MODULE ToolProofs -------------------------------
(***************************************************************************)
(* Proofs about the parts in Toolbox and Tools, each for any values of its *)
(* constants. Every part has an inductive invariant of its own (IInv of    *)
(* the recorder, BleInv, PluginInv, ...), a lemma for what each handler or *)
(* operator keeps of it, one that puts the actions together (...Step), and *)
(* one that it implies what the part claims (...Good).                     *)
(*                                                                         *)
(* The parts come in the order: recorder, Bluetooth, plugins, Modbus, CAN, *)
(* log view, connections, send history, sequence editor, MQTT, analyzer;   *)
(* then what they give together, also in the specification of Tools.       *)
(***************************************************************************)
EXTENDS Tools, SequenceSums, FiniteSetTheorems, SequenceTheorems

(* The recorder: what it promises (Sound) is kept by each step of the C    *)
(* code, also between them: pump() finds it and leaves it, with a write in *)
(* flight or an empty queue. The limits of the parts are what trimming     *)
(* restores (Within).                                                      *)

EntryRecord == [header : BOOLEAN, size : Nat, t : Nat, n : Nat]
PartRecord == [size : Nat, file : Seq(EntryRecord)]
Recorder == [pending : Seq(EntryRecord), queued : Nat, parts : Seq(PartRecord),
             total : Nat, open : BOOLEAN, busy : BOOLEAN, stopped : BOOLEAN,
             error : BOOLEAN, stamp : Nat]

\* What was accepted is numbered, in the order of time, and fits a part.
Accepted(c, acc) ==
    /\ acc \in Seq(EntryRecord)
    /\ \A k \in 1..Len(acc) : /\ ~acc[k].header /\ acc[k].n = k /\ acc[k].t <= c.stamp
                              /\ acc[k].size + Header <= PartBytes
    /\ \A j, k \in 1..Len(acc) : j < k => acc[j].t <= acc[k].t

\* A file begins with the header; what follows was accepted, in that order, up to m.
Filed(file, acc, m) ==
    /\ file # <<>> => file[1] = HeaderEntry
    /\ \A i \in 2..Len(file) : file[i].n \in 1..m /\ file[i] = acc[file[i].n]
    /\ \A i, j \in 2..Len(file) : i < j => file[i].n < file[j].n

\* The queue will still be written.
Live(c) == ~c.error \/ c.busy
HeaderWaits(c) == c.pending # <<>> /\ c.pending[1].header
Current(c) == c.parts[Len(c.parts)]

\* The header of a part waits at the head of the queue, and there only.
QueueSound(c) ==
    /\ c.queued = SizeOf(c.pending)
    /\ c.queued <= QueueLimit + (IF HeaderWaits(c) THEN Header ELSE 0)
    /\ HeaderWaits(c) => c.pending[1] = HeaderEntry
    /\ \A i \in 2..Len(c.pending) : ~c.pending[i].header
    /\ \A i \in 1..Len(c.pending) :
           ~c.pending[i].header => c.pending[i].size + Header <= PartBytes

\* The parts before the current one are whole; the current one is, unless an error
\* cut its last line, and its header waits exactly while it is empty.
PartsSound(c, acc, m) ==
    /\ c.total = SizeOf(c.parts)
    /\ \A i \in 1..Len(c.parts) : c.parts[i].size <= PartBytes
    /\ \A i \in 1..(Len(c.parts) - 1) : c.parts[i].file # <<>> /\ Filed(c.parts[i].file, acc, m)
    /\ Live(c) => /\ Filed(Current(c).file, acc, m)
                  /\ HeaderWaits(c) <=> Current(c).file = <<>>
                  /\ IF HeaderWaits(c) THEN Current(c).size = 0 ELSE Current(c).size >= Header

FlightSound(c) ==
    /\ c.error => c.stopped
    /\ ~c.stopped \/ (c.pending # <<>> /\ Live(c)) => c.open
    /\ c.busy => c.pending # <<>> /\ Current(c).size + c.pending[1].size <= PartBytes

Sound(c, acc, wr) ==
    /\ c \in Recorder /\ c.parts # <<>>
    /\ Accepted(c, acc) /\ wr \in Seq(EntryRecord) /\ IsPrefix(wr, acc)
    /\ QueueSound(c) /\ PartsSound(c, acc, Len(wr)) /\ FlightSound(c)
    /\ Live(c) => acc = wr \o Records(c.pending)

Within(c) == ~c.error => /\ c.total <= DiskLimit
                         /\ Len(c.parts) <= KeepFiles + (IF c.busy THEN 1 ELSE 0)
Waiting(c) == c.pending # <<>> => c.busy

IInv == Sound(cap, accepted, written) /\ Within(cap) /\ Waiting(cap)

-----------------------------------------------------------------------------
(* Sizes of sequences *)

\* The size of a sequence is the total of its elements' sizes.
LEMMA SizeIsTotal ==
    ASSUME NEW s, NEW n \in Nat, DOMAIN s = 1..n
    PROVE  SizeOf(s) = Total([i \in DOMAIN s |-> s[i].size], n)
<1> DEFINE w == [i \in DOMAIN s |-> s[i].size]
<1>1. DOMAIN w = 1..n OBVIOUS
<1> HIDE DEF w
<1>2. FoldLeft(LAMBDA sum, m : sum + m, 0, w) = Total(w, n) BY <1>1, FoldIsTotal
<1> QED BY <1>2 DEF SizeOf, w

\* t has the sizes of r and then those of s.
Joined(r, m, s, n, t) ==
    /\ m \in Nat /\ n \in Nat
    /\ DOMAIN r = 1..m /\ DOMAIN s = 1..n /\ DOMAIN t = 1..(m + n)
    /\ \A i \in 1..(m + n) : t[i].size \in Nat
    /\ \A i \in 1..m : r[i].size = t[i].size
    /\ \A i \in 1..n : s[i].size = t[m + i].size

\* The sizes of one sequence and of one after it add up.
LEMMA SizeJoined ==
    ASSUME NEW r, NEW m, NEW s, NEW n, NEW t, Joined(r, m, s, n, t)
    PROVE  SizeOf(t) = SizeOf(r) + SizeOf(s)
<1> DEFINE u == [i \in DOMAIN r |-> r[i].size]
           v == [i \in DOMAIN s |-> s[i].size]
           w == [i \in DOMAIN t |-> t[i].size]
<1>1. m \in Nat /\ n \in Nat /\ m + n \in Nat BY DEF Joined
<1>2. SizeOf(r) = Total(u, m) BY <1>1, SizeIsTotal DEF Joined
<1>3. SizeOf(s) = Total(v, n) BY <1>1, SizeIsTotal DEF Joined
<1>4. SizeOf(t) = Total(w, m + n) BY <1>1, SizeIsTotal DEF Joined
<1>5. Joins(u, m, v, n, w) BY DEF Joined, Joins, Agree
<1> HIDE DEF u, v, w
<1>6. Total(w, m + n) = Total(u, m) + Total(v, n) BY <1>5, TotalJoined
<1> QED BY <1>2, <1>3, <1>4, <1>6

\* Nothing has no size.
LEMMA SizeNone == SizeOf(<<>>) = 0
<1>1. DOMAIN <<>> = 1..0 OBVIOUS
<1> QED BY <1>1, SizeIsTotal, TotalNone

\* One element.
LEMMA SizeOne == ASSUME NEW s, DOMAIN s = 1..1, s[1].size \in Nat PROVE SizeOf(s) = s[1].size
<1> DEFINE w == [i \in DOMAIN s |-> s[i].size]
<1>1. SizeOf(s) = Total(w, 1) BY SizeIsTotal
<1>3. w[1] = s[1].size OBVIOUS
<1> HIDE DEF w
<1>2. Total(w, 0 + 1) = Total(w, 0) + w[0 + 1] /\ Total(w, 0) = 0 BY TotalNext, TotalNone
<1> QED BY <1>1, <1>2, <1>3

\* A size is a number.
LEMMA SizeNat ==
    ASSUME NEW s, NEW n \in Nat, DOMAIN s = 1..n, \A i \in 1..n : s[i].size \in Nat
    PROVE  SizeOf(s) \in Nat
<1> DEFINE w == [i \in DOMAIN s |-> s[i].size]
<1>1. SizeOf(s) = Total(w, n) /\ \A i \in 1..n : w[i] \in Nat BY SizeIsTotal
<1> HIDE DEF w
<1> QED BY <1>1, TotalNat

\* Elements that have a size
Sized(R) == \A e \in R : e.size \in Nat

\* What a queue and a list of parts are made of has a size.
LEMMA SizedRecords == Sized(EntryRecord) /\ Sized(PartRecord) BY DEF Sized, EntryRecord, PartRecord

\* So is that of a sequence of such elements.
LEMMA SizeInNat == ASSUME NEW R, Sized(R), NEW q \in Seq(R) PROVE SizeOf(q) \in Nat
<1>1. Len(q) \in Nat /\ DOMAIN q = 1..Len(q) /\ \A i \in 1..Len(q) : q[i].size \in Nat BY DEF Sized
<1> QED BY <1>1, SizeNat

\* An element added at the end counts.
LEMMA SizeAppended ==
    ASSUME NEW R, Sized(R), NEW q \in Seq(R), NEW e \in R
    PROVE  SizeOf(Append(q, e)) = SizeOf(q) + e.size
<1>1. Joined(q, Len(q), <<e>>, 1, Append(q, e)) BY DEF Joined, Sized
<1>2. SizeOf(<<e>>) = e.size BY SizeOne DEF Sized
<1> QED BY <1>1, <1>2, SizeJoined

\* An element put before counts.
LEMMA SizeHeaded ==
    ASSUME NEW R, Sized(R), NEW q \in Seq(R), NEW e \in R
    PROVE  SizeOf(<<e>> \o q) = SizeOf(q) + e.size
<1>1. Joined(<<e>>, 1, q, Len(q), <<e>> \o q) BY DEF Joined, Sized
<1>2. SizeOf(<<e>>) = e.size BY SizeOne DEF Sized
<1>3. SizeOf(q) \in Nat /\ e.size \in Nat BY SizeInNat DEF Sized
<1> QED BY <1>1, <1>2, <1>3, SizeJoined

\* A sequence that is split is as large as its two pieces.
LEMMA SizeSplit ==
    ASSUME NEW R, Sized(R), NEW q \in Seq(R), NEW k \in 0..Len(q)
    PROVE  SizeOf(q) = SizeOf(SubSeq(q, 1, k)) + SizeOf(SubSeq(q, k + 1, Len(q)))
<1> DEFINE r == SubSeq(q, 1, k)
           s == SubSeq(q, k + 1, Len(q))
           n == Len(q) - k
<1>1. DOMAIN r = 1..k /\ \A i \in 1..k : r[i] = q[i] OBVIOUS
<1>2. DOMAIN s = 1..n /\ \A i \in 1..n : s[i] = q[k + i] OBVIOUS
<1>3. k \in Nat /\ n \in Nat /\ k + n = Len(q) /\ DOMAIN q = 1..Len(q) OBVIOUS
<1>4. \A i \in 1..Len(q) : q[i].size \in Nat BY DEF Sized
<1> HIDE DEF r, s, n
<1>5. Joined(r, k, s, n, q) BY <1>1, <1>2, <1>3, <1>4 DEF Joined
<1> QED BY <1>5, SizeJoined DEF r, s

\* Without its first element it is smaller by that.
LEMMA SizeOfTail ==
    ASSUME NEW R, Sized(R), NEW q \in Seq(R), q # <<>>
    PROVE  SizeOf(Tail(q)) = SizeOf(q) - q[1].size
<1>1. SizeOf(q) = SizeOf(SubSeq(q, 1, 1)) + SizeOf(SubSeq(q, 2, Len(q))) BY SizeSplit
<1>2. SubSeq(q, 2, Len(q)) = Tail(q) /\ SubSeq(q, 1, 1)[1] = q[1] /\ q[1].size \in Nat BY DEF Sized
<1>3. DOMAIN SubSeq(q, 1, 1) = 1..1 OBVIOUS
<1>4. SizeOf(SubSeq(q, 1, 1)) = q[1].size BY <1>2, <1>3, SizeOne
<1>5. Tail(q) \in Seq(R) OBVIOUS
<1>6. SizeOf(Tail(q)) \in Nat BY <1>5, SizeInNat
<1>7. SizeOf(q) = q[1].size + SizeOf(Tail(q)) BY <1>1, <1>2, <1>4, Zenon
<1> QED BY <1>2, <1>6, <1>7

\* The last element may become larger or smaller.
LEMMA SizeOfLast ==
    ASSUME NEW R, Sized(R), NEW q \in Seq(R), q # <<>>, NEW p \in R
    PROVE  SizeOf([q EXCEPT ![Len(q)] = p]) = SizeOf(q) - q[Len(q)].size + p.size
<1> DEFINE n == Len(q) - 1
           r == SubSeq(q, 1, n)
           u == [q EXCEPT ![Len(q)] = p]
<1>1. n \in Nat /\ Len(q) = n + 1 /\ r \in Seq(R) /\ DOMAIN r = 1..n /\ \A i \in 1..n : r[i] = q[i] OBVIOUS
<1>2. DOMAIN u = DOMAIN q /\ u[Len(q)] = p /\ \A i \in DOMAIN q : i # Len(q) => u[i] = q[i] OBVIOUS
<1> HIDE DEF n, r, u
<1>3. /\ DOMAIN u = 1..(n + 1) /\ DOMAIN q = 1..(n + 1)
      /\ u[n + 1] = p /\ \A i \in 1..n : u[i] = q[i]
  <2>1. DOMAIN q = 1..(n + 1) BY <1>1
  <2>2. \A i \in 1..n : i \in 1..(n + 1) /\ i # n + 1 BY <1>1
  <2> QED BY <1>1, <1>2, <2>1, <2>2
<1>9. q[n + 1].size \in Nat /\ p.size \in Nat /\ \A i \in 1..n : q[i].size \in Nat
  <2>1. q[n + 1] \in R /\ \A i \in 1..n : q[i] \in R BY <1>1
  <2> QED BY <2>1 DEF Sized
<1>4. SizeOf(<<q[n + 1]>>) = q[n + 1].size /\ SizeOf(<<p>>) = p.size
  <2>1. \A e : e.size \in Nat => SizeOf(<<e>>) = e.size BY SizeOne
  <2> QED BY <1>9, <2>1
<1>5. SizeOf(r) \in Nat BY <1>1, SizeInNat
<1> HIDE DEF n, r, u
<1>6. Joined(r, n, <<q[n + 1]>>, 1, q)
  <2>1. \A i \in 1..(n + 1) : q[i].size \in Nat BY <1>1, <1>9
  <2> QED BY <1>1, <1>3, <2>1 DEF Joined
<1>7. Joined(r, n, <<p>>, 1, u)
  <2>1. \A i \in 1..(n + 1) : u[i].size \in Nat BY <1>1, <1>3, <1>9
  <2> QED BY <1>1, <1>3, <2>1 DEF Joined
<1>8. SizeOf(q) = SizeOf(r) + q[n + 1].size /\ SizeOf(u) = SizeOf(r) + p.size BY <1>4, <1>6, <1>7, SizeJoined
<1> QED BY <1>1, <1>5, <1>8, <1>9 DEF u

-----------------------------------------------------------------------------
(* Steps that leave queue and parts as they are *)

\* What is assumed of the limits, as numbers.
LEMMA Limits ==
    /\ Header \in Nat /\ 0 < Header /\ PartBytes \in Nat /\ Header < PartBytes
    /\ KeepFiles \in Nat /\ 0 < KeepFiles /\ DiskLimit \in Nat /\ PartBytes <= DiskLimit
    /\ QueueLimit \in Nat /\ MaxRecords \in Nat
    /\ ReplayLimit \in Nat /\ PartBytes <= ReplayLimit /\ MaxEvents \in Nat
    /\ \A size \in LineSizes : size \in Nat
    /\ \A t \in Times : t \in Nat
BY LimitsAssumption

\* A recorder with the same queue and parts, which is open while it has to be.
LEMMA SameSound ==
    ASSUME NEW c, NEW acc, NEW wr, Sound(c, acc, wr), NEW d \in Recorder,
           d.pending = c.pending, d.queued = c.queued, d.parts = c.parts, d.total = c.total,
           d.busy = c.busy, c.stamp <= d.stamp, Live(d) => Live(c), d.error => d.stopped,
           ~d.stopped \/ (d.pending # <<>> /\ Live(d)) => d.open
    PROVE  Sound(d, acc, wr)
<1>1. (HeaderWaits(d) <=> HeaderWaits(c)) /\ Current(d) = Current(c) BY DEF HeaderWaits, Current
<1>2. Accepted(d, acc)
  <2>1. c.stamp \in Nat /\ d.stamp \in Nat BY DEF Sound, Recorder
  <2>2. \A k \in 1..Len(acc) : acc[k].t \in Nat
    <3>1. acc \in Seq(EntryRecord) BY DEF Sound, Accepted
    <3>2. \A k \in 1..Len(acc) : acc[k] \in EntryRecord BY <3>1
    <3> QED BY <3>2 DEF EntryRecord
  <2>3. Accepted(c, acc) BY DEF Sound
  <2>4. \A k \in 1..Len(acc) : acc[k].t <= c.stamp BY <2>3 DEF Accepted
  <2>5. \A k \in 1..Len(acc) : acc[k].t <= d.stamp BY <2>1, <2>2, <2>4
  <2> QED BY <2>3, <2>5 DEF Accepted
<1>3. QueueSound(d) BY <1>1 DEF Sound, QueueSound
<1>4. PartsSound(d, acc, Len(wr)) BY <1>1 DEF Sound, PartsSound
<1>5. FlightSound(d) BY <1>1 DEF Sound, FlightSound
<1> QED BY <1>2, <1>3, <1>4, <1>5 DEF Sound

\* An error stops the recorder, and leaves what it had.
LEMMA FailedSound ==
    ASSUME NEW c, NEW acc, NEW wr, Sound(c, acc, wr)
    PROVE  Sound(Failed(c), acc, wr) /\ Within(Failed(c))
<1> DEFINE d == Failed(c)
<1>1. c \in Recorder BY DEF Sound
<1>2. /\ d \in Recorder /\ d.pending = c.pending /\ d.queued = c.queued /\ d.parts = c.parts
      /\ d.total = c.total /\ d.busy = c.busy /\ d.stamp = c.stamp /\ d.open = c.open
      /\ d.error = TRUE /\ d.stopped = TRUE BY <1>1 DEF Failed, Recorder
<1> HIDE DEF d
<1>3. Live(d) => Live(c) BY <1>2 DEF Live
<1>4. c.stamp <= d.stamp BY <1>1, <1>2 DEF Recorder
<1>5. ~d.stopped \/ (d.pending # <<>> /\ Live(d)) => d.open BY <1>2, <1>3 DEF Sound, FlightSound
<1>6. Sound(d, acc, wr) BY <1>2, <1>3, <1>4, <1>5, SameSound
<1> QED BY <1>2, <1>6 DEF Within, d

\* An empty queue that is not being written: the file may be closed.
LEMMA SettleSound ==
    ASSUME NEW c, NEW acc, NEW wr, Sound(c, acc, wr), Within(c), ~c.busy, c.pending = <<>>,
           NEW d \in Settle(c)
    PROVE  Sound(d, acc, wr) /\ Within(d) /\ Waiting(d)
<1> DEFINE b == [c EXCEPT !.open = FALSE]
<1>1. c \in Recorder BY DEF Sound
<1>2. /\ b \in Recorder /\ b.pending = c.pending /\ b.queued = c.queued /\ b.parts = c.parts
      /\ b.total = c.total /\ b.busy = c.busy /\ b.stamp = c.stamp /\ b.error = c.error
      /\ b.stopped = c.stopped BY <1>1 DEF Recorder
<1>3. d = c \/ (c.stopped /\ (d = b \/ d = Failed(b))) BY DEF Settle
<1> HIDE DEF b
<1>4. ASSUME c.stopped PROVE Sound(b, acc, wr) /\ Within(b)
  <2>1. Live(b) => Live(c) BY <1>2 DEF Live
  <2>2. c.stamp <= b.stamp BY <1>1, <1>2 DEF Recorder
  <2>3. ~b.stopped \/ (b.pending # <<>> /\ Live(b)) => b.open BY <1>2, <1>4
  <2>4. b.error => b.stopped BY <1>2, <1>4
  <2>5. Sound(b, acc, wr) BY <1>2, <2>1, <2>2, <2>3, <2>4, SameSound
  <2> QED BY <1>2, <2>5 DEF Within
<1>5. CASE d = c BY <1>5 DEF Waiting
<1>6. CASE c.stopped /\ d = b BY <1>2, <1>4, <1>6 DEF Waiting
<1>7. CASE c.stopped /\ d = Failed(b)
  <2>1. Sound(d, acc, wr) /\ Within(d) BY <1>4, <1>7, FailedSound
  <2>2. d.pending = b.pending BY <1>2, <1>7 DEF Failed, Recorder
  <2> QED BY <1>2, <2>1, <2>2 DEF Waiting
<1> QED BY <1>3, <1>5, <1>6, <1>7

\* After an error the queue goes.
LEMMA DiscardSound ==
    ASSUME NEW c, NEW acc, NEW wr, Sound(c, acc, wr), ~c.busy, c.error
    PROVE  LET d == Discard(c)
           IN  Sound(d, acc, wr) /\ Within(d) /\ ~d.busy /\ d.pending = <<>>
<1> DEFINE d == Discard(c)
<1>1. c \in Recorder /\ c.stopped /\ c.error = TRUE BY DEF Sound, FlightSound, Recorder
<1>2. /\ d \in Recorder /\ d.pending = <<>> /\ d.queued = 0 /\ d.parts = c.parts
      /\ d.total = c.total /\ d.busy = c.busy /\ d.stamp = c.stamp /\ d.open = c.open
      /\ d.error = TRUE /\ d.stopped = TRUE
  <2>1. <<>> \in Seq(EntryRecord) OBVIOUS
  <2> QED BY <1>1, <2>1 DEF Discard, Recorder, Sound
<1> HIDE DEF d
<1>3. ~Live(d) /\ ~HeaderWaits(d) BY <1>2 DEF Live, HeaderWaits
<1>4. QueueSound(d) BY <1>2, <1>3, SizeNone, Limits DEF QueueSound
<1>5. PartsSound(d, acc, Len(wr)) BY <1>2, <1>3 DEF Sound, PartsSound
<1>6. FlightSound(d) BY <1>2, <1>3 DEF FlightSound
<1>7. Accepted(d, acc) BY <1>2 DEF Sound, Accepted
<1>8. Sound(d, acc, wr) BY <1>2, <1>3, <1>4, <1>5, <1>6, <1>7 DEF Sound
<1> QED BY <1>2, <1>8 DEF Within, d

-----------------------------------------------------------------------------
(* pump() *)

\* The header and a new part.
LEMMA HeaderEntryTyped ==
    /\ HeaderEntry \in EntryRecord /\ HeaderEntry.header /\ HeaderEntry.size = Header
    /\ EmptyPart \in PartRecord /\ EmptyPart.size = 0 /\ EmptyPart.file = <<>>
<1>1. <<>> \in Seq(EntryRecord) OBVIOUS
<1> QED BY <1>1, Limits DEF HeaderEntry, EntryRecord, EmptyPart, PartRecord

\* The next part is opened, its header put before the queue, and written.
LEMMA OpenSound ==
    ASSUME NEW c, NEW acc, NEW wr, Sound(c, acc, wr), Within(c),
           ~c.busy, ~c.error, c.pending # <<>>, Current(c).size > Header
    PROVE  LET d == [OpenPart(c) EXCEPT !.busy = TRUE]
           IN  Sound(d, acc, wr) /\ Within(d) /\ Waiting(d)
<1> DEFINE d == [OpenPart(c) EXCEPT !.busy = TRUE]
           p == c.pending
           q == c.parts
<1>1. /\ c \in Recorder /\ p \in Seq(EntryRecord) /\ q \in Seq(PartRecord) /\ q # <<>>
      /\ c.queued \in Nat /\ c.total \in Nat /\ c.stamp \in Nat BY DEF Sound, Recorder
<1>2. /\ d.pending = <<HeaderEntry>> \o p /\ d.queued = c.queued + Header
      /\ d.parts = Append(q, EmptyPart) /\ d.total = c.total /\ d.busy = TRUE /\ d.open = TRUE
      /\ d.error = c.error /\ d.stopped = c.stopped /\ d.stamp = c.stamp BY <1>1 DEF OpenPart, Recorder
<1>3. d \in Recorder
  <2>1. <<HeaderEntry>> \o p \in Seq(EntryRecord) /\ Append(q, EmptyPart) \in Seq(PartRecord)
      BY <1>1, HeaderEntryTyped
  <2>2. c.queued + Header \in Nat BY <1>1, Limits
  <2> QED BY <1>1, <2>1, <2>2 DEF OpenPart, Recorder
<1>4. /\ Len(d.pending) = Len(p) + 1 /\ d.pending[1] = HeaderEntry
      /\ \A i \in 2..Len(d.pending) : d.pending[i] = p[i - 1] /\ i - 1 \in 1..Len(p) BY <1>1, <1>2
<1>5. /\ Len(d.parts) = Len(q) + 1 /\ d.parts[Len(q) + 1] = EmptyPart
      /\ \A i \in 1..Len(q) : d.parts[i] = q[i] BY <1>1, <1>2
<1>6. Len(p) \in Nat /\ Len(p) > 0 /\ Len(q) \in Nat /\ Len(q) > 0 BY <1>1
<1>7. Live(c) /\ ~HeaderWaits(c) /\ Current(c) = q[Len(q)] /\ q[Len(q)].file # <<>>
  <2>1. Live(c) BY DEF Live
  <2>2. Header \in Nat /\ 0 < Header BY Limits
  <2>3. ~HeaderWaits(c) BY <2>1, <2>2 DEF Sound, PartsSound
  <2> QED BY <2>1, <2>3 DEF Sound, PartsSound, Current
<1>8. HeaderWaits(d) /\ Current(d) = EmptyPart /\ Live(d) /\ d.pending # <<>>
    BY <1>2, <1>4, <1>5, <1>6, HeaderEntryTyped DEF HeaderWaits, Current, Live
<1> HIDE DEF d
<1>9. \A i \in 1..Len(p) : ~p[i].header
  <2>1. ~p[1].header BY <1>6, <1>7 DEF HeaderWaits
  <2>2. \A i \in 2..Len(p) : ~p[i].header BY DEF Sound, QueueSound
  <2> QED BY <1>6, <2>1, <2>2
<1>10. QueueSound(d)
  <2>1. d.queued = SizeOf(d.pending)
    <3>1. SizeOf(<<HeaderEntry>> \o p) = SizeOf(p) + HeaderEntry.size
        BY <1>1, SizedRecords, HeaderEntryTyped, SizeHeaded
    <3>2. c.queued = SizeOf(p) BY DEF Sound, QueueSound
    <3> QED BY <1>2, <3>1, <3>2, HeaderEntryTyped
  <2>2. d.queued <= QueueLimit + Header
    <3>1. c.queued <= QueueLimit + 0 BY <1>7 DEF Sound, QueueSound
    <3> QED BY <1>1, <1>2, <3>1, Limits
  <2>3. \A i \in 2..Len(d.pending) : ~d.pending[i].header BY <1>4, <1>9
  <2>4. \A i \in 1..Len(d.pending) : ~d.pending[i].header =>
            d.pending[i].size + Header <= PartBytes
    <3>1. \A i \in 1..Len(d.pending) : i = 1 \/ i \in 2..Len(d.pending) BY <1>4, <1>6
    <3>2. \A i \in 1..Len(p) : p[i].size + Header <= PartBytes BY <1>9 DEF Sound, QueueSound
    <3> QED BY <1>4, <3>1, <3>2, HeaderEntryTyped
  <2> QED BY <1>4, <1>8, <2>1, <2>2, <2>3, <2>4 DEF QueueSound
<1>11. PartsSound(d, acc, Len(wr))
  <2>1. d.total = SizeOf(d.parts)
    <3>1. SizeOf(Append(q, EmptyPart)) = SizeOf(q) + EmptyPart.size
        BY <1>1, SizedRecords, HeaderEntryTyped, SizeAppended
    <3>2. c.total = SizeOf(q) BY DEF Sound, PartsSound
    <3> QED BY <1>1, <1>2, <3>1, <3>2, HeaderEntryTyped
  <2>2. \A i \in 1..Len(d.parts) : d.parts[i].size <= PartBytes
    <3>1. \A i \in 1..Len(q) : q[i].size <= PartBytes BY DEF Sound, PartsSound
    <3>2. \A i \in 1..Len(d.parts) : i = Len(q) + 1 \/ i \in 1..Len(q) BY <1>5, <1>6
    <3>3. 0 <= PartBytes BY Limits
    <3> QED BY <1>5, <3>1, <3>2, <3>3, HeaderEntryTyped
  <2>3. \A i \in 1..(Len(d.parts) - 1) :
            d.parts[i].file # <<>> /\ Filed(d.parts[i].file, acc, Len(wr))
    <3>1. Filed(q[Len(q)].file, acc, Len(wr)) BY <1>7 DEF Sound, PartsSound
    <3>2. \A i \in 1..(Len(q) - 1) : q[i].file # <<>> /\ Filed(q[i].file, acc, Len(wr)) BY DEF Sound, PartsSound
    <3>3. \A i \in 1..(Len(d.parts) - 1) : i \in 1..Len(q) /\ (i = Len(q) \/ i \in 1..(Len(q) - 1))
        BY <1>5, <1>6
    <3> QED BY <1>5, <1>7, <3>1, <3>2, <3>3
  <2>4. Filed(<<>>, acc, Len(wr)) BY DEF Filed
  <2> QED BY <1>8, <2>1, <2>2, <2>3, <2>4, HeaderEntryTyped DEF PartsSound
<1>12. FlightSound(d)
  <2>1. Current(d).size + d.pending[1].size <= PartBytes BY <1>4, <1>8, HeaderEntryTyped, Limits
  <2> QED BY <1>2, <1>8, <2>1 DEF FlightSound
<1>13. acc = wr \o Records(d.pending)
  <2>1. acc = wr \o Records(p) BY <1>7 DEF Sound
  <2>2. Records(p) = p BY <1>6, <1>9 DEF Records
  <2>3. Records(d.pending) = p
    <3>1. HeaderEntry \in EntryRecord BY HeaderEntryTyped
    <3>2. Tail(<<HeaderEntry>> \o p) = p BY <1>1, <3>1
    <3>3. Head(d.pending) = HeaderEntry BY <1>1, <1>2, <3>1
    <3> QED BY <1>2, <1>8, <3>2, <3>3, HeaderEntryTyped DEF Records
  <2> QED BY <2>1, <2>2, <2>3
<1>14. Accepted(d, acc) BY <1>2 DEF Sound, Accepted
<1>15. Sound(d, acc, wr)
  <2>1. d.parts # <<>> BY <1>5, <1>6
  <2> QED BY <1>3, <1>10, <1>11, <1>12, <1>13, <1>14, <2>1 DEF Sound
<1>16. Within(d)
  <2>1. c.total <= DiskLimit /\ Len(q) <= KeepFiles + 0 BY DEF Within
  <2> QED BY <1>2, <1>5, <1>6, <2>1, Limits DEF Within
<1> QED BY <1>2, <1>15, <1>16 DEF Waiting, d

\* The line at the head of the queue is written, if the part has room for it.
LEMMA StartSound ==
    ASSUME NEW c, NEW acc, NEW wr, Sound(c, acc, wr), Within(c), ~c.busy, ~c.error,
           c.pending # <<>>, Current(c).size + c.pending[1].size <= PartBytes
    PROVE  LET d == [c EXCEPT !.busy = TRUE]
           IN  Sound(d, acc, wr) /\ Within(d) /\ Waiting(d)
<1> DEFINE d == [c EXCEPT !.busy = TRUE]
<1>1. c \in Recorder BY DEF Sound
<1>2. /\ d \in Recorder /\ d.pending = c.pending /\ d.queued = c.queued /\ d.parts = c.parts
      /\ d.total = c.total /\ d.busy = TRUE /\ d.stamp = c.stamp /\ d.error = c.error
      /\ d.stopped = c.stopped /\ d.open = c.open BY <1>1 DEF Recorder
<1> HIDE DEF d
<1>3. Live(c) /\ Live(d) BY <1>2 DEF Live
<1>4. (HeaderWaits(d) <=> HeaderWaits(c)) /\ Current(d) = Current(c) BY <1>2 DEF HeaderWaits, Current
<1>5. Accepted(d, acc) BY <1>2 DEF Sound, Accepted
<1>6. QueueSound(d) BY <1>2, <1>4 DEF Sound, QueueSound
<1>7. PartsSound(d, acc, Len(wr)) BY <1>2, <1>3, <1>4 DEF Sound, PartsSound
<1>8. FlightSound(d) BY <1>2, <1>3, <1>4 DEF Sound, FlightSound
<1>9. Sound(d, acc, wr) BY <1>2, <1>3, <1>5, <1>6, <1>7, <1>8 DEF Sound
<1>10. Within(d)
  <2>1. Len(c.parts) \in Nat /\ KeepFiles \in Nat BY <1>1, Limits DEF Recorder
  <2> QED BY <1>2, <2>1 DEF Within
<1> QED BY <1>2, <1>9, <1>10 DEF Waiting, d

\* The part is closed and the next one opened; if either fails, the queue goes.
LEMMA RotateSound ==
    ASSUME NEW c, NEW acc, NEW wr, Sound(c, acc, wr), Within(c),
           ~c.busy, ~c.error, c.pending # <<>>, Current(c).size > Header, NEW d \in Rotate(c)
    PROVE  Sound(d, acc, wr) /\ Within(d) /\ Waiting(d)
<1> DEFINE b == Failed([c EXCEPT !.open = FALSE])
           After(f) == d \in Settle(Discard(f))
<1>1. c \in Recorder BY DEF Sound
<1>2. ASSUME NEW f, Sound(f, acc, wr), ~f.busy, f.error, After(f)
      PROVE  Sound(d, acc, wr) /\ Within(d) /\ Waiting(d)
  <2> DEFINE e == Discard(f)
  <2>1. Sound(e, acc, wr) /\ Within(e) /\ ~e.busy /\ e.pending = <<>> BY <1>2, DiscardSound
  <2>2. d \in Settle(e) BY <1>2
  <2> HIDE DEF e
  <2> QED BY <2>1, <2>2, SettleSound
<1>3. /\ b \in Recorder /\ b.pending = c.pending /\ b.queued = c.queued /\ b.parts = c.parts
      /\ b.total = c.total /\ b.busy = c.busy /\ b.stamp = c.stamp /\ b.error = TRUE
      /\ b.stopped = TRUE BY <1>1 DEF Failed, Recorder
<1>4. Failed(c).error = TRUE /\ Failed(c).busy = c.busy BY <1>1 DEF Failed, Recorder
<1>5. CASE After(Failed(c))
  <2>1. Sound(Failed(c), acc, wr) BY FailedSound
  <2> HIDE DEF After
  <2> QED BY <1>2, <1>4, <1>5, <2>1
<1>6. CASE After(b)
  <2> HIDE DEF b, After
  <2>1. ~Live(b) /\ c.stamp <= b.stamp BY <1>1, <1>3 DEF Live, Recorder
  <2>2. Sound(b, acc, wr) BY <1>3, <2>1, SameSound
  <2> QED BY <1>2, <1>3, <1>6, <2>2
<1>7. CASE d = [OpenPart(c) EXCEPT !.busy = TRUE] BY <1>7, OpenSound
<1> QED BY <1>5, <1>6, <1>7 DEF Rotate

\* pump() leaves the recorder as it promises, with a write in flight or nothing to write.
LEMMA PumpSound ==
    ASSUME NEW c, NEW acc, NEW wr, Sound(c, acc, wr), Within(c),
           NEW d \in Pump(c)
    PROVE  Sound(d, acc, wr) /\ Within(d) /\ Waiting(d)
<1> DEFINE e == IF c.error THEN Discard(c) ELSE c
<1>1. CASE c.busy BY <1>1 DEF Pump, Waiting
<1>2. CASE ~c.busy
  <2>1. Sound(e, acc, wr) /\ Within(e) /\ ~e.busy BY <1>2, DiscardSound
  <2>2. e.pending # <<>> => e = c /\ ~c.error BY <1>2, DiscardSound
  <2>3. d \in IF e.pending = <<>> THEN Settle(e)
              ELSE IF Full(e) THEN Rotate(e)
              ELSE {[e EXCEPT !.busy = TRUE]} \cup (IF Old(e) THEN Rotate(e) ELSE {}) BY <1>2 DEF Pump
  <2> HIDE DEF e
  <2>4. CASE e.pending = <<>> BY <2>1, <2>3, <2>4, SettleSound
  <2>5. CASE e.pending # <<>>
    <3>1. e = c /\ ~c.error /\ c.pending # <<>> BY <2>2, <2>5
    <3>2. /\ c.parts \in Seq(PartRecord) /\ c.parts # <<>>
          /\ c.pending \in Seq(EntryRecord) /\ c.pending # <<>> BY <3>1 DEF Sound, Recorder
    <3>3. Last(c.parts) = Current(c) /\ Current(c) \in PartRecord BY <3>2, LastIs DEF Current
    <3>4. Head(c.pending) = c.pending[1] /\ c.pending[1] \in EntryRecord BY <3>2
    <3>5. CASE d \in Rotate(c) /\ (Full(c) \/ Old(c))
      <4>1. Current(c).size > Header BY <3>3, <3>5 DEF Full, Old
      <4> QED BY <1>2, <3>1, <3>5, <4>1, RotateSound
    <3>6. CASE d = [c EXCEPT !.busy = TRUE] /\ ~Full(c)
      <4>1. Current(c).size \in Nat /\ c.pending[1].size \in Nat BY <3>3, <3>4 DEF EntryRecord, PartRecord
      <4>2. ~(Current(c).size > Header /\ Current(c).size + c.pending[1].size > PartBytes)
          BY <3>3, <3>4, <3>6 DEF Full
      <4>3. CASE HeaderWaits(c)
        <5>1. Current(c).size = 0 /\ c.pending[1] = HeaderEntry
            BY <3>1, <4>3 DEF Sound, PartsSound, QueueSound, Live
        <5>2. Current(c).size + c.pending[1].size <= PartBytes BY <5>1, Limits, HeaderEntryTyped
        <5> QED BY <1>2, <3>1, <3>6, <5>2, StartSound
      <4>4. CASE ~HeaderWaits(c)
        <5>1. Current(c).size >= Header BY <3>1, <4>4 DEF Sound, PartsSound, Live
        <5>2. c.pending[1].size + Header <= PartBytes
          <6>1. 1 \in 1..Len(c.pending) /\ ~c.pending[1].header BY <3>2, <4>4 DEF HeaderWaits
          <6> QED BY <6>1 DEF Sound, QueueSound
        <5>3. Current(c).size + c.pending[1].size <= PartBytes BY <4>1, <4>2, <5>1, <5>2, Limits
        <5> QED BY <1>2, <3>1, <3>6, <5>3, StartSound
      <4> QED BY <4>3, <4>4
    <3> QED BY <2>3, <3>1, <3>5, <3>6
  <2> QED BY <2>4, <2>5
<1> QED BY <1>1, <1>2

-----------------------------------------------------------------------------
(* A new recorder, and the records it accepts *)

\* At the beginning nothing is recorded.
LEMMA InitSound == ASSUME Init PROVE IInv
<1> DEFINE d == New
<1>1. d = [pending |-> <<HeaderEntry>>, queued |-> Header, parts |-> <<EmptyPart>>,
           total |-> 0, open |-> TRUE, busy |-> FALSE, stopped |-> FALSE,
           error |-> FALSE, stamp |-> 0]
  <2> DEFINE r == [pending |-> <<>>, queued |-> 0, parts |-> <<>>, total |-> 0,
                   open |-> FALSE, busy |-> FALSE, stopped |-> FALSE,
                   error |-> FALSE, stamp |-> 0]
             Begun(p, q, n) == [r EXCEPT !.open = TRUE, !.parts = q, !.pending = p, !.queued = n]
  <2>1. d = Begun(<<HeaderEntry>> \o <<>>, Append(<<>>, EmptyPart), 0 + Header) BY DEF New, OpenPart
  <2>2. <<HeaderEntry>> \o <<>> = <<HeaderEntry>> OBVIOUS
  <2>3. Append(<<>>, EmptyPart) = <<EmptyPart>> OBVIOUS
  <2>4. 0 + Header = Header BY Limits
  <2>5. d = Begun(<<HeaderEntry>>, <<EmptyPart>>, Header)
    <3> HIDE DEF d, Begun
    <3> QED BY <2>1, <2>2, <2>3, <2>4
  <2> HIDE DEF d
  <2> QED BY <2>5
<1>2. d \in Recorder
  <2>1. <<HeaderEntry>> \in Seq(EntryRecord) /\ <<EmptyPart>> \in Seq(PartRecord) BY HeaderEntryTyped
  <2> HIDE DEF d
  <2> QED BY <1>1, <2>1, Limits DEF Recorder
<1> HIDE DEF d
<1>3. HeaderWaits(d) /\ Current(d) = EmptyPart /\ Live(d)
    BY <1>1, HeaderEntryTyped DEF HeaderWaits, Current, Live
<1>4. Accepted(d, <<>>)
  <2>1. <<>> \in Seq(EntryRecord) OBVIOUS
  <2> QED BY <2>1 DEF Accepted
<1>5. QueueSound(d)
  <2>1. SizeOf(d.pending) = Header
    <3>1. DOMAIN d.pending = 1..1 /\ d.pending[1] = HeaderEntry BY <1>1
    <3> QED BY <3>1, HeaderEntryTyped, Limits, SizeOne
  <2>2. d.pending[1] = HeaderEntry /\ Len(d.pending) = 1 /\ d.queued = Header BY <1>1
  <2> QED BY <1>3, <2>1, <2>2, HeaderEntryTyped, Limits DEF QueueSound
<1>6. PartsSound(d, <<>>, 0)
  <2>1. SizeOf(d.parts) = 0
    <3>1. DOMAIN d.parts = 1..1 /\ d.parts[1] = EmptyPart BY <1>1
    <3>2. d.parts[1].size = 0 /\ 0 \in Nat BY <3>1, HeaderEntryTyped
    <3> QED BY <3>1, <3>2, SizeOne
  <2>2. d.parts[1] = EmptyPart /\ Len(d.parts) = 1 /\ d.total = 0 BY <1>1
  <2>3. Filed(<<>>, <<>>, 0) BY DEF Filed
  <2> QED BY <1>3, <2>1, <2>2, <2>3, HeaderEntryTyped, Limits DEF PartsSound
<1>7. FlightSound(d) BY <1>1 DEF FlightSound
<1>8. <<>> = <<>> \o Records(d.pending)
  <2>1. Head(d.pending) = HeaderEntry /\ Tail(d.pending) = <<>> /\ d.pending # <<>> BY <1>1
  <2> QED BY <2>1, HeaderEntryTyped DEF Records
<1>9. IsPrefix(<<>>, <<>>) /\ <<>> \in Seq(EntryRecord) BY DEF IsPrefix
<1>10. Sound(d, <<>>, <<>>)
  <2>1. d.parts # <<>> /\ Len(<<>>) = 0 BY <1>1
  <2> QED BY <1>2, <1>4, <1>5, <1>6, <1>7, <1>8, <1>9, <2>1 DEF Sound
<1>11. Within(d)
  <2>1. d.total = 0 /\ Len(d.parts) = 1 /\ d.busy = FALSE BY <1>1
  <2> QED BY <2>1, Limits DEF Within
<1>12. cap \in Pump(d) /\ accepted = <<>> /\ written = <<>> BY DEF Init, d
<1>13. Sound(cap, <<>>, <<>>) /\ Within(cap) /\ Waiting(cap) BY <1>10, <1>11, <1>12, PumpSound
<1> QED BY <1>12, <1>13 DEF IInv

\* What is accepted later does not change what a file has.
LEMMA FiledLater ==
    ASSUME NEW acc \in Seq(EntryRecord), NEW e \in EntryRecord, NEW m \in 0..Len(acc),
           NEW file, Filed(file, acc, m)
    PROVE  Filed(file, Append(acc, e), m)
<1>1. \A k \in 1..m : Append(acc, e)[k] = acc[k] OBVIOUS
<1> QED BY <1>1 DEF Filed

\* A record behind the others is one behind the records.
LEMMA RecordsAppended ==
    ASSUME NEW p \in Seq(EntryRecord), NEW e \in EntryRecord, ~e.header
    PROVE  Records(Append(p, e)) = Append(Records(p), e) /\ Records(p) \in Seq(EntryRecord)
<1>1. CASE p = <<>>
  <2>1. Append(p, e) # <<>> /\ Head(Append(p, e)) = e BY <1>1
  <2> QED BY <1>1, <2>1 DEF Records
<1>2. CASE p # <<>>
  <2>1. Append(p, e) # <<>> /\ Head(Append(p, e)) = Head(p) BY <1>2
  <2>2. Tail(Append(p, e)) = Append(Tail(p), e) /\ Tail(p) \in Seq(EntryRecord) BY <1>2
  <2> QED BY <1>2, <2>1, <2>2 DEF Records
<1> QED BY <1>1, <1>2

\* A record that fits joins the queue.
LEMMA AcceptSound ==
    ASSUME NEW c, NEW acc, NEW wr, Sound(c, acc, wr), Within(c),
           ~c.stopped, ~c.error, NEW t \in Nat, c.stamp <= t,
           NEW size \in Nat, size + Header <= PartBytes, c.queued + size <= QueueLimit
    PROVE  LET e == Entry(size, t, Len(acc) + 1)
               d == [c EXCEPT !.stamp = t, !.pending = Append(@, e), !.queued = @ + size]
           IN  Sound(d, Append(acc, e), wr) /\ Within(d)
<1> DEFINE e == Entry(size, t, Len(acc) + 1)
           d == [c EXCEPT !.stamp = t, !.pending = Append(@, e), !.queued = @ + size]
           p == c.pending
           more == Append(acc, e)
<1>1. /\ c \in Recorder /\ p \in Seq(EntryRecord) /\ acc \in Seq(EntryRecord)
      /\ wr \in Seq(EntryRecord) /\ c.queued \in Nat /\ c.stamp \in Nat BY DEF Sound, Recorder, Accepted
<1>2. e \in EntryRecord /\ e.header = FALSE /\ e.size = size /\ e.t = t /\ e.n = Len(acc) + 1
  <2>1. Len(acc) + 1 \in Nat BY <1>1
  <2> QED BY <2>1 DEF Entry, EntryRecord
<1> HIDE DEF e
<1>3. /\ d.pending = Append(p, e) /\ d.queued = c.queued + size /\ d.parts = c.parts
      /\ d.total = c.total /\ d.busy = c.busy /\ d.stamp = t /\ d.error = c.error
      /\ d.stopped = c.stopped /\ d.open = c.open BY <1>1 DEF Recorder
<1>4. d \in Recorder
  <2>1. Append(p, e) \in Seq(EntryRecord) /\ c.queued + size \in Nat BY <1>1, <1>2
  <2> QED BY <1>1, <2>1 DEF Recorder
<1> HIDE DEF d
<1>5. /\ Len(d.pending) = Len(p) + 1 /\ d.pending[Len(p) + 1] = e
      /\ \A i \in 1..Len(p) : d.pending[i] = p[i]
      /\ Len(p) \in Nat /\ d.pending # <<>> BY <1>1, <1>2, <1>3, AppendProperties
<1>6. HeaderWaits(d) <=> HeaderWaits(c)
  <2>1. CASE p = <<>> BY <1>2, <1>5, <2>1 DEF HeaderWaits
  <2>2. CASE p # <<>>
    <3>1. 1 \in 1..Len(p) BY <1>1, <2>2
    <3> QED BY <1>5, <2>2, <3>1 DEF HeaderWaits
  <2> QED BY <2>1, <2>2
<1>7. Current(d) = Current(c) /\ Live(c) /\ Live(d) BY <1>3 DEF Current, Live
<1>8. Accepted(d, more)
  <2>1. Len(more) = Len(acc) + 1 /\ more[Len(acc) + 1] = e /\ \A k \in 1..Len(acc) : more[k] = acc[k]
      BY <1>1, <1>2
  <2>2. more \in Seq(EntryRecord) /\ Len(acc) \in Nat BY <1>1, <1>2
  <2>3. \A k \in 1..Len(acc) : acc[k].t \in Nat
    <3>1. \A k \in 1..Len(acc) : acc[k] \in EntryRecord BY <1>1
    <3> QED BY <3>1 DEF EntryRecord
  <2>4. \A k \in 1..Len(acc) : /\ ~acc[k].header /\ acc[k].n = k /\ acc[k].t <= t
                               /\ acc[k].size + Header <= PartBytes
    <3>1. \A k \in 1..Len(acc) : acc[k].t <= c.stamp BY DEF Sound, Accepted
    <3>2. \A k \in 1..Len(acc) : acc[k].t <= t BY <1>1, <2>3, <3>1
    <3> QED BY <3>2 DEF Sound, Accepted
  <2>5. \A k \in 1..Len(more) : k = Len(acc) + 1 \/ k \in 1..Len(acc) BY <2>1, <2>2
  <2> HIDE DEF more
  <2>6. \A k \in 1..Len(more) : /\ ~more[k].header /\ more[k].n = k /\ more[k].t <= t
                                /\ more[k].size + Header <= PartBytes BY <1>2, <2>1, <2>4, <2>5
  <2>7. \A j, k \in 1..Len(more) : j < k => more[j].t <= more[k].t
    <3> SUFFICES ASSUME NEW j \in 1..Len(more), NEW k \in 1..Len(more), j < k
                 PROVE  more[j].t <= more[k].t OBVIOUS
    <3>1. j \in 1..Len(acc) BY <2>1, <2>2
    <3>2. CASE k = Len(acc) + 1 BY <1>2, <2>1, <2>4, <3>1, <3>2
    <3>3. CASE k \in 1..Len(acc)
      <4>1. acc[j].t <= acc[k].t BY <3>1, <3>3 DEF Sound, Accepted
      <4> QED BY <2>1, <3>1, <3>3, <4>1
    <3> QED BY <2>5, <3>2, <3>3
  <2> QED BY <1>3, <2>2, <2>6, <2>7 DEF Accepted
<1>9. QueueSound(d)
  <2>1. d.queued = SizeOf(d.pending)
    <3>1. SizeOf(Append(p, e)) = SizeOf(p) + e.size BY <1>1, <1>2, SizedRecords, SizeAppended
    <3>2. c.queued = SizeOf(p) BY DEF Sound, QueueSound
    <3> QED BY <1>2, <1>3, <3>1, <3>2
  <2>2. d.queued <= QueueLimit + (IF HeaderWaits(d) THEN Header ELSE 0) BY <1>1, <1>3, Limits
  <2>3. HeaderWaits(d) => d.pending[1] = HeaderEntry
    <3>1. HeaderWaits(c) => c.pending[1] = HeaderEntry /\ 1 \in 1..Len(p)
        BY <1>1 DEF Sound, QueueSound, HeaderWaits
    <3> QED BY <1>5, <1>6, <3>1
  <2>4. \A i \in 1..Len(d.pending) : i = Len(p) + 1 \/ i \in 1..Len(p) BY <1>5
  <2>5. \A i \in 2..Len(d.pending) : ~d.pending[i].header
    <3>1. \A i \in 2..Len(d.pending) : i = Len(p) + 1 \/ (i \in 2..Len(p) /\ i \in 1..Len(p)) BY <1>5
    <3> QED BY <1>2, <1>5, <3>1 DEF Sound, QueueSound
  <2>6. \A i \in 1..Len(d.pending) :
            ~d.pending[i].header => d.pending[i].size + Header <= PartBytes
      BY <1>2, <1>5, <2>4 DEF Sound, QueueSound
  <2> QED BY <2>1, <2>2, <2>3, <2>5, <2>6 DEF QueueSound
<1>10. Len(wr) \in 0..Len(acc)
  <2>1. Len(wr) <= Len(acc) BY <1>1, PrefixIs DEF Sound
  <2> QED BY <1>1, <2>1
<1>11. PartsSound(d, more, Len(wr))
  <2>1. \A file : Filed(file, acc, Len(wr)) => Filed(file, more, Len(wr)) BY <1>1, <1>2, <1>10, FiledLater
  <2> HIDE DEF more
  <2> QED BY <1>3, <1>6, <1>7, <2>1 DEF Sound, PartsSound
<1>12. FlightSound(d)
  <2>1. c.busy => d.pending[1] = p[1] BY <1>1, <1>5 DEF Sound, FlightSound
  <2> QED BY <1>3, <1>5, <1>7, <2>1 DEF Sound, FlightSound
<1>13. more = wr \o Records(d.pending) /\ IsPrefix(wr, more)
  <2>1. acc = wr \o Records(p) BY <1>7 DEF Sound
  <2>2. Records(Append(p, e)) = Append(Records(p), e) /\ Records(p) \in Seq(EntryRecord)
      BY <1>1, <1>2, RecordsAppended
  <2>3. wr \o Append(Records(p), e) = Append(wr \o Records(p), e)
    <3> DEFINE s == Records(p)
    <3>1. wr \in Seq(EntryRecord) /\ s \in Seq(EntryRecord) /\ e \in EntryRecord BY <1>1, <1>2, <2>2
    <3> HIDE DEF s, e
    <3> QED BY <3>1, AppendBehind
  <2>4. Len(wr) <= Len(acc) /\ \A i \in 1..Len(wr) : wr[i] = acc[i] BY <1>1, PrefixIs DEF Sound
  <2>5. /\ Len(wr) <= Len(more) /\ more \in Seq(EntryRecord)
        /\ \A i \in 1..Len(wr) : wr[i] = more[i] BY <1>1, <1>2, <1>10, <2>4
  <2> QED BY <1>1, <1>3, <2>1, <2>2, <2>3, <2>5, PrefixIs
<1>14. Sound(d, more, wr)
  <2> HIDE DEF more
  <2> QED BY <1>1, <1>3, <1>4, <1>8, <1>9, <1>11, <1>12, <1>13 DEF Sound
<1> QED BY <1>3, <1>14 DEF Within, d, e

-----------------------------------------------------------------------------
(* The end of a write *)

NextFile(c, count) == IF count = 0 THEN Current(c).file
                      ELSE Append(Current(c).file, Torn(c.pending[1], count))

\* What the accounts are when count of the line in flight was written.
LEMMA Accounted ==
    ASSUME NEW c, NEW acc, NEW wr, Sound(c, acc, wr), c.busy,
           NEW count \in 0..c.pending[1].size
    PROVE  LET d == Account(c, Head(c.pending), count)
           IN  /\ d \in Recorder /\ d.pending = Tail(c.pending) /\ d.busy = FALSE
               /\ d.open = c.open /\ d.stopped = c.stopped /\ d.error = c.error
               /\ d.stamp = c.stamp
               /\ QueueSound(d) /\ ~HeaderWaits(d)
               /\ d.parts # <<>> /\ Len(d.parts) = Len(c.parts)
               /\ \A i \in 1..(Len(c.parts) - 1) : d.parts[i] = c.parts[i]
               /\ Current(d).size = Current(c).size + count
               /\ Current(d).file = NextFile(c, count)
               /\ d.total = SizeOf(d.parts)
               /\ \A i \in 1..Len(d.parts) : d.parts[i].size <= PartBytes
<1> DEFINE p == c.pending
           q == c.parts
           e == p[1]
           cur == q[Len(q)]
           np == [size |-> cur.size + count, file |-> NextFile(c, count)]
           d == Account(c, Head(p), count)
<1>1. /\ c \in Recorder /\ p \in Seq(EntryRecord) /\ q \in Seq(PartRecord) /\ q # <<>> /\ p # <<>>
      /\ c.queued \in Nat /\ c.total \in Nat BY DEF Sound, Recorder, FlightSound
<1>2. e \in EntryRecord /\ e.size \in Nat /\ Head(p) = e
  <2>1. e \in EntryRecord /\ Head(p) = e BY <1>1
  <2> QED BY <2>1 DEF EntryRecord
<1>3. cur \in PartRecord /\ cur.size \in Nat /\ cur.file \in Seq(EntryRecord) /\ Current(c) = cur
  <2>1. cur \in PartRecord BY <1>1
  <2> QED BY <2>1 DEF PartRecord, Current
<1>4. count \in Nat /\ count <= e.size BY <1>2
<1>5. Len(q) \in Nat /\ Len(q) > 0 /\ Len(p) \in Nat /\ Len(p) > 0 BY <1>1
<1>6. NextFile(c, count) \in Seq(EntryRecord)
  <2>1. Torn(e, count) \in EntryRecord BY <1>2, <1>4 DEF Torn, EntryRecord
  <2>2. Append(cur.file, Torn(e, count)) \in Seq(EntryRecord) BY <1>3, <2>1
  <2> QED BY <1>3, <2>2 DEF NextFile
<1>7. np \in PartRecord /\ np.size = cur.size + count /\ np.file = NextFile(c, count)
  <2>1. cur.size + count \in Nat BY <1>3, <1>4
  <2> QED BY <1>6, <2>1 DEF PartRecord
<1>8. /\ d.pending = Tail(p) /\ d.queued = c.queued - e.size /\ d.total = c.total + count
      /\ d.busy = FALSE /\ d.open = c.open /\ d.stopped = c.stopped /\ d.error = c.error
      /\ d.stamp = c.stamp BY <1>1, <1>2 DEF Account, Recorder
<1>10. d.parts = [q EXCEPT ![Len(q)] = np]
  <2>1. d.parts = [q EXCEPT ![Len(q)] =
            [size |-> cur.size + count,
             file |-> IF count = 0 THEN cur.file ELSE Append(cur.file, Torn(Head(p), count))]]
      BY <1>1 DEF Account, Recorder
  <2> QED BY <1>2, <1>3, <2>1 DEF NextFile
<1> DEFINE Changed(x, n, y, m) ==
               [c EXCEPT !.pending = x, !.queued = n, !.parts = y, !.total = m, !.busy = FALSE]
<1>11. d = Changed(d.pending, d.queued, d.parts, d.total)
  <2>1. \E x, n, y, m : d = Changed(x, n, y, m) BY DEF Account
  <2>2. \A x, n, y, m : /\ Changed(x, n, y, m).pending = x /\ Changed(x, n, y, m).queued = n
                        /\ Changed(x, n, y, m).parts = y /\ Changed(x, n, y, m).total = m
      BY <1>1 DEF Recorder
  <2> HIDE DEF d, Changed
  <2> QED BY <2>1, <2>2
<1> HIDE DEF np, d
<1>9. [q EXCEPT ![Len(q)] = np] \in Seq(PartRecord) BY <1>1, <1>5, <1>7
<1>12. Tail(p) \in Seq(EntryRecord) /\ SizeOf(Tail(p)) = SizeOf(p) - e.size BY <1>1, SizedRecords, SizeOfTail
<1>13. d.queued = SizeOf(d.pending) /\ d.queued \in Nat
  <2>1. c.queued = SizeOf(p) BY DEF Sound, QueueSound
  <2>2. SizeOf(Tail(p)) \in Nat BY <1>12, SizedRecords, SizeInNat
  <2> QED BY <1>8, <1>12, <2>1, <2>2
<1>14. d.total = SizeOf(d.parts) /\ d.total \in Nat
  <2>1. c.total = SizeOf(q) BY DEF Sound, PartsSound
  <2>2. SizeOf([q EXCEPT ![Len(q)] = np]) = SizeOf(q) - cur.size + np.size
      BY <1>1, <1>7, SizedRecords, SizeOfLast
  <2>3. SizeOf([q EXCEPT ![Len(q)] = np]) \in Nat BY <1>9, SizedRecords, SizeInNat
  <2>4. c.total - cur.size + (cur.size + count) = c.total + count BY <1>1, <1>3, <1>4
  <2> QED BY <1>7, <1>8, <1>10, <2>1, <2>2, <2>3, <2>4
<1>15. d \in Recorder
  <2>1. \A x \in Seq(EntryRecord), n \in Nat, y \in Seq(PartRecord), m \in Nat :
            Changed(x, n, y, m) \in Recorder BY <1>1 DEF Recorder
  <2>2. /\ d.pending \in Seq(EntryRecord) /\ d.queued \in Nat
        /\ d.parts \in Seq(PartRecord) /\ d.total \in Nat BY <1>8, <1>9, <1>10, <1>12, <1>13, <1>14
  <2> HIDE DEF Changed
  <2>3. Changed(d.pending, d.queued, d.parts, d.total) \in Recorder BY <2>1, <2>2
  <2> QED BY <1>11, <2>3, Zenon
<1>16. /\ d.parts # <<>> /\ Len(d.parts) = Len(q) /\ d.parts[Len(q)] = np
       /\ \A i \in 1..(Len(q) - 1) : d.parts[i] = q[i] BY <1>1, <1>5, <1>9, <1>10
<1>17. /\ Len(Tail(p)) = Len(p) - 1
       /\ \A i \in 1..Len(Tail(p)) : Tail(p)[i] = p[i + 1] /\ i + 1 \in 2..Len(p) BY <1>1, <1>5
<1>18. \A i \in 1..Len(d.pending) : ~d.pending[i].header BY <1>8, <1>17 DEF Sound, QueueSound
<1>19. ~HeaderWaits(d)
  <2>1. d.pending # <<>> => 1 \in 1..Len(d.pending) BY <1>8, <1>12
  <2> QED BY <1>18, <2>1 DEF HeaderWaits
<1>20. QueueSound(d)
  <2>1. d.queued <= QueueLimit
    <3>1. CASE HeaderWaits(c)
      <4>1. e = HeaderEntry /\ c.queued <= QueueLimit + Header BY <3>1 DEF Sound, QueueSound
      <4> QED BY <1>1, <1>8, <4>1, HeaderEntryTyped, Limits
    <3>2. CASE ~HeaderWaits(c)
      <4>1. c.queued <= QueueLimit + 0 BY <3>2 DEF Sound, QueueSound
      <4> QED BY <1>1, <1>2, <1>8, <4>1, Limits
    <3> QED BY <3>1, <3>2
  <2>2. \A i \in 1..Len(d.pending) : d.pending[i].size + Header <= PartBytes
    <3>1. \A i \in 2..Len(p) : i \in 1..Len(p) /\ ~p[i].header BY <1>5 DEF Sound, QueueSound
    <3> QED BY <1>8, <1>17, <3>1 DEF Sound, QueueSound
  <2>3. \A i \in 2..Len(d.pending) : i \in 1..Len(d.pending) BY <1>8, <1>12
  <2>4. d.queued <= QueueLimit + (IF HeaderWaits(d) THEN Header ELSE 0) BY <1>13, <1>19, <2>1, Limits
  <2> QED BY <1>13, <1>18, <1>19, <2>2, <2>3, <2>4 DEF QueueSound
<1>21. \A i \in 1..Len(d.parts) : d.parts[i].size <= PartBytes
  <2>1. np.size <= PartBytes
    <3>1. cur.size + e.size <= PartBytes BY <1>3 DEF Sound, FlightSound
    <3>2. np.size = cur.size + count /\ cur.size \in Nat /\ e.size \in Nat /\ count \in Nat /\ count <= e.size
        BY <1>2, <1>3, <1>4, <1>7
    <3> HIDE DEF cur, e
    <3> QED BY <3>1, <3>2, Limits
  <2>2. \A i \in 1..Len(d.parts) : i = Len(q) \/ i \in 1..(Len(q) - 1) BY <1>5, <1>16
  <2>3. \A i \in 1..(Len(q) - 1) : q[i].size <= PartBytes BY <1>5 DEF Sound, PartsSound
  <2> QED BY <1>16, <2>1, <2>2, <2>3
<1>22. Current(d).size = Current(c).size + count /\ Current(d).file = NextFile(c, count)
     BY <1>3, <1>7, <1>16 DEF Current
<1> QED BY <1>8, <1>14, <1>15, <1>16, <1>19, <1>20, <1>21, <1>22 DEF d

\* What follows a file's lines in what was accepted may be added to them.
LEMMA FiledNext ==
    ASSUME NEW acc, NEW m \in Nat, NEW file \in Seq(EntryRecord), Filed(file, acc, m),
           file # <<>>, acc[m + 1].n = m + 1
    PROVE  Filed(file, acc, m + 1) /\ Filed(Append(file, acc[m + 1]), acc, m + 1)
<1> DEFINE e == acc[m + 1]
           more == Append(file, e)
<1>1. /\ Len(more) = Len(file) + 1 /\ more[Len(file) + 1] = e
      /\ \A i \in 1..Len(file) : more[i] = file[i]
      /\ Len(file) \in Nat /\ Len(file) > 0 OBVIOUS
<1>2. \A i \in 2..Len(more) : i = Len(file) + 1 \/ (i \in 2..Len(file) /\ i \in 1..Len(file)) BY <1>1
<1>3. 1..m \subseteq 1..(m + 1) /\ m + 1 \in 1..(m + 1) OBVIOUS
<1>4. more # <<>> /\ more[1] = HeaderEntry
  <2>1. 1 \in 1..Len(file) BY <1>1
  <2>2. more[1] = HeaderEntry BY <1>1, <2>1 DEF Filed
  <2> QED BY <1>1, <2>2
<1> HIDE DEF more, e
<1>5. \A i \in 2..Len(more) : more[i].n \in 1..(m + 1) /\ more[i] = acc[more[i].n]
    BY <1>1, <1>2, <1>3 DEF Filed, e
<1>6. ASSUME NEW i \in 2..Len(more), NEW j \in 2..Len(more), i < j PROVE more[i].n < more[j].n
  <2>1. i \in 2..Len(file) /\ i \in 1..Len(file) BY <1>1, <1>2, <1>6
  <2>2. CASE j = Len(file) + 1
    <3>1. more[j].n = m + 1 BY <1>1, <2>2 DEF e
    <3>2. more[i].n \in 1..m BY <1>1, <2>1 DEF Filed
    <3> QED BY <3>1, <3>2
  <2>3. CASE j \in 2..Len(file) /\ j \in 1..Len(file) BY <1>1, <1>6, <2>1, <2>3 DEF Filed
  <2> QED BY <1>2, <2>2, <2>3
<1>7. Filed(more, acc, m + 1) BY <1>4, <1>5, <1>6 DEF Filed
<1>8. Filed(file, acc, m + 1) BY <1>3 DEF Filed
<1> QED BY <1>7, <1>8 DEF more, e

\* The line in flight was written whole.
LEMMA WholeSound ==
    ASSUME NEW c, NEW acc, NEW wr, Sound(c, acc, wr), c.busy
    PROVE  LET e == Head(c.pending)
           IN  Sound(Account(c, e, e.size), acc, IF e.header THEN wr ELSE Append(wr, e))
<1> DEFINE p == c.pending
           e == p[1]
           d == Account(c, Head(p), e.size)
           more == IF e.header THEN wr ELSE Append(wr, e)
<1>1. /\ c \in Recorder /\ p \in Seq(EntryRecord) /\ p # <<>> /\ acc \in Seq(EntryRecord)
      /\ wr \in Seq(EntryRecord) /\ c.parts \in Seq(PartRecord) /\ c.parts # <<>>
      /\ Live(c) /\ acc = wr \o Records(p) BY DEF Sound, Recorder, FlightSound, Accepted, Live
<1>2. e \in EntryRecord /\ e.size \in Nat /\ Head(p) = e /\ e.size \in 0..e.size
  <2>1. e \in EntryRecord /\ Head(p) = e BY <1>1
  <2> QED BY <2>1 DEF EntryRecord
<1>3. /\ d \in Recorder /\ d.pending = Tail(p) /\ d.busy = FALSE
      /\ d.open = c.open /\ d.stopped = c.stopped /\ d.error = c.error /\ d.stamp = c.stamp
      /\ QueueSound(d) /\ ~HeaderWaits(d)
      /\ d.parts # <<>> /\ Len(d.parts) = Len(c.parts)
      /\ \A i \in 1..(Len(c.parts) - 1) : d.parts[i] = c.parts[i]
      /\ Current(d).size = Current(c).size + e.size
      /\ Current(d).file = NextFile(c, e.size)
      /\ d.total = SizeOf(d.parts)
      /\ \A i \in 1..Len(d.parts) : d.parts[i].size <= PartBytes
  <2>1. PICK count \in 0..p[1].size : count = e.size BY <1>2
  <2> DEFINE b == Account(c, Head(p), count)
  <2>2. b = d BY <2>1
  <2>3. /\ b \in Recorder /\ b.pending = Tail(p) /\ b.busy = FALSE
        /\ b.open = c.open /\ b.stopped = c.stopped /\ b.error = c.error /\ b.stamp = c.stamp
        /\ QueueSound(b) /\ ~HeaderWaits(b)
        /\ b.parts # <<>> /\ Len(b.parts) = Len(c.parts)
        /\ \A i \in 1..(Len(c.parts) - 1) : b.parts[i] = c.parts[i]
        /\ Current(b).size = Current(c).size + count
        /\ Current(b).file = NextFile(c, count)
        /\ b.total = SizeOf(b.parts)
        /\ \A i \in 1..Len(b.parts) : b.parts[i].size <= PartBytes BY Accounted
  <2> HIDE DEF b, d
  <2> QED BY <2>1, <2>2, <2>3
<1> HIDE DEF d
<1>4. Current(c) \in PartRecord /\ Current(c).size \in Nat /\ Current(c).file \in Seq(EntryRecord)
  <2>1. Current(c) \in PartRecord BY <1>1, LastIs DEF Current
  <2> QED BY <2>1 DEF PartRecord
<1>5. Torn(e, e.size) = e BY <1>2 DEF Torn, EntryRecord
<1>6. Len(wr) \in Nat BY <1>1
<1>7. Records(Tail(p)) = Tail(p) /\ Tail(p) \in Seq(EntryRecord)
  <2>1. Tail(p) \in Seq(EntryRecord) BY <1>1
  <2>2. Tail(p) # <<>> => Head(Tail(p)) = Tail(p)[1] BY <2>1
  <2>3. ~(Tail(p) # <<>> /\ Tail(p)[1].header) BY <1>3 DEF HeaderWaits
  <2> QED BY <2>1, <2>2, <2>3 DEF Records
<1>8. Accepted(d, acc) BY <1>3 DEF Sound, Accepted
<1>9. FlightSound(d) BY <1>1, <1>3 DEF Sound, FlightSound, Live
<1>10. /\ more \in Seq(EntryRecord) /\ Len(more) \in {Len(wr), Len(wr) + 1}
       /\ acc = more \o Tail(p)
       /\ Filed(NextFile(c, e.size), acc, Len(more)) /\ NextFile(c, e.size) # <<>>
       /\ Current(d).size >= Header
  <2>1. CASE e.header
    <3>1. HeaderWaits(c) BY <1>1, <2>1 DEF HeaderWaits
    <3>2. e = HeaderEntry /\ Current(c).file = <<>> /\ Current(c).size = 0
        BY <1>1, <3>1 DEF Sound, QueueSound, PartsSound
    <3>3. e.size # 0 /\ Header \in Nat BY <3>2, HeaderEntryTyped, Limits
    <3>4. NextFile(c, e.size) = Append(<<>>, e) BY <1>5, <3>2, <3>3 DEF NextFile
    <3>5. Append(<<>>, e) # <<>> /\ Append(<<>>, e)[1] = e /\ Len(Append(<<>>, e)) = 1 OBVIOUS
    <3>6. Filed(NextFile(c, e.size), acc, Len(wr)) BY <3>2, <3>4, <3>5 DEF Filed
    <3>7. Records(p) = Tail(p) BY <1>1, <1>2, <2>1 DEF Records
    <3>8. Current(d).size >= Header BY <1>3, <3>2, <3>3, HeaderEntryTyped
    <3> QED BY <1>1, <2>1, <3>4, <3>5, <3>6, <3>7, <3>8
  <2>2. CASE ~e.header
    <3>1. ~HeaderWaits(c) /\ Records(p) = p BY <1>2, <2>2 DEF HeaderWaits, Records
    <3>2. Current(c).size >= Header /\ Current(c).file # <<>> /\ Filed(Current(c).file, acc, Len(wr))
        BY <1>1, <3>1 DEF Sound, PartsSound
    <3>3. acc = Append(wr, e) \o Tail(p) /\ acc[Len(wr) + 1] = e
      <4>1. wr \o p = Append(wr, e) \o Tail(p) /\ (wr \o p)[Len(wr) + 1] = e BY <1>1, MovedOver
      <4>2. acc = wr \o p BY <1>1, <3>1
      <4> QED BY <4>1, <4>2
    <3>4. Len(wr) + 1 \in 1..Len(acc)
      <4>1. Len(acc) = Len(wr) + Len(p) /\ Len(p) \in Nat /\ Len(p) > 0 BY <1>1, <3>1
      <4> QED BY <1>6, <4>1
    <3>5. acc[Len(wr) + 1].n = Len(wr) + 1 BY <3>4 DEF Sound, Accepted
    <3>6. /\ Filed(Current(c).file, acc, Len(wr) + 1)
          /\ Filed(Append(Current(c).file, e), acc, Len(wr) + 1)
        BY <1>4, <1>6, <3>2, <3>3, <3>5, FiledNext
    <3>7. NextFile(c, e.size) = IF e.size = 0 THEN Current(c).file ELSE Append(Current(c).file, e)
        BY <1>5 DEF NextFile
    <3>8. Append(Current(c).file, e) # <<>> BY <1>2, <1>4, AppendProperties
    <3>9. Append(wr, e) \in Seq(EntryRecord) /\ Len(Append(wr, e)) = Len(wr) + 1 BY <1>1, <1>2, AppendProperties
    <3>10. Current(d).size >= Header BY <1>2, <1>3, <1>4, <3>2, Limits
    <3> QED BY <2>2, <3>2, <3>3, <3>6, <3>7, <3>8, <3>9, <3>10
  <2> QED BY <2>1, <2>2
<1> HIDE DEF more
<1>11. \A file : Filed(file, acc, Len(wr)) => Filed(file, acc, Len(more))
  <2>1. 1..Len(wr) \subseteq 1..Len(more) BY <1>6, <1>10
  <2> QED BY <2>1 DEF Filed
<1>12. PartsSound(d, acc, Len(more))
  <2>1. \A i \in 1..(Len(d.parts) - 1) :
            d.parts[i].file # <<>> /\ Filed(d.parts[i].file, acc, Len(more))
      BY <1>3, <1>11 DEF Sound, PartsSound
  <2> QED BY <1>3, <1>10, <2>1 DEF PartsSound
<1>13. IsPrefix(more, acc) BY <1>7, <1>10, PrefixJoined
<1>14. Sound(d, acc, more) BY <1>3, <1>7, <1>8, <1>9, <1>10, <1>12, <1>13 DEF Sound
<1> QED BY <1>2, <1>14 DEF d, more

\* The line in flight was cut short, or not written.
LEMMA TornSound ==
    ASSUME NEW c, NEW acc, NEW wr, Sound(c, acc, wr), c.busy,
           NEW count \in 0..(Head(c.pending).size - 1)
    PROVE  Sound(Failed(Account(c, Head(c.pending), count)), acc, wr)
<1> DEFINE p == c.pending
           e == p[1]
           b == Account(c, Head(p), count)
           d == Failed(b)
<1>1. p \in Seq(EntryRecord) /\ p # <<>> BY DEF Sound, Recorder, FlightSound
<1>2. Head(p) = e /\ e \in EntryRecord BY <1>1
<1>3. count \in 0..e.size BY <1>2 DEF EntryRecord
<1>4. /\ b \in Recorder /\ b.busy = FALSE /\ QueueSound(b) /\ ~HeaderWaits(b)
      /\ b.parts # <<>> /\ Len(b.parts) = Len(c.parts) /\ b.stamp = c.stamp
      /\ \A i \in 1..(Len(c.parts) - 1) : b.parts[i] = c.parts[i]
      /\ b.total = SizeOf(b.parts)
      /\ \A i \in 1..Len(b.parts) : b.parts[i].size <= PartBytes BY <1>3, Accounted
<1> HIDE DEF b
<1>5. /\ d \in Recorder /\ d.pending = b.pending /\ d.queued = b.queued /\ d.parts = b.parts
      /\ d.total = b.total /\ d.busy = FALSE /\ d.stamp = b.stamp
      /\ d.error = TRUE /\ d.stopped = TRUE BY <1>4 DEF Failed, Recorder
<1> HIDE DEF d
<1>6. ~Live(d) /\ ~HeaderWaits(d) BY <1>4, <1>5 DEF Live, HeaderWaits
<1>7. QueueSound(d) BY <1>4, <1>5, <1>6 DEF QueueSound
<1>8. PartsSound(d, acc, Len(wr)) BY <1>4, <1>5, <1>6 DEF Sound, PartsSound
<1>9. FlightSound(d) BY <1>5, <1>6 DEF FlightSound
<1>10. Accepted(d, acc) BY <1>4, <1>5 DEF Sound, Accepted
<1>11. Sound(d, acc, wr) BY <1>4, <1>5, <1>6, <1>7, <1>8, <1>9, <1>10 DEF Sound
<1> QED BY <1>11 DEF b, d

\* Deleting old parts leaves the current one, and what is known of the others.
LEMMA DroppedSound ==
    ASSUME NEW c, NEW acc, NEW wr, Sound(c, acc, wr), NEW k \in 0..(Len(c.parts) - 1)
    PROVE  LET d == Dropped(c, k)
           IN  /\ Sound(d, acc, wr) /\ d.busy = c.busy /\ d.error = c.error
               /\ d.total = c.total - SizeOf(SubSeq(c.parts, 1, k))
               /\ Len(d.parts) = Len(c.parts) - k
<1> DEFINE q == c.parts
           rest == SubSeq(q, k + 1, Len(q))
           d == Dropped(c, k)
<1>1. c \in Recorder /\ q \in Seq(PartRecord) /\ q # <<>> /\ c.total \in Nat BY DEF Sound, Recorder
<1>2. Len(q) \in Nat /\ Len(q) > 0 /\ k \in Nat /\ k < Len(q) BY <1>1
<1>3. /\ rest \in Seq(PartRecord) /\ Len(rest) = Len(q) - k /\ rest # <<>>
      /\ \A i \in 1..Len(rest) : rest[i] = q[k + i] /\ k + i \in 1..Len(q)
  <2>1. rest \in Seq(PartRecord) /\ Len(rest) = Len(q) - k BY <1>1, <1>2
  <2>2. \A i \in 1..Len(rest) : rest[i] = q[k + i] /\ k + i \in 1..Len(q) BY <1>1, <1>2, <2>1
  <2> HIDE DEF rest
  <2>3. rest # <<>> BY <1>2, <2>1
  <2> QED BY <2>1, <2>2, <2>3
<1>4. SizeOf(q) = SizeOf(SubSeq(q, 1, k)) + SizeOf(rest) BY <1>1, <1>2, SizedRecords, SizeSplit
<1>5. SizeOf(rest) \in Nat /\ SizeOf(SubSeq(q, 1, k)) \in Nat
  <2>1. SubSeq(q, 1, k) \in Seq(PartRecord) BY <1>1, <1>2
  <2> HIDE DEF rest
  <2> QED BY <1>3, <2>1, SizedRecords, SizeInNat
<1>6. c.total = SizeOf(q) BY DEF Sound, PartsSound
<1> DEFINE n == c.total - SizeOf(SubSeq(q, 1, k))
<1>7. n = SizeOf(rest) /\ n \in Nat BY <1>4, <1>5, <1>6
<1>8. d = [c EXCEPT !.parts = rest, !.total = n] BY <1>1 DEF Dropped, Recorder
<1> HIDE DEF d, rest, n
<1>9. /\ d \in Recorder /\ d.pending = c.pending /\ d.queued = c.queued /\ d.parts = rest
      /\ d.total = n /\ d.busy = c.busy /\ d.stamp = c.stamp /\ d.error = c.error
      /\ d.stopped = c.stopped /\ d.open = c.open BY <1>1, <1>3, <1>7, <1>8 DEF Recorder
<1>10. (HeaderWaits(d) <=> HeaderWaits(c)) /\ (Live(d) <=> Live(c)) BY <1>9 DEF HeaderWaits, Live
<1>11. Current(d) = Current(c)
  <2>1. Len(rest) \in 1..Len(rest) /\ k + Len(rest) = Len(q) BY <1>2, <1>3
  <2> QED BY <1>3, <1>9, <2>1 DEF Current
<1>12. PartsSound(d, acc, Len(wr))
  <2>1. \A i \in 1..Len(rest) : rest[i].size <= PartBytes BY <1>3 DEF Sound, PartsSound
  <2>2. \A i \in 1..(Len(rest) - 1) : k + i \in 1..(Len(q) - 1) /\ i \in 1..Len(rest) BY <1>2, <1>3
  <2>3. \A i \in 1..(Len(rest) - 1) : rest[i].file # <<>> /\ Filed(rest[i].file, acc, Len(wr))
      BY <1>3, <2>2 DEF Sound, PartsSound
  <2> QED BY <1>7, <1>9, <1>10, <1>11, <2>1, <2>3 DEF Sound, PartsSound
<1>13. QueueSound(d) BY <1>9, <1>10 DEF Sound, QueueSound
<1>14. FlightSound(d) BY <1>9, <1>10, <1>11 DEF Sound, FlightSound
<1>15. Accepted(d, acc) BY <1>9 DEF Sound, Accepted
<1>16. Sound(d, acc, wr) BY <1>3, <1>9, <1>10, <1>12, <1>13, <1>14, <1>15 DEF Sound
<1> QED BY <1>3, <1>9, <1>16 DEF d, n

\* How many parts go: as few as the limits allow.
LEMMA ExpiredIs ==
    ASSUME NEW parts, NEW total, Len(parts) \in Nat, Len(parts) > 0
    PROVE  LET k == Expired(parts, total)
           IN  /\ k \in 0..(Len(parts) - 1)
               /\ \/ k = Len(parts) - 1
                  \/ /\ Len(parts) - k <= KeepFiles
                     /\ total - SizeOf(SubSeq(parts, 1, k)) <= DiskLimit
<1> DEFINE S == { k \in 0..(Len(parts) - 1) :
                    \/ k = Len(parts) - 1
                    \/ /\ Len(parts) - k <= KeepFiles
                       /\ total - SizeOf(SubSeq(parts, 1, k)) <= DiskLimit }
<1>1. Len(parts) - 1 \in S /\ S \in SUBSET Nat OBVIOUS
<1>2. Expired(parts, total) = Min(S) BY DEF Expired
<1>3. Min(S) \in S
  <2> HIDE DEF S
  <2> QED BY <1>1, SmallestIs
<1> QED BY <1>2, <1>3

\* Trimming restores the limits, or ends the recording.
LEMMA TrimSound ==
    ASSUME NEW c, NEW acc, NEW wr, Sound(c, acc, wr), ~c.busy,
           NEW d \in Trim(c)
    PROVE  Sound(d, acc, wr) /\ Within(d)
<1> DEFINE k == Expired(c.parts, c.total)
<1>1. c.parts \in Seq(PartRecord) /\ c.parts # <<>> /\ Len(c.parts) \in Nat /\ Len(c.parts) > 0
    BY DEF Sound, Recorder
<1>2. /\ k \in 0..(Len(c.parts) - 1)
      /\ \/ k = Len(c.parts) - 1
         \/ /\ Len(c.parts) - k <= KeepFiles
            /\ c.total - SizeOf(SubSeq(c.parts, 1, k)) <= DiskLimit BY <1>1, ExpiredIs
<1>3. d = Dropped(c, k) \/ \E j \in 0..(k - 1) : d = Failed(Dropped(c, j)) BY DEF Trim
<1> HIDE DEF k
<1>4. CASE d = Dropped(c, k)
  <2>1. /\ Sound(d, acc, wr) /\ d.busy = c.busy /\ d.error = c.error
        /\ d.total = c.total - SizeOf(SubSeq(c.parts, 1, k))
        /\ Len(d.parts) = Len(c.parts) - k BY <1>2, <1>4, DroppedSound
  <2>2. CASE k = Len(c.parts) - 1
    <3>1. d.parts \in Seq(PartRecord) /\ Len(d.parts) = 1 BY <1>1, <2>1, <2>2 DEF Sound, Recorder
    <3>2. d.parts[1] \in PartRecord /\ DOMAIN d.parts = 1..1 BY <3>1
    <3>3. SizeOf(d.parts) = d.parts[1].size BY <3>2, SizeOne DEF PartRecord
    <3>4. d.parts[1].size <= PartBytes /\ d.total = SizeOf(d.parts) BY <2>1, <3>1 DEF Sound, PartsSound
    <3>5. d.parts[1].size \in Nat BY <3>2 DEF PartRecord
    <3>6. d.total <= DiskLimit BY <3>3, <3>4, <3>5, Limits
    <3>7. 1 <= KeepFiles + 0 BY Limits
    <3> QED BY <2>1, <3>1, <3>6, <3>7 DEF Within
  <2>3. CASE /\ Len(c.parts) - k <= KeepFiles
             /\ c.total - SizeOf(SubSeq(c.parts, 1, k)) <= DiskLimit
    <3>1. Len(d.parts) <= KeepFiles /\ d.total <= DiskLimit BY <2>1, <2>3
    <3>2. KeepFiles + 0 = KeepFiles BY Limits
    <3> QED BY <2>1, <3>1, <3>2 DEF Within
  <2> QED BY <1>2, <2>2, <2>3
<1>5. CASE \E j \in 0..(k - 1) : d = Failed(Dropped(c, j))
  <2>1. PICK j \in 0..(k - 1) : d = Failed(Dropped(c, j)) BY <1>5
  <2>2. j \in 0..(Len(c.parts) - 1) BY <1>1, <1>2
  <2>3. Sound(Dropped(c, j), acc, wr) BY <2>2, DroppedSound
  <2> QED BY <2>1, <2>3, FailedSound
<1> QED BY <1>3, <1>4, <1>5

-----------------------------------------------------------------------------
(* The steps *)

\* The clock does not go back.
LEMMA LatestIs ==
    ASSUME cap \in Recorder, NEW time \in Times
    PROVE  Latest(time) \in Nat /\ cap.stamp <= Latest(time)
<1>1. cap.stamp \in Nat /\ time \in Nat BY Limits DEF Recorder
<1> QED BY <1>1 DEF Latest

\* tio_capture_record
LEMMA RecordSound ==
    ASSUME IInv, NEW size \in LineSizes, NEW time \in Times, Record(size, time)
    PROVE  IInv'
<1> DEFINE t == Latest(time)
           e == Entry(size, t, Len(accepted) + 1)
           late == [cap EXCEPT !.stamp = t]
           more == [cap EXCEPT !.stamp = t, !.pending = Append(@, e), !.queued = @ + size]
<1>1. Sound(cap, accepted, written) /\ Within(cap) /\ cap \in Recorder BY DEF IInv, Sound
<1>2. t \in Nat /\ cap.stamp <= t /\ size \in Nat BY <1>1, LatestIs, Limits
<1>3. ~cap.stopped /\ ~cap.error /\ written' = written BY DEF Record
<1>4. CASE size + Header > PartBytes \/ cap.queued + size > QueueLimit
  <2>1. cap' \in Pump(Failed(late)) /\ accepted' = accepted BY <1>4 DEF Record
  <2>2. /\ late \in Recorder /\ late.pending = cap.pending /\ late.queued = cap.queued
        /\ late.parts = cap.parts /\ late.total = cap.total /\ late.busy = cap.busy
        /\ late.stamp = t /\ late.error = cap.error /\ late.stopped = cap.stopped
        /\ late.open = cap.open BY <1>1, <1>2 DEF Recorder
  <2> HIDE DEF late, t
  <2>3. Live(late) => Live(cap) BY <2>2 DEF Live
  <2>4. cap.open BY <1>1, <1>3 DEF Sound, FlightSound
  <2>5. Sound(late, accepted, written) BY <1>1, <1>2, <1>3, <2>2, <2>3, <2>4, SameSound
  <2>6. Sound(Failed(late), accepted, written) /\ Within(Failed(late)) BY <2>5, FailedSound
  <2>7. Sound(cap', accepted, written) /\ Within(cap') /\ Waiting(cap') BY <2>1, <2>6, PumpSound
  <2> QED BY <1>3, <2>1, <2>7 DEF IInv, Sound, Within, Waiting
<1>5. CASE ~(size + Header > PartBytes \/ cap.queued + size > QueueLimit)
  <2>1. cap' \in Pump(more) /\ accepted' = Append(accepted, e) BY <1>5 DEF Record
  <2>2. size + Header <= PartBytes /\ cap.queued + size <= QueueLimit
    <3>1. cap.queued \in Nat BY <1>1 DEF Recorder
    <3> QED BY <1>2, <1>5, <3>1, Limits
  <2> HIDE DEF t
  <2>3. Sound(more, Append(accepted, e), written) /\ Within(more) BY <1>1, <1>2, <1>3, <2>2, AcceptSound
  <2> HIDE DEF more, e
  <2>4. Sound(cap', Append(accepted, e), written) /\ Within(cap') /\ Waiting(cap') BY <2>1, <2>3, PumpSound
  <2> QED BY <1>3, <2>1, <2>4 DEF IInv, Sound, Within, Waiting
<1> QED BY <1>4, <1>5

\* A record that is not valid, and tio_capture_stop
LEMMA EndingSound ==
    ASSUME IInv, RecordInvalid \/ Stop
    PROVE  IInv'
<1>1. Sound(cap, accepted, written) /\ Within(cap) /\ cap \in Recorder BY DEF IInv, Sound
<1>2. accepted' = accepted /\ written' = written /\ ~cap.stopped
  <2>1. cap.stopped \in BOOLEAN BY <1>1 DEF Recorder
  <2> QED BY <2>1 DEF RecordInvalid, Stop
<1>3. cap.open BY <1>1, <1>2 DEF Sound, FlightSound
<1> DEFINE ended == [cap EXCEPT !.stopped = TRUE]
<1>4. Sound(ended, accepted, written) /\ Within(ended)
  <2>1. /\ ended \in Recorder /\ ended.pending = cap.pending /\ ended.queued = cap.queued
        /\ ended.parts = cap.parts /\ ended.total = cap.total /\ ended.busy = cap.busy
        /\ ended.stamp = cap.stamp /\ ended.error = cap.error /\ ended.stopped = TRUE
        /\ ended.open = cap.open BY <1>1 DEF Recorder
  <2> HIDE DEF ended
  <2>2. cap.stamp <= ended.stamp BY <1>1, <2>1 DEF Recorder
  <2>3. Live(ended) => Live(cap) BY <2>1 DEF Live
  <2>4. Sound(ended, accepted, written) BY <1>1, <1>3, <2>1, <2>2, <2>3, SameSound
  <2> QED BY <1>1, <2>1, <2>4 DEF Within
<1>5. cap' \in Pump(Failed(cap)) \/ cap' \in Pump(ended) BY DEF RecordInvalid, Stop
<1> HIDE DEF ended
<1>6. Sound(cap', accepted, written) /\ Within(cap') /\ Waiting(cap')
  <2>1. Sound(Failed(cap), accepted, written) /\ Within(Failed(cap)) BY <1>1, FailedSound
  <2> QED BY <1>4, <1>5, <2>1, PumpSound
<1> QED BY <1>2, <1>6 DEF IInv, Sound, Within, Waiting

\* written()
LEMMA WrittenSound ==
    ASSUME IInv, NEW ok \in BOOLEAN, Written(ok)
    PROVE  IInv'
<1> DEFINE e == Head(cap.pending)
           more == IF ok /\ ~e.header THEN Append(written, e) ELSE written
<1>1. Sound(cap, accepted, written) /\ cap \in Recorder BY DEF IInv, Sound
<1>2. cap.busy /\ accepted' = accepted /\ written' = more BY DEF Written
<1>3. ASSUME NEW b, Sound(b, accepted, more), ~b.busy, NEW c \in Trim(b), cap' \in Pump(c)
      PROVE  IInv'
  <2> HIDE DEF more
  <2>1. Sound(c, accepted, more) /\ Within(c) BY <1>3, TrimSound
  <2>2. Sound(cap', accepted, more) /\ Within(cap') /\ Waiting(cap') BY <1>3, <2>1, PumpSound
  <2> QED BY <1>2, <2>2 DEF IInv, Sound, Within, Waiting
<1>4. CASE ok
  <2> DEFINE b == Account(cap, e, e.size)
  <2>1. PICK c \in Trim(b) : cap' \in Pump(c) BY <1>4 DEF Written
  <2>2. Sound(b, accepted, IF e.header THEN written ELSE Append(written, e)) BY <1>1, <1>2, WholeSound
  <2>3. more = IF e.header THEN written ELSE Append(written, e) BY <1>4
  <2>4. ~b.busy BY <1>1 DEF Account, Recorder
  <2> HIDE DEF b, more, e
  <2>5. Sound(b, accepted, more) BY <2>2, <2>3
  <2> QED BY <1>3, <2>1, <2>4, <2>5
<1>5. CASE ~ok
  <2>1. PICK count \in 0..(e.size - 1) :
            \E c \in Trim(Failed(Account(cap, e, count))) : cap' \in Pump(c) BY <1>5 DEF Written
  <2> DEFINE b == Failed(Account(cap, e, count))
  <2>2. PICK c \in Trim(b) : cap' \in Pump(c) BY <2>1
  <2>3. Sound(b, accepted, written) BY <1>1, <1>2, TornSound
  <2>4. more = written BY <1>5
  <2>5. ~b.busy BY <1>1 DEF Account, Failed, Recorder
  <2> HIDE DEF b, more, e
  <2>6. Sound(b, accepted, more) BY <2>3, <2>4
  <2> QED BY <1>3, <2>2, <2>5, <2>6
<1> QED BY <1>4, <1>5

\* Every step keeps the recorder.
LEMMA StepSound == ASSUME IInv, [Next]_vars PROVE IInv'
<1>1. ASSUME NEW size \in LineSizes, NEW time \in Times, Record(size, time) PROVE IInv' BY <1>1, RecordSound
<1>2. CASE RecordInvalid \/ Stop BY <1>2, EndingSound
<1>3. CASE Written(TRUE) \/ Written(FALSE) BY <1>3, WrittenSound
<1>4. CASE UNCHANGED vars BY <1>4 DEF vars, IInv, Sound, Within, Waiting
<1> QED BY <1>1, <1>2, <1>3, <1>4 DEF Next

-----------------------------------------------------------------------------
(* What the invariant says of the files and the counters *)

\* A file whose lines were accepted in that order can be replayed.
LEMMA FiledLoadable ==
    ASSUME NEW c, Accepted(c, accepted), NEW m \in 0..Len(accepted),
           NEW file \in Seq(EntryRecord), file # <<>>, Filed(file, accepted, m),
           NEW part, part.file = file, part.size <= ReplayLimit, Len(file) - 1 <= MaxEvents
    PROVE  Loadable(part)
<1>1. /\ DOMAIN file = 1..Len(file) /\ Len(file) \in Nat /\ 1 \in 1..Len(file)
      /\ Head(file) = file[1] /\ file[1] = HeaderEntry BY DEF Filed
<1>2. \A i \in DOMAIN file : i = 1 \/ (i > 1 /\ i \in 2..Len(file)) BY <1>1
<1>3. \A i \in 2..Len(file) : file[i].n \in 1..Len(accepted) /\ file[i] = accepted[file[i].n]
  <2>1. 1..m \subseteq 1..Len(accepted) OBVIOUS
  <2> QED BY <2>1 DEF Filed
<1>4. \A i \in DOMAIN file : file[i].header = (i = 1)
  <2>1. HeaderEntry.header = TRUE BY DEF HeaderEntry
  <2>2. \A k \in 1..Len(accepted) : accepted[k].header = FALSE
    <3>1. \A k \in 1..Len(accepted) : accepted[k] \in EntryRecord BY DEF Accepted
    <3> QED BY <3>1 DEF Accepted, EntryRecord
  <2>3. \A i \in 2..Len(file) : file[i].header = FALSE BY <1>3, <2>2
  <2> QED BY <1>1, <1>2, <2>1, <2>3
<1>5. ASSUME NEW i \in DOMAIN file, NEW j \in DOMAIN file, 1 < i /\ i < j
      PROVE  file[i].t <= file[j].t /\ file[i].n < file[j].n
  <2>1. i \in 2..Len(file) /\ j \in 2..Len(file) BY <1>1, <1>5
  <2>2. file[i].n < file[j].n BY <1>5, <2>1 DEF Filed
  <2>3. accepted[file[i].n].t <= accepted[file[j].n].t BY <1>3, <2>1, <2>2 DEF Accepted
  <2> QED BY <1>3, <2>1, <2>2, <2>3
<1>6. \A i \in DOMAIN file : i > 1 => file[i].size = accepted[file[i].n].size BY <1>2, <1>3
<1> QED BY <1>1, <1>4, <1>5, <1>6, HeaderEntryTyped DEF Loadable

\* The recorder records as it claims.
LEMMA SoundRecords == ASSUME IInv PROVE Recorded
<1>1. /\ Sound(cap, accepted, written) /\ Within(cap) /\ Waiting(cap) /\ cap \in Recorder
      /\ cap.parts \in Seq(PartRecord) /\ cap.parts # <<>>
      /\ accepted \in Seq(EntryRecord) /\ written \in Seq(EntryRecord)
    BY DEF IInv, Sound, Recorder, Accepted
<1>2. /\ DOMAIN cap.parts = 1..Len(cap.parts) /\ Len(cap.parts) \in Nat /\ Len(cap.parts) > 0
      /\ \A i \in 1..Len(cap.parts) : cap.parts[i] \in PartRecord BY <1>1
<1>3. TypeOK
  <2>1. cap.busy => cap.pending # <<>> /\ cap.open BY <1>1 DEF Sound, FlightSound, Live
  <2> QED BY <1>1, <2>1 DEF TypeOK, Recorder
<1>4. AccountsExact BY <1>1 DEF AccountsExact, Sound, QueueSound, PartsSound
<1>5. LimitsKept
  <2>1. cap.queued <= QueueLimit + Header
    <3>1. cap.queued \in Nat /\ cap.queued <= QueueLimit + (IF HeaderWaits(cap) THEN Header ELSE 0)
        BY <1>1 DEF Sound, QueueSound, Recorder
    <3> QED BY <3>1, Limits
  <2>2. \A i \in DOMAIN cap.parts : cap.parts[i].size <= PartBytes BY <1>1, <1>2 DEF Sound, PartsSound
  <2> QED BY <1>1, <2>1, <2>2 DEF LimitsKept, Within
<1>6. WrittenInOrder BY <1>1 DEF WrittenInOrder, Sound, Live
<1>7. PartsLoadable
  <2> SUFFICES ASSUME NEW i \in DOMAIN cap.parts,
                      i < Len(cap.parts) \/ (~cap.busy /\ ~cap.error),
                      Len(cap.parts[i].file) - 1 <= MaxEvents
               PROVE  Loadable(cap.parts[i]) BY DEF PartsLoadable
  <2>1. cap.parts[i].file \in Seq(EntryRecord) BY <1>2 DEF PartRecord
  <2>2. cap.parts[i].file # <<>> /\ Filed(cap.parts[i].file, accepted, Len(written))
    <3>1. CASE i < Len(cap.parts)
      <4>1. i \in 1..(Len(cap.parts) - 1) BY <1>2, <3>1
      <4> QED BY <1>1, <4>1 DEF Sound, PartsSound
    <3>2. CASE i = Len(cap.parts) /\ ~cap.busy /\ ~cap.error
      <4>1. cap.pending = <<>> /\ Live(cap) /\ cap.parts[i] = Current(cap)
          BY <1>1, <3>2 DEF Waiting, Live, Current
      <4>2. ~HeaderWaits(cap) BY <4>1 DEF HeaderWaits
      <4> QED BY <1>1, <4>1, <4>2 DEF Sound, PartsSound
    <3> QED BY <1>2, <3>1, <3>2
  <2>3. Len(written) \in 0..Len(accepted)
    <3>1. Len(written) <= Len(accepted) BY <1>1, PrefixIs DEF Sound
    <3> QED BY <1>1, <3>1
  <2>4. Accepted(cap, accepted) BY <1>1 DEF Sound
  <2>5. cap.parts[i].size <= ReplayLimit
    <3>1. cap.parts[i].size \in Nat BY <1>2 DEF PartRecord
    <3>2. cap.parts[i].size <= PartBytes BY <1>5 DEF LimitsKept
    <3> QED BY <3>1, <3>2, Limits
  <2> QED BY <2>1, <2>2, <2>3, <2>4, <2>5, FiledLoadable
<1> QED BY <1>3, <1>4, <1>5, <1>6, <1>7 DEF Recorded

\* For all limits, sizes, times and orders of the calls and the completed writes:
\* what the recorder of capture.c wrote is in the order it was accepted, its counters
\* are the sizes of its queue and its parts, no part, queue or set of parts exceeds
\* its limit, and each part that was rotated away and has no more records than
\* MaxEvents (1,000,000) can be loaded by tio_replay_load.
THEOREM RecordingsAreWhole == Spec => []Recorded
<1>1. Init => IInv BY InitSound
<1>2. IInv /\ [Next]_vars => IInv' BY StepSound
<1>3. IInv => Recorded BY SoundRecords
<1> QED BY <1>1, <1>2, <1>3, PTL DEF Spec

-----------------------------------------------------------------------------
(* The window of the Bluetooth devices *)

BlePaths == Device \cup Char \cup {"adapter"}
BleCall == [method : Bluez!Methods, path : BlePaths, state : {"sent", "ok", "error"}, owned : BOOLEAN]
BleState == [window : {"loading", "open", "gone"}, call : {Bluez!NoCall} \cup BleCall,
             notifications : SUBSET Char, owned : SUBSET Device, scanning : BOOLEAN,
             device : Device \cup {"none"}, char : Char \cup {"none"}, known : SUBSET Device,
             connected : [Device -> {"none", "us", "other"}], notifying : SUBSET Char,
             discovering : BOOLEAN, late : {Bluez!NoCall} \cup BleCall, stray : BlePaths \cup {"none"}]
PathFits(call) == /\ call.method \in {"Connect", "Disconnect"} => call.path \in Device
                  /\ call.method \in {"StartNotify", "StopNotify", "ReadValue"} => call.path \in Char
                  /\ call.method \in {"SetDiscoveryFilter", "StartDiscovery"} => call.path = "adapter"
                  /\ call # Bluez!NoCall => call.path # "none"
Succeeded(b, method, path) == b.call # Bluez!NoCall /\ b.call.method = method /\ b.call.state = "ok"
                                  /\ b.call.path = path
Stray(b, path) == b.stray # "none" /\ b.stray = path
ScanAccounted(b) == b.discovering => \/ b.scanning \/ Succeeded(b, "StartDiscovery", "adapter")
                                     \/ Stray(b, "adapter")
NotifyAccounted(b) ==
    \A c \in b.notifying : \/ c \in b.notifications \/ Succeeded(b, "StartNotify", c) \/ Stray(b, c)
ConnectAccounted(b) ==
    \A d \in Device : b.connected[d] = "us" =>
        \/ d \in b.owned \/ (Succeeded(b, "Connect", d) /\ b.call.owned) \/ Stray(b, d)
UndoneHolds(b) ==
    /\ \A c \in Char : Succeeded(b, "StopNotify", c) /\ c \in b.notifying => Stray(b, c)
    /\ \A d \in Device : Succeeded(b, "Disconnect", d) /\ b.connected[d] = "us" => Stray(b, d)
OnlyOpen(b) == /\ b.window # "open" => ~b.scanning /\ b.notifications = {} /\ b.owned = {}
               /\ b.window = "loading" => b.call = Bluez!NoCall
LateStray(b) == b.late # Bluez!NoCall => Stray(b, b.late.path)
Accounts(b) == /\ PathFits(b.call) /\ PathFits(b.late)
               /\ ScanAccounted(b) /\ NotifyAccounted(b) /\ ConnectAccounted(b) /\ UndoneHolds(b)
               /\ OnlyOpen(b) /\ LateStray(b)
SelectionFits(b) == b.window = "open" /\ b.char # "none" =>
                        b.char \in Bluez!Shown(b) /\ DeviceOf[b.char] = b.device
BleInv == ble \in BleState /\ Accounts(ble) /\ SelectionFits(ble)

\* What the manager shows is taken over, and the selection is of it.
LEMMA BleRefresh ==
    ASSUME NEW b \in BleState, Accounts(b), NEW c \in Bluez!Refresh(b)
    PROVE  c \in BleState /\ Accounts(c) /\ SelectionFits(c)
<1>1. CASE b.window # "open"
  <2>1. c = b BY <1>1 DEF Bluez!Refresh
  <2> QED BY <1>1, <2>1 DEF SelectionFits
<1>2. CASE b.window = "open"
  <2>1. PICK d \in Bluez!Kept(b.device, b.known) :
            \E x \in Bluez!Kept(b.char, {y \in Bluez!Shown(b) : DeviceOf[y] = d}) :
                c = [b EXCEPT !.device = d, !.char = x] BY <1>2 DEF Bluez!Refresh
  <2>2. PICK x \in Bluez!Kept(b.char, {y \in Bluez!Shown(b) : DeviceOf[y] = d}) :
            c = [b EXCEPT !.device = d, !.char = x] BY <2>1
  <2>3. d \in Device \cup {"none"} /\ x \in Char \cup {"none"}
      BY DEF Bluez!Kept, Bluez!None, BleState, Bluez!Shown
  <2>4. c \in BleState BY <2>2, <2>3 DEF BleState
  <2>5. /\ c.device = d /\ c.char = x /\ c.window = b.window /\ c.call = b.call
        /\ c.notifications = b.notifications /\ c.owned = b.owned /\ c.scanning = b.scanning
        /\ c.connected = b.connected /\ c.notifying = b.notifying /\ c.discovering = b.discovering
        /\ c.late = b.late /\ c.stray = b.stray BY <2>2 DEF BleState
  <2>6. Accounts(c) BY <2>5 DEF Accounts, ScanAccounted, NotifyAccounted, ConnectAccounted, UndoneHolds,
                  OnlyOpen, LateStray, Succeeded, Stray
  <2>7. x = "none" \/ (x \in Bluez!Shown(b) /\ DeviceOf[x] = d) BY DEF Bluez!Kept, Bluez!None
  <2>8. Bluez!Shown(c) = Bluez!Shown(b) BY <2>5 DEF Bluez!Shown
  <2> QED BY <2>4, <2>5, <2>6, <2>7, <2>8 DEF SelectionFits
<1> QED BY <1>1, <1>2 DEF BleState

SameView(c, b) ==
    /\ c.window = b.window /\ c.notifications = b.notifications /\ c.owned = b.owned
    /\ c.scanning = b.scanning /\ c.device = b.device /\ c.char = b.char
    /\ c.stray = b.stray

\* What a call that BlueZ carries out changes there.
LEMMA BleDone ==
    ASSUME NEW b \in BleState, NEW call \in BleCall, PathFits(call)
    PROVE  LET c == Bluez!Done(b, call)
           IN /\ c \in BleState /\ SameView(c, b) /\ c.call = b.call /\ c.late = b.late
              /\ c.discovering => b.discovering \/ call.method = "StartDiscovery"
              /\ \A x \in c.notifying : x \in b.notifying \/ (call.method = "StartNotify" /\ x = call.path)
              /\ call.method = "StopNotify" => call.path \notin c.notifying
              /\ \A d \in Device : c.connected[d] = "us" =>
                     b.connected[d] = "us" \/ (call.method = "Connect" /\ call.owned /\ d = call.path)
              /\ call.method = "Disconnect" => c.connected[call.path] # "us"
<1> DEFINE c == Bluez!Done(b, call)
<1>0. call # Bluez!NoCall => TRUE OBVIOUS
<1>1. CASE call.method = "Connect"
  <2>1. call.path \in Device BY <1>1 DEF PathFits
  <2>2. PICK who \in {"us", "other"} : c = Bluez!Connects(b, call.path, who) /\ (who = "us" => call.owned)
      BY <1>1 DEF Bluez!Done
  <2> HIDE DEF c
  <2>3. c = [b EXCEPT !.known = @ \cup {call.path}, !.connected = [@ EXCEPT ![call.path] = who]]
      BY <2>2 DEF Bluez!Connects
  <2>4. b.known \cup {call.path} \in SUBSET Device
        /\ [b.connected EXCEPT ![call.path] = who] \in [Device -> {"none", "us", "other"}]
      BY <2>1 DEF BleState
  <2>5. c \in BleState BY <2>3, <2>4 DEF BleState
  <2>6. /\ SameView(c, b) /\ c.call = b.call /\ c.late = b.late /\ c.discovering = b.discovering
        /\ c.notifying = b.notifying /\ c.connected = [b.connected EXCEPT ![call.path] = who]
      BY <2>3 DEF SameView, BleState
  <2> QED BY <1>1, <2>1, <2>2, <2>5, <2>6 DEF BleState, c
<1>2. CASE call.method = "Disconnect"
  <2>1. call.path \in Device BY <1>2 DEF PathFits
  <2>2. c = Bluez!Disconnects(b, call.path) BY <1>2 DEF Bluez!Done
  <2> HIDE DEF c
  <2>3. c = [b EXCEPT !.connected = [@ EXCEPT ![call.path] = "none"],
                      !.notifying = {x \in @ : DeviceOf[x] # call.path}]
      BY <2>2 DEF Bluez!Disconnects, Bluez!None
  <2>4. {x \in b.notifying : DeviceOf[x] # call.path} \in SUBSET Char
        /\ [b.connected EXCEPT ![call.path] = "none"] \in [Device -> {"none", "us", "other"}]
      BY <2>1 DEF BleState
  <2>5. c \in BleState BY <2>3, <2>4 DEF BleState
  <2>6. /\ SameView(c, b) /\ c.call = b.call /\ c.late = b.late /\ c.discovering = b.discovering
        /\ c.notifying = {x \in b.notifying : DeviceOf[x] # call.path}
        /\ c.connected = [b.connected EXCEPT ![call.path] = "none"] BY <2>3 DEF SameView, BleState
  <2> QED BY <1>2, <2>1, <2>5, <2>6 DEF BleState, c
<1>3. CASE call.method = "StartNotify"
  <2>1. c = [b EXCEPT !.notifying = @ \cup {call.path}] /\ call.path \in Char BY <1>3 DEF Bluez!Done, PathFits
  <2> QED BY <1>3, <2>1 DEF BleState, SameView
<1>4. CASE call.method = "StopNotify"
  <2>1. c = [b EXCEPT !.notifying = @ \ {call.path}] BY <1>4 DEF Bluez!Done
  <2> QED BY <1>4, <2>1 DEF BleState, SameView
<1>5. CASE call.method = "StartDiscovery"
  <2>1. c = [b EXCEPT !.discovering = TRUE] BY <1>5 DEF Bluez!Done
  <2> QED BY <1>5, <2>1 DEF BleState, SameView
<1>6. CASE call.method \notin {"Connect", "Disconnect", "StartNotify", "StopNotify", "StartDiscovery"}
  <2>1. c = b BY <1>6 DEF Bluez!Done
  <2> QED BY <1>6, <2>1 DEF SameView
<1> QED BY <1>1, <1>2, <1>3, <1>4, <1>5, <1>6

\* BlueZ answers a call.
LEMMA BleServe == ASSUME BleInv, Bluez!Serve PROVE BleInv'
<1> DEFINE call == ble.call
           sent == [ble EXCEPT !.call = [@ EXCEPT !.state = "ok"]]
           done == Bluez!Done(sent, call)
<1>1. call \in BleCall /\ call.state = "sent" /\ PathFits(call) /\ ble \in BleState /\ Accounts(ble)
    BY DEF BleInv, BleState, Bluez!Serve, Bluez!NoCall, Bluez!None, Accounts
<1>2. ble' \in Bluez!Refresh(done) BY DEF Bluez!Serve
<1>3. [call EXCEPT !.state = "ok"] \in BleCall BY <1>1 DEF BleCall
<1>4. sent \in BleState BY <1>1, <1>3 DEF BleState
<1>5. /\ SameView(sent, ble) /\ sent.late = ble.late /\ sent.discovering = ble.discovering
      /\ sent.notifying = ble.notifying /\ sent.connected = ble.connected
      /\ sent.call = [call EXCEPT !.state = "ok"] BY <1>1 DEF SameView, BleState
<1>6. /\ sent.call.method = call.method /\ sent.call.path = call.path /\ sent.call.state = "ok"
      /\ sent.call.owned = call.owned /\ sent.call # Bluez!NoCall /\ call # Bluez!NoCall
    BY <1>1, <1>5 DEF BleCall, Bluez!NoCall, Bluez!Methods, Bluez!None
<1>20. ble.window # "loading" BY <1>1, <1>6 DEF Accounts, OnlyOpen
<1> HIDE DEF sent
<1>7. /\ done \in BleState /\ SameView(done, sent) /\ done.call = sent.call /\ done.late = sent.late
      /\ done.discovering => sent.discovering \/ call.method = "StartDiscovery"
      /\ \A x \in done.notifying : x \in sent.notifying \/ (call.method = "StartNotify" /\ x = call.path)
      /\ call.method = "StopNotify" => call.path \notin done.notifying
      /\ \A d \in Device : done.connected[d] = "us" =>
             sent.connected[d] = "us" \/ (call.method = "Connect" /\ call.owned /\ d = call.path)
      /\ call.method = "Disconnect" => done.connected[call.path] # "us" BY <1>1, <1>4, BleDone
<1> HIDE DEF done, call
<1>8. PathFits(done.call) /\ PathFits(done.late) /\ OnlyOpen(done) /\ LateStray(done)
    BY <1>1, <1>5, <1>6, <1>7, <1>20 DEF PathFits, Accounts, OnlyOpen, LateStray, SameView, Stray
<1>9. /\ \A method, path : ~Succeeded(ble, method, path)
      /\ \A path : Stray(done, path) <=> Stray(ble, path)
      /\ \A method, path : Succeeded(done, method, path) <=> call.method = method /\ call.path = path
    BY <1>1, <1>5, <1>6, <1>7 DEF Succeeded, Stray, SameView, call
<1>10. ScanAccounted(done) BY <1>1, <1>5, <1>7, <1>9 DEF ScanAccounted, Accounts, SameView, PathFits
<1>11. NotifyAccounted(done) BY <1>1, <1>5, <1>7, <1>9 DEF NotifyAccounted, Accounts, SameView
<1>12. ConnectAccounted(done) BY <1>1, <1>5, <1>6, <1>7, <1>9 DEF ConnectAccounted, Accounts, SameView
<1>13. UndoneHolds(done) BY <1>7, <1>9 DEF UndoneHolds
<1>14. Accounts(done) BY <1>8, <1>10, <1>11, <1>12, <1>13 DEF Accounts
<1> QED BY <1>2, <1>7, <1>14, BleRefresh DEF BleInv

\* BlueZ refuses a call.
LEMMA BleRefuse == ASSUME BleInv, Bluez!Refuse PROVE BleInv'
<1> DEFINE call == ble.call
<1>1. call \in BleCall /\ call.state = "sent" /\ PathFits(call) /\ ble \in BleState /\ Accounts(ble)
    BY DEF BleInv, BleState, Bluez!Refuse, Bluez!NoCall, Bluez!None, Accounts
<1>2. [call EXCEPT !.state = "error"] \in BleCall /\ PathFits([call EXCEPT !.state = "error"])
    BY <1>1 DEF BleCall, PathFits, Bluez!NoCall, Bluez!None, Bluez!Methods
<1>3. ble' = [ble EXCEPT !.call = [call EXCEPT !.state = "error"]] BY DEF Bluez!Refuse
<1>4. /\ SameView(ble', ble) /\ ble'.late = ble.late /\ ble'.discovering = ble.discovering
      /\ ble'.notifying = ble.notifying /\ ble'.connected = ble.connected
      /\ ble'.call = [call EXCEPT !.state = "error"] /\ ble' \in BleState
    BY <1>1, <1>2, <1>3 DEF SameView, BleState
<1>5. ble'.call.state = "error" BY <1>1, <1>4 DEF BleCall
<1>6. \A method, path : ~Succeeded(ble, method, path) /\ ~Succeeded(ble', method, path)
    BY <1>1, <1>5 DEF Succeeded, call
<1>8. ble.window # "loading" BY <1>1 DEF Accounts, OnlyOpen, BleCall, Bluez!NoCall, Bluez!None, Bluez!Methods
<1>7. Accounts(ble')
    BY <1>1, <1>2, <1>4, <1>6, <1>8 DEF Accounts, ScanAccounted, NotifyAccounted, ConnectAccounted,
       UndoneHolds, OnlyOpen, LateStray, SameView, Stray
<1> QED BY <1>4, <1>7 DEF BleInv, SelectionFits, SameView, Bluez!Shown

\* A call times out, and BlueZ may still carry it out.
LEMMA BleTimesOut == ASSUME BleInv, Bluez!TimesOut PROVE BleInv'
<1> DEFINE call == ble.call
<1>1. /\ call \in BleCall /\ call.state = "sent" /\ PathFits(call) /\ ble \in BleState /\ Accounts(ble)
      /\ ble.stray = "none" BY DEF BleInv, BleState, Bluez!TimesOut, Bluez!NoCall, Bluez!None, Accounts
<1>2. [call EXCEPT !.state = "error"] \in BleCall /\ PathFits([call EXCEPT !.state = "error"])
    BY <1>1 DEF BleCall, PathFits, Bluez!NoCall, Bluez!None, Bluez!Methods
<1>3. ble' = [ble EXCEPT !.call = [call EXCEPT !.state = "error"], !.late = call, !.stray = call.path]
    BY DEF Bluez!TimesOut
<1>4. /\ ble'.window = ble.window /\ ble'.notifications = ble.notifications /\ ble'.owned = ble.owned
      /\ ble'.scanning = ble.scanning /\ ble'.device = ble.device /\ ble'.char = ble.char
      /\ ble'.stray = call.path /\ ble'.late = call /\ ble'.discovering = ble.discovering
      /\ ble'.notifying = ble.notifying /\ ble'.connected = ble.connected
      /\ ble'.call = [call EXCEPT !.state = "error"] BY <1>1, <1>3 DEF BleState
<1>8. call.path \in BlePaths BY <1>1 DEF BleCall
<1>9. ble' \in BleState BY <1>1, <1>2, <1>3, <1>8 DEF BleState
<1>5. ble'.call.state = "error" /\ call # Bluez!NoCall
    BY <1>1, <1>4 DEF BleCall, Bluez!NoCall, Bluez!None, Bluez!Methods
<1>6. \A method, path : ~Succeeded(ble, method, path) /\ ~Succeeded(ble', method, path) /\ ~Stray(ble, path)
    BY <1>1, <1>5 DEF Succeeded, Stray, call
<1>7. Accounts(ble')
    BY <1>1, <1>2, <1>4, <1>5, <1>6 DEF Accounts, ScanAccounted, NotifyAccounted, ConnectAccounted,
       UndoneHolds, OnlyOpen, LateStray, PathFits, Stray
<1> QED BY <1>4, <1>7, <1>9 DEF BleInv, SelectionFits, Bluez!Shown

\* A call is carried out after it timed out: nobody undoes that, and it is accounted as a stray.
LEMMA BleDoneLate == ASSUME BleInv, Bluez!DoneLate PROVE BleInv'
<1> DEFINE call == ble.late
           forgotten(b) == [b EXCEPT !.late = Bluez!NoCall]
           done == Bluez!Done(ble, call)
<1>1. /\ call \in BleCall /\ PathFits(call) /\ ble \in BleState /\ Accounts(ble) /\ call # Bluez!NoCall
    BY DEF BleInv, BleState, Bluez!DoneLate, Accounts
<1>2. Stray(ble, call.path) BY <1>1 DEF Accounts, LateStray
<1>3. \A b \in BleState : /\ forgotten(b) \in BleState /\ SameView(forgotten(b), b)
                          /\ forgotten(b).call = b.call /\ forgotten(b).late = Bluez!NoCall
                          /\ forgotten(b).discovering = b.discovering /\ forgotten(b).notifying = b.notifying
                          /\ forgotten(b).connected = b.connected
  <2> SUFFICES ASSUME NEW b \in BleState
               PROVE  /\ forgotten(b) \in BleState /\ SameView(forgotten(b), b)
                      /\ forgotten(b).call = b.call /\ forgotten(b).late = Bluez!NoCall
                      /\ forgotten(b).discovering = b.discovering /\ forgotten(b).notifying = b.notifying
                      /\ forgotten(b).connected = b.connected OBVIOUS
  <2>1. Bluez!NoCall \in {Bluez!NoCall} \cup BleCall OBVIOUS
  <2> QED BY <2>1 DEF BleState, SameView
<1>4. PathFits(Bluez!NoCall) BY DEF PathFits, Bluez!NoCall, Bluez!None
<1>5. ble' = forgotten(ble) \/ ble' \in Bluez!Refresh(forgotten(done)) BY DEF Bluez!DoneLate
<1> HIDE DEF forgotten
<1>6. CASE ble' = forgotten(ble)
  <2>1. Accounts(ble')
      BY <1>1, <1>3, <1>4, <1>6 DEF Accounts, ScanAccounted, NotifyAccounted, ConnectAccounted,
         UndoneHolds, OnlyOpen, LateStray, SameView, Succeeded, Stray
  <2> QED BY <1>1, <1>3, <1>6, <2>1 DEF BleInv, SelectionFits, SameView, Bluez!Shown
<1>7. CASE ble' \in Bluez!Refresh(forgotten(done))
  <2> DEFINE now == forgotten(done)
  <2>1. /\ done \in BleState /\ SameView(done, ble) /\ done.call = ble.call
        /\ done.discovering => ble.discovering \/ call.method = "StartDiscovery"
        /\ \A x \in done.notifying : x \in ble.notifying \/ (call.method = "StartNotify" /\ x = call.path)
        /\ \A d \in Device : done.connected[d] = "us" =>
               ble.connected[d] = "us" \/ (call.method = "Connect" /\ call.owned /\ d = call.path)
      BY <1>1, BleDone
  <2> HIDE DEF done
  <2>2. /\ now \in BleState /\ SameView(now, ble) /\ now.call = ble.call /\ now.late = Bluez!NoCall
        /\ now.discovering = done.discovering /\ now.notifying = done.notifying
        /\ now.connected = done.connected BY <1>3, <2>1 DEF SameView
  <2> HIDE DEF now, call
  <2>3. \A path : Stray(now, path) <=> Stray(ble, path) BY <2>2 DEF Stray, SameView
  <2>4. \A method, path : Succeeded(now, method, path) <=> Succeeded(ble, method, path) BY <2>2 DEF Succeeded
  <2>5. ScanAccounted(now) BY <1>1, <1>2, <2>1, <2>2, <2>3, <2>4 DEF ScanAccounted, Accounts, SameView, PathFits
  <2>6. NotifyAccounted(now) BY <1>1, <1>2, <2>1, <2>2, <2>3, <2>4 DEF NotifyAccounted, Accounts, SameView
  <2>7. ConnectAccounted(now) BY <1>1, <1>2, <2>1, <2>2, <2>3, <2>4 DEF ConnectAccounted, Accounts, SameView
  <2>8. UndoneHolds(now) BY <1>1, <1>2, <2>1, <2>2, <2>3, <2>4 DEF UndoneHolds, Accounts, SameView
  <2>9. Accounts(now) BY <1>1, <1>4, <2>2, <2>5, <2>6, <2>7, <2>8 DEF Accounts, OnlyOpen, LateStray, SameView
  <2> QED BY <1>7, <2>2, <2>9, BleRefresh DEF BleInv, now
<1> QED BY <1>5, <1>6, <1>7

\* Devices that come, go or are taken by others touch nothing the window accounts for.
Outside(c, b) ==
    /\ c \in BleState /\ SameView(c, b) /\ c.call = b.call /\ c.late = b.late
    /\ c.discovering = b.discovering /\ c.notifying \subseteq b.notifying
    /\ \A d \in Device : c.connected[d] = "us" => b.connected[d] = "us"

\* A change outside of the window that takes nothing up keeps the account.
LEMMA BleOutside ==
    ASSUME BleInv, NEW c, Outside(c, ble)
    PROVE  Accounts(c)
BY DEF BleInv, Outside, Accounts, ScanAccounted, NotifyAccounted, ConnectAccounted,
       UndoneHolds, OnlyOpen, LateStray, SameView, Succeeded, Stray

\* A device appears.
LEMMA BleAppears == ASSUME BleInv, NEW d \in Device, Bluez!Appears(d) PROVE BleInv'
<1> DEFINE c == [ble EXCEPT !.known = @ \cup {d}]
<1>1. ble \in BleState /\ ble' \in Bluez!Refresh(c) BY DEF BleInv, Bluez!Appears
<1>2. Outside(c, ble) BY <1>1 DEF Outside, SameView, BleState
<1> HIDE DEF c
<1> QED BY <1>1, <1>2, BleOutside, BleRefresh DEF BleInv, Outside

\* Another program connects to a device.
LEMMA BleTaken == ASSUME BleInv, NEW d \in Device, Bluez!TakenByOther(d) PROVE BleInv'
<1> DEFINE c == Bluez!Connects(ble, d, "other")
           connected == [ble.connected EXCEPT ![d] = "other"]
<1>1. ble \in BleState /\ ble' \in Bluez!Refresh(c) BY DEF BleInv, Bluez!TakenByOther
<1>2. c = [ble EXCEPT !.known = @ \cup {d}, !.connected = connected] BY DEF Bluez!Connects
<1>3. connected \in [Device -> {"none", "us", "other"}]
      /\ \A x \in Device : connected[x] = "us" => ble.connected[x] = "us" BY <1>1 DEF BleState
<1> HIDE DEF c, connected
<1>4. Outside(c, ble) BY <1>1, <1>2, <1>3 DEF Outside, SameView, BleState
<1> QED BY <1>1, <1>4, BleOutside, BleRefresh DEF BleInv, Outside

\* A device is gone.
LEMMA BleDrops == ASSUME BleInv, NEW d \in Device, Bluez!Drops(d) PROVE BleInv'
<1> DEFINE connected == [ble.connected EXCEPT ![d] = "none"]
           notifying == {x \in ble.notifying : DeviceOf[x] # d}
<1>1. PICK known \in {ble.known, ble.known \ {d}} :
          ble' \in Bluez!Refresh([Bluez!Disconnects(ble, d) EXCEPT !.known = known]) BY DEF Bluez!Drops
<1> DEFINE c == [Bluez!Disconnects(ble, d) EXCEPT !.known = known]
<1>2. Bluez!Disconnects(ble, d) = [ble EXCEPT !.connected = connected, !.notifying = notifying]
    BY DEF Bluez!Disconnects, Bluez!None
<1>3. /\ connected \in [Device -> {"none", "us", "other"}] /\ notifying \subseteq ble.notifying
      /\ \A x \in Device : connected[x] = "us" => ble.connected[x] = "us"
      /\ ble \in BleState /\ known \in SUBSET Device /\ notifying \in SUBSET Char BY DEF BleInv, BleState
<1> HIDE DEF connected, notifying
<1>4. c = [ble EXCEPT !.connected = connected, !.notifying = notifying, !.known = known]
    BY <1>2, <1>3 DEF BleState
<1> HIDE DEF c
<1>5. Outside(c, ble) BY <1>3, <1>4 DEF Outside, SameView, BleState
<1> QED BY <1>1, <1>5, BleOutside, BleRefresh DEF BleInv, Outside, c

\* The manager is there.
LEMMA BleReady == ASSUME BleInv, Bluez!ManagerReady PROVE BleInv'
<1> DEFINE c == [ble EXCEPT !.window = "open"]
<1>1. ble \in BleState /\ ble' \in Bluez!Refresh(c) /\ Accounts(ble) BY DEF BleInv, Bluez!ManagerReady
<1>2. /\ c \in BleState /\ c.window = "open" /\ c.call = ble.call /\ c.late = ble.late
      /\ c.notifications = ble.notifications /\ c.owned = ble.owned /\ c.scanning = ble.scanning
      /\ c.discovering = ble.discovering /\ c.notifying = ble.notifying
      /\ c.connected = ble.connected /\ c.stray = ble.stray BY <1>1 DEF BleState
<1> HIDE DEF c
<1>3. Accounts(c) BY <1>1, <1>2 DEF Accounts, ScanAccounted, NotifyAccounted, ConnectAccounted,
       UndoneHolds, OnlyOpen, LateStray, Succeeded, Stray
<1> QED BY <1>1, <1>2, <1>3, BleRefresh DEF BleInv

\* The user selects.
LEMMA BleSelect == ASSUME BleInv, NEW d \in Device, NEW x \in Char, Bluez!Select(d, x) PROVE BleInv'
<1> DEFINE c == [ble EXCEPT !.device = d, !.char = x]
<1>1. ble \in BleState /\ ble' \in Bluez!Refresh(c) /\ Accounts(ble) BY DEF BleInv, Bluez!Select
<1>2. /\ c \in BleState /\ c.window = ble.window /\ c.call = ble.call /\ c.late = ble.late
      /\ c.notifications = ble.notifications /\ c.owned = ble.owned /\ c.scanning = ble.scanning
      /\ c.discovering = ble.discovering /\ c.notifying = ble.notifying
      /\ c.connected = ble.connected /\ c.stray = ble.stray BY <1>1 DEF BleState
<1> HIDE DEF c
<1>3. Accounts(c) BY <1>1, <1>2 DEF Accounts, ScanAccounted, NotifyAccounted, ConnectAccounted,
       UndoneHolds, OnlyOpen, LateStray, Succeeded, Stray
<1> QED BY <1>1, <1>2, <1>3, BleRefresh DEF BleInv

\* A call is made of nothing that succeeded before.
LEMMA BleCalls ==
    ASSUME NEW b \in BleState, Accounts(b), b.window = "open", b.call = Bluez!NoCall, NEW method \in Bluez!Methods,
           NEW path \in BlePaths, path # "none",
           method \in {"Connect", "Disconnect"} => path \in Device,
           method \in {"StartNotify", "StopNotify", "ReadValue"} => path \in Char,
           method \in {"SetDiscoveryFilter", "StartDiscovery"} => path = "adapter"
    PROVE  LET c == Bluez!Called(b, method, path)
           IN c \in BleState /\ Accounts(c) /\ SameView(c, b) /\ c.connected = b.connected
<1> DEFINE c == Bluez!Called(b, method, path)
           call == [method |-> method, path |-> path, state |-> "sent",
                    owned |-> method = "Connect" /\ b.connected[path] = Bluez!None]
<1>1. (method = "Connect" /\ b.connected[path] = Bluez!None) \in BOOLEAN OBVIOUS
<1>2. call \in BleCall BY <1>1 DEF BleCall
<1>3. /\ call.state = "sent" /\ PathFits(call) BY DEF PathFits
<1>4. c = [b EXCEPT !.call = call] BY DEF Bluez!Called
<1> HIDE DEF call, c
<1>5. /\ c \in BleState /\ SameView(c, b) /\ c.call = call /\ c.late = b.late
      /\ c.discovering = b.discovering /\ c.notifying = b.notifying /\ c.connected = b.connected
    BY <1>2, <1>4 DEF BleState, SameView
<1>6. \A m, p : ~Succeeded(b, m, p) /\ ~Succeeded(c, m, p) BY <1>3, <1>5 DEF Succeeded
<1>7. Accounts(c) BY <1>3, <1>5, <1>6 DEF Accounts, ScanAccounted, NotifyAccounted, ConnectAccounted,
       UndoneHolds, OnlyOpen, LateStray, SameView, Stray
<1> QED BY <1>5, <1>7 DEF c

\* A button calls a method.
LEMMA BleAction ==
    ASSUME BleInv, NEW method \in Bluez!Methods \ {"SetDiscoveryFilter", "StartDiscovery"},
           Bluez!Action(method)
    PROVE  BleInv'
<1> DEFINE path == IF method \in {"Connect", "Disconnect"} THEN ble.device ELSE ble.char
<1>1. ble.window = "open" /\ ble.call = Bluez!NoCall /\ path # "none" /\ ble' = Bluez!Called(ble, method, path)
    BY DEF Bluez!Action, Bluez!MayCall, Bluez!None
<1>2. /\ ble \in BleState /\ Accounts(ble) /\ SelectionFits(ble) /\ method \in Bluez!Methods
      /\ path \in BlePaths /\ (method \in {"Connect", "Disconnect"} => path \in Device)
      /\ (method \notin {"Connect", "Disconnect"} => path \in Char) BY <1>1 DEF BleInv, BleState, BlePaths
<1> HIDE DEF path
<1>3. /\ ble' \in BleState /\ Accounts(ble') /\ SameView(ble', ble) /\ ble'.connected = ble.connected
    BY <1>1, <1>2, BleCalls
<1> QED BY <1>2, <1>3 DEF BleInv, SelectionFits, SameView, Bluez!Shown

\* The user asks for a scan.
LEMMA BleScan == ASSUME BleInv, Bluez!Scan PROVE BleInv'
<1>1. /\ ble.window = "open" /\ ble.call = Bluez!NoCall /\ ble' = Bluez!Called(ble, "SetDiscoveryFilter", "adapter")
      /\ "adapter" \in BlePaths /\ "SetDiscoveryFilter" \in Bluez!Methods
      /\ ble \in BleState /\ Accounts(ble) /\ SelectionFits(ble)
    BY DEF Bluez!Scan, Bluez!MayCall, BlePaths, Bluez!Methods, BleInv
<1>2. /\ ble' \in BleState /\ Accounts(ble') /\ SameView(ble', ble) /\ ble'.connected = ble.connected
    BY <1>1, BleCalls
<1> QED BY <1>1, <1>2 DEF BleInv, SelectionFits, SameView, Bluez!Shown

\* completed() of an open window: what succeeded is noted.
LEMMA BleNoted ==
    ASSUME NEW b \in BleState, Accounts(b), b.window = "open", b.call \in BleCall, b.call.state # "sent"
    PROVE  LET c == Bluez!Noted(b, b.call)
           IN c \in BleState /\ Accounts(c) /\ c.window = b.window /\ c.device = b.device
              /\ c.char = b.char /\ c.connected = b.connected
<1> DEFINE call == b.call
           c == Bluez!Noted(b, b.call)
           ended == [b EXCEPT !.call = Bluez!NoCall]
<1>1. /\ ended \in BleState /\ SameView(ended, b) /\ ended.call = Bluez!NoCall /\ ended.late = b.late
      /\ ended.discovering = b.discovering /\ ended.notifying = b.notifying /\ ended.connected = b.connected
  <2>1. Bluez!NoCall \in {Bluez!NoCall} \cup BleCall OBVIOUS
  <2> QED BY <2>1 DEF BleState, SameView
<1>2. PathFits(call) /\ call # Bluez!NoCall /\ PathFits(Bluez!NoCall) /\ call.state \in {"ok", "error"}
    BY DEF PathFits, Accounts, BleCall, Bluez!NoCall, Bluez!None, Bluez!Methods
<1>3. \A m, p : Succeeded(b, m, p) <=> call.state = "ok" /\ call.method = m /\ call.path = p
    BY <1>2 DEF Succeeded
<1>4. CASE call.state = "error"
  <2>1. c = ended BY <1>4 DEF Bluez!Noted
  <2>2. Accounts(ended)
      BY <1>1, <1>2, <1>3, <1>4 DEF Accounts, ScanAccounted, NotifyAccounted, ConnectAccounted,
         UndoneHolds, OnlyOpen, LateStray, SameView, Succeeded, Stray
  <2> QED BY <1>1, <2>1, <2>2 DEF SameView
<1>5. CASE call.state = "ok" /\ call.method = "StartNotify"
  <2>1. c = [ended EXCEPT !.notifications = @ \cup {call.path}] /\ call.path \in Char
      BY <1>2, <1>5 DEF Bluez!Noted, PathFits
  <2> HIDE DEF ended
  <2>9. c \in BleState BY <1>1, <2>1 DEF BleState
  <2>2. /\ c \in BleState /\ c.window = b.window /\ c.notifications = b.notifications \cup {call.path}
        /\ c.owned = b.owned /\ c.scanning = b.scanning /\ c.device = b.device /\ c.char = b.char
        /\ c.stray = b.stray /\ c.call = Bluez!NoCall /\ c.late = b.late /\ c.discovering = b.discovering
        /\ c.notifying = b.notifying /\ c.connected = b.connected
      BY <1>1, <2>1, <2>9 DEF BleState, SameView
  <2> HIDE DEF c, call
  <2>3. Accounts(c)
      BY <1>2, <1>3, <1>5, <2>2 DEF Accounts, ScanAccounted, NotifyAccounted, ConnectAccounted,
         UndoneHolds, OnlyOpen, LateStray, Succeeded, Stray
  <2> QED BY <2>2, <2>3 DEF c
<1>6. CASE call.state = "ok" /\ call.method = "StopNotify"
  <2>1. c = [ended EXCEPT !.notifications = @ \ {call.path}] /\ call.path \in Char
      BY <1>2, <1>6 DEF Bluez!Noted, PathFits
  <2> HIDE DEF ended
  <2>9. c \in BleState BY <1>1, <2>1 DEF BleState
  <2>2. /\ c \in BleState /\ c.window = b.window /\ c.notifications = b.notifications \ {call.path}
        /\ c.owned = b.owned /\ c.scanning = b.scanning /\ c.device = b.device /\ c.char = b.char
        /\ c.stray = b.stray /\ c.call = Bluez!NoCall /\ c.late = b.late /\ c.discovering = b.discovering
        /\ c.notifying = b.notifying /\ c.connected = b.connected /\ b.notifying \subseteq Char
      BY <1>1, <2>1, <2>9 DEF BleState, SameView
  <2> HIDE DEF c, call
  <2>3. Accounts(c)
      BY <1>2, <1>3, <1>6, <2>1, <2>2 DEF Accounts, ScanAccounted, NotifyAccounted, ConnectAccounted,
         UndoneHolds, OnlyOpen, LateStray, Succeeded, Stray
  <2> QED BY <2>2, <2>3 DEF c
<1>7. CASE call.state = "ok" /\ call.method = "Connect" /\ call.owned
  <2>1. c = [ended EXCEPT !.owned = @ \cup {call.path}] /\ call.path \in Device
      BY <1>2, <1>7 DEF Bluez!Noted, PathFits
  <2> HIDE DEF ended
  <2>9. c \in BleState BY <1>1, <2>1 DEF BleState
  <2>2. /\ c \in BleState /\ c.window = b.window /\ c.notifications = b.notifications
        /\ c.owned = b.owned \cup {call.path} /\ c.scanning = b.scanning /\ c.device = b.device /\ c.char = b.char
        /\ c.stray = b.stray /\ c.call = Bluez!NoCall /\ c.late = b.late /\ c.discovering = b.discovering
        /\ c.notifying = b.notifying /\ c.connected = b.connected
      BY <1>1, <2>1, <2>9 DEF BleState, SameView
  <2> HIDE DEF c, call
  <2>3. Accounts(c)
      BY <1>2, <1>3, <1>7, <2>2 DEF Accounts, ScanAccounted, NotifyAccounted, ConnectAccounted,
         UndoneHolds, OnlyOpen, LateStray, Succeeded, Stray
  <2> QED BY <2>2, <2>3 DEF c
<1>8. CASE call.state = "ok" /\ call.method = "Disconnect"
  <2>1. c = [ended EXCEPT !.owned = @ \ {call.path}] /\ call.path \in Device
      BY <1>2, <1>8 DEF Bluez!Noted, PathFits
  <2> HIDE DEF ended
  <2>9. c \in BleState BY <1>1, <2>1 DEF BleState
  <2>2. /\ c \in BleState /\ c.window = b.window /\ c.notifications = b.notifications
        /\ c.owned = b.owned \ {call.path} /\ c.scanning = b.scanning /\ c.device = b.device /\ c.char = b.char
        /\ c.stray = b.stray /\ c.call = Bluez!NoCall /\ c.late = b.late /\ c.discovering = b.discovering
        /\ c.notifying = b.notifying /\ c.connected = b.connected
      BY <1>1, <2>1, <2>9 DEF BleState, SameView
  <2> HIDE DEF c, call
  <2>3. Accounts(c)
      BY <1>2, <1>3, <1>8, <2>1, <2>2 DEF Accounts, ScanAccounted, NotifyAccounted, ConnectAccounted,
         UndoneHolds, OnlyOpen, LateStray, Succeeded, Stray
  <2> QED BY <2>2, <2>3 DEF c
<1>9. CASE call.state = "ok" /\ call.method = "StartDiscovery"
  <2>1. c = [ended EXCEPT !.scanning = TRUE] BY <1>2, <1>9 DEF Bluez!Noted
  <2> HIDE DEF ended
  <2>9. c \in BleState BY <1>1, <2>1 DEF BleState
  <2>2. /\ c \in BleState /\ c.window = b.window /\ c.notifications = b.notifications
        /\ c.owned = b.owned /\ c.scanning = TRUE /\ c.device = b.device /\ c.char = b.char
        /\ c.stray = b.stray /\ c.call = Bluez!NoCall /\ c.late = b.late /\ c.discovering = b.discovering
        /\ c.notifying = b.notifying /\ c.connected = b.connected
      BY <1>1, <2>1, <2>9 DEF BleState, SameView
  <2> HIDE DEF c, call
  <2>3. Accounts(c)
      BY <1>2, <1>3, <1>9, <2>2 DEF Accounts, ScanAccounted, NotifyAccounted, ConnectAccounted,
         UndoneHolds, OnlyOpen, LateStray, Succeeded, Stray
  <2> QED BY <2>2, <2>3 DEF c
<1>10. CASE call.state = "ok" /\ (call.method \in {"ReadValue", "SetDiscoveryFilter"}
                                  \/ (call.method = "Connect" /\ ~call.owned))
  <2> HIDE DEF ended
  <2>1. Accounts(ended)
    <3> HIDE DEF call
    <3> QED BY <1>1, <1>2, <1>3, <1>10 DEF Accounts, ScanAccounted, NotifyAccounted, ConnectAccounted,
               UndoneHolds, OnlyOpen, LateStray, SameView, Succeeded, Stray, call
  <2>2. CASE call.method = "SetDiscoveryFilter"
    <3>1. c = Bluez!Called(ended, "StartDiscovery", call.path) /\ call.path = "adapter"
        BY <1>2, <1>10, <2>2 DEF Bluez!Noted, PathFits, ended
    <3>2. "StartDiscovery" \in Bluez!Methods /\ "adapter" \in BlePaths BY DEF Bluez!Methods, BlePaths
    <3>3. c \in BleState /\ Accounts(c) /\ SameView(c, ended) /\ c.connected = ended.connected
      <4>1. ended.window = "open" BY <1>1 DEF SameView
      <4> QED BY <1>1, <2>1, <3>1, <3>2, <4>1, BleCalls
    <3> QED BY <1>1, <3>3 DEF SameView
  <2>3. CASE call.method # "SetDiscoveryFilter"
    <3>1. c = ended BY <1>2, <1>10, <2>3 DEF Bluez!Noted, ended
    <3> QED BY <1>1, <2>1, <3>1 DEF SameView
  <2> QED BY <2>2, <2>3
<1>11. call.method \in Bluez!Methods BY DEF BleCall
<1> QED BY <1>2, <1>4, <1>5, <1>6, <1>7, <1>8, <1>9, <1>10, <1>11 DEF Bluez!Methods

\* completed() after the window is gone: what succeeded is undone.
LEMMA BleUndone ==
    ASSUME NEW b \in BleState, Accounts(b), b.window = "gone", b.call \in BleCall, b.call.state # "sent"
    PROVE  LET c == Bluez!Undone(b, b.call) IN c \in BleState /\ Accounts(c) /\ c.window = "gone"
<1> DEFINE call == b.call
           c == Bluez!Undone(b, b.call)
           ended == [b EXCEPT !.call = Bluez!NoCall]
<1>1. /\ ended \in BleState /\ SameView(ended, b) /\ ended.call = Bluez!NoCall /\ ended.late = b.late
      /\ ended.discovering = b.discovering /\ ended.notifying = b.notifying /\ ended.connected = b.connected
  <2>1. Bluez!NoCall \in {Bluez!NoCall} \cup BleCall OBVIOUS
  <2> QED BY <2>1 DEF BleState, SameView
<1>2. PathFits(call) /\ call # Bluez!NoCall /\ PathFits(Bluez!NoCall) /\ call.state \in {"ok", "error"}
    BY DEF PathFits, Accounts, BleCall, Bluez!NoCall, Bluez!None, Bluez!Methods
<1>3. \A m, p : Succeeded(b, m, p) <=> call.state = "ok" /\ call.method = m /\ call.path = p
    BY <1>2 DEF Succeeded
<1>4. b.window # "open" /\ b.notifications = {} /\ b.owned = {} /\ ~b.scanning BY DEF Accounts, OnlyOpen
<1>5. SUFFICES /\ c \in BleState /\ SameView(c, b) /\ c.call = Bluez!NoCall /\ c.late = b.late
               /\ c.notifying \subseteq b.notifying
               /\ \A d \in Device : c.connected[d] = "us" => b.connected[d] = "us"
               /\ c.discovering => b.discovering /\ ~Succeeded(b, "StartDiscovery", "adapter")
               /\ \A x \in c.notifying : ~Succeeded(b, "StartNotify", x)
               /\ \A d \in Device : c.connected[d] = "us" => ~(Succeeded(b, "Connect", d) /\ call.owned)
  <2> HIDE DEF c, ended
  <2>1. Accounts(c) BY <1>2, <1>4, <1>5 DEF Accounts, ScanAccounted, NotifyAccounted, ConnectAccounted,
         UndoneHolds, OnlyOpen, LateStray, SameView, Succeeded, Stray
  <2> QED BY <1>5, <2>1 DEF SameView, c
<1>6. CASE call.state = "ok" /\ call.method = "StartNotify"
  <2>1. c = [ended EXCEPT !.notifying = @ \ {call.path}] BY <1>2, <1>6 DEF Bluez!Undone
  <2> HIDE DEF ended
  <2>2. c \in BleState BY <1>1, <2>1 DEF BleState
  <2>3. /\ SameView(c, b) /\ c.call = Bluez!NoCall /\ c.late = b.late /\ c.discovering = b.discovering
        /\ c.notifying = b.notifying \ {call.path} /\ c.connected = b.connected
      BY <1>1, <2>1, <2>2 DEF BleState, SameView
  <2> HIDE DEF c, call
  <2> QED BY <1>3, <1>6, <2>2, <2>3
<1>7. CASE call.state = "ok" /\ call.method = "Connect" /\ call.owned
  <2> DEFINE connected == [b.connected EXCEPT ![call.path] = "none"]
             notifying == {x \in b.notifying : DeviceOf[x] # call.path}
  <2>1. c = Bluez!Disconnects(ended, call.path) BY <1>2, <1>7 DEF Bluez!Undone
  <2> HIDE DEF ended
  <2>2. c = [ended EXCEPT !.connected = connected, !.notifying = notifying]
      BY <1>1, <2>1 DEF Bluez!Disconnects, Bluez!None
  <2>3. /\ connected \in [Device -> {"none", "us", "other"}] /\ notifying \subseteq b.notifying
        /\ notifying \in SUBSET Char /\ call.path \in Device /\ connected[call.path] = "none"
        /\ \A d \in Device : connected[d] = "us" => b.connected[d] = "us"
      BY <1>2, <1>7 DEF BleState, PathFits
  <2> HIDE DEF connected, notifying, c
  <2>4. c \in BleState BY <1>1, <2>2, <2>3 DEF BleState
  <2>5. /\ SameView(c, b) /\ c.call = Bluez!NoCall /\ c.late = b.late /\ c.discovering = b.discovering
        /\ c.notifying = notifying /\ c.connected = connected BY <1>1, <2>2, <2>4 DEF BleState, SameView
  <2> HIDE DEF call
  <2> QED BY <1>3, <1>7, <2>3, <2>4, <2>5 DEF c
<1>8. CASE call.state = "ok" /\ call.method = "StartDiscovery"
  <2>1. c = [ended EXCEPT !.discovering = FALSE] BY <1>2, <1>8 DEF Bluez!Undone
  <2> HIDE DEF ended
  <2>2. c \in BleState BY <1>1, <2>1 DEF BleState
  <2>3. /\ SameView(c, b) /\ c.call = Bluez!NoCall /\ c.late = b.late /\ c.discovering = FALSE
        /\ c.notifying = b.notifying /\ c.connected = b.connected
      BY <1>1, <2>1, <2>2 DEF BleState, SameView
  <2> HIDE DEF c, call
  <2> QED BY <1>3, <1>8, <2>2, <2>3
<1>9. CASE call.state = "error" \/ (call.state = "ok" /\ call.method # "StartNotify"
               /\ call.method # "StartDiscovery" /\ ~(call.method = "Connect" /\ call.owned))
  <2>1. c = ended BY <1>2, <1>9 DEF Bluez!Undone
  <2> HIDE DEF c, call, ended
  <2> QED BY <1>1, <1>3, <1>9, <2>1
<1> QED BY <1>2, <1>6, <1>7, <1>8, <1>9

\* A call completes, and what nobody wants any more is undone.
LEMMA BleCompleted == ASSUME BleInv, Bluez!Completed PROVE BleInv'
<1>1. /\ ble \in BleState /\ Accounts(ble) /\ ble.call.state # "sent"
      /\ ble.call \in BleCall BY DEF BleInv, Bluez!Completed, BleState, Bluez!NoCall, Bluez!None
<1>2. CASE ble.window = "gone"
  <2>1. ble' = Bluez!Undone(ble, ble.call) BY <1>2 DEF Bluez!Completed
  <2>2. ble' \in BleState /\ Accounts(ble') /\ ble'.window = "gone" BY <1>1, <1>2, <2>1, BleUndone
  <2> QED BY <2>2 DEF BleInv, SelectionFits
<1>3. CASE ble.window # "gone"
  <2> DEFINE noted == Bluez!Noted(ble, ble.call)
  <2>1. ble' = noted \/ ble' \in Bluez!Refresh(noted) BY <1>3 DEF Bluez!Completed
  <2>2. CASE ble.window = "open"
    <3>1. /\ noted \in BleState /\ Accounts(noted) /\ noted.window = ble.window
          /\ noted.device = ble.device /\ noted.char = ble.char /\ noted.connected = ble.connected
        BY <1>1, <2>2, BleNoted
    <3> HIDE DEF noted
    <3>2. SelectionFits(noted) BY <3>1 DEF BleInv, SelectionFits, Bluez!Shown
    <3> QED BY <2>1, <3>1, <3>2, BleRefresh DEF BleInv
  <2>3. ble.window = "open"
      BY <1>1, <1>3 DEF BleState, Accounts, OnlyOpen, BleCall, Bluez!NoCall, Bluez!None, Bluez!Methods
  <2> QED BY <2>2, <2>3
<1> QED BY <1>2, <1>3

\* The time of the scan is over.
LEMMA BleScanTimer == ASSUME BleInv, Bluez!ScanTimer PROVE BleInv'
<1>1. ble \in BleState /\ Accounts(ble) /\ SelectionFits(ble) BY DEF BleInv
<1>2. ble' = [ble EXCEPT !.scanning = FALSE, !.discovering = @ /\ ~ble.scanning] /\ ble.scanning = TRUE
    BY <1>1 DEF Bluez!ScanTimer, Bluez!StopScan, BleState
<1>3. ble' = [ble EXCEPT !.scanning = FALSE, !.discovering = FALSE] BY <1>1, <1>2 DEF BleState
<1>4. ble' \in BleState BY <1>1, <1>3 DEF BleState
<1>5. /\ ble'.window = ble.window /\ ble'.notifications = ble.notifications /\ ble'.owned = ble.owned
      /\ ble'.scanning = FALSE /\ ble'.device = ble.device /\ ble'.char = ble.char
      /\ ble'.stray = ble.stray /\ ble'.late = ble.late /\ ble'.discovering = FALSE
      /\ ble'.notifying = ble.notifying /\ ble'.connected = ble.connected /\ ble'.call = ble.call
    BY <1>1, <1>3 DEF BleState
<1>6. Accounts(ble') BY <1>1, <1>5 DEF Accounts, ScanAccounted, NotifyAccounted, ConnectAccounted,
       UndoneHolds, OnlyOpen, LateStray, Succeeded, Stray
<1> QED BY <1>1, <1>4, <1>5, <1>6 DEF BleInv, SelectionFits, Bluez!Shown

\* The window closes and gives up what it has.
LEMMA BleClose == ASSUME BleInv, Bluez!CloseWindow PROVE BleInv'
<1> DEFINE stopped == Bluez!StopScan(ble)
           quiet == [stopped EXCEPT !.notifying = @ \ ble.notifications, !.notifications = {}, !.owned = {}]
           connected == [d \in Device |-> IF d \in ble.owned THEN "none" ELSE ble.connected[d]]
           notifying == {x \in ble.notifying \ ble.notifications : DeviceOf[x] \notin ble.owned}
           released == Bluez!ReleaseAll(ble)
           discovering == ble.discovering /\ ~ble.scanning
<1>1. ble \in BleState /\ Accounts(ble) BY DEF BleInv
<1>2. discovering \in BOOLEAN OBVIOUS
<1> HIDE DEF discovering
<1>3. stopped = [ble EXCEPT !.scanning = FALSE, !.discovering = discovering] BY DEF Bluez!StopScan, discovering
<1> HIDE DEF stopped
<1>4. stopped \in BleState BY <1>1, <1>2, <1>3 DEF BleState
<1>5. /\ stopped.window = ble.window /\ stopped.notifications = ble.notifications /\ stopped.owned = ble.owned
      /\ stopped.scanning = FALSE /\ stopped.device = ble.device /\ stopped.char = ble.char
      /\ stopped.stray = ble.stray /\ stopped.late = ble.late /\ stopped.discovering = discovering
      /\ stopped.notifying = ble.notifying /\ stopped.connected = ble.connected /\ stopped.call = ble.call
    BY <1>1, <1>2, <1>3 DEF BleState
<1>6. quiet \in BleState BY <1>4, <1>5 DEF BleState
<1>7. /\ quiet.window = ble.window /\ quiet.notifications = {} /\ quiet.owned = {}
      /\ quiet.scanning = FALSE /\ quiet.device = ble.device /\ quiet.char = ble.char
      /\ quiet.stray = ble.stray /\ quiet.late = ble.late /\ quiet.discovering = discovering
      /\ quiet.notifying = ble.notifying \ ble.notifications /\ quiet.connected = ble.connected
      /\ quiet.call = ble.call BY <1>4, <1>5, <1>6 DEF BleState
<1>8. released = [quiet EXCEPT !.connected = connected, !.notifying = notifying]
    BY <1>6, <1>7 DEF Bluez!ReleaseAll, stopped, Bluez!None
<1> HIDE DEF quiet, released
<1>9. /\ connected \in [Device -> {"none", "us", "other"}] /\ notifying \in SUBSET Char
      /\ notifying \subseteq ble.notifying \ ble.notifications
      /\ \A d \in Device : connected[d] = "us" => ble.connected[d] = "us" /\ d \notin ble.owned
    BY <1>1 DEF BleState
<1> HIDE DEF connected, notifying
<1>10. released \in BleState BY <1>6, <1>8, <1>9 DEF BleState
<1>11. /\ released.notifications = {} /\ released.owned = {} /\ released.scanning = FALSE
       /\ released.stray = ble.stray /\ released.late = ble.late /\ released.discovering = discovering
       /\ released.notifying = notifying /\ released.connected = connected /\ released.call = ble.call
     BY <1>6, <1>7, <1>8, <1>10 DEF BleState
<1>12. ble' = [released EXCEPT !.window = "gone", !.device = "none", !.char = "none"]
     BY DEF Bluez!CloseWindow, released, Bluez!None
<1>13. ble' \in BleState BY <1>10, <1>12 DEF BleState
<1>14. /\ ble'.window = "gone" /\ ble'.notifications = {} /\ ble'.owned = {} /\ ble'.scanning = FALSE
       /\ ble'.stray = ble.stray /\ ble'.late = ble.late /\ ble'.discovering = discovering
       /\ ble'.notifying = notifying /\ ble'.connected = connected /\ ble'.call = ble.call
     BY <1>10, <1>11, <1>12 DEF BleState
<1>15. discovering => ble.discovering /\ ~ble.scanning BY DEF discovering
<1>16. Accounts(ble')
     BY <1>1, <1>9, <1>14, <1>15 DEF Accounts, ScanAccounted, NotifyAccounted, ConnectAccounted,
        UndoneHolds, OnlyOpen, LateStray, Succeeded, Stray
<1> QED BY <1>13, <1>14, <1>16 DEF BleInv, SelectionFits

\* Every step keeps the account of what was taken.
LEMMA BleStep == ASSUME BleInv, [Bluez!Next]_ble PROVE BleInv'
<1>1. CASE UNCHANGED ble BY <1>1 DEF BleInv, SelectionFits, Bluez!Shown
<1>2. CASE Bluez!Next
    BY <1>2, BleServe, BleRefuse, BleTimesOut, BleDoneLate, BleAppears, BleTaken, BleDrops, BleReady,
       BleSelect, BleAction, BleScan, BleCompleted, BleScanTimer, BleClose DEF Bluez!Next
<1> QED BY <1>1, <1>2

\* The window begins with nothing.
LEMMA BleStart == Bluez!Init => BleInv
<1> SUFFICES ASSUME Bluez!Init PROVE BleInv OBVIOUS
<1>1. [d \in Device |-> Bluez!None] \in [Device -> {"none", "us", "other"}] BY DEF Bluez!None
<1>2. ble \in BleState BY <1>1 DEF Bluez!Init, BleState, Bluez!None
<1>3. Accounts(ble) /\ SelectionFits(ble)
    BY DEF Bluez!Init, Bluez!None, Bluez!NoCall, Accounts, PathFits, ScanAccounted, NotifyAccounted,
           ConnectAccounted, UndoneHolds, OnlyOpen, LateStray, Succeeded, Stray, SelectionFits
<1> QED BY <1>2, <1>3 DEF BleInv

\* The account is what is claimed.
LEMMA BleGood == BleInv => Bluez!Sound
<1> SUFFICES ASSUME BleInv PROVE Bluez!Sound OBVIOUS
<1>1. Bluez!SelectionHolds BY DEF BleInv, SelectionFits, Bluez!SelectionHolds, Bluez!None
<1>2. Bluez!CleanedUp
  <2> SUFFICES ASSUME ble.window = "gone", ble.call = Bluez!NoCall
               PROVE  /\ ble.discovering => ble.stray = "adapter"
                      /\ ble.notifying \subseteq {ble.stray}
                      /\ \A d \in Device : ble.connected[d] = "us" => d = ble.stray BY DEF Bluez!CleanedUp
  <2>1. \A m, p : ~Succeeded(ble, m, p) BY DEF Succeeded
  <2> QED BY <2>1 DEF BleInv, Accounts, OnlyOpen, ScanAccounted, NotifyAccounted, ConnectAccounted, Stray
<1> QED BY <1>1, <1>2 DEF Bluez!Sound

\* For any devices, characteristics and orders of calls, answers and time-outs: once the
\* window is gone no scan, notification or connection of its own is left, but what a call
\* that had timed out did later; and the characteristic that is read and written is one of
\* the device that is selected (ble.c: completed, free_view).
THEOREM BlePartsAccounted == Bluez!Spec => []Bluez!Sound
<1>1. Bluez!Init => BleInv BY BleStart
<1>2. BleInv /\ [Bluez!Next]_ble => BleInv' BY BleStep
<1>3. BleInv => Bluez!Sound BY BleGood
<1> QED BY <1>1, <1>2, <1>3, PTL DEF Bluez!Spec

-----------------------------------------------------------------------------
(* The runs of plugins *)

PluginTexts == PluginText \cup {"none", CHOOSE t \in PluginText : TRUE}
PluginRun == [stage : {"none", "start", "poll", "kill", "wait", "done", "over"}, source : PluginTexts,
              cancelled : BOOLEAN, late : BOOLEAN, error : BOOLEAN, exited : BOOLEAN, eof : BOOLEAN,
              output : Nat, directory : BOOLEAN, files : SUBSET Plugins!Files,
              process : {"none", "running", "success", "failure"}, written : Nat, valid : BOOLEAN,
              closed : BOOLEAN]
PluginShown == [kind : {"none", "error", "output", "message"}, valid : BOOLEAN, output : Nat, written : Nat,
                process : {"none", "running", "success", "failure"}]
PluginState == [window : {"open", "gone"}, text : PluginTexts, busy : BOOLEAN,
                request : [save : BOOLEAN, text : PluginTexts], saved : PluginTexts,
                shown : PluginShown, run : PluginRun]
\* While the process is read; once the worker waits for it; when it only cleans up.
Reads(r) == r.stage = "poll" => /\ r.process # "none"
                                /\ r.eof => r.closed /\ r.output = r.written
WaitsFor(r) == r.stage = "wait" => r.error \/ (r.process \in {"success", "failure"} /\ r.output = r.written)
Ended(r) == r.stage \in {"done", "over"} => r.error \/ (r.process = "success" /\ r.valid /\ r.output = r.written)
RunSound(r) == /\ r.stage \in {"none", "start", "over"} => ~r.directory /\ r.files = {}
               /\ r.process = "running" => r.stage \in {"poll", "kill"}
               /\ r.stage = "start" => ~r.eof
               /\ r.stage = "kill" => r.error
               /\ r.output <= r.written
               /\ Reads(r) /\ WaitsFor(r) /\ Ended(r)
ShownWhole(o) == o.kind = "output" => o.process = "success" /\ o.valid /\ o.output = o.written
PluginInv == plugin \in PluginState /\ RunSound(plugin.run) /\ ShownWhole(plugin.shown)

\* A step of the worker is one of its run.
LEMMA PluginWork ==
    ASSUME PluginInv, NEW r \in PluginRun, RunSound(r), Plugins!Work(r)
    PROVE  PluginInv'
<1>1. plugin' = [plugin EXCEPT !.run = r] /\ plugin \in PluginState BY DEF Plugins!Work, PluginInv
<1>2. plugin' \in PluginState /\ plugin'.run = r /\ plugin'.shown = plugin.shown BY <1>1 DEF PluginState
<1> QED BY <1>2 DEF PluginInv

\* Reading takes what was written, and sees the end.
LEMMA PluginRead ==
    ASSUME NEW r \in PluginRun, RunSound(r), r.stage = "poll", ~r.eof
    PROVE  Plugins!Read(r) \in PluginRun /\ RunSound(Plugins!Read(r))
<1> DEFINE s == Plugins!Read(r)
<1>1. r.output \in Nat /\ r.written \in Nat /\ r.closed \in BOOLEAN /\ r.process # "none" /\ r.output <= r.written
    BY DEF PluginRun, RunSound, Reads
<1>2. CASE r.output = r.written
  <2>1. s = [r EXCEPT !.eof = r.closed] BY <1>2 DEF Plugins!Read
  <2>2. s \in PluginRun BY <1>1, <2>1 DEF PluginRun
  <2>3. s.stage = "poll" /\ s.eof = r.closed /\ s.closed = r.closed /\ s.output = r.output
        /\ s.written = r.written /\ s.process = r.process BY <2>1 DEF PluginRun
  <2> QED BY <1>1, <1>2, <2>2, <2>3 DEF RunSound, Reads, WaitsFor, Ended
<1>3. CASE r.output # r.written /\ r.output = OutputLimit
  <2>1. s = [r EXCEPT !.stage = "kill", !.error = TRUE] BY <1>3 DEF Plugins!Read
  <2>2. s \in PluginRun /\ s.stage = "kill" /\ s.error /\ s.output = r.output /\ s.written = r.written
      BY <2>1 DEF PluginRun
  <2> QED BY <1>1, <2>2 DEF RunSound, Reads, WaitsFor, Ended
<1>4. CASE r.output # r.written /\ r.output # OutputLimit
  <2>1. s = [r EXCEPT !.output = @ + 1] BY <1>4 DEF Plugins!Read
  <2>2. s \in PluginRun BY <1>1, <2>1 DEF PluginRun
  <2>3. s.stage = "poll" /\ s.eof = r.eof /\ s.output = r.output + 1 /\ s.written = r.written
        /\ s.process = r.process BY <2>1 DEF PluginRun
  <2> QED BY <1>1, <1>4, <2>2, <2>3 DEF RunSound, Reads, WaitsFor, Ended
<1> QED BY <1>2, <1>3, <1>4

\* A round of the poll loop keeps the run sound.
LEMMA PluginPoll ==
    ASSUME NEW r \in PluginRun, RunSound(r), r.stage = "poll"
    PROVE  Plugins!Poll(r) \in PluginRun /\ RunSound(Plugins!Poll(r))
<1> DEFINE exited == r.process # "running"
           noticed == [r EXCEPT !.exited = exited]
<1>1. exited \in BOOLEAN /\ r.process \in {"none", "running", "success", "failure"} BY DEF PluginRun
<1>2. noticed \in PluginRun BY <1>1 DEF PluginRun
<1>3. noticed.exited = exited /\ noticed.eof = r.eof /\ noticed.stage = "poll" /\ noticed.process = r.process
      /\ noticed.output = r.output /\ noticed.written = r.written /\ noticed.closed = r.closed
      /\ noticed.directory = r.directory /\ noticed.files = r.files BY DEF PluginRun
<1>4. RunSound(noticed) BY <1>3 DEF RunSound, Reads, WaitsFor, Ended
<1>5. CASE Plugins!Poll(r) = [noticed EXCEPT !.stage = "wait"] /\ r.eof /\ exited
  <2> HIDE DEF noticed
  <2> DEFINE s == [noticed EXCEPT !.stage = "wait"]
  <2>1. s \in PluginRun /\ s.stage = "wait" /\ s.process = r.process /\ s.output = r.output /\ s.written = r.written
      BY <1>2, <1>3 DEF PluginRun
  <2> HIDE DEF s
  <2> QED BY <1>1, <1>5, <2>1 DEF RunSound, Reads, WaitsFor, Ended, s
<1>6. CASE Plugins!Poll(r) = Plugins!GivesUp(noticed)
  <2> HIDE DEF noticed
  <2> DEFINE s == [noticed EXCEPT !.stage = "kill", !.error = TRUE]
  <2>1. s \in PluginRun /\ s.stage = "kill" /\ s.error /\ s.output = r.output /\ s.written = r.written
      BY <1>2, <1>3 DEF PluginRun
  <2> HIDE DEF s
  <2>2. Plugins!Poll(r) = s BY <1>6 DEF Plugins!GivesUp, s
  <2> QED BY <2>1, <2>2 DEF RunSound, Reads, WaitsFor, Ended
<1>7. CASE Plugins!Poll(r) = noticed BY <1>2, <1>4, <1>7
<1>8. CASE Plugins!Poll(r) = Plugins!Read(noticed) /\ ~r.eof
  <2> HIDE DEF noticed
  <2> QED BY <1>2, <1>3, <1>4, <1>8, PluginRead
<1>9. \/ Plugins!Poll(r) = [noticed EXCEPT !.stage = "wait"] /\ r.eof /\ exited
      \/ Plugins!Poll(r) = Plugins!GivesUp(noticed)
      \/ Plugins!Poll(r) = noticed
      \/ Plugins!Poll(r) = Plugins!Read(noticed) /\ ~r.eof
  <2>1. r.eof /\ noticed.exited <=> r.eof /\ exited BY <1>3
  <2> HIDE DEF exited
  <2>2. CASE r.eof /\ exited BY <2>1, <2>2 DEF Plugins!Poll, exited
  <2>3. CASE ~(r.eof /\ exited) /\ (r.cancelled \/ r.late) BY <2>1, <2>3 DEF Plugins!Poll, exited
  <2>4. CASE ~(r.eof /\ exited) /\ ~(r.cancelled \/ r.late) BY <2>1, <2>4 DEF Plugins!Poll, exited
  <2> QED BY <2>2, <2>3, <2>4
<1> QED BY <1>5, <1>6, <1>7, <1>8, <1>9

\* The steps of the worker and of the process, each of which leaves the run sound.
LEMMA PluginWorker ==
    ASSUME PluginInv,
           Plugins!Missing \/ Plugins!Start \/ Plugins!Polls \/ Plugins!ReadFails \/ Plugins!ForceExit
             \/ Plugins!Waits \/ Plugins!CleanUp
    PROVE  PluginInv'
<1> DEFINE r == plugin.run
<1>1. r \in PluginRun /\ RunSound(r) BY DEF PluginInv, PluginState
<1>2. CASE Plugins!Missing
  <2> DEFINE s == [r EXCEPT !.stage = "over", !.error = TRUE]
  <2>1. Plugins!Work(s) /\ r.stage = "start" BY <1>2 DEF Plugins!Missing
  <2>2. s \in PluginRun /\ s.stage = "over" /\ s.error /\ s.process = r.process /\ s.files = r.files
        /\ s.directory = r.directory /\ s.output = r.output /\ s.written = r.written BY <1>1 DEF PluginRun
  <2> HIDE DEF s, r
  <2>3. RunSound(s) BY <1>1, <2>1, <2>2 DEF RunSound, Reads, WaitsFor, Ended
  <2> QED BY <2>1, <2>2, <2>3, PluginWork
<1>3. CASE Plugins!Start
  <2>1. PICK s \in Plugins!Prepare(r) : Plugins!Work(s) /\ r.stage = "start" BY <1>3 DEF Plugins!Start
  <2>2. CASE s = [r EXCEPT !.stage = "poll", !.directory = TRUE, !.files = Plugins!Files, !.process = "running"]
    <3>1. s \in PluginRun BY <1>1, <2>2 DEF PluginRun
    <3>2. s.stage = "poll" /\ s.process = "running" /\ s.output = r.output /\ s.written = r.written
          /\ s.eof = r.eof BY <1>1, <2>2 DEF PluginRun
    <3>3. ~r.eof BY <1>1, <2>1 DEF RunSound
    <3> QED BY <1>1, <2>1, <3>1, <3>2, <3>3, PluginWork DEF RunSound, Reads, WaitsFor, Ended
  <2>3. CASE \E f \in SUBSET Plugins!Files :
                 s = [r EXCEPT !.stage = "done", !.error = TRUE, !.directory = TRUE, !.files = f]
    <3>1. PICK f \in SUBSET Plugins!Files :
                 s = [r EXCEPT !.stage = "done", !.error = TRUE, !.directory = TRUE, !.files = f] BY <2>3
    <3>2. s \in PluginRun /\ s.stage = "done" /\ s.error /\ s.process = r.process
          /\ s.output = r.output /\ s.written = r.written BY <1>1, <3>1 DEF PluginRun
    <3> HIDE DEF r
    <3> QED BY <1>1, <2>1, <3>2, PluginWork DEF RunSound, Reads, WaitsFor, Ended
  <2> QED BY <2>2, <2>3 DEF Plugins!Prepare
<1>4. CASE Plugins!Polls BY <1>1, <1>4, PluginPoll, PluginWork DEF Plugins!Polls
<1>5. CASE Plugins!ReadFails
  <2> DEFINE s == [r EXCEPT !.stage = "kill", !.error = TRUE]
  <2>1. Plugins!Work(s) /\ r.stage = "poll" BY <1>5 DEF Plugins!ReadFails
  <2>2. s \in PluginRun /\ s.stage = "kill" /\ s.error /\ s.output = r.output /\ s.written = r.written
      BY <1>1 DEF PluginRun
  <2> HIDE DEF s, r
  <2>3. RunSound(s) BY <1>1, <2>1, <2>2 DEF RunSound, Reads, WaitsFor, Ended
  <2> QED BY <2>1, <2>2, <2>3, PluginWork
<1>6. CASE Plugins!ForceExit
  <2> DEFINE how == IF r.process = "running" THEN "failure" ELSE r.process
             s == [r EXCEPT !.stage = "wait", !.closed = TRUE, !.process = how]
  <2>1. Plugins!Work(s) /\ r.stage = "kill" BY <1>6 DEF Plugins!ForceExit
  <2>2. how \in {"none", "success", "failure"} BY <1>1 DEF PluginRun
  <2> HIDE DEF how
  <2>3. s \in PluginRun /\ s.stage = "wait" /\ s.error = r.error /\ s.process = how
        /\ s.output = r.output /\ s.written = r.written BY <1>1, <2>2 DEF PluginRun
  <2> HIDE DEF s, r
  <2>4. RunSound(s) BY <1>1, <2>1, <2>2, <2>3 DEF RunSound, Reads, WaitsFor, Ended
  <2> QED BY <2>1, <2>3, <2>4, PluginWork
<1>7. CASE Plugins!Waits
  <2> DEFINE error == r.error \/ r.process = "failure" \/ ~r.valid
             s == [r EXCEPT !.stage = "done", !.exited = TRUE, !.error = error]
  <2>1. Plugins!Work(s) /\ r.stage = "wait" /\ r.process # "running" BY <1>7 DEF Plugins!Waits
  <2>2. error \in BOOLEAN /\ r.process \in {"none", "running", "success", "failure"} /\ r.valid \in BOOLEAN
      BY <1>1 DEF PluginRun
  <2>3. ~error => ~r.error /\ r.process # "failure" /\ r.valid OBVIOUS
  <2> HIDE DEF error
  <2>4. s \in PluginRun /\ s.stage = "done" /\ s.error = error /\ s.process = r.process
        /\ s.output = r.output /\ s.written = r.written /\ s.valid = r.valid BY <1>1, <2>2 DEF PluginRun
  <2> HIDE DEF s, r
  <2>5. RunSound(s) BY <1>1, <2>1, <2>2, <2>3, <2>4 DEF RunSound, Reads, WaitsFor, Ended
  <2> QED BY <2>1, <2>4, <2>5, PluginWork
<1>8. CASE Plugins!CleanUp
  <2> DEFINE s == [r EXCEPT !.stage = "over", !.files = {}, !.directory = FALSE]
  <2>1. Plugins!Work(s) /\ r.stage = "done" BY <1>8 DEF Plugins!CleanUp
  <2>2. s \in PluginRun /\ s.stage = "over" /\ s.error = r.error /\ s.process = r.process
        /\ s.output = r.output /\ s.written = r.written /\ s.valid = r.valid
        /\ s.files = {} /\ ~s.directory BY <1>1 DEF PluginRun
  <2> HIDE DEF s, r
  <2>3. RunSound(s) BY <1>1, <2>1, <2>2 DEF RunSound, Reads, WaitsFor, Ended
  <2> QED BY <2>1, <2>2, <2>3, PluginWork
<1> QED BY <1>2, <1>3, <1>4, <1>5, <1>6, <1>7, <1>8

\* The process goes on beside the worker.
LEMMA PluginProcess ==
    ASSUME PluginInv, Plugins!Writes \/ Plugins!Closes \/ Plugins!Exits \/ Plugins!Late
    PROVE  PluginInv'
<1> DEFINE r == plugin.run
<1>1. r \in PluginRun /\ RunSound(r) BY DEF PluginInv, PluginState
<1>2. CASE Plugins!Writes
  <2>1. PICK v \in BOOLEAN : Plugins!Work([r EXCEPT !.written = @ + 1, !.valid = @ /\ v])
      BY <1>2 DEF Plugins!Writes
  <2> DEFINE valid == r.valid /\ v
             s == [r EXCEPT !.written = @ + 1, !.valid = valid]
  <2>2. r.process = "running" /\ ~r.closed /\ Plugins!Work(s) BY <1>2, <2>1 DEF Plugins!Writes
  <2>3. valid \in BOOLEAN /\ r.written \in Nat /\ r.output \in Nat /\ r.written + 1 \in Nat
      BY <1>1 DEF PluginRun
  <2> HIDE DEF valid, r
  <2>4. s \in PluginRun BY <1>1, <2>3 DEF PluginRun
  <2>5. s.written = r.written + 1 /\ s.stage = r.stage /\ s.process = "running" /\ s.output = r.output
        /\ s.eof = r.eof /\ s.error = r.error BY <1>1, <2>2, <2>3 DEF PluginRun
  <2> HIDE DEF s
  <2>6. RunSound(s) BY <1>1, <2>2, <2>3, <2>5 DEF RunSound, Reads, WaitsFor, Ended
  <2> QED BY <2>2, <2>4, <2>6, PluginWork
<1>3. CASE Plugins!Closes
  <2> DEFINE s == [r EXCEPT !.closed = TRUE]
  <2>1. Plugins!Work(s) /\ r.process = "running" BY <1>3 DEF Plugins!Closes
  <2>2. s \in PluginRun /\ s.stage = r.stage /\ s.error = r.error /\ s.process = r.process /\ s.eof = r.eof
        /\ s.output = r.output /\ s.written = r.written /\ s.closed BY <1>1 DEF PluginRun
  <2> HIDE DEF s, r
  <2>3. RunSound(s) BY <1>1, <2>1, <2>2 DEF RunSound, Reads, WaitsFor, Ended
  <2> QED BY <2>1, <2>2, <2>3, PluginWork
<1>4. CASE Plugins!Exits
  <2>1. PICK how \in {"success", "failure"} : Plugins!Work([r EXCEPT !.process = how, !.closed = TRUE])
      BY <1>4 DEF Plugins!Exits
  <2> DEFINE s == [r EXCEPT !.process = how, !.closed = TRUE]
  <2>2. Plugins!Work(s) /\ r.process = "running" BY <1>4, <2>1 DEF Plugins!Exits
  <2>3. s \in PluginRun /\ s.stage = r.stage /\ s.error = r.error /\ s.process = how /\ s.eof = r.eof
        /\ s.output = r.output /\ s.written = r.written /\ s.closed BY <1>1 DEF PluginRun
  <2> HIDE DEF s, r
  <2>4. RunSound(s) BY <1>1, <2>2, <2>3 DEF RunSound, Reads, WaitsFor, Ended
  <2> QED BY <2>2, <2>3, <2>4, PluginWork
<1>5. CASE Plugins!Late
  <2> DEFINE s == [r EXCEPT !.late = TRUE]
  <2>1. Plugins!Work(s) /\ r.stage = "poll" BY <1>5 DEF Plugins!Late
  <2>2. s \in PluginRun /\ s.stage = r.stage /\ s.error = r.error /\ s.process = r.process /\ s.eof = r.eof
        /\ s.output = r.output /\ s.written = r.written /\ s.closed = r.closed BY <1>1 DEF PluginRun
  <2> HIDE DEF s, r
  <2>3. RunSound(s) BY <1>1, <2>1, <2>2 DEF RunSound, Reads, WaitsFor, Ended
  <2> QED BY <2>1, <2>2, <2>3, PluginWork
<1> QED BY <1>2, <1>3, <1>4, <1>5

\* A run that has not begun, and what is shown of one.
LEMMA PluginFresh == /\ Plugins!NoRun \in PluginRun /\ RunSound(Plugins!NoRun)
                     /\ \A kind \in {"none", "error", "message"} :
                            LET o == Plugins!Outcome(kind, Plugins!NoRun)
                            IN o \in PluginShown /\ ShownWhole(o)
                     /\ Plugins!NoRequest \in [save : BOOLEAN, text : PluginTexts]
<1>1. Plugins!NoRun \in PluginRun BY DEF Plugins!NoRun, PluginRun, Plugins!None, PluginTexts
<1>2. RunSound(Plugins!NoRun) BY DEF Plugins!NoRun, RunSound, Reads, WaitsFor, Ended, Plugins!None
<1>3. \A kind \in {"none", "error", "message"} :
          LET o == Plugins!Outcome(kind, Plugins!NoRun)
          IN o \in PluginShown /\ ShownWhole(o)
    BY DEF Plugins!NoRun, Plugins!Outcome, PluginShown, ShownWhole, Plugins!None
<1>4. Plugins!NoRequest \in [save : BOOLEAN, text : PluginTexts]
    BY DEF Plugins!NoRequest, PluginTexts, Plugins!None
<1> QED BY <1>1, <1>2, <1>3, <1>4

\* A run begins, or cannot.
LEMMA PluginRunClicked ==
    ASSUME PluginInv, NEW starts \in BOOLEAN, Plugins!RunClicked(starts)
    PROVE  PluginInv'
<1> DEFINE stage == IF starts THEN "start" ELSE "over"
           error == ~starts
           r == [Plugins!NoRun EXCEPT !.stage = stage, !.error = error, !.source = plugin.text]
           fresh == Plugins!Nothing
<1>1. plugin' = [plugin EXCEPT !.busy = TRUE, !.shown = fresh, !.run = r] BY DEF Plugins!RunClicked
<1>2. plugin \in PluginState /\ plugin.text \in PluginTexts /\ stage \in {"start", "over"} /\ error \in BOOLEAN
      /\ (stage = "over" => error) BY DEF PluginInv, PluginState
<1> HIDE DEF stage, error
<1>3. r \in PluginRun BY <1>2, PluginFresh DEF PluginRun
<1>4. r.stage = stage /\ r.error = error /\ r.process = "none" /\ r.files = {} /\ ~r.directory
      /\ r.output = 0 /\ r.written = 0 /\ ~r.eof BY DEF Plugins!NoRun, Plugins!None
<1> HIDE DEF r
<1>5. RunSound(r) BY <1>2, <1>4 DEF RunSound, Reads, WaitsFor, Ended
<1>6. fresh \in PluginShown /\ ShownWhole(fresh) BY PluginFresh DEF Plugins!Nothing, Plugins!None
<1> HIDE DEF fresh
<1>7. plugin' \in PluginState /\ plugin'.run = r /\ plugin'.shown = fresh
    BY <1>1, <1>2, <1>3, <1>6 DEF PluginState
<1> QED BY <1>5, <1>6, <1>7 DEF PluginInv

\* The result of the run is shown.
LEMMA PluginCompleted == ASSUME PluginInv, Plugins!Completed PROVE PluginInv'
<1> DEFINE r == plugin.run
           shown == IF r.error THEN Plugins!Outcome("error", Plugins!NoRun) ELSE Plugins!Outcome("output", r)
           fresh == Plugins!NoRun
<1>1. plugin \in PluginState /\ r \in PluginRun /\ RunSound(r) /\ r.stage = "over" /\ ShownWhole(plugin.shown)
    BY DEF PluginInv, PluginState, Plugins!Completed
<1>2. fresh \in PluginRun /\ RunSound(fresh) BY PluginFresh
<1>3. shown \in PluginShown /\ ShownWhole(shown)
  <2>1. CASE r.error BY <2>1, PluginFresh
  <2>2. CASE ~r.error
    <3>1. r.process = "success" /\ r.valid /\ r.output = r.written BY <1>1, <2>2 DEF RunSound, Ended
    <3>2. shown = [kind |-> "output", process |-> r.process, valid |-> r.valid,
                   output |-> r.output, written |-> r.written] BY <2>2 DEF Plugins!Outcome
    <3> HIDE DEF shown
    <3> QED BY <1>1, <3>1, <3>2 DEF PluginShown, PluginRun, ShownWhole
  <2> QED BY <2>1, <2>2
<1>4. plugin' = [plugin EXCEPT !.run = fresh]
      \/ plugin' = [plugin EXCEPT !.run = fresh, !.busy = FALSE, !.shown = shown] BY DEF Plugins!Completed
<1> HIDE DEF shown, fresh
<1>5. CASE plugin' = [plugin EXCEPT !.run = fresh]
  <2>1. plugin' \in PluginState /\ plugin'.run = fresh /\ plugin'.shown = plugin.shown
      BY <1>1, <1>2, <1>5 DEF PluginState
  <2> QED BY <1>1, <1>2, <2>1 DEF PluginInv
<1>6. CASE plugin' = [plugin EXCEPT !.run = fresh, !.busy = FALSE, !.shown = shown]
  <2>1. plugin' \in PluginState /\ plugin'.run = fresh /\ plugin'.shown = shown
      BY <1>1, <1>2, <1>3, <1>6 DEF PluginState
  <2> QED BY <1>2, <1>3, <2>1 DEF PluginInv
<1> QED BY <1>4, <1>5, <1>6

\* What only touches the editor.
LEMMA PluginEditor ==
    ASSUME PluginInv,
           (\E t \in PluginText : Plugins!Edit(t)) \/ (\E save \in BOOLEAN : Plugins!Choose(save))
             \/ Plugins!FileSelected
    PROVE  PluginInv'
<1> DEFINE told == Plugins!Outcome("message", Plugins!NoRun)
<1>1. /\ plugin \in PluginState /\ told \in PluginShown /\ ShownWhole(told)
      /\ Plugins!NoRequest \in [save : BOOLEAN, text : PluginTexts] BY PluginFresh DEF PluginInv
<1>2. SUFFICES plugin' \in PluginState /\ plugin'.run = plugin.run /\ plugin'.shown \in {plugin.shown, told}
    BY <1>1 DEF PluginInv
<1> HIDE DEF told
<1>3. ASSUME NEW t \in PluginText, Plugins!Edit(t)
      PROVE  plugin' \in PluginState /\ plugin'.run = plugin.run /\ plugin'.shown \in {plugin.shown, told}
    BY <1>1, <1>3 DEF Plugins!Edit, PluginState, PluginTexts
<1>4. ASSUME NEW save \in BOOLEAN, Plugins!Choose(save)
      PROVE  plugin' \in PluginState /\ plugin'.run = plugin.run /\ plugin'.shown \in {plugin.shown, told}
  <2> DEFINE request == [save |-> save, text |-> plugin.text]
  <2>1. plugin' = [plugin EXCEPT !.request = request] /\ request \in [save : BOOLEAN, text : PluginTexts]
      BY <1>1, <1>4 DEF Plugins!Choose, PluginState
  <2> HIDE DEF request
  <2> QED BY <1>1, <2>1 DEF PluginState
<1>5. CASE Plugins!FileSelected
  <2> DEFINE closed == [plugin EXCEPT !.request = Plugins!NoRequest]
             said == [closed EXCEPT !.shown = told]
  <2>1. closed \in PluginState /\ closed.run = plugin.run /\ closed.shown = plugin.shown BY <1>1 DEF PluginState
  <2>2. plugin.request.text \in PluginTexts BY <1>1 DEF PluginState
  <2>3. \/ plugin' = closed \/ plugin' = said \/ plugin' = [said EXCEPT !.saved = plugin.request.text]
        \/ \E t \in PluginText : plugin' = [said EXCEPT !.text = t] BY <1>5 DEF Plugins!FileSelected, told
  <2> HIDE DEF closed
  <2>4. said \in PluginState /\ said.run = plugin.run /\ said.shown = told BY <1>1, <2>1 DEF PluginState
  <2> HIDE DEF said
  <2>5. \A t \in PluginText : t \in PluginTexts BY DEF PluginTexts
  <2> QED BY <2>1, <2>2, <2>3, <2>4, <2>5 DEF PluginState
<1> QED BY <1>3, <1>4, <1>5

\* The window goes, and its run is cancelled.
LEMMA PluginClose == ASSUME PluginInv, Plugins!CloseWindow PROVE PluginInv'
<1> DEFINE r == plugin.run
           cancelled == r.cancelled \/ plugin.busy
           s == [r EXCEPT !.cancelled = cancelled]
           fresh == Plugins!Nothing
<1>1. plugin \in PluginState /\ r \in PluginRun /\ RunSound(r) BY DEF PluginInv, PluginState
<1>2. cancelled \in BOOLEAN BY <1>1 DEF PluginState, PluginRun
<1>3. plugin' = [plugin EXCEPT !.window = "gone", !.busy = FALSE, !.shown = fresh, !.run = s]
    BY <1>1 DEF Plugins!CloseWindow, PluginState
<1> HIDE DEF cancelled
<1>4. s \in PluginRun /\ s.stage = r.stage /\ s.process = r.process /\ s.directory = r.directory
      /\ s.files = r.files /\ s.eof = r.eof /\ s.error = r.error /\ s.output = r.output
      /\ s.written = r.written /\ s.valid = r.valid /\ s.closed = r.closed BY <1>1, <1>2 DEF PluginRun
<1>5. fresh \in PluginShown /\ ShownWhole(fresh) BY PluginFresh DEF Plugins!Nothing, Plugins!None
<1> HIDE DEF s, fresh, r
<1>6. RunSound(s) BY <1>1, <1>4 DEF RunSound, Reads, WaitsFor, Ended
<1>7. plugin' \in PluginState /\ plugin'.run = s /\ plugin'.shown = fresh
    BY <1>1, <1>3, <1>4, <1>5 DEF PluginState
<1> QED BY <1>5, <1>6, <1>7 DEF PluginInv

\* Every step keeps the run sound.
LEMMA PluginStep == ASSUME PluginInv, [Plugins!Next]_plugin PROVE PluginInv'
<1>1. CASE UNCHANGED plugin BY <1>1 DEF PluginInv
<1>2. CASE Plugins!Next
    BY <1>2, PluginWorker, PluginProcess, PluginRunClicked, PluginCompleted, PluginEditor, PluginClose
       DEF Plugins!Next
<1> QED BY <1>1, <1>2

\* There is no run at the beginning.
LEMMA PluginStart == Plugins!Init => PluginInv
<1> SUFFICES ASSUME Plugins!Init PROVE PluginInv OBVIOUS
<1>1. Plugins!Nothing \in PluginShown /\ ShownWhole(Plugins!Nothing)
    BY PluginFresh DEF Plugins!Nothing, Plugins!None
<1>2. plugin \in PluginState BY <1>1, PluginFresh DEF Plugins!Init, PluginState, PluginTexts, Plugins!None
<1>3. RunSound(plugin.run) /\ ShownWhole(plugin.shown) BY <1>1, PluginFresh DEF Plugins!Init
<1> QED BY <1>2, <1>3 DEF PluginInv

\* What is shown is the whole output of a process that ended well.
LEMMA PluginGood == PluginInv => Plugins!Sound
BY DEF PluginInv, RunSound, ShownWhole, Plugins!Sound, Plugins!NothingLeft, Plugins!OutputWhole, Plugins!None

\* For any texts and limit of the output: no process, directory or file is left by a run
\* that is over, whichever step of it failed, and the output shown is all that a process
\* wrote that then succeeded (plugin.c: worker).
THEOREM PluginRunsClean == Plugins!Spec => []Plugins!Sound
<1>1. Plugins!Init => PluginInv BY PluginStart
<1>2. PluginInv /\ [Plugins!Next]_plugin => PluginInv' BY PluginStep
<1>3. PluginInv => Plugins!Sound BY PluginGood
<1> QED BY <1>1, <1>2, <1>3, PTL DEF Plugins!Spec

-----------------------------------------------------------------------------
(* The Modbus windows *)

\* Of a request that waits for its answer, what is due under its number is that request;
\* under the number of one that is not written yet nothing is.
ModbusState ==
    [window : {"none", "tcp", "rtu"}, request : Bus!Read \cup Bus!Write \cup {Bus!None},
     job : {"none", "connecting", "reading", "over"}, transaction : 0..MaxTransaction,
     due : SUBSET [request : Bus!Read \cup Bus!Write, transaction : 0..MaxTransaction],
     shown : [to : Bus!Read \cup Bus!Write \cup {Bus!None},
              taken : [request : Bus!Read \cup Bus!Write, transaction : 0..MaxTransaction] \cup {Bus!None}]]
Numbered(m) == /\ m.job \in {"connecting", "reading"} => m.request \in Bus!Read \cup Bus!Write
               /\ m.job = "connecting" => \A d \in m.due : d.transaction # m.transaction
               /\ m.job = "reading" => /\ Bus!Valid(m.request)
                                       /\ \A d \in m.due : d.transaction = m.transaction => d.request = m.request
Answers(m) == m.shown # Bus!Closed.shown =>
                 /\ m.window = "tcp" => m.shown.taken.transaction = m.transaction
                 /\ m.window = "tcp" \/ m.shown.to.function = "write" => m.shown.taken.request = m.shown.to
                 /\ Bus!Valid(m.shown.to)
ModbusFits(m) == m \in ModbusState /\ Numbered(m) /\ Answers(m)
ModbusInv == ModbusFits(modbus)

\* A window without a request.
LEMMA ModbusClosed == ModbusFits(Bus!Closed) /\ \A w \in {"tcp", "rtu"} : ModbusFits([Bus!Closed EXCEPT !.window = w])
<1> DEFINE s == [to |-> Bus!None, taken |-> Bus!None]
           c(w) == [window |-> w, request |-> Bus!None, job |-> "none", transaction |-> 0, due |-> {}, shown |-> s]
<1>1. 0 \in 0..MaxTransaction BY ToolboxAssumption DEF Bus!ModbusAssumption
<1>2. ASSUME NEW w \in {"none", "tcp", "rtu"}
      PROVE  ModbusFits(c(w))
  <2> DEFINE m == c(w)
  <2>1. m \in ModbusState BY <1>1 DEF ModbusState
  <2>2. m.job = "none" /\ m.shown = Bus!Closed.shown BY DEF Bus!Closed
  <2> HIDE DEF m
  <2> QED BY <2>1, <2>2 DEF ModbusFits, Numbered, Answers, m
<1>3. Bus!Closed = c("none") /\ \A w \in {"tcp", "rtu"} : [Bus!Closed EXCEPT !.window = w] = c(w)
    BY DEF Bus!Closed
<1> HIDE DEF c
<1> QED BY <1>2, <1>3

\* The numbers of two requests that follow one another differ.
LEMMA NextNumber ==
    ASSUME NEW t \in 0..MaxTransaction
    PROVE  LET n == (t + 1) % (MaxTransaction + 1) IN n \in 0..MaxTransaction /\ n # t
<1>1. MaxTransaction \in Nat /\ MaxTransaction > 1 /\ t \in Nat /\ t <= MaxTransaction
    BY ToolboxAssumption DEF Bus!ModbusAssumption
<1>2. CASE t = MaxTransaction BY <1>1, <1>2
<1>3. CASE t # MaxTransaction BY <1>1, <1>3
<1> QED BY <1>2, <1>3

\* A request takes a number that nothing is due under.
LEMMA ModbusRun ==
    ASSUME ModbusInv, NEW r \in Bus!Read \cup Bus!Write, Bus!Run(r)
    PROVE  ModbusInv'
<1> DEFINE number == (modbus.transaction + 1) % (MaxTransaction + 1)
           due == {d \in modbus.due : d.transaction = modbus.transaction}
           m == [modbus EXCEPT !.transaction = number, !.request = r, !.job = "connecting",
                               !.shown = Bus!Closed.shown, !.due = due]
<1>1. modbus \in ModbusState /\ modbus.transaction \in 0..MaxTransaction
    BY DEF ModbusInv, ModbusFits, ModbusState
<1>2. modbus' = m BY DEF Bus!Run
<1>3. number \in 0..MaxTransaction /\ number # modbus.transaction BY <1>1, NextNumber
<1> HIDE DEF number
<1>4. due \subseteq modbus.due /\ \A d \in due : d.transaction # number BY <1>3
<1> HIDE DEF due
<1>5. Bus!Closed.shown \in [to : {Bus!None}, taken : {Bus!None}] BY DEF Bus!Closed
<1>6. m \in ModbusState BY <1>1, <1>3, <1>4, <1>5 DEF ModbusState
<1>7. m.job = "connecting" /\ m.due = due /\ m.transaction = number /\ m.shown = Bus!Closed.shown
      /\ m.request = r BY <1>1 DEF ModbusState
<1> HIDE DEF m
<1>8. Numbered(m) /\ Answers(m) BY <1>4, <1>7 DEF Numbered, Answers
<1> QED BY <1>2, <1>6, <1>8 DEF ModbusInv, ModbusFits

\* What is written is due under its number, and is all that is.
LEMMA ModbusWritten ==
    ASSUME ModbusInv, Bus!Written
    PROVE  ModbusInv'
<1> DEFINE d == [request |-> modbus.request, transaction |-> modbus.transaction]
           due == modbus.due \cup {d}
           m == [modbus EXCEPT !.job = "reading", !.due = due]
<1>1. modbus \in ModbusState /\ modbus.job = "connecting" /\ Bus!Valid(modbus.request) /\ modbus' = m
    BY DEF ModbusInv, ModbusFits, Bus!Written
<1>2. /\ modbus.request \in Bus!Read \cup Bus!Write
      /\ \A e \in modbus.due : e.transaction # modbus.transaction
    BY <1>1 DEF ModbusInv, ModbusFits, Numbered
<1>3. d \in [request : Bus!Read \cup Bus!Write, transaction : 0..MaxTransaction] /\ d.request = modbus.request
    BY <1>1, <1>2 DEF ModbusState
<1> HIDE DEF d
<1>4. /\ due \subseteq [request : Bus!Read \cup Bus!Write, transaction : 0..MaxTransaction]
      /\ \A e \in due : e.transaction = modbus.transaction => e.request = modbus.request
    BY <1>1, <1>2, <1>3 DEF ModbusState
<1> HIDE DEF due
<1>5. m \in ModbusState BY <1>1, <1>4 DEF ModbusState
<1>6. /\ m.job = "reading" /\ m.due = due /\ m.transaction = modbus.transaction /\ m.shown = modbus.shown
      /\ m.request = modbus.request /\ m.window = modbus.window BY <1>1 DEF ModbusState
<1> HIDE DEF m
<1>7. Numbered(m) /\ Answers(m) BY <1>1, <1>2, <1>4, <1>6 DEF Numbered, Answers, ModbusInv, ModbusFits
<1> QED BY <1>1, <1>5, <1>7 DEF ModbusInv, ModbusFits

\* The answer that is taken is the one to the request under its number.
LEMMA ModbusAnswered ==
    ASSUME ModbusInv, NEW d \in modbus.due, NEW sound \in BOOLEAN, Bus!Answered(d, sound)
    PROVE  ModbusInv'
<1> DEFINE due == modbus.due \ {d}
           taken == [to |-> modbus.request, taken |-> d]
           shown == IF sound /\ Bus!Accepts(modbus, d) THEN taken ELSE modbus.shown
           m == [modbus EXCEPT !.job = "over", !.due = due, !.shown = shown]
<1>1. modbus \in ModbusState /\ modbus.job = "reading" /\ modbus' = m /\ due \subseteq modbus.due
    BY DEF ModbusInv, ModbusFits, Bus!Answered
<1>2. /\ modbus.request \in Bus!Read \cup Bus!Write /\ Bus!Valid(modbus.request)
      /\ d.transaction = modbus.transaction => d.request = modbus.request
    BY <1>1 DEF ModbusInv, ModbusFits, Numbered
<1>3. /\ d \in [request : Bus!Read \cup Bus!Write, transaction : 0..MaxTransaction]
      /\ modbus.shown \in [to : Bus!Read \cup Bus!Write \cup {Bus!None},
              taken : [request : Bus!Read \cup Bus!Write, transaction : 0..MaxTransaction] \cup {Bus!None}]
    BY <1>1 DEF ModbusState
<1>4. /\ taken \in [to : Bus!Read \cup Bus!Write \cup {Bus!None},
              taken : [request : Bus!Read \cup Bus!Write, transaction : 0..MaxTransaction] \cup {Bus!None}]
      /\ taken.to = modbus.request /\ taken.taken = d BY <1>2, <1>3
<1> HIDE DEF taken
<1>5. /\ shown \in [to : Bus!Read \cup Bus!Write \cup {Bus!None},
              taken : [request : Bus!Read \cup Bus!Write, transaction : 0..MaxTransaction] \cup {Bus!None}]
      /\ shown = modbus.shown \/ (shown = taken /\ Bus!Accepts(modbus, d)) BY <1>3, <1>4
<1> HIDE DEF shown, due
<1>6. m \in ModbusState BY <1>1, <1>5 DEF ModbusState
<1>7. m.job = "over" /\ m.transaction = modbus.transaction /\ m.shown = shown /\ m.window = modbus.window
    BY <1>1 DEF ModbusState
<1> HIDE DEF m
<1>8. Answers(m)
  <2>1. CASE shown = modbus.shown BY <1>7, <2>1 DEF Answers, ModbusInv, ModbusFits
  <2>2. CASE shown = taken /\ Bus!Accepts(modbus, d) BY <1>2, <1>4, <1>7, <2>2 DEF Answers, Bus!Accepts
  <2> QED BY <1>5, <2>1, <2>2
<1>9. Numbered(m) BY <1>7 DEF Numbered
<1> QED BY <1>1, <1>6, <1>8, <1>9 DEF ModbusInv, ModbusFits

\* A job that ends, whatever ended it, and an answer that nobody waits for.
LEMMA ModbusEnds ==
    ASSUME ModbusInv, Bus!Fails \/ Bus!GivesUp \/ Bus!Completed \/ \E d \in modbus.due : Bus!Unheard(d)
    PROVE  ModbusInv'
<1>1. modbus \in ModbusState /\ Numbered(modbus) /\ Answers(modbus) BY DEF ModbusInv, ModbusFits
<1>2. CASE Bus!Fails \/ Bus!GivesUp
  <2> DEFINE m == [modbus EXCEPT !.job = "over"]
  <2>1. modbus' = m BY <1>2 DEF Bus!Fails, Bus!GivesUp
  <2>2. m \in ModbusState /\ m.job = "over" /\ m.transaction = modbus.transaction /\ m.shown = modbus.shown
        /\ m.window = modbus.window BY <1>1 DEF ModbusState
  <2> HIDE DEF m
  <2>3. Numbered(m) /\ Answers(m) BY <1>1, <2>2 DEF Numbered, Answers
  <2> QED BY <2>1, <2>2, <2>3 DEF ModbusInv, ModbusFits
<1>3. CASE Bus!Completed
  <2> DEFINE m == [modbus EXCEPT !.job = "none", !.request = Bus!None]
  <2>1. modbus' = m BY <1>3 DEF Bus!Completed
  <2>2. m \in ModbusState /\ m.job = "none" /\ m.transaction = modbus.transaction /\ m.shown = modbus.shown
        /\ m.window = modbus.window BY <1>1 DEF ModbusState
  <2> HIDE DEF m
  <2>3. Numbered(m) /\ Answers(m) BY <1>1, <2>2 DEF Numbered, Answers
  <2> QED BY <2>1, <2>2, <2>3 DEF ModbusInv, ModbusFits
<1>4. CASE \E d \in modbus.due : Bus!Unheard(d)
  <2>1. PICK d \in modbus.due : modbus.job # "reading" /\ modbus' = [modbus EXCEPT !.due = modbus.due \ {d}]
      BY <1>4 DEF Bus!Unheard
  <2> DEFINE due == modbus.due \ {d}
             m == [modbus EXCEPT !.due = due]
  <2>2. modbus' = m /\ due \subseteq modbus.due BY <2>1
  <2> HIDE DEF due
  <2>3. m \in ModbusState /\ m.job = modbus.job /\ m.transaction = modbus.transaction /\ m.shown = modbus.shown
        /\ m.window = modbus.window /\ m.request = modbus.request /\ m.due = due
      BY <1>1, <2>2 DEF ModbusState
  <2> HIDE DEF m
  <2>4. Numbered(m) /\ Answers(m) BY <1>1, <2>2, <2>3 DEF Numbered, Answers
  <2> QED BY <2>2, <2>3, <2>4 DEF ModbusInv, ModbusFits
<1> QED BY <1>2, <1>3, <1>4

\* Every step keeps what is due under its number.
LEMMA ModbusStep ==
    ASSUME ModbusInv, [Bus!Next]_modbus
    PROVE  ModbusInv'
<1>1. CASE \E window \in {"tcp", "rtu"} : Bus!Open(window) BY <1>1, ModbusClosed DEF Bus!Open, ModbusInv
<1>2. CASE Bus!CloseWindow BY <1>2, ModbusClosed DEF Bus!CloseWindow, ModbusInv
<1>3. CASE Bus!Fails \/ Bus!GivesUp \/ Bus!Completed \/ \E d \in modbus.due : Bus!Unheard(d) BY <1>3, ModbusEnds
<1>4. CASE Bus!Written BY <1>4, ModbusWritten
<1>5. CASE \E r \in Bus!Read \cup Bus!Write : Bus!Run(r) BY <1>5, ModbusRun
<1>6. CASE \E d \in modbus.due, sound \in BOOLEAN : Bus!Answered(d, sound) BY <1>6, ModbusAnswered
<1>7. CASE UNCHANGED modbus BY <1>7 DEF ModbusInv
<1> QED BY <1>1, <1>2, <1>3, <1>4, <1>5, <1>6, <1>7 DEF Bus!Next

\* There is no window at the beginning.
LEMMA ModbusStart ==
    ASSUME Bus!Init
    PROVE  ModbusInv BY ModbusClosed DEF Bus!Init, ModbusInv

\* What is shown was asked.
LEMMA ModbusGood ==
    ASSUME ModbusInv
    PROVE  Bus!ShownIsAsked BY DEF ModbusInv, ModbusFits, Answers, Bus!ShownIsAsked

\* For any addresses, units and transactions: what the window shows is the answer to the
\* request it shows it for, though answers come late or twice (modbus_ui.c: completed).
THEOREM ModbusShowsAnswers == Bus!Spec => []Bus!ShownIsAsked
<1>1. Bus!Init => ModbusInv BY ModbusStart
<1>2. ModbusInv /\ [Bus!Next]_modbus => ModbusInv' BY ModbusStep
<1>3. ModbusInv => Bus!ShownIsAsked BY ModbusGood
<1> QED BY <1>1, <1>2, <1>3, PTL DEF Bus!Spec

-----------------------------------------------------------------------------
(* The CAN bus and the files of its signals *)

\* The socket is watched as long as it is open, and then it has its owner.
BusState == [refs : 0..2, source : BOOLEAN, closed : BOOLEAN, fd : BOOLEAN]
BusFits(owned, bus) ==
    /\ owned \in BOOLEAN /\ bus \in BusState
    /\ bus.refs = Held(owned) + Held(bus.source)
    /\ bus.fd = ~bus.closed /\ bus.source = bus.fd
    /\ bus.source => owned
CanShape(c) == c = [window |-> c.window, bus |-> c.bus, owned |-> c.owned, dbc |-> c.dbc, dialog |-> c.dialog,
                    frame |-> c.frame, shown |-> c.shown, sent |-> c.sent]
CanFits(c) == CanShape(c) /\ BusFits(c.owned, c.bus) /\ (c.dbc.valid \/ c.dbc = NoDbc)
CanInv == CanFits(can)

\* The bus that was left has no reference.
LEMMA CanNoBus ==
    ASSUME NEW owned \in BOOLEAN, ~owned
    PROVE  BusFits(owned, NoBus)
<1> DEFINE bus == [refs |-> 0, source |-> FALSE, closed |-> TRUE, fd |-> FALSE]
<1>1. bus \in BusState /\ bus.refs = 0 /\ bus.source = FALSE /\ bus.closed = TRUE /\ bus.fd = FALSE
    BY DEF BusState
<1>2. bus = NoBus BY DEF NoBus
<1> HIDE DEF bus
<1>4. Held(owned) = 0 /\ Held(bus.source) = 0 BY <1>1 DEF Held
<1>5. bus.refs = 0 BY <1>1
<1>3. bus.refs = Held(owned) + Held(bus.source) BY <1>4, <1>5
<1> QED BY <1>1, <1>2, <1>3 DEF BusFits

\* A new bus is held by its owner and its source.
LEMMA CanNewBus ==
    ASSUME NEW owned \in BOOLEAN, owned
    PROVE  BusFits(owned, [refs |-> 2, source |-> TRUE, closed |-> FALSE, fd |-> TRUE])
<1> DEFINE new == [refs |-> 2, source |-> TRUE, closed |-> FALSE, fd |-> TRUE]
<1>1. new \in BusState /\ new.refs = 2 /\ new.source = TRUE /\ new.closed = FALSE /\ new.fd = TRUE
    BY DEF BusState
<1> HIDE DEF new
<1> DEFINE a == Held(owned)
           b == Held(new.source)
<1>2. a = 1 /\ b = 1 BY <1>1 DEF Held
<1>3. new.refs = 2 BY <1>1
<1> HIDE DEF a, b
<1>4. new.refs = a + b BY <1>2, <1>3
<1>5. BusFits(owned, new) BY <1>1, <1>4 DEF BusFits, a, b
<1> QED BY <1>5 DEF new

\* Whoever frees a socket, and however it ended, nothing of it is left.
LEMMA CanFree ==
    ASSUME NEW owned, NEW bus, BusFits(owned, bus)
    PROVE  FreeBus(bus) = NoBus
<1> DEFINE off == [bus EXCEPT !.source = FALSE]
           unwatched == IF bus.source THEN Unref(off) ELSE bus
           closed == [unwatched EXCEPT !.closed = TRUE, !.fd = FALSE]
<1>1. FreeBus(bus) = IF bus = NoBus THEN bus ELSE Unref(closed) BY DEF FreeBus
<1>2. bus \in BusState /\ bus.refs \in 0..2 /\ bus.source \in BOOLEAN /\ owned \in BOOLEAN
    BY DEF BusFits, BusState
<1>3. off.refs = bus.refs BY <1>2 DEF BusState
<1>4. unwatched.refs \in 0..1 /\ unwatched \in BusState
  <2>1. CASE bus.source
    <3>1. bus.refs = 2
      <4>1. owned /\ bus.source BY <1>2, <2>1 DEF BusFits
      <4>2. Held(owned) = 1 /\ Held(bus.source) = 1 BY <4>1 DEF Held
      <4> QED BY <4>2 DEF BusFits
    <3>2. off \in BusState /\ off.refs = 2 BY <1>2, <3>1 DEF BusState
    <3> DEFINE one == [off EXCEPT !.refs = 1]
    <3>3. unwatched = Unref(off) BY <2>1
    <3> HIDE DEF unwatched, off
    <3>4. unwatched = one BY <3>2, <3>3 DEF Unref
    <3>5. one \in BusState /\ one.refs = 1 BY <3>2 DEF BusState
    <3> QED BY <3>4, <3>5
  <2>2. CASE ~bus.source
    <3>1. bus.refs \in 0..1
      <4>1. Held(owned) \in 0..1 /\ Held(bus.source) = 0 BY <2>2 DEF Held
      <4> QED BY <4>1 DEF BusFits
    <3> QED BY <1>2, <2>2, <3>1
  <2> QED BY <2>1, <2>2
<1> HIDE DEF unwatched
<1>5. closed.refs = unwatched.refs BY <1>4 DEF BusState
<1> HIDE DEF closed
<1>6. Unref(closed) = NoBus BY <1>4, <1>5 DEF Unref
<1> QED BY <1>1, <1>6

\* A read that fails leaves the socket to its owner.
LEMMA CanReadFails ==
    ASSUME CanInv, ReadFails
    PROVE  CanInv'
<1> DEFINE ended == [can.bus EXCEPT !.source = FALSE, !.closed = TRUE, !.fd = FALSE]
           bus == Unref(ended)
           c == [can EXCEPT !.bus = bus]
<1>1. can' = c /\ can.bus.source /\ CanShape(can) /\ BusFits(can.owned, can.bus)
    BY DEF ReadFails, Readable, CanInv, CanFits
<1>2. can.bus \in BusState /\ can.owned /\ can.owned \in BOOLEAN BY <1>1 DEF BusFits
<1>3. Held(can.owned) = 1 /\ Held(can.bus.source) = 1 BY <1>1, <1>2 DEF Held
<1>12. can.bus.refs = Held(can.owned) + Held(can.bus.source) BY <1>1 DEF BusFits
<1>9. can.bus.refs = 2 BY <1>3, <1>12
<1>4. ended \in BusState /\ ended.refs = 2 /\ ended.source = FALSE /\ ended.closed = TRUE /\ ended.fd = FALSE
    BY <1>2, <1>9 DEF BusState
<1> HIDE DEF ended
<1>5. bus = [ended EXCEPT !.refs = 1] BY <1>4 DEF Unref
<1>6. bus \in BusState /\ bus.refs = 1 /\ bus.source = FALSE /\ bus.closed = TRUE /\ bus.fd = FALSE
    BY <1>4, <1>5 DEF BusState
<1> HIDE DEF bus
<1>11. Held(bus.source) = 0 BY <1>6 DEF Held
<1>10. bus.refs = Held(can.owned) + Held(bus.source) BY <1>3, <1>6, <1>11
<1>7. BusFits(can.owned, bus) BY <1>2, <1>6, <1>10 DEF BusFits
<1>8. CanShape(c) /\ c.bus = bus /\ c.owned = can.owned /\ c.dbc = can.dbc BY <1>1 DEF CanShape
<1> HIDE DEF c
<1> QED BY <1>1, <1>7, <1>8 DEF CanInv, CanFits

\* Every step keeps the references of the bus.
LEMMA CanStep ==
    ASSUME CanInv, [CanNext]_can
    PROVE  CanInv'
<1>1. CanShape(can) /\ BusFits(can.owned, can.bus) /\ (can.dbc.valid \/ can.dbc = NoDbc) BY DEF CanInv, CanFits
<1>2. BusFits(FALSE, FreeBus(can.bus)) BY <1>1, CanFree, CanNoBus
<1>3. ASSUME CanShape(can'), can'.bus = can.bus, can'.owned = can.owned, can'.dbc = can.dbc
      PROVE  CanInv' BY <1>1, <1>3 DEF CanInv, CanFits
<1>4. CASE ReadFails BY <1>4, CanReadFails
<1>5. CASE DisconnectBus BY <1>1, <1>2, <1>5 DEF DisconnectBus, CanInv, CanFits, CanShape
<1>6. CASE LoadDbc \/ DialogCancelled BY <1>1, <1>3, <1>6 DEF LoadDbc, DialogCancelled, CanShape
<1>7. CASE CloseCanWindow BY <1>1, <1>2, <1>7 DEF CloseCanWindow, CanInv, CanFits, CanShape
<1>8. CASE \E f \in CanFrame : Receive(f) BY <1>1, <1>3, <1>8 DEF Receive, CanShape
<1>9. CASE \E opens \in BOOLEAN : ConnectBus(opens)
  <2>1. PICK opens \in BOOLEAN : ConnectBus(opens) BY <1>9
  <2> DEFINE new == [refs |-> 2, source |-> TRUE, closed |-> FALSE, fd |-> TRUE]
  <2>2. BusFits(TRUE, new) BY CanNewBus
  <2>3. CASE opens = TRUE
    <3> HIDE DEF new
    <3>1. can' = [can EXCEPT !.owned = TRUE, !.bus = new] BY <2>1, <2>3 DEF ConnectBus, new
    <3> QED BY <1>1, <2>2, <3>1 DEF CanInv, CanFits, CanShape
  <2>4. CASE opens = FALSE
    <3>1. can' = [can EXCEPT !.owned = FALSE, !.bus = FreeBus(can.bus)] BY <2>1, <2>4 DEF ConnectBus
    <3> QED BY <1>1, <1>2, <3>1 DEF CanInv, CanFits, CanShape
  <2> QED BY <2>1, <2>3, <2>4
<1>10. CASE \E file \in File : DbcSelected(file)
  <2>1. PICK file \in File : DbcSelected(file) BY <1>10
  <2> DEFINE dbc == Selected(can.dbc, file)
  <2>2. dbc.valid \/ dbc = NoDbc BY <1>1 DEF Selected
  <2>3. can' = IF can.window = "gone" THEN [can EXCEPT !.dialog = FALSE]
               ELSE [can EXCEPT !.dialog = FALSE, !.dbc = dbc, !.frame = NoFrame, !.shown = Nothing]
      BY <2>1 DEF DbcSelected
  <2> HIDE DEF dbc
  <2>4. CASE can.window = "gone" BY <1>1, <1>3, <2>3, <2>4 DEF CanShape
  <2>5. CASE can.window # "gone" BY <1>1, <2>2, <2>3, <2>5 DEF CanInv, CanFits, CanShape
  <2> QED BY <2>4, <2>5
<1>11. ASSUME NEW id \in {"standard", "long"}, NEW extended \in BOOLEAN, NEW fd \in BOOLEAN,
              NEW brs \in BOOLEAN, NEW rtr \in BOOLEAN, NEW length \in Length,
              SendFrame(id, extended, fd, brs, rtr, length)
       PROVE  CanInv' BY <1>1, <1>3, <1>11 DEF SendFrame, CanShape
<1>12. CASE UNCHANGED can BY <1>1, <1>12 DEF CanInv, CanFits
<1> QED BY <1>4, <1>5, <1>6, <1>7, <1>8, <1>9, <1>10, <1>11, <1>12 DEF CanNext

\* There is no bus at the beginning.
LEMMA CanStart ==
    ASSUME CanInit
    PROVE  CanInv
<1>1. can.owned = FALSE /\ can.bus = NoBus /\ can.dbc = NoDbc /\ CanShape(can) BY DEF CanInit, CanShape
<1> QED BY <1>1, CanNoBus DEF CanInv, CanFits

\* The references and the file are as claimed.
LEMMA CanGood ==
    ASSUME CanInv
    PROVE  BusExact /\ DbcValid BY DEF CanInv, CanFits, BusFits, BusExact, DbcValid

\* For any frames and files: the interface has as many references as holders, the socket is
\* closed once and not before it is unwatched (can.c: tio_can_free, readable), and
\* definitions that were refused are not kept (dbc.c: tio_dbc_parse).
THEOREM CanBusExact == CanSpec => [](BusExact /\ DbcValid)
<1>1. CanInit => CanInv BY CanStart
<1>2. CanInv /\ [CanNext]_can => CanInv' BY CanStep
<1>3. CanInv => BusExact /\ DbcValid BY CanGood
<1> QED BY <1>1, <1>2, <1>3, PTL DEF CanSpec

-----------------------------------------------------------------------------
(* The view of the log *)

LogState == [text : Nat, upper : Nat, value : Nat, position : Nat, follow : BOOLEAN, pending : BOOLEAN,
             pointerDown : BOOLEAN, selected : BOOLEAN, focused : BOOLEAN, tick : BOOLEAN, timer : BOOLEAN,
             caret : BOOLEAN, tEnd : BOOLEAN, tFollow : BOOLEAN, tPending : BOOLEAN, tSelected : BOOLEAN,
             active : BOOLEAN, current : BOOLEAN, button : BOOLEAN, news : BOOLEAN]
\* A view that follows has nothing selected and nothing unseen; one that does not is
\* not animated; and it is not beyond its end.
InRange(v) == v.value <= Log!Bottom(v)
Follows(v) == v.follow => ~v.selected /\ ~v.pending
Animates(v) == v.tick => Log!Mapped(v) /\ v.follow
Blinks(v) == ~Log!Mapped(v) => ~v.timer
TerminalFits(v) == v.tFollow => v.tEnd /\ ~v.tSelected
ViewFits(v) == InRange(v) /\ Follows(v) /\ Animates(v) /\ Blinks(v) /\ TerminalFits(v)
CaretFits(v) == v.caret => Log!Mapped(v) /\ v.focused /\ v.follow /\ ~v.pointerDown /\ ~v.selected
ButtonFits(v) == v.button = ~(IF v.active THEN v.follow ELSE v.tFollow)
LogFits(v) == v \in LogState /\ ViewFits(v) /\ CaretFits(v) /\ ButtonFits(v)
LogInv == LogFits(log)

\* Two views that differ in the caret and the button alone.
LogSame(w, v) ==
    /\ w.text = v.text /\ w.upper = v.upper /\ w.value = v.value /\ w.position = v.position
    /\ w.follow = v.follow /\ w.pending = v.pending /\ w.pointerDown = v.pointerDown
    /\ w.selected = v.selected /\ w.focused = v.focused /\ w.tick = v.tick /\ w.timer = v.timer
    /\ w.tEnd = v.tEnd /\ w.tFollow = v.tFollow /\ w.tPending = v.tPending
    /\ w.tSelected = v.tSelected /\ w.active = v.active /\ w.current = v.current

\* The end of a view is a number.
LEMMA LogBottom == ASSUME NEW v \in LogState PROVE Log!Bottom(v) \in Nat /\ v.value \in Nat
<1>1. v.upper \in Nat /\ Page \in Nat /\ v.value \in Nat
    BY ToolboxAssumption DEF Log!LogViewAssumption, LogState
<1> QED BY <1>1 DEF Log!Bottom

\* What the caret and the button change is nothing of the view.
LEMMA LogSameFits ==
    ASSUME NEW v, NEW w, LogSame(w, v)
    PROVE  ViewFits(v) => ViewFits(w)
BY DEF LogSame, ViewFits, InRange, Follows, Animates, Blinks, TerminalFits, Log!Bottom, Log!Mapped

\* The caret is shown only where it may be.
LEMMA LogCaret ==
    ASSUME NEW v \in LogState
    PROVE  LET w == Log!Caret(v)
           IN w \in LogState /\ LogSame(w, v) /\ CaretFits(w) /\ w.button = v.button
<1> DEFINE caret == Log!Mapped(v) /\ v.focused /\ v.follow /\ ~v.pointerDown /\ ~v.selected
           w == [v EXCEPT !.caret = caret]
<1>1. caret \in BOOLEAN BY DEF Log!Mapped
<1>2. caret => Log!Mapped(v) /\ v.focused /\ v.follow /\ ~v.pointerDown /\ ~v.selected OBVIOUS
<1>3. Log!Caret(v) = w BY DEF Log!Caret
<1> HIDE DEF caret
<1>4. w \in LogState BY <1>1 DEF LogState
<1>5. LogSame(w, v) /\ w.button = v.button /\ w.caret = caret BY <1>1 DEF LogSame, LogState
<1> HIDE DEF w
<1>6. CaretFits(w) BY <1>2, <1>5 DEF CaretFits, LogSame, Log!Mapped
<1> QED BY <1>3, <1>4, <1>5, <1>6

\* The button says whether the view follows.
LEMMA LogButton ==
    ASSUME NEW v \in LogState, ViewFits(v)
    PROVE  LogFits(Log!Button(v)) /\ LogSame(Log!Button(v), v)
<1> DEFINE c == Log!Caret(v)
           button == ~(IF v.active THEN v.follow ELSE v.tFollow)
           news == IF v.active THEN v.pending ELSE v.tPending
           w == [c EXCEPT !.button = button, !.news = news]
<1>1. button \in BOOLEAN /\ news \in BOOLEAN BY DEF LogState
<1>2. Log!Button(v) = w BY DEF Log!Button
<1>3. c \in LogState /\ LogSame(c, v) /\ CaretFits(c) BY LogCaret
<1> HIDE DEF c
<1>4. button = ~(IF v.active THEN v.follow ELSE v.tFollow) OBVIOUS
<1> HIDE DEF button, news
<1>11. w \in LogState BY <1>1, <1>3 DEF LogState
<1>5. w \in LogState /\ w.button = button /\ w.caret = c.caret BY <1>3, <1>11 DEF LogState
<1>6. LogSame(w, c) BY <1>1, <1>3 DEF LogState, LogSame
<1> HIDE DEF w
<1>7. LogSame(w, v) BY <1>3, <1>6 DEF LogSame
<1>8. ViewFits(w) BY <1>7, LogSameFits
<1>9. ButtonFits(w) BY <1>4, <1>5, <1>7 DEF ButtonFits, LogSame
<1>10. CaretFits(w) BY <1>3, <1>5, <1>6 DEF CaretFits, LogSame, Log!Mapped
<1> QED BY <1>2, <1>5, <1>7, <1>8, <1>9, <1>10 DEF LogFits

\* Stopping the animation disturbs nothing.
LEMMA LogStop ==
    ASSUME NEW v \in LogState
    PROVE  LET w == Log!Stop(v)
           IN w \in LogState /\ w = [v EXCEPT !.tick = FALSE, !.position = 0] BY DEF Log!Stop, LogState

\* A view but for its button, and what moving to the end leaves alone.
ShownFits(v) == v \in LogState /\ ViewFits(v) /\ CaretFits(v)
LogKept(w, v) == /\ w.upper = v.upper /\ w.active = v.active /\ w.current = v.current
                 /\ w.tFollow = v.tFollow /\ w.button = v.button

\* A view that follows is moved to its end, or there is an animation that moves it.
LEMMA LogToBottom ==
    ASSUME NEW v, ShownFits(v), v.follow
    PROVE  LET w == Log!ToBottom(v) IN ShownFits(w) /\ w.follow /\ LogKept(w, v)
<1> DEFINE bottom == Log!Bottom(v)
           stopped == [v EXCEPT !.tick = FALSE, !.position = 0]
<1>1. v \in LogState /\ ViewFits(v) /\ bottom \in Nat BY LogBottom DEF ShownFits
<1>2. bottom = Log!Bottom(v) OBVIOUS
<1> HIDE DEF bottom
<1>3. Log!ToBottom(v) \in {[stopped EXCEPT !.value = bottom], v}
          \/ (Log!ToBottom(v) = [v EXCEPT !.tick = TRUE, !.position = v.value] /\ Log!Mapped(v))
    BY <1>1, <1>2 DEF Log!ToBottom, Log!Stop
<1>4. CASE Log!ToBottom(v) = [stopped EXCEPT !.value = bottom]
  <2> DEFINE w == [v EXCEPT !.tick = FALSE, !.position = 0, !.value = bottom]
  <2>1. Log!ToBottom(v) = w BY <1>1, <1>4 DEF LogState
  <2>2. w \in LogState /\ w.tick = FALSE /\ w.value = bottom /\ w.follow = v.follow /\ w.upper = v.upper
        /\ w.pending = v.pending /\ w.selected = v.selected /\ w.timer = v.timer /\ w.active = v.active
        /\ w.current = v.current /\ w.tFollow = v.tFollow /\ w.tEnd = v.tEnd /\ w.tSelected = v.tSelected
        /\ w.caret = v.caret /\ w.button = v.button /\ w.pointerDown = v.pointerDown /\ w.focused = v.focused
      BY <1>1 DEF LogState
  <2> HIDE DEF w
  <2>3. Log!Bottom(w) = bottom BY <1>2, <2>2 DEF Log!Bottom
  <2>4. ViewFits(w)
      BY <1>1, <2>2, <2>3 DEF ViewFits, InRange, Follows, Animates, Blinks, TerminalFits, Log!Mapped
  <2>5. CaretFits(w) /\ LogKept(w, v) BY <2>2 DEF ShownFits, CaretFits, LogKept, Log!Mapped
  <2> QED BY <2>1, <2>2, <2>4, <2>5 DEF ShownFits
<1>5. CASE Log!ToBottom(v) = v BY <1>5 DEF LogKept
<1>6. CASE Log!ToBottom(v) = [v EXCEPT !.tick = TRUE, !.position = v.value] /\ Log!Mapped(v)
  <2> DEFINE w == [v EXCEPT !.tick = TRUE, !.position = v.value]
  <2>1. v.value \in Nat BY <1>1 DEF LogState
  <2>2. w \in LogState /\ w.value = v.value /\ w.follow = v.follow /\ w.upper = v.upper
        /\ w.pending = v.pending /\ w.selected = v.selected /\ w.timer = v.timer /\ w.active = v.active
        /\ w.current = v.current /\ w.tFollow = v.tFollow /\ w.tEnd = v.tEnd /\ w.tSelected = v.tSelected
        /\ w.caret = v.caret /\ w.button = v.button /\ w.pointerDown = v.pointerDown /\ w.focused = v.focused
      BY <1>1, <2>1 DEF LogState
  <2> HIDE DEF w
  <2>3. Log!Bottom(w) = Log!Bottom(v) BY <2>2 DEF Log!Bottom
  <2>4. ViewFits(w)
      BY <1>1, <1>6, <2>2, <2>3 DEF ViewFits, InRange, Follows, Animates, Blinks, TerminalFits, Log!Mapped
  <2>5. CaretFits(w) /\ LogKept(w, v) BY <2>2 DEF ShownFits, CaretFits, LogKept, Log!Mapped
  <2> QED BY <1>6, <2>2, <2>4, <2>5 DEF ShownFits, w
<1> QED BY <1>3, <1>4, <1>5, <1>6

\* A view that follows stays so at its end.
LEMMA LogFitsToBottom ==
    ASSUME NEW v, LogFits(v), v.follow
    PROVE  LET w == Log!ToBottom(v) IN LogFits(w) /\ w.follow /\ w.upper = v.upper
<1> DEFINE w == Log!ToBottom(v)
<1>1. ShownFits(w) /\ w.follow /\ LogKept(w, v) BY LogToBottom DEF LogFits, ShownFits
<1> HIDE DEF w
<1>2. w.follow \in BOOLEAN /\ v.follow \in BOOLEAN BY <1>1 DEF LogFits, ShownFits, LogState
<1>3. ButtonFits(w) BY <1>1, <1>2 DEF LogFits, ButtonFits, LogKept
<1>4. LogFits(w) BY <1>1, <1>3 DEF LogFits, ShownFits
<1> QED BY <1>1, <1>4 DEF LogKept, w

\* A scroll that nobody asked for leaves a view where it is.
LEMMA LogScrolled ==
    ASSUME NEW v, LogFits(v)
    PROVE  LET w == Log!Scrolled(v)
           IN LogFits(w) /\ w.value = v.value /\ w.upper = v.upper /\ w.text = v.text
<1>1. CASE v.follow \/ v.pointerDown BY <1>1 DEF Log!Scrolled
<1>2. CASE ~(v.follow \/ v.pointerDown) /\ Log!AtEnd(v)
  <2> DEFINE u == [v EXCEPT !.follow = TRUE, !.selected = FALSE, !.pending = FALSE]
  <2>1. Log!Scrolled(v) = Log!Button(u) BY <1>2 DEF Log!Scrolled
  <2>2. u \in LogState /\ u.value = v.value /\ u.upper = v.upper /\ u.text = v.text /\ u.tick = v.tick
        /\ u.timer = v.timer /\ u.active = v.active /\ u.current = v.current /\ u.tFollow = v.tFollow
        /\ u.tEnd = v.tEnd /\ u.tSelected = v.tSelected /\ u.follow /\ ~u.selected /\ ~u.pending
      BY DEF LogFits, LogState
  <2> HIDE DEF u
  <2>3. ViewFits(u)
      BY <2>2 DEF LogFits, ViewFits, InRange, Follows, Animates, Blinks, TerminalFits, Log!Mapped, Log!Bottom
  <2> QED BY <2>1, <2>2, <2>3, LogButton DEF LogSame
<1>3. CASE ~(v.follow \/ v.pointerDown) /\ ~Log!AtEnd(v) BY <1>3, LogButton DEF Log!Scrolled, LogFits, LogSame
<1> QED BY <1>1, <1>2, <1>3

\* New text moves only a view that follows.
LEMMA LogContentChanged ==
    ASSUME NEW v, LogFits(v)
    PROVE  LET w == Log!ContentChanged(v)
           IN /\ LogFits(w) /\ w.follow = v.follow /\ w.upper = v.upper
              /\ ~v.follow => w.value = v.value
<1> DEFINE follow == v.follow /\ ~v.selected
           f == [v EXCEPT !.follow = follow]
<1>1. v \in LogState /\ follow = v.follow BY DEF LogFits, LogState, ViewFits, Follows
<1>2. f = v BY <1>1 DEF LogState
<1>3. Log!ContentChanged(v) = Log!Button(IF f.follow THEN Log!ToBottom(f) ELSE f) BY DEF Log!ContentChanged
<1> HIDE DEF f
<1>4. Log!ContentChanged(v) = Log!Button(IF v.follow THEN Log!ToBottom(v) ELSE v) BY <1>2, <1>3
<1>5. CASE v.follow
  <2> DEFINE b == Log!ToBottom(v)
  <2>1. LogFits(b) /\ b.follow /\ b.upper = v.upper BY <1>5, LogFitsToBottom
  <2> HIDE DEF b
  <2>2. LogFits(Log!Button(b)) /\ LogSame(Log!Button(b), b) BY <2>1, LogButton DEF LogFits
  <2>3. Log!ContentChanged(v) = Log!Button(b) BY <1>4, <1>5 DEF b
  <2> HIDE DEF follow
  <2>4. Log!Button(b).follow /\ Log!Button(b).follow \in BOOLEAN /\ v.follow \in BOOLEAN
      BY <1>1, <2>1, <2>2 DEF LogSame, LogFits, LogState
  <2> QED BY <1>5, <2>1, <2>2, <2>3, <2>4 DEF LogSame
<1>6. CASE ~v.follow BY <1>4, <1>6, LogButton DEF LogSame, LogFits
<1> QED BY <1>5, <1>6

\* Whatever pauses a view, it is left as it should be.
PauseFits(v) == v \in LogState /\ InRange(v) /\ Blinks(v) /\ TerminalFits(v)

\* A view that pauses stays where it is.
LEMMA LogPauses ==
    ASSUME NEW v, PauseFits(v)
    PROVE  LET w == Log!Pauses(v)
           IN /\ LogFits(w) /\ ~w.follow /\ w.value = v.value /\ w.upper = v.upper /\ w.text = v.text
              /\ w.selected = v.selected /\ w.pointerDown = v.pointerDown /\ w.tick = FALSE
              /\ w.active = v.active /\ w.current = v.current
<1> DEFINE u == [v EXCEPT !.follow = FALSE, !.tick = FALSE, !.position = 0]
<1>1. v \in LogState BY DEF PauseFits
<1>2. Log!Stop([v EXCEPT !.follow = FALSE]) = u BY <1>1 DEF Log!Stop, LogState
<1>3. Log!Pauses(v) = Log!Button(u) BY <1>2 DEF Log!Pauses
<1>4. u \in LogState BY <1>1 DEF LogState
<1>5. u.value = v.value /\ u.upper = v.upper /\ u.text = v.text /\ u.tick = FALSE
      /\ u.timer = v.timer /\ u.active = v.active /\ u.current = v.current /\ u.tFollow = v.tFollow
      /\ u.tEnd = v.tEnd /\ u.tSelected = v.tSelected /\ ~u.follow /\ u.selected = v.selected
      /\ u.pointerDown = v.pointerDown BY <1>1, <1>4 DEF LogState
<1> HIDE DEF u
<1>6. ViewFits(u)
    BY <1>5 DEF PauseFits, ViewFits, InRange, Follows, Animates, Blinks, TerminalFits, Log!Mapped, Log!Bottom
<1>7. LogFits(Log!Button(u)) /\ LogSame(Log!Button(u), u) BY <1>4, <1>6, LogButton
<1> QED BY <1>3, <1>5, <1>7 DEF LogSame

\* A selection does not move a view.
LEMMA LogSelection ==
    ASSUME NEW v, LogFits(v), NEW b \in BOOLEAN
    PROVE  LET w == Log!Selection(v, b)
           IN LogFits(w) /\ w.value = v.value /\ w.upper = v.upper /\ w.text = v.text
              /\ (~b => ~w.selected)
<1> DEFINE on == [v EXCEPT !.selected = TRUE]
           off == [v EXCEPT !.selected = FALSE]
<1>0. v \in LogState BY DEF LogFits
<1>1. CASE v.selected = b BY <1>1 DEF Log!Selection
<1>2. CASE v.selected # b /\ b
  <2>1. Log!Selection(v, b) = Log!Pauses(on) BY <1>2 DEF Log!Selection
  <2>2. on \in LogState /\ on.value = v.value /\ on.upper = v.upper /\ on.text = v.text
        /\ on.timer = v.timer /\ on.active = v.active /\ on.current = v.current /\ on.tFollow = v.tFollow
        /\ on.tEnd = v.tEnd /\ on.tSelected = v.tSelected BY <1>0 DEF LogState
  <2> HIDE DEF on
  <2>3. PauseFits(on)
      BY <2>2 DEF LogFits, ViewFits, PauseFits, InRange, Blinks, TerminalFits, Log!Mapped, Log!Bottom
  <2> DEFINE w == Log!Pauses(on)
  <2>4. LogFits(w) /\ w.value = on.value /\ w.upper = on.upper /\ w.text = on.text BY <2>3, LogPauses
  <2> HIDE DEF w
  <2>5. LogFits(w) /\ w.value = v.value /\ w.upper = v.upper /\ w.text = v.text BY <2>2, <2>4
  <2>6. Log!Selection(v, b) = w BY <2>1 DEF w
  <2>7. b BY <1>2
  <2> QED BY <2>5, <2>6, <2>7
<1>3. CASE v.selected # b /\ ~b
  <2>1. Log!Selection(v, b) = Log!Scrolled(off) BY <1>3 DEF Log!Selection
  <2>2. off \in LogState BY <1>0 DEF LogState
  <2>3. off.value = v.value /\ off.upper = v.upper /\ off.text = v.text
        /\ off.timer = v.timer /\ off.active = v.active /\ off.current = v.current /\ off.tFollow = v.tFollow
        /\ off.tEnd = v.tEnd /\ off.tSelected = v.tSelected /\ ~off.selected /\ off.follow = v.follow
        /\ off.tick = v.tick /\ off.caret = v.caret /\ off.button = v.button /\ off.pending = v.pending
        /\ off.pointerDown = v.pointerDown /\ off.focused = v.focused BY <1>0, <2>2 DEF LogState
  <2> HIDE DEF off
  <2>4. LogFits(off)
      BY <2>2, <2>3 DEF LogFits, ViewFits, InRange, Follows, Animates, Blinks, TerminalFits, CaretFits,
         ButtonFits, Log!Mapped, Log!Bottom
  <2>5. ~Log!Scrolled(off).selected
    <3>1. CASE off.follow \/ off.pointerDown BY <2>3, <3>1 DEF Log!Scrolled
    <3>2. CASE ~(off.follow \/ off.pointerDown) /\ ~Log!AtEnd(off)
        BY <2>3, <2>4, <3>2, LogButton DEF Log!Scrolled, LogSame, LogFits
    <3>3. CASE ~(off.follow \/ off.pointerDown) /\ Log!AtEnd(off)
      <4> DEFINE u == [off EXCEPT !.follow = TRUE, !.selected = FALSE, !.pending = FALSE]
      <4>1. Log!Scrolled(off) = Log!Button(u) BY <3>3 DEF Log!Scrolled
      <4>2. u \in LogState /\ u.value = off.value /\ u.upper = off.upper /\ u.text = off.text /\ u.tick = off.tick
            /\ u.timer = off.timer /\ u.active = off.active /\ u.current = off.current /\ u.tFollow = off.tFollow
            /\ u.tEnd = off.tEnd /\ u.tSelected = off.tSelected /\ u.follow /\ ~u.selected /\ ~u.pending
          BY <2>2 DEF LogState
      <4> HIDE DEF u
      <4>3. ViewFits(u)
          BY <2>4, <4>2 DEF LogFits, ViewFits, InRange, Follows, Animates, Blinks, TerminalFits, Log!Mapped, Log!Bottom
      <4> QED BY <4>1, <4>2, <4>3, LogButton DEF LogSame
    <3> QED BY <3>1, <3>2, <3>3
  <2> QED BY <2>1, <2>3, <2>4, <2>5, LogScrolled
<1> QED BY <1>0, <1>1, <1>2, <1>3 DEF LogState

\* Two views that differ in the terminal alone, and in the caret and the button.
LogRest(w, v) ==
    /\ w.text = v.text /\ w.upper = v.upper /\ w.value = v.value /\ w.position = v.position
    /\ w.follow = v.follow /\ w.pending = v.pending /\ w.pointerDown = v.pointerDown
    /\ w.selected = v.selected /\ w.focused = v.focused /\ w.tick = v.tick /\ w.timer = v.timer
    /\ w.active = v.active /\ w.current = v.current
\* What a view keeps while the terminal has moved and its handler has not run yet.
RestFits(v) == /\ v \in LogState /\ InRange(v) /\ Follows(v) /\ Animates(v) /\ Blinks(v) /\ CaretFits(v)
               /\ v.tFollow => ~v.tSelected

\* A view that differs in the terminal is as fit, when the terminal is.
LEMMA LogRestFits ==
    ASSUME NEW v, NEW w, LogRest(w, v), RestFits(v)
    PROVE  /\ TerminalFits(w) => ViewFits(w)
           /\ w.caret = v.caret => CaretFits(w)
BY DEF LogRest, RestFits, ViewFits, InRange, Follows, Animates, Blinks, CaretFits, Log!Bottom, Log!Mapped

\* A terminal that loses its selection follows when it is at its end.
LEMMA LogTerminalSelection ==
    ASSUME NEW v, LogFits(v), NEW b \in BOOLEAN
    PROVE  LET w == Log!TerminalSelection(v, b)
           IN LogFits(w) /\ LogRest(w, v) /\ w.tSelected = b /\ w.tEnd = v.tEnd
<1> DEFINE follow == ~b /\ v.tEnd
           u == [v EXCEPT !.tSelected = b, !.tFollow = follow]
<1>1. v \in LogState /\ RestFits(v) BY DEF LogFits, RestFits, ViewFits, TerminalFits
<1>2. CASE v.tSelected = b
  <2>1. Log!TerminalSelection(v, b) = v BY <1>2 DEF Log!TerminalSelection
  <2> QED BY <1>2, <2>1 DEF LogRest
<1>3. CASE v.tSelected # b
  <2>1. Log!TerminalSelection(v, b) = Log!Button(u) BY <1>3 DEF Log!TerminalSelection
  <2>2. follow \in BOOLEAN /\ (follow => ~b /\ v.tEnd) BY <1>1 DEF LogState
  <2> HIDE DEF follow
  <2>3. u \in LogState BY <1>1, <2>2 DEF LogState
  <2>4. LogRest(u, v) /\ u.tSelected = b /\ u.tFollow = follow /\ u.tEnd = v.tEnd
      BY <1>1, <2>2 DEF LogState, LogRest
  <2> HIDE DEF u
  <2>5. TerminalFits(u) BY <2>2, <2>4 DEF TerminalFits
  <2>6. ViewFits(u) BY <1>1, <2>4, <2>5, LogRestFits
  <2> DEFINE w == Log!Button(u)
  <2>7. LogFits(w) /\ LogSame(w, u) BY <2>3, <2>6, LogButton
  <2> HIDE DEF w
  <2>8. LogRest(w, v) /\ w.tSelected = b /\ w.tEnd = v.tEnd BY <2>4, <2>7 DEF LogSame, LogRest
  <2>9. Log!TerminalSelection(v, b) = w BY <2>1 DEF w
  <2> QED BY <2>7, <2>8, <2>9
<1> QED BY <1>2, <1>3

\* A terminal that has moved follows exactly when it is at its end.
LEMMA LogTerminalScrolled ==
    ASSUME NEW v, RestFits(v), ButtonFits(v), NEW end \in BOOLEAN
    PROVE  LET w == Log!TerminalScrolled(v, end) IN LogFits(w) /\ LogRest(w, v) /\ w.tFollow = end
<1> DEFINE moved == [v EXCEPT !.tEnd = end]
           s == IF end THEN Log!TerminalSelection(moved, FALSE) ELSE moved
           pending == s.tPending /\ ~end
           u == [s EXCEPT !.tFollow = end, !.tPending = pending]
<1>1. v \in LogState BY DEF RestFits
<1>2. Log!TerminalScrolled(v, end) = IF s.tFollow = end THEN s ELSE Log!Button(u) BY DEF Log!TerminalScrolled
<1>3. /\ moved \in LogState /\ LogRest(moved, v) /\ moved.caret = v.caret /\ moved.button = v.button
      /\ moved.tEnd = end /\ moved.tFollow = v.tFollow /\ moved.tSelected = v.tSelected
    BY <1>1 DEF LogState, LogRest
<1> HIDE DEF moved
<1>4. CaretFits(moved) /\ ButtonFits(moved) BY <1>3, LogRestFits DEF ButtonFits, LogRest
<1>5. /\ s \in LogState /\ LogRest(s, v) /\ CaretFits(s) /\ ButtonFits(s) /\ s.tEnd = end
      /\ end => ~s.tSelected
  <2>1. CASE end
    <3>1. TerminalFits(moved) BY <1>3, <2>1 DEF TerminalFits, RestFits
    <3>2. LogFits(moved) BY <1>3, <1>4, <3>1, LogRestFits DEF LogFits
    <3> DEFINE t == Log!TerminalSelection(moved, FALSE)
    <3>3. LogFits(t) /\ LogRest(t, moved) /\ t.tSelected = FALSE /\ t.tEnd = moved.tEnd
        BY <3>2, LogTerminalSelection
    <3>4. s = t BY <2>1
    <3> HIDE DEF t, s
    <3> QED BY <1>3, <3>3, <3>4 DEF LogFits, LogRest
  <2>2. CASE ~end
    <3>1. s = moved BY <2>2
    <3> HIDE DEF s
    <3> QED BY <1>3, <1>4, <2>2, <3>1
  <2> QED BY <2>1, <2>2
<1> HIDE DEF s
<1>6. pending \in BOOLEAN BY <1>5 DEF LogState
<1> HIDE DEF pending
<1>7. CASE s.tFollow = end
  <2>1. TerminalFits(s) BY <1>5, <1>7 DEF TerminalFits
  <2>2. ViewFits(s) BY <1>5, <2>1, LogRestFits
  <2> QED BY <1>2, <1>5, <1>7, <2>2 DEF LogFits
<1>8. CASE s.tFollow # end
  <2>1. u \in LogState BY <1>5, <1>6 DEF LogState
  <2>2. LogRest(u, s) /\ u.tSelected = s.tSelected /\ u.tEnd = s.tEnd /\ u.tFollow = end
      BY <1>5, <1>6 DEF LogState, LogRest
  <2>3. Log!TerminalScrolled(v, end) = Log!Button(u) BY <1>2, <1>8
  <2> HIDE DEF u
  <2>4. TerminalFits(u) /\ LogRest(u, v) BY <1>5, <2>2 DEF TerminalFits, LogRest
  <2>5. ViewFits(u) BY <2>4, LogRestFits
  <2> DEFINE w == Log!Button(u)
  <2>6. LogFits(w) /\ LogSame(w, u) BY <2>1, <2>5, LogButton
  <2> HIDE DEF w
  <2>7. LogRest(w, v) /\ w.tFollow = end BY <2>2, <2>4, <2>6 DEF LogSame, LogRest
  <2> QED BY <2>3, <2>6, <2>7 DEF w
<1> QED BY <1>7, <1>8

\* The end of the terminal moves with its output, and it is followed or reported.
LEMMA LogTerminalChanged ==
    ASSUME NEW v, RestFits(v), ButtonFits(v)
    PROVE  LET w == Log!TerminalChanged(v) IN LogFits(w) /\ LogRest(w, v)
<1> DEFINE follow == v.tFollow /\ ~v.tSelected
           f == [v EXCEPT !.tFollow = follow]
           u == [f EXCEPT !.tPending = TRUE]
<1>1. v \in LogState /\ follow = v.tFollow BY DEF RestFits, LogState
<1>2. f = v BY <1>1 DEF LogState
<1>3. Log!TerminalChanged(v) = IF f.tFollow THEN Log!TerminalScrolled(f, TRUE)
                               ELSE IF f.tPending THEN f ELSE Log!Button(u) BY DEF Log!TerminalChanged
<1> HIDE DEF f
<1>4. CASE v.tFollow
  <2>1. Log!TerminalChanged(v) = Log!TerminalScrolled(v, TRUE) BY <1>2, <1>3, <1>4
  <2> QED BY <2>1, LogTerminalScrolled
<1>5. CASE ~v.tFollow
  <2>1. TerminalFits(v) BY <1>5 DEF TerminalFits
  <2>2. LogRest(v, v) BY DEF LogRest
  <2>3. LogFits(v) BY <1>1, <2>1, <2>2, LogRestFits DEF LogFits, RestFits
  <2>4. CASE v.tPending BY <1>2, <1>3, <1>5, <2>2, <2>3, <2>4
  <2>5. CASE ~v.tPending
    <3>1. Log!TerminalChanged(v) = Log!Button(u) BY <1>2, <1>3, <1>5, <2>5
    <3>2. u \in LogState BY <1>1, <1>2 DEF LogState
    <3>3. LogRest(u, v) /\ u.tFollow = v.tFollow BY <1>1, <1>2 DEF LogState, LogRest
    <3> HIDE DEF u
    <3>4. ViewFits(u) BY <1>5, <3>3, LogRestFits DEF TerminalFits
    <3> DEFINE w == Log!Button(u)
    <3>5. LogFits(w) /\ LogSame(w, u) BY <3>2, <3>4, LogButton
    <3> HIDE DEF w
    <3>6. LogRest(w, v) BY <3>3, <3>5 DEF LogSame, LogRest
    <3> QED BY <3>1, <3>5, <3>6 DEF w
  <2> QED BY <2>4, <2>5
<1> QED BY <1>4, <1>5

\* Two views of which one is shown where the other is not.
LogShown(w, v) ==
    /\ w.text = v.text /\ w.upper = v.upper /\ w.value = v.value /\ w.position = v.position
    /\ w.follow = v.follow /\ w.pending = v.pending /\ w.pointerDown = v.pointerDown
    /\ w.selected = v.selected /\ w.focused = v.focused /\ w.tick = v.tick /\ w.timer = v.timer
    /\ w.caret = v.caret /\ w.tFollow = v.tFollow /\ w.tEnd = v.tEnd /\ w.tSelected = v.tSelected
    /\ w.button = v.button
\* A value that changed is the value of a view that follows.
Stays(w, v) == w.value = v.value \/ w.follow

\* A view that is hidden is at rest, and one that is shown again goes on.
LEMMA LogMapping ==
    ASSUME NEW v, LogFits(v), NEW shown \in LogState, LogShown(shown, v)
    PROVE  LET w == Log!Mapping(v, shown)
           IN /\ ShownFits(w) /\ Stays(w, v) /\ w.follow = v.follow /\ w.tFollow = v.tFollow
              /\ w.active = shown.active /\ w.current = shown.current /\ w.button = v.button
<1>1. v \in LogState /\ ViewFits(v) /\ CaretFits(v) BY DEF LogFits
<1>2. CASE Log!Mapped(v) = Log!Mapped(shown)
  <2>1. Log!Mapping(v, shown) = shown BY <1>2 DEF Log!Mapping
  <2>2. ViewFits(shown)
      BY <1>1, <1>2 DEF LogShown, ViewFits, InRange, Follows, Animates, Blinks, TerminalFits, Log!Bottom
  <2>3. CaretFits(shown) BY <1>1, <1>2 DEF LogShown, CaretFits
  <2> QED BY <2>1, <2>2, <2>3 DEF LogShown, ShownFits, Stays
<1>3. CASE Log!Mapped(v) # Log!Mapped(shown) /\ Log!Mapped(shown)
  <2> DEFINE u == [shown EXCEPT !.timer = TRUE]
             m == Log!Caret(u)
  <2>1. Log!Mapping(v, shown) = IF m.follow THEN Log!ToBottom(m) ELSE m BY <1>3 DEF Log!Mapping
  <2>2. ~Log!Mapped(v) BY <1>3 DEF Log!Mapped
  <2>3. ~v.tick BY <1>1, <2>2 DEF ViewFits, Animates
  <2>4. /\ u \in LogState /\ u.value = v.value /\ u.upper = v.upper /\ u.follow = v.follow /\ u.pending = v.pending
        /\ u.selected = v.selected /\ u.tick = v.tick /\ u.active = shown.active /\ u.current = shown.current
        /\ u.tFollow = v.tFollow /\ u.tEnd = v.tEnd /\ u.tSelected = v.tSelected /\ u.button = v.button
      BY DEF LogState, LogShown
  <2> HIDE DEF u
  <2>5. m \in LogState /\ LogSame(m, u) /\ CaretFits(m) /\ m.button = u.button BY <2>4, LogCaret
  <2> HIDE DEF m
  <2>6. Log!Mapped(u) BY <1>3, <2>4 DEF Log!Mapped
  <2>7. ViewFits(u)
      BY <1>1, <2>3, <2>4, <2>6 DEF ViewFits, InRange, Follows, Animates, Blinks, TerminalFits, Log!Bottom
  <2>8. ShownFits(m) BY <2>5, <2>7, LogSameFits DEF ShownFits
  <2>9. m.follow = v.follow /\ m.tFollow = v.tFollow /\ m.active = shown.active /\ m.current = shown.current
        /\ m.button = v.button /\ m.value = v.value BY <2>4, <2>5 DEF LogSame
  <2>10. CASE m.follow
    <3> DEFINE w == Log!ToBottom(m)
    <3>1. ShownFits(w) /\ w.follow /\ LogKept(w, m) BY <2>8, <2>10, LogToBottom
    <3>2. Log!Mapping(v, shown) = w BY <2>1, <2>10
    <3> HIDE DEF w
    <3>3. w.follow \in BOOLEAN /\ m.follow \in BOOLEAN BY <2>5, <3>1 DEF ShownFits, LogState
    <3>4. w.follow = m.follow BY <2>10, <3>1, <3>3
    <3> QED BY <2>9, <3>1, <3>2, <3>4 DEF LogKept, Stays
  <2>11. CASE ~m.follow BY <2>1, <2>8, <2>9, <2>11 DEF Stays
  <2> QED BY <2>10, <2>11
<1>4. CASE Log!Mapped(v) # Log!Mapped(shown) /\ ~Log!Mapped(shown)
  <2> DEFINE w == [shown EXCEPT !.tick = FALSE, !.position = 0, !.timer = FALSE, !.caret = FALSE, !.focused = FALSE]
  <2>1. Log!Mapping(v, shown) = w BY <1>4 DEF Log!Mapping, Log!Stop, LogState
  <2>2. w \in LogState BY DEF LogState
  <2>3. /\ w.value = v.value /\ w.upper = v.upper /\ w.follow = v.follow /\ w.pending = v.pending
        /\ w.selected = v.selected /\ w.tick = FALSE /\ w.active = shown.active /\ w.current = shown.current
        /\ w.tFollow = v.tFollow /\ w.tEnd = v.tEnd /\ w.tSelected = v.tSelected /\ w.button = v.button
        /\ w.caret = FALSE /\ w.timer = FALSE BY DEF LogState, LogShown
  <2> HIDE DEF w
  <2>4. ViewFits(w)
      BY <1>1, <2>3 DEF ViewFits, InRange, Follows, Animates, Blinks, TerminalFits, Log!Bottom, Log!Mapped
  <2>5. ShownFits(w) /\ Stays(w, v) BY <2>2, <2>3, <2>4 DEF CaretFits, ShownFits, Stays
  <2> QED BY <2>1, <2>3, <2>5
<1> QED BY <1>2, <1>3, <1>4

\* A line that is received leaves a paused view where it is.
LEMMA LogReceive ==
    ASSUME NEW v, LogFits(v), NEW lost \in BOOLEAN
    PROVE  LET w == Log!Display(Log!Fed(v, lost)) IN LogFits(w) /\ Stays(w, v)
<1> DEFINE added == IF v.text < MaxText THEN v.text + 1 ELSE v.text
           t == [v EXCEPT !.text = added]
           f == Log!Fed(v, lost)
           d == IF f.follow THEN Log!ToBottom(f) ELSE f
           u == [d EXCEPT !.pending = ~f.follow]
<1>1. v \in LogState /\ v.text \in Nat BY DEF LogFits, LogState
<1>2. added \in Nat BY <1>1
<1>3. f = IF lost /\ v.text = MaxText THEN Log!Selection(t, FALSE) ELSE t BY DEF Log!Fed
<1> HIDE DEF added
<1>4. t \in LogState BY <1>1, <1>2 DEF LogState
<1>5. LogSame([t EXCEPT !.text = v.text], v) /\ t.caret = v.caret /\ t.button = v.button /\ t.value = v.value
      /\ t.upper = v.upper /\ t.follow = v.follow /\ t.pending = v.pending /\ t.selected = v.selected
      /\ t.tick = v.tick /\ t.timer = v.timer /\ t.active = v.active /\ t.current = v.current
      /\ t.tFollow = v.tFollow /\ t.tEnd = v.tEnd /\ t.tSelected = v.tSelected /\ t.focused = v.focused
      /\ t.pointerDown = v.pointerDown BY <1>1, <1>2 DEF LogState, LogSame
<1> HIDE DEF t
<1>6. LogFits(t)
    BY <1>4, <1>5 DEF LogFits, ViewFits, InRange, Follows, Animates, Blinks, TerminalFits, CaretFits,
       ButtonFits, Log!Bottom, Log!Mapped
<1>7. LogFits(f) /\ f.value = v.value
  <2>1. CASE lost /\ v.text = MaxText
    <3> DEFINE s == Log!Selection(t, FALSE)
    <3>1. LogFits(s) /\ s.value = t.value BY <1>6, LogSelection
    <3>2. f = s BY <1>3, <2>1
    <3> HIDE DEF s, f
    <3> QED BY <1>5, <3>1, <3>2
  <2>2. CASE ~(lost /\ v.text = MaxText)
    <3>1. f = t BY <1>3, <2>2
    <3> HIDE DEF f
    <3> QED BY <1>5, <1>6, <3>1
  <2> QED BY <2>1, <2>2
<1>8. Log!Display(f) = Log!Button(u) BY DEF Log!Display
<1> HIDE DEF f
<1>9. LogFits(d) /\ (f.follow => d.follow) /\ (~f.follow => d = f) BY <1>7, LogFitsToBottom
<1>10. Stays(d, v) /\ d.follow \in BOOLEAN /\ f.follow \in BOOLEAN BY <1>7, <1>9 DEF LogFits, LogState, Stays
<1> HIDE DEF d
<1>11. u \in LogState BY <1>9, <1>10 DEF LogFits, LogState
<1>12. u.value = d.value /\ u.upper = d.upper /\ u.follow = d.follow /\ u.pending = ~f.follow
      /\ u.selected = d.selected /\ u.tick = d.tick /\ u.timer = d.timer /\ u.active = d.active
      /\ u.current = d.current /\ u.tFollow = d.tFollow /\ u.tEnd = d.tEnd /\ u.tSelected = d.tSelected
    BY <1>9, <1>10 DEF LogFits, LogState
<1> HIDE DEF u
<1>13. u.follow => f.follow BY <1>9, <1>12
<1>14. ViewFits(u)
    BY <1>9, <1>10, <1>12, <1>13 DEF LogFits, ViewFits, InRange, Follows, Animates, Blinks, TerminalFits,
       Log!Bottom, Log!Mapped
<1> DEFINE w == Log!Button(u)
<1>15. LogFits(w) /\ LogSame(w, u) BY <1>11, <1>14, LogButton
<1> HIDE DEF w
<1>16. Stays(w, v) BY <1>10, <1>12, <1>15 DEF LogSame, Stays
<1> QED BY <1>8, <1>15, <1>16 DEF w, f

\* What layout does to a view: its range is the text, and its value is in it again.
LEMMA LogLayout ==
    ASSUME NEW v, LogFits(v)
    PROVE  LET u == [v EXCEPT !.upper = v.text]
               w == IF Log!AtEnd(u) /\ u.value > Log!Bottom(u)
                    THEN Log!Scrolled(Log!ContentChanged([u EXCEPT !.value = Log!Bottom(u)]))
                    ELSE Log!ContentChanged(u)
           IN /\ LogFits(w)
              /\ Stays(w, v) \/ v.follow \/ (w.value = Log!Bottom(w) /\ w.upper < v.upper)
<1> DEFINE u == [v EXCEPT !.upper = v.text]
           c == [u EXCEPT !.value = Log!Bottom(u)]
<1>1. v \in LogState /\ v.text \in Nat BY DEF LogFits, LogState
<1>2. u \in LogState BY <1>1 DEF LogState
<1>3. /\ u.upper = v.text /\ u.value = v.value /\ u.caret = v.caret /\ u.button = v.button
      /\ u.follow = v.follow /\ u.pending = v.pending /\ u.selected = v.selected
      /\ u.tick = v.tick /\ u.timer = v.timer /\ u.active = v.active /\ u.current = v.current
      /\ u.tFollow = v.tFollow /\ u.tEnd = v.tEnd /\ u.tSelected = v.tSelected /\ u.focused = v.focused
      /\ u.pointerDown = v.pointerDown BY <1>1 DEF LogState
<1>4. Log!Bottom(u) \in Nat /\ u.value \in Nat /\ Log!Bottom(v) \in Nat BY <1>1, <1>2, LogBottom
<1> HIDE DEF u
<1>5. CASE u.value > Log!Bottom(u)
  <2>1. Log!AtEnd(u) BY <1>4, <1>5 DEF Log!AtEnd
  <2>2. c \in LogState BY <1>2, <1>4 DEF LogState
  <2>3. /\ c.upper = u.upper /\ c.value = Log!Bottom(u) /\ c.caret = v.caret /\ c.button = v.button
        /\ c.follow = v.follow /\ c.pending = v.pending /\ c.selected = v.selected
        /\ c.tick = v.tick /\ c.timer = v.timer /\ c.active = v.active /\ c.current = v.current
        /\ c.tFollow = v.tFollow /\ c.tEnd = v.tEnd /\ c.tSelected = v.tSelected /\ c.focused = v.focused
        /\ c.pointerDown = v.pointerDown BY <1>2, <1>3, <1>4 DEF LogState
  <2> DEFINE k == Log!ContentChanged(c)
             w == Log!Scrolled(k)
  <2>4. Log!Bottom(c) = Log!Bottom(u) BY <2>3 DEF Log!Bottom
  <2> HIDE DEF c
  <2>5. LogFits(c)
    <3>1. InRange(c) BY <1>4, <2>3, <2>4 DEF InRange
    <3> QED BY <2>2, <2>3, <3>1 DEF LogFits, ViewFits, Follows, Animates, Blinks, TerminalFits, CaretFits,
           ButtonFits, Log!Mapped
  <2>6. LogFits(k) /\ k.follow = c.follow /\ k.upper = c.upper /\ (~c.follow => k.value = c.value)
      BY <2>5, LogContentChanged
  <2> HIDE DEF k
  <2>7. LogFits(w) /\ w.value = k.value /\ w.upper = k.upper BY <2>6, LogScrolled
  <2> HIDE DEF w
  <2>8. Log!Bottom(w) = Log!Bottom(u) BY <2>3, <2>6, <2>7 DEF Log!Bottom
  <2>9. v.follow \/ w.value = Log!Bottom(w) BY <2>3, <2>6, <2>7, <2>8
  <2>10. w.upper < v.upper
    <3>1. Log!Bottom(u) < Log!Bottom(v) BY <1>3, <1>4, <1>5 DEF LogFits, ViewFits, InRange
    <3>2. u.upper \in Nat /\ v.upper \in Nat /\ Page \in Nat
        BY <1>1, <1>2, ToolboxAssumption DEF LogState, Log!LogViewAssumption
    <3>3. u.upper < v.upper BY <3>1, <3>2 DEF Log!Bottom
    <3> QED BY <2>3, <2>6, <2>7, <3>3
  <2> QED BY <1>5, <2>1, <2>7, <2>9, <2>10 DEF w, k, c, u
<1>6. CASE ~(u.value > Log!Bottom(u))
  <2>1. InRange(u) BY <1>4, <1>6 DEF InRange
  <2>2. LogFits(u)
      BY <1>2, <1>3, <2>1 DEF LogFits, ViewFits, Follows, Animates, Blinks, TerminalFits, CaretFits,
         ButtonFits, Log!Mapped
  <2> DEFINE k == Log!ContentChanged(u)
  <2>3. LogFits(k) /\ k.follow = u.follow /\ (~u.follow => k.value = u.value) BY <2>2, LogContentChanged
  <2> HIDE DEF k
  <2>4. Stays(k, v) \/ v.follow BY <1>3, <2>3 DEF Stays
  <2> QED BY <1>6, <2>3, <2>4 DEF k, u
<1> QED BY <1>5, <1>6

\* A frame moves a view that follows, or ends the animation.
LEMMA LogFrame ==
    ASSUME LogInv, Log!Frame
    PROVE  LogFits(log') /\ Stays(log', log)
<1>1. log \in LogState /\ LogFits(log) /\ Log!Bottom(log) \in Nat BY LogBottom DEF LogFits, LogInv
<1>2. CASE Log!Still(log)
  <2> DEFINE w == Log!Stop(log)
  <2>1. w \in LogState /\ w = [log EXCEPT !.tick = FALSE, !.position = 0] BY <1>1, LogStop
  <2>2. log' = w BY <1>2 DEF Log!Frame
  <2>3. /\ w.upper = log.upper /\ w.value = log.value /\ w.caret = log.caret /\ w.button = log.button
        /\ w.follow = log.follow /\ w.pending = log.pending /\ w.selected = log.selected
        /\ w.tick = FALSE /\ w.timer = log.timer /\ w.active = log.active /\ w.current = log.current
        /\ w.tFollow = log.tFollow /\ w.tEnd = log.tEnd /\ w.tSelected = log.tSelected
        /\ w.focused = log.focused /\ w.pointerDown = log.pointerDown BY <1>1, <2>1 DEF LogState
  <2> HIDE DEF w
  <2>4. LogFits(w)
      BY <1>1, <2>1, <2>3 DEF LogFits, ViewFits, InRange, Follows, Animates, Blinks, TerminalFits, CaretFits,
         ButtonFits, Log!Bottom, Log!Mapped
  <2> QED BY <2>2, <2>3, <2>4 DEF Stays
<1>3. CASE ~Log!Still(log)
  <2>1. log.follow BY <1>3 DEF Log!Still
  <2>2. PICK next \in Log!NextPositions(log) :
               log' = IF Log!Arrived(log, next) THEN Log!Stop([log EXCEPT !.value = next, !.position = next])
                      ELSE [log EXCEPT !.value = next, !.position = next] BY <1>3 DEF Log!Frame
  <2>3. next \in Nat /\ next <= Log!Bottom(log)
    <3>1. log.position \in Nat /\ Page \in Nat BY <1>1, ToolboxAssumption DEF LogState, Log!LogViewAssumption
    <3> DEFINE from == IF Log!Bottom(log) > log.position + Page THEN Log!Bottom(log) - Page ELSE log.position
    <3>2. from \in Nat BY <1>1, <3>1
    <3>3. next \in IF from >= Log!Bottom(log) THEN {Log!Bottom(log)} ELSE (from + 1)..Log!Bottom(log)
        BY DEF Log!NextPositions
    <3> HIDE DEF from
    <3> QED BY <1>1, <3>2, <3>3
  <2> DEFINE v == [log EXCEPT !.value = next, !.position = next]
  <2>4. v \in LogState BY <1>1, <2>3 DEF LogState
  <2>5. /\ v.upper = log.upper /\ v.value = next /\ v.caret = log.caret /\ v.button = log.button
        /\ v.follow = log.follow /\ v.pending = log.pending /\ v.selected = log.selected
        /\ v.tick = log.tick /\ v.timer = log.timer /\ v.active = log.active /\ v.current = log.current
        /\ v.tFollow = log.tFollow /\ v.tEnd = log.tEnd /\ v.tSelected = log.tSelected
        /\ v.focused = log.focused /\ v.pointerDown = log.pointerDown BY <1>1, <2>3 DEF LogState
  <2>6. log' = IF Log!Arrived(log, next) THEN Log!Stop(v) ELSE v BY <2>2
  <2> HIDE DEF v
  <2>7. LogFits(v)
    <3>1. InRange(v) BY <2>3, <2>5 DEF InRange, Log!Bottom
    <3> QED BY <1>1, <2>4, <2>5, <3>1 DEF LogFits, ViewFits, Follows, Animates, Blinks, TerminalFits, CaretFits,
           ButtonFits, Log!Mapped
  <2>8. CASE Log!Arrived(log, next)
    <3> DEFINE w == Log!Stop(v)
    <3>1. w \in LogState /\ w = [v EXCEPT !.tick = FALSE, !.position = 0] BY <2>4, LogStop
    <3>2. log' = w BY <2>6, <2>8
    <3>3. /\ w.upper = v.upper /\ w.value = v.value /\ w.caret = v.caret /\ w.button = v.button
          /\ w.follow = v.follow /\ w.pending = v.pending /\ w.selected = v.selected
          /\ w.tick = FALSE /\ w.timer = v.timer /\ w.active = v.active /\ w.current = v.current
          /\ w.tFollow = v.tFollow /\ w.tEnd = v.tEnd /\ w.tSelected = v.tSelected
          /\ w.focused = v.focused /\ w.pointerDown = v.pointerDown BY <2>4, <3>1 DEF LogState
    <3> HIDE DEF w
    <3>4. LogFits(w)
        BY <2>7, <3>1, <3>3 DEF LogFits, ViewFits, InRange, Follows, Animates, Blinks, TerminalFits, CaretFits,
           ButtonFits, Log!Bottom, Log!Mapped
    <3>5. w.follow BY <2>1, <2>5, <3>3
    <3> QED BY <3>2, <3>4, <3>5 DEF Stays
  <2>9. CASE ~Log!Arrived(log, next)
    <3>1. log' = v BY <2>6, <2>9
    <3>2. v.follow BY <2>1, <2>5
    <3> QED BY <2>7, <3>1, <3>2 DEF Stays
  <2> QED BY <2>8, <2>9
<1> QED BY <1>2, <1>3

\* A value within the range that the user or a search sets.
LEMMA LogMoved ==
    ASSUME NEW v, LogFits(v), NEW y \in Nat, y <= Log!Bottom(v)
    PROVE  LogFits(Log!Scrolled([v EXCEPT !.value = y]))
<1> DEFINE u == [v EXCEPT !.value = y]
<1>1. v \in LogState BY DEF LogFits
<1>2. u \in LogState BY <1>1 DEF LogState
<1>3. /\ u.upper = v.upper /\ u.value = y /\ u.caret = v.caret /\ u.button = v.button
      /\ u.follow = v.follow /\ u.pending = v.pending /\ u.selected = v.selected
      /\ u.tick = v.tick /\ u.timer = v.timer /\ u.active = v.active /\ u.current = v.current
      /\ u.tFollow = v.tFollow /\ u.tEnd = v.tEnd /\ u.tSelected = v.tSelected
      /\ u.focused = v.focused /\ u.pointerDown = v.pointerDown BY <1>1 DEF LogState
<1> HIDE DEF u
<1>4. LogFits(u)
  <2>1. InRange(u) BY <1>3 DEF InRange, Log!Bottom
  <2> QED BY <1>2, <1>3, <2>1 DEF LogFits, ViewFits, Follows, Animates, Blinks, TerminalFits, CaretFits,
         ButtonFits, Log!Mapped
<1>5. LogFits(Log!Scrolled(u)) BY <1>4, LogScrolled
<1> QED BY <1>5 DEF u

\* What fits may be paused.
LEMMA LogPauseFits ==
    ASSUME NEW v, LogFits(v)
    PROVE  PauseFits(v) BY DEF LogFits, ViewFits, PauseFits

\* The wheel, the bar and a search move a view within its range.
LEMMA LogWheel ==
    ASSUME LogInv, NEW y \in Log!Line, Log!WheelUp(y) \/ Log!UserScroll(y) \/ Log!Search(y)
    PROVE  LogFits(log')
<1>1. /\ log \in LogState /\ LogFits(log) /\ Log!Bottom(log) \in Nat /\ log.value \in Nat /\ y \in Nat
      /\ log.value <= Log!Bottom(log)
    BY LogBottom, ToolboxAssumption DEF LogFits, LogInv, Log!Line, Log!LogViewAssumption, ViewFits, InRange
<1> DEFINE p == Log!Pauses(log)
<1>2. LogFits(p) /\ p.value = log.value /\ p.upper = log.upper BY <1>1, LogPauses, LogPauseFits
<1>3. Log!Bottom(p) = Log!Bottom(log) BY <1>2 DEF Log!Bottom
<1>4. CASE Log!WheelUp(y)
  <2>1. y <= Log!Bottom(log) /\ log' = IF y = log.value THEN p ELSE Log!Scrolled([p EXCEPT !.value = y])
      BY <1>1, <1>4 DEF Log!WheelUp
  <2> HIDE DEF p
  <2>2. LogFits(Log!Scrolled([p EXCEPT !.value = y])) BY <1>1, <1>2, <1>3, <2>1, LogMoved
  <2> QED BY <1>2, <2>1, <2>2
<1>5. CASE Log!UserScroll(y) BY <1>1, <1>5, LogMoved DEF Log!UserScroll
<1>6. CASE Log!Search(y)
  <2> DEFINE s == Log!Selection(p, TRUE)
  <2>1. \/ log' = p
        \/ y <= Log!Bottom(log) /\ log' = IF y = s.value THEN s ELSE Log!Scrolled([s EXCEPT !.value = y])
      BY <1>6 DEF Log!Search
  <2> HIDE DEF p
  <2>2. LogFits(s) /\ s.value = p.value /\ s.upper = p.upper BY <1>2, LogSelection
  <2> HIDE DEF s
  <2>3. Log!Bottom(s) = Log!Bottom(log) BY <1>2, <2>2 DEF Log!Bottom
  <2>4. CASE log' = p BY <1>2, <2>4
  <2>5. CASE y <= Log!Bottom(log) /\ log' = IF y = s.value THEN s ELSE Log!Scrolled([s EXCEPT !.value = y])
    <3>1. LogFits(Log!Scrolled([s EXCEPT !.value = y])) BY <1>1, <2>2, <2>3, <2>5, LogMoved
    <3> QED BY <2>2, <2>5, <3>1
  <2> QED BY <2>1, <2>4, <2>5
<1> QED BY <1>4, <1>5, <1>6

\* The pointer holds a view still, and lets it go on.
LEMMA LogPointer ==
    ASSUME LogInv, Log!Press \/ Log!Release
    PROVE  LogFits(log') /\ log'.value = log.value
<1>1. log \in LogState /\ LogFits(log) BY DEF LogFits, LogInv
<1>2. CASE Log!Press
  <2> DEFINE u == [log EXCEPT !.pointerDown = TRUE]
             w == Log!Pauses(u)
  <2>1. log' = w BY <1>2 DEF Log!Press
  <2>2. u \in LogState /\ u.value = log.value /\ u.upper = log.upper /\ u.timer = log.timer
        /\ u.active = log.active /\ u.current = log.current /\ u.tFollow = log.tFollow
        /\ u.tEnd = log.tEnd /\ u.tSelected = log.tSelected BY <1>1 DEF LogState
  <2> HIDE DEF u
  <2>3. PauseFits(u)
      BY <1>1, <2>2 DEF LogFits, ViewFits, PauseFits, InRange, Blinks, TerminalFits, Log!Mapped, Log!Bottom
  <2>4. LogFits(w) /\ w.value = u.value BY <2>3, LogPauses
  <2> HIDE DEF w
  <2> QED BY <2>1, <2>2, <2>4
<1>3. CASE Log!Release
  <2> DEFINE v == [log EXCEPT !.pointerDown = FALSE]
             w == Log!Scrolled(v)
  <2>1. log' = IF v.selected THEN v ELSE w BY <1>3 DEF Log!Release
  <2>2. v \in LogState BY <1>1 DEF LogState
  <2>3. /\ v.upper = log.upper /\ v.value = log.value /\ v.caret = log.caret /\ v.button = log.button
        /\ v.follow = log.follow /\ v.pending = log.pending /\ v.selected = log.selected
        /\ v.tick = log.tick /\ v.timer = log.timer /\ v.active = log.active /\ v.current = log.current
        /\ v.tFollow = log.tFollow /\ v.tEnd = log.tEnd /\ v.tSelected = log.tSelected
        /\ v.focused = log.focused /\ v.pointerDown = FALSE BY <1>1 DEF LogState
  <2> HIDE DEF v
  <2>4. LogFits(v)
      BY <1>1, <2>2, <2>3 DEF LogFits, ViewFits, InRange, Follows, Animates, Blinks, TerminalFits, CaretFits,
         ButtonFits, Log!Bottom, Log!Mapped
  <2>5. LogFits(w) /\ w.value = v.value BY <2>4, LogScrolled
  <2> HIDE DEF w
  <2> QED BY <2>1, <2>3, <2>4, <2>5
<1> QED BY <1>2, <1>3

\* The focus and the blinking move the caret alone.
LEMMA LogFocus ==
    ASSUME LogInv, NEW b \in BOOLEAN, Log!Focus(b) \/ Log!Blink
    PROVE  LogFits(log') /\ log'.value = log.value
<1> DEFINE u == IF Log!Focus(b) THEN [log EXCEPT !.focused = b] ELSE log
           w == Log!Caret(u)
<1>1. log \in LogState /\ LogFits(log) BY DEF LogFits, LogInv
<1>2. log' = w BY DEF Log!Focus, Log!Blink
<1>3. u \in LogState BY <1>1 DEF LogState
<1>4. /\ u.upper = log.upper /\ u.value = log.value /\ u.button = log.button
      /\ u.follow = log.follow /\ u.pending = log.pending /\ u.selected = log.selected
      /\ u.tick = log.tick /\ u.timer = log.timer /\ u.active = log.active /\ u.current = log.current
      /\ u.tFollow = log.tFollow /\ u.tEnd = log.tEnd /\ u.tSelected = log.tSelected BY <1>1 DEF LogState
<1> HIDE DEF u
<1>5. ViewFits(u)
    BY <1>1, <1>4 DEF LogFits, ViewFits, InRange, Follows, Animates, Blinks, TerminalFits, Log!Bottom, Log!Mapped
<1>6. w \in LogState /\ LogSame(w, u) /\ CaretFits(w) /\ w.button = u.button BY <1>3, LogCaret
<1> HIDE DEF w
<1>7. ViewFits(w) BY <1>5, <1>6, LogSameFits
<1>8. ButtonFits(w) /\ w.value = log.value BY <1>1, <1>4, <1>6 DEF LogFits, ButtonFits, LogSame
<1> QED BY <1>2, <1>6, <1>7, <1>8 DEF LogFits

\* The button brings the view that is shown back to its end.
LEMMA LogResume ==
    ASSUME LogInv, Log!Resume
    PROVE  LogFits(log') /\ Stays(log', log)
<1>1. log \in LogState /\ LogFits(log) BY DEF LogFits, LogInv
<1>2. CASE log.active
  <2> DEFINE v == Log!Selection(log, FALSE)
             u == [v EXCEPT !.follow = TRUE, !.pending = FALSE]
             d == Log!ToBottom(u)
             w == Log!Button(d)
  <2>1. log' = w BY <1>2 DEF Log!Resume
  <2>2. LogFits(v) /\ ~v.selected BY <1>1, LogSelection
  <2> HIDE DEF v
  <2>3. u \in LogState BY <2>2 DEF LogFits, LogState
  <2>4. /\ u.upper = v.upper /\ u.value = v.value /\ u.caret = v.caret
        /\ u.follow = TRUE /\ u.pending = FALSE /\ u.selected = v.selected
        /\ u.tick = v.tick /\ u.timer = v.timer /\ u.active = v.active /\ u.current = v.current
        /\ u.tFollow = v.tFollow /\ u.tEnd = v.tEnd /\ u.tSelected = v.tSelected
        /\ u.focused = v.focused /\ u.pointerDown = v.pointerDown BY <2>2 DEF LogFits, LogState
  <2> HIDE DEF u
  <2>5. ShownFits(u) /\ u.follow
      BY <2>2, <2>3, <2>4 DEF LogFits, ShownFits, ViewFits, InRange, Follows, Animates, Blinks, TerminalFits,
         CaretFits, Log!Bottom, Log!Mapped
  <2>6. ShownFits(d) /\ d.follow BY <2>5, LogToBottom
  <2> HIDE DEF d
  <2>7. LogFits(w) /\ LogSame(w, d) BY <2>6, LogButton DEF ShownFits
  <2> HIDE DEF w
  <2>8. w.follow BY <2>6, <2>7 DEF LogSame
  <2> QED BY <2>1, <2>7, <2>8 DEF Stays
<1>3. CASE ~log.active
  <2> DEFINE s == Log!TerminalSelection(log, FALSE)
             v == Log!TerminalScrolled(s, TRUE)
             u == [v EXCEPT !.tFollow = TRUE, !.tPending = FALSE]
             w == Log!Button(u)
  <2>1. log' = w BY <1>3 DEF Log!Resume
  <2>2. LogFits(s) /\ LogRest(s, log) BY <1>1, LogTerminalSelection
  <2> HIDE DEF s
  <2>3. RestFits(s) /\ ButtonFits(s) BY <2>2 DEF LogFits, ViewFits, RestFits, TerminalFits
  <2>4. LogFits(v) /\ LogRest(v, s) /\ v.tFollow = TRUE BY <2>3, LogTerminalScrolled
  <2> HIDE DEF v
  <2>5. u \in LogState /\ LogRest(u, v) /\ u.tFollow = v.tFollow /\ u.tEnd = v.tEnd /\ u.tSelected = v.tSelected
    <3>1. v \in LogState BY <2>4 DEF LogFits
    <3> DEFINE yes == TRUE
               no == FALSE
               y == [[v EXCEPT !.tFollow = yes] EXCEPT !.tPending = no]
    <3>2. u = y /\ v.tFollow = yes /\ yes \in BOOLEAN /\ no \in BOOLEAN BY <2>4
    <3> HIDE DEF u, yes, no
    <3>3. y \in LogState BY <3>1, <3>2 DEF LogState
    <3>4. LogRest(y, v) /\ y.tFollow = yes /\ y.tEnd = v.tEnd /\ y.tSelected = v.tSelected
        BY <3>1 DEF LogState, LogRest
    <3> HIDE DEF y
    <3> QED BY <3>2, <3>3, <3>4
  <2> HIDE DEF u
  <2>6. TerminalFits(u) /\ RestFits(v) BY <2>4, <2>5 DEF LogFits, ViewFits, TerminalFits, RestFits
  <2>7. ViewFits(u) BY <2>5, <2>6, LogRestFits
  <2>8. LogFits(w) /\ LogSame(w, u) BY <2>5, <2>7, LogButton
  <2> HIDE DEF w
  <2>9. w.value = log.value BY <2>2, <2>4, <2>5, <2>8 DEF LogSame, LogRest
  <2> QED BY <2>1, <2>8, <2>9 DEF Stays
<1> QED BY <1>2, <1>3

\* Clearing leaves both views at the end of what is left.
LEMMA LogClear ==
    ASSUME LogInv, Log!Clear
    PROVE  LogFits(log') /\ log'.value = log.value
<1> DEFINE s == Log!TerminalSelection(log, FALSE)
           v == Log!TerminalScrolled(s, TRUE)
           u == [v EXCEPT !.tick = FALSE, !.position = 0, !.text = 0]
           w == Log!Selection(u, FALSE)
<1>1. log \in LogState /\ LogFits(log) BY DEF LogFits, LogInv
<1>2. LogFits(s) /\ LogRest(s, log) BY <1>1, LogTerminalSelection
<1>3. log' = Log!Selection([Log!Stop(v) EXCEPT !.text = 0], FALSE) BY DEF Log!Clear
<1> HIDE DEF s
<1>4. RestFits(s) /\ ButtonFits(s) BY <1>2 DEF LogFits, ViewFits, RestFits, TerminalFits
<1>5. LogFits(v) /\ LogRest(v, s) BY <1>4, LogTerminalScrolled
<1> HIDE DEF v
<1>6. log' = w BY <1>3, <1>5 DEF Log!Stop, LogFits, LogState
<1>7. u \in LogState BY <1>5 DEF LogFits, LogState
<1>8. /\ u.upper = v.upper /\ u.value = v.value /\ u.caret = v.caret /\ u.button = v.button
      /\ u.follow = v.follow /\ u.pending = v.pending /\ u.selected = v.selected
      /\ u.tick = FALSE /\ u.timer = v.timer /\ u.active = v.active /\ u.current = v.current
      /\ u.tFollow = v.tFollow /\ u.tEnd = v.tEnd /\ u.tSelected = v.tSelected
      /\ u.focused = v.focused /\ u.pointerDown = v.pointerDown BY <1>5 DEF LogFits, LogState
<1> HIDE DEF u
<1>9. LogFits(u)
    BY <1>5, <1>7, <1>8 DEF LogFits, ViewFits, InRange, Follows, Animates, Blinks, TerminalFits, CaretFits,
       ButtonFits, Log!Bottom, Log!Mapped
<1>10. LogFits(w) /\ w.value = u.value BY <1>9, LogSelection
<1> HIDE DEF w
<1>11. w.value = log.value BY <1>2, <1>5, <1>8, <1>10 DEF LogRest
<1> QED BY <1>6, <1>10, <1>11

\* The views change places, or the tab is left and shown again.
LEMMA LogShows ==
    ASSUME LogInv, Log!Toggle \/ Log!Switch
    PROVE  LogFits(log') /\ Stays(log', log)
<1>1. log \in LogState /\ LogFits(log) BY DEF LogFits, LogInv
<1>2. CASE Log!Toggle
  <2> DEFINE shown == [log EXCEPT !.active = ~log.active]
             m == Log!Mapping(log, shown)
             w == Log!Button(m)
  <2>1. log' = w BY <1>2 DEF Log!Toggle
  <2>2. (~log.active) \in BOOLEAN OBVIOUS
  <2>3. shown \in LogState /\ LogShown(shown, log) BY <1>1, <2>2 DEF LogState, LogShown
  <2> HIDE DEF shown
  <2>4. ShownFits(m) /\ Stays(m, log) BY <1>1, <2>3, LogMapping
  <2> HIDE DEF m
  <2>5. LogFits(w) /\ LogSame(w, m) BY <2>4, LogButton DEF ShownFits
  <2> HIDE DEF w
  <2>6. Stays(w, log) BY <2>4, <2>5 DEF LogSame, Stays
  <2> QED BY <2>1, <2>5, <2>6
<1>3. CASE Log!Switch
  <2> DEFINE shown == [log EXCEPT !.current = ~log.current]
             w == Log!Mapping(log, shown)
  <2>1. log' = w BY <1>3 DEF Log!Switch
  <2>2. (~log.current) \in BOOLEAN OBVIOUS
  <2>3. shown \in LogState /\ LogShown(shown, log) /\ shown.active = log.active
      BY <1>1, <2>2 DEF LogState, LogShown
  <2> HIDE DEF shown
  <2>4. /\ ShownFits(w) /\ Stays(w, log) /\ w.follow = log.follow /\ w.tFollow = log.tFollow
        /\ w.active = shown.active /\ w.button = log.button BY <1>1, <2>3, LogMapping
  <2> HIDE DEF w
  <2>5. ButtonFits(w) BY <1>1, <2>3, <2>4 DEF LogFits, ButtonFits
  <2> QED BY <2>1, <2>4, <2>5 DEF ShownFits, LogFits
<1> QED BY <1>2, <1>3

\* The terminal moves by its output, by its bar and by its selection.
LEMMA LogTerminal ==
    ASSUME LogInv, NEW b \in BOOLEAN, Log!TerminalOutput(b) \/ Log!TerminalScroll(b) \/ Log!TerminalSelect(b)
    PROVE  LogFits(log') /\ log'.value = log.value
<1>1. log \in LogState /\ LogFits(log) /\ RestFits(log) /\ ButtonFits(log)
    BY DEF LogFits, LogInv, ViewFits, RestFits, TerminalFits
<1>2. CASE Log!TerminalOutput(b)
  <2> DEFINE end == log.tEnd /\ b
             u == [log EXCEPT !.tEnd = end]
             w == Log!TerminalChanged(u)
  <2>1. log' = w BY <1>2 DEF Log!TerminalOutput
  <2>2. end \in BOOLEAN BY <1>1 DEF LogState
  <2> HIDE DEF end
  <2>3. /\ u \in LogState /\ LogRest(u, log) /\ u.caret = log.caret /\ u.button = log.button
        /\ u.tFollow = log.tFollow /\ u.tSelected = log.tSelected BY <1>1, <2>2 DEF LogState, LogRest
  <2> HIDE DEF u
  <2>4. CaretFits(u) BY <1>1, <2>3, LogRestFits
  <2>5. RestFits(u) /\ ButtonFits(u)
      BY <1>1, <2>3, <2>4 DEF RestFits, ButtonFits, LogRest, InRange, Follows, Animates, Blinks, Log!Bottom, Log!Mapped
  <2>6. LogFits(w) /\ LogRest(w, u) BY <2>5, LogTerminalChanged
  <2> HIDE DEF w
  <2> QED BY <2>1, <2>3, <2>6 DEF LogRest
<1>3. CASE Log!TerminalScroll(b) BY <1>1, <1>3, LogTerminalScrolled DEF Log!TerminalScroll, LogRest
<1>4. CASE Log!TerminalSelect(b) BY <1>1, <1>4, LogTerminalSelection DEF Log!TerminalSelect, LogRest
<1> QED BY <1>2, <1>3, <1>4

\* Every step leaves the views as they should be, and a paused one where it is, unless
\* the user, a search or a shorter log moves it.
LEMMA LogMove ==
    ASSUME LogInv, Log!Next
    PROVE  LogFits(log') /\ Log!PausedStays
<1>1. log \in LogState /\ LogFits(log) BY DEF LogFits, LogInv
<1>2. CASE Log!Layout
  <2>1. LogFits(log') /\ (Stays(log', log) \/ log.follow \/ (log'.value = Log!Bottom(log') /\ log'.upper < log.upper))
      BY <1>1, <1>2, LogLayout DEF Log!Layout
  <2> QED BY <2>1 DEF Log!PausedStays, Stays
<1>3. CASE Log!Frame BY <1>3, LogFrame DEF Log!PausedStays, Stays
<1>4. CASE Log!Press \/ Log!Release BY <1>4, LogPointer DEF Log!PausedStays
<1>5. CASE Log!Blink
  <2>1. TRUE \in BOOLEAN OBVIOUS
  <2> QED BY <1>5, <2>1, LogFocus DEF Log!PausedStays
<1>6. CASE Log!Resume BY <1>6, LogResume DEF Log!PausedStays, Stays
<1>7. CASE Log!Clear BY <1>7, LogClear DEF Log!PausedStays
<1>8. CASE Log!Toggle \/ Log!Switch BY <1>8, LogShows DEF Log!PausedStays, Stays
<1>9. CASE \E y \in Log!Line : Log!WheelUp(y) \/ Log!UserScroll(y) \/ Log!Search(y)
    BY <1>9, LogWheel DEF Log!PausedStays
<1>10. ASSUME NEW b \in BOOLEAN, Log!Receive(b)
       PROVE  LogFits(log') /\ Log!PausedStays
     BY <1>1, <1>10, LogReceive DEF Log!Receive, Log!PausedStays, Stays
<1>11. ASSUME NEW b \in BOOLEAN, Log!Select(b)
       PROVE  LogFits(log') /\ Log!PausedStays
     BY <1>1, <1>11, LogSelection DEF Log!Select, Log!PausedStays
<1>12. ASSUME NEW b \in BOOLEAN, Log!Focus(b)
       PROVE  LogFits(log') /\ Log!PausedStays BY <1>12, LogFocus DEF Log!PausedStays
<1>13. ASSUME NEW b \in BOOLEAN, Log!TerminalOutput(b) \/ Log!TerminalScroll(b) \/ Log!TerminalSelect(b)
       PROVE  LogFits(log') /\ Log!PausedStays BY <1>13, LogTerminal DEF Log!PausedStays
<1> QED BY <1>2, <1>3, <1>4, <1>5, <1>6, <1>7, <1>8, <1>9, <1>10, <1>11, <1>12, <1>13 DEF Log!Next

\* Every step keeps the view, and does not move one that is paused.
LEMMA LogStep ==
    ASSUME LogInv, [Log!Next]_log
    PROVE  LogInv' /\ (log' # log => Log!PausedStays)
<1>1. CASE Log!Next BY <1>1, LogMove DEF LogInv
<1>2. CASE UNCHANGED log BY <1>2 DEF LogInv
<1> QED BY <1>1, <1>2

\* The view begins at the end of no text.
LEMMA LogStart ==
    ASSUME Log!Init
    PROVE  LogInv
<1> DEFINE v == log
<1>1. v \in LogState BY DEF Log!Init, LogState
<1>2. /\ v.value = 0 /\ v.upper = 0 /\ v.follow = TRUE /\ v.pending = FALSE /\ v.selected = FALSE
      /\ v.tick = FALSE /\ v.timer = FALSE /\ v.caret = FALSE /\ v.tEnd = TRUE /\ v.tFollow = TRUE
      /\ v.tSelected = FALSE /\ v.active = FALSE /\ v.current = TRUE /\ v.button = FALSE BY DEF Log!Init
<1>3. Log!Bottom(v) \in Nat BY <1>1, LogBottom
<1> HIDE DEF v
<1>4. InRange(v) BY <1>2, <1>3 DEF InRange
<1>5. Follows(v) /\ Animates(v) /\ Blinks(v) /\ TerminalFits(v) /\ CaretFits(v)
    BY <1>2 DEF Follows, Animates, Blinks, TerminalFits, CaretFits
<1>6. ButtonFits(v) BY <1>2 DEF ButtonFits
<1>7. LogFits(v) BY <1>1, <1>4, <1>5, <1>6 DEF LogFits, ViewFits
<1> QED BY <1>7 DEF LogInv, v

\* The view is as claimed.
LEMMA LogGood ==
    ASSUME LogInv
    PROVE  Log!Sound
<1>1. log \in LogState /\ LogFits(log) BY DEF LogFits, LogInv
<1>2. Log!AnimatesOnlyFollowing BY <1>1 DEF LogFits, ViewFits, Animates, Follows, Log!AnimatesOnlyFollowing
<1>3. Log!CaretAtEnd BY <1>1 DEF LogFits, ViewFits, CaretFits, Blinks, Log!CaretAtEnd
<1>4. Log!ButtonOfShown BY <1>1 DEF LogFits, ViewFits, ButtonFits, Follows, Log!ButtonOfShown
<1>5. Log!TerminalAtEnd BY <1>1 DEF LogFits, ViewFits, TerminalFits, Log!TerminalAtEnd
<1> QED BY <1>2, <1>3, <1>4, <1>5 DEF Log!Sound

\* For any size of the page and the text: the animation runs only in a view that follows,
\* the caret is seen only at the end of the output, the button is there exactly when the
\* view that is shown is paused, and a terminal that follows is at its end (main.c:
\* on_highlight_scrolled, animate_highlight_scroll).
THEOREM LogFollows == Log!Spec => []Log!Sound
<1>1. Log!Init => LogInv BY LogStart
<1>2. LogInv /\ [Log!Next]_log => LogInv' BY LogStep
<1>3. LogInv => Log!Sound BY LogGood
<1> QED BY <1>1, <1>2, <1>3, PTL DEF Log!Spec

\* And a log that is paused is not moved by the program: only by its user or a search, or
\* by GTK when it became shorter (main.c: update_highlight_display).
THEOREM PausedViewsStay == Log!Spec => [][Log!PausedStays]_log
<1>1. Log!Init => LogInv BY LogStart
<1>2. LogInv /\ [Log!Next]_log => LogInv' BY LogStep
<1>3. LogInv /\ [Log!Next]_log => [Log!PausedStays]_log BY LogStep
<1> QED BY <1>1, <1>2, <1>3, PTL DEF Log!Spec

-----------------------------------------------------------------------------
(* The connections *)

ConnState == [refs : Nat, udp : BOOLEAN, owned : BOOLEAN, connecting : BOOLEAN, ready : BOOLEAN, closed : BOOLEAN,
              reader : BOOLEAN, writer : BOOLEAN, pending : Seq(0..MaxLength), queued : Nat, offset : Nat,
              accepted : Nat, told : Nat, wire : Nat, confirmed : Nat]
Counted(x) == x.refs = Holds(x.owned) + Holds(x.connecting) + Holds(x.reader) + Holds(x.writer)
\* What is closed or not connected yet has no watch and no sends, what may still be called has its owner.
Quiet(x) == ~x.reader /\ ~x.writer /\ ~x.ready /\ x.pending = <<>> /\ x.queued = 0
Alive(x) == /\ x.closed \/ x.connecting => Quiet(x)
            /\ ~x.closed /\ (x.connecting \/ x.reader \/ x.writer) => x.owned
Told(x) == ~x.closed => x.wire = x.confirmed + x.offset /\ x.told + Len(x.pending) = x.accepted
Queue(x) == x.queued = Sum(x.pending) /\ x.queued <= MaxQueued /\ Len(x.pending) <= MaxPendingSends
\* While a notice is served the watch of what is written stays.
Served(x) == (x.pending # <<>> => x.writer) /\ x.reader = x.ready
MidFits(x) == x \in ConnState /\ Counted(x) /\ Alive(x) /\ Told(x) /\ Queue(x) /\ Served(x)
ConnFits(x) == MidFits(x) /\ (x.writer => x.pending # <<>>)
NetInv == /\ net = [window |-> net.window, current |-> net.current, conn |-> net.conn]
          /\ net.conn = [c \in Conn |-> net.conn[c]]
          /\ \A c \in Conn : ConnFits(net.conn[c])
          /\ net.current # None => net.current \in Conn /\ net.conn[net.current].owned

(* The sum of what waits *)

\* Lengths that are added at the end and taken from the front.
LEMMA NetSums ==
    /\ Sum(<<>>) = 0
    /\ \A s \in Seq(0..MaxLength) : Sum(s) \in Nat
    /\ \A s \in Seq(0..MaxLength), n \in 0..MaxLength : Sum(Append(s, n)) = Sum(s) + n
    /\ \A s \in Seq(0..MaxLength) : s # <<>> => Sum(s) = Head(s) + Sum(Tail(s))
<1>0. MaxLength \in Nat BY ToolboxAssumption DEF NetworkAssumption
<1>1. ASSUME NEW s, NEW n \in Nat, DOMAIN s = 1..n
      PROVE  Sum(s) = Total(s, n)
  <2>1. Sum(s) = FoldLeft(LAMBDA sum, m : sum + m, 0, s) BY Zenon DEF Sum
  <2> QED BY <1>1, <2>1, FoldIsTotal
<1>2. Sum(<<>>) = 0
  <2>1. DOMAIN <<>> = 1..0 OBVIOUS
  <2> QED BY <1>1, <2>1, TotalNone
<1>3. ASSUME NEW s \in Seq(0..MaxLength)
      PROVE  Sum(s) \in Nat
  <2>1. Len(s) \in Nat /\ DOMAIN s = 1..Len(s) /\ \A i \in 1..Len(s) : s[i] \in Nat BY <1>0
  <2> QED BY <1>1, <2>1, TotalNat
<1>4. ASSUME NEW s \in Seq(0..MaxLength), NEW n \in 0..MaxLength
      PROVE  Sum(Append(s, n)) = Sum(s) + n
  <2> DEFINE t == Append(s, n)
             k == Len(s)
  <2>1. k \in Nat /\ DOMAIN s = 1..k /\ DOMAIN t = 1..(k + 1) /\ t[k + 1] = n /\ \A i \in 1..k : t[i] = s[i]
      OBVIOUS
  <2> HIDE DEF t, k
  <2>2. Sum(s) = Total(s, k) /\ Sum(t) = Total(t, k + 1) BY <1>1, <2>1
  <2>3. Total(t, k + 1) = Total(t, k) + t[k + 1] BY <2>1, TotalNext
  <2>4. Total(t, k) = Total(s, k) BY <2>1, TotalSame DEF Agree
  <2> QED BY <2>1, <2>2, <2>3, <2>4 DEF t
<1>5. ASSUME NEW s \in Seq(0..MaxLength), s # <<>>
      PROVE  Sum(s) = Head(s) + Sum(Tail(s))
  <2> DEFINE t == Tail(s)
             k == Len(s) - 1
  <2>1. k \in Nat /\ DOMAIN s = 1..(k + 1) /\ DOMAIN t = 1..k /\ Head(s) = s[1] /\ \A i \in 1..k : t[i] = s[i + 1]
      BY <1>5
  <2>2. \A i \in 1..(k + 1) : s[i] \in Nat BY <1>0
  <2> HIDE DEF t, k
  <2>3. Sum(s) = Total(s, k + 1) /\ Sum(t) = Total(t, k) BY <1>1, <2>1
  <2>4. Total(s, k + 1) = s[1] + Total(t, k) BY <2>1, <2>2, TotalFirst
  <2> QED BY <2>1, <2>3, <2>4 DEF t
<1> QED BY <1>2, <1>3, <1>4, <1>5

-----------------------------------------------------------------------------
(* The parts of a connection's handlers *)

\* A connection is stopped once; whoever else may call it still holds it.
LEMMA NetStopped ==
    ASSUME NEW x \in ConnState, ~x.closed, NEW k \in Nat \ {0}, x.refs = k + Watches(x)
    PROVE  LET w == StopNetwork(x)
           IN /\ w \in ConnState /\ w.refs = k /\ w.closed /\ Quiet(w)
              /\ w.owned = x.owned /\ w.connecting = x.connecting
<1> DEFINE off == [x EXCEPT !.closed = TRUE, !.ready = FALSE, !.reader = FALSE, !.writer = FALSE,
                            !.pending = <<>>, !.queued = 0]
           n == Watches(x)
           w == [off EXCEPT !.refs = off.refs - n]
<1>1. n \in Nat /\ x.refs = k + n BY DEF Watches, Holds
<1>2. StopNetwork(x) = Drop(off, n) BY DEF StopNetwork
<1> HIDE DEF n
<1>3. <<>> \in Seq(0..MaxLength) OBVIOUS
<1>4. off \in ConnState BY <1>3 DEF ConnState
<1>5. off.refs = x.refs /\ off.closed = TRUE /\ off.ready = FALSE /\ off.reader = FALSE /\ off.writer = FALSE
      /\ off.pending = <<>> /\ off.queued = 0 /\ off.owned = x.owned /\ off.connecting = x.connecting
    BY DEF ConnState
<1> HIDE DEF off
<1>6. StopNetwork(x) = w BY <1>1, <1>2, <1>5 DEF Drop
<1>7. off.refs - n = k BY <1>1, <1>5
<1>8. w \in ConnState /\ w.refs = k BY <1>4, <1>7 DEF ConnState
<1>9. w.closed = TRUE /\ w.ready = FALSE /\ w.reader = FALSE /\ w.writer = FALSE
      /\ w.pending = <<>> /\ w.queued = 0 /\ w.owned = x.owned /\ w.connecting = x.connecting
    BY <1>4, <1>5 DEF ConnState
<1> HIDE DEF w
<1> QED BY <1>6, <1>8, <1>9 DEF Quiet

\* A connection that is closed, or one that is not there, is as it should be.
LEMMA NetQuiet ==
    ASSUME NEW x \in ConnState, Quiet(x), Counted(x), x.closed \/ x.owned \/ ~x.connecting, Told(x)
    PROVE  ConnFits(x)
<1>1. Queue(x) BY NetSums, ToolboxAssumption DEF Quiet, Queue, NetworkAssumption
<1>2. Served(x) BY DEF Quiet, Served, ConnState
<1>3. Alive(x) BY DEF Alive, Quiet
<1> QED BY <1>1, <1>2, <1>3 DEF ConnFits, MidFits, Quiet

\* A connection that is not used is held by nobody.
LEMMA NetUnused == ConnFits(Unused) /\ ~Unused.owned
<1> DEFINE x == Unused
<1>1. <<>> \in Seq(0..MaxLength) OBVIOUS
<1>2. x \in ConnState BY <1>1 DEF ConnState, Unused
<1>3. x.refs = 0 /\ x.owned = FALSE /\ x.connecting = FALSE /\ x.reader = FALSE /\ x.writer = FALSE
      /\ x.ready = FALSE /\ x.pending = <<>> /\ x.queued = 0 /\ x.wire = 0 /\ x.confirmed = 0 /\ x.offset = 0
      /\ x.told = 0 /\ x.accepted = 0 BY DEF Unused
<1> HIDE DEF x
<1>4. /\ Holds(x.owned) = 0 /\ Holds(x.connecting) = 0
      /\ Holds(x.reader) = 0 /\ Holds(x.writer) = 0 BY <1>3 DEF Holds
<1>5. x.refs = 0 BY <1>3
<1>6. Counted(x) BY <1>4, <1>5 DEF Counted
<1>7. Quiet(x) /\ Told(x) BY <1>3 DEF Quiet, Told
<1>8. ConnFits(x) BY <1>2, <1>3, <1>6, <1>7, NetQuiet
<1> QED BY <1>3, <1>8 DEF x

\* Who holds a connection, as a number of references.
LEMMA NetWatches ==
    ASSUME NEW x \in ConnState
    PROVE  /\ Holds(x.owned) \in 0..1 /\ Holds(x.connecting) \in 0..1
           /\ Holds(x.reader) \in 0..1 /\ Holds(x.writer) \in 0..1 /\ Watches(x) \in 0..2
           /\ Counted(x) => x.refs = Holds(x.owned) + Holds(x.connecting) + Watches(x)
<1>1. /\ Holds(x.owned) \in 0..1 /\ Holds(x.connecting) \in 0..1
      /\ Holds(x.reader) \in 0..1 /\ Holds(x.writer) \in 0..1 BY DEF Holds
<1> QED BY <1>1 DEF Watches, Counted

\* A connection that its owner has is stopped, with whatever watches and operation.
LEMMA NetStop ==
    ASSUME NEW x, MidFits(x), x.owned
    PROVE  ConnFits(StopNetwork(x)) /\ StopNetwork(x).closed /\ StopNetwork(x).owned = x.owned
           /\ StopNetwork(x).connecting = x.connecting
<1>1. x \in ConnState BY DEF MidFits
<1>2. CASE x.closed
  <2>1. StopNetwork(x) = x BY <1>2 DEF StopNetwork
  <2>2. Quiet(x) BY <1>2 DEF MidFits, Alive
  <2> QED BY <1>2, <2>1, <2>2 DEF ConnFits, Quiet
<1>3. CASE ~x.closed
  <2> DEFINE k == Holds(x.owned) + Holds(x.connecting)
             w == StopNetwork(x)
  <2>1. Holds(x.owned) = 1 BY DEF Holds
  <2>8. Counted(x) BY DEF MidFits
  <2>9. k = 1 + Holds(x.connecting) /\ Holds(x.connecting) \in 0..1 BY <1>1, <2>1, NetWatches
  <2>10. x.refs = k + Watches(x) BY <1>1, <2>8, NetWatches
  <2> HIDE DEF k
  <2>2. k \in Nat \ {0} /\ x.refs = k + Watches(x) BY <2>9, <2>10
  <2>3. /\ w \in ConnState /\ w.refs = k /\ w.closed /\ Quiet(w)
        /\ w.owned = x.owned /\ w.connecting = x.connecting BY <1>1, <1>3, <2>2, NetStopped
  <2> HIDE DEF w
  <2>4. w.refs = Holds(w.owned) + Holds(w.connecting) BY <2>3 DEF k
  <2>5. Holds(w.reader) = 0 /\ Holds(w.writer) = 0 BY <2>3 DEF Quiet, Holds
  <2>11. w.refs \in Nat BY <2>3 DEF ConnState
  <2>6. Counted(w) BY <2>4, <2>5, <2>11 DEF Counted
  <2>7. ConnFits(w) BY <2>3, <2>6, NetQuiet DEF Told
  <2> QED BY <2>3, <2>7 DEF w
<1> QED BY <1>2, <1>3

\* A reference that is given back after a connection was closed, the last one with the rest.
LEMMA NetDropped ==
    ASSUME NEW x \in ConnState, x.closed, Quiet(x), x.refs = 1 + Holds(x.owned) + Holds(x.connecting)
    PROVE  ConnFits(Drop(x, 1)) /\ Drop(x, 1).owned = x.owned
<1> DEFINE refs == x.refs - 1
           w == [x EXCEPT !.refs = refs]
<1>1. Holds(x.owned) \in 0..1 /\ Holds(x.connecting) \in 0..1 /\ x.refs \in Nat BY NetWatches DEF ConnState
<1>2. CASE x.refs > 1
  <2>1. Drop(x, 1) = w BY <1>2 DEF Drop
  <2>9. refs \in Nat /\ refs = x.refs - 1 BY <1>1, <1>2
  <2> HIDE DEF refs
  <2>2. w \in ConnState BY <2>9 DEF ConnState
  <2>3. w.closed /\ Quiet(w) /\ w.owned = x.owned /\ w.connecting = x.connecting BY DEF ConnState, Quiet
  <2>4. w.refs = Holds(x.owned) + Holds(x.connecting)
    <3>1. w.refs = x.refs - 1 BY <2>9 DEF ConnState
    <3> QED BY <1>1, <3>1
  <2> HIDE DEF w
  <2>5. w.refs = Holds(w.owned) + Holds(w.connecting) /\ w.refs \in Nat BY <2>2, <2>3, <2>4 DEF ConnState
  <2>6. Holds(w.reader) = 0 /\ Holds(w.writer) = 0 BY <2>3 DEF Quiet, Holds
  <2>7. Counted(w) BY <2>5, <2>6 DEF Counted
  <2>8. ConnFits(w) BY <2>2, <2>3, <2>7, NetQuiet DEF Told
  <2> QED BY <2>1, <2>3, <2>8
<1>3. CASE ~(x.refs > 1)
  <2>1. Drop(x, 1) = Unused BY <1>3 DEF Drop
  <2>2. Holds(x.owned) = 0 BY <1>1, <1>3
  <2>3. ~x.owned BY <2>2 DEF Holds
  <2>4. x.owned = FALSE /\ Unused.owned = FALSE BY <2>3 DEF ConnState, Unused
  <2> QED BY <2>1, <2>4, NetUnused
<1> QED BY <1>2, <1>3

\* The references of a connection that is quiet are those of its owner and its operation.
LEMMA NetQuietRefs ==
    ASSUME NEW x, MidFits(x), Quiet(x)
    PROVE  x.refs = Holds(x.owned) + Holds(x.connecting) /\ Watches(x) = 0
<1>1. Holds(x.reader) = 0 /\ Holds(x.writer) = 0 BY DEF Quiet, Holds
<1>2. x \in ConnState /\ Counted(x) BY DEF MidFits
<1>3. Watches(x) = 0 BY <1>1 DEF Watches
<1>4. Holds(x.owned) \in 0..1 /\ Holds(x.connecting) \in 0..1 BY <1>2, NetWatches
<1>5. x.refs = Holds(x.owned) + Holds(x.connecting) + Watches(x) BY <1>2, NetWatches
<1> QED BY <1>3, <1>4, <1>5

\* The owner lets go: what still has an operation is there until that has ended.
LEMMA NetFree ==
    ASSUME NEW x, ConnFits(x), x.owned
    PROVE  ConnFits(FreeNetwork(x))
<1> DEFINE off == [x EXCEPT !.owned = FALSE]
           k == 1 + Holds(x.connecting)
           w == StopNetwork(off)
<1>1. x \in ConnState /\ MidFits(x) /\ Counted(x) BY DEF ConnFits, MidFits
<1>2. Holds(x.connecting) \in 0..1 BY <1>1, NetWatches
<1>3. Holds(x.owned) = 1 BY DEF Holds
<1>4. x.refs = k + Watches(x)
  <2>1. x.refs = Holds(x.owned) + Holds(x.connecting) + Watches(x) BY <1>1, NetWatches
  <2> QED BY <1>2, <1>3, <2>1
<1>5. off \in ConnState BY <1>1 DEF ConnState
<1>6. off.refs = x.refs /\ off.closed = x.closed /\ off.reader = x.reader /\ off.writer = x.writer
      /\ off.ready = x.ready /\ off.pending = x.pending /\ off.queued = x.queued
      /\ off.owned = FALSE /\ off.connecting = x.connecting BY <1>1 DEF ConnState
<1> HIDE DEF off
<1>7. Watches(off) = Watches(x) BY <1>6 DEF Watches
<1>8. /\ w \in ConnState /\ w.refs = k /\ w.closed /\ Quiet(w)
      /\ w.owned = off.owned /\ w.connecting = off.connecting
  <2>1. CASE x.closed
    <3>1. w = off BY <1>6, <2>1 DEF StopNetwork
    <3>2. Quiet(x) BY <1>1, <2>1 DEF MidFits, Alive
    <3>3. Quiet(off) BY <1>6, <3>2 DEF Quiet
    <3>4. off.refs = k
      <4>1. Watches(x) = 0 BY <1>1, <3>2, NetQuietRefs
      <4> QED BY <1>2, <1>4, <1>6, <4>1
    <3> HIDE DEF w
    <3> QED BY <1>5, <1>6, <2>1, <3>1, <3>3, <3>4
  <2>2. CASE ~x.closed
    <3>1. k \in Nat \ {0} /\ off.refs = k + Watches(off) BY <1>2, <1>4, <1>6, <1>7
    <3> HIDE DEF k
    <3> QED BY <1>5, <1>6, <2>2, <3>1, NetStopped
  <2> QED BY <2>1, <2>2
<1>9. FreeNetwork(x) = Drop(w, 1) BY DEF FreeNetwork, off
<1> HIDE DEF w
<1>10. Holds(w.owned) = 0 BY <1>6, <1>8 DEF Holds
<1>11. Holds(w.connecting) = Holds(x.connecting) /\ w.refs = 1 + Holds(x.connecting) BY <1>6, <1>8
<1>12. w.refs = 1 + Holds(w.owned) + Holds(w.connecting) BY <1>2, <1>10, <1>11
<1> QED BY <1>8, <1>9, <1>12, NetDropped

\* The operation ends, with a connection or without, for whoever is left.
LEMMA NetEnds ==
    ASSUME NEW x, ConnFits(x), Quiet(x), x.closed, x.connecting
    PROVE  LET w == Drop([x EXCEPT !.connecting = FALSE], 1) IN ConnFits(w) /\ w.owned = x.owned
<1> DEFINE off == [x EXCEPT !.connecting = FALSE]
<1>1. x \in ConnState /\ MidFits(x) BY DEF ConnFits, MidFits
<1>2. off \in ConnState /\ off.refs = x.refs /\ off.closed = x.closed /\ off.owned = x.owned
      /\ off.connecting = FALSE /\ Quiet(off) BY <1>1 DEF ConnState, Quiet
<1> HIDE DEF off
<1>3. Holds(off.connecting) = 0 /\ Holds(x.connecting) = 1 BY <1>2 DEF Holds
<1>4. Holds(x.owned) \in 0..1 /\ x.refs = Holds(x.owned) + Holds(x.connecting) BY <1>1, NetWatches, NetQuietRefs
<1>5. off.refs = 1 + Holds(x.owned) + 0 BY <1>2, <1>3, <1>4
<1>6. off.refs = 1 + Holds(off.owned) + Holds(off.connecting) BY <1>2, <1>3, <1>5
<1>7. ConnFits(Drop(off, 1)) /\ Drop(off, 1).owned = off.owned BY <1>2, <1>6, NetDropped
<1> QED BY <1>2, <1>7 DEF off

\* A connection that fails loses the reference of its connect.
LEMMA NetConnectFails ==
    ASSUME NEW x, ConnFits(x), x.connecting
    PROVE  LET w == Drop([StopNetwork(x) EXCEPT !.connecting = FALSE], 1) IN ConnFits(w) /\ w.owned = x.owned
<1>1. MidFits(x) /\ Quiet(x) BY DEF ConnFits, MidFits, Alive
<1> DEFINE s == StopNetwork(x)
<1>2. ConnFits(s) /\ s.closed /\ s.owned = x.owned /\ s.connecting = x.connecting
  <2>1. CASE x.owned BY <1>1, <2>1, NetStop
  <2>2. CASE ~x.owned
    <3>1. x.closed BY <1>1, <2>2 DEF MidFits, Alive
    <3>2. s = x BY <3>1 DEF StopNetwork
    <3> QED BY <3>1, <3>2
  <2> QED BY <2>1, <2>2
<1> HIDE DEF s
<1>3. Quiet(s) BY <1>2 DEF ConnFits, MidFits, Alive
<1>4. LET w == Drop([s EXCEPT !.connecting = FALSE], 1) IN ConnFits(w) /\ w.owned = s.owned
    BY <1>2, <1>3, NetEnds
<1> QED BY <1>2, <1>4 DEF s

\* A connection that is made is watched.
LEMMA NetConnected ==
    ASSUME NEW x, ConnFits(x), x.connecting
    PROVE  ConnFits(Opened(x)) /\ Opened(x).owned = x.owned
<1>1. MidFits(x) /\ Quiet(x) /\ x \in ConnState BY DEF ConnFits, MidFits, Alive
<1>2. CASE x.closed BY <1>1, <1>2, NetEnds DEF Opened
<1>3. CASE ~x.closed
  <2> DEFINE w == [x EXCEPT !.connecting = FALSE, !.ready = TRUE, !.reader = TRUE]
  <2>1. Opened(x) = w BY <1>3 DEF Opened
  <2>2. w \in ConnState BY <1>1 DEF ConnState
  <2>3. /\ w.refs = x.refs /\ w.owned = x.owned /\ w.connecting = FALSE /\ w.ready = TRUE /\ w.reader = TRUE
        /\ w.writer = x.writer /\ w.closed = x.closed /\ w.pending = x.pending /\ w.queued = x.queued
        /\ w.wire = x.wire /\ w.confirmed = x.confirmed /\ w.offset = x.offset /\ w.told = x.told
        /\ w.accepted = x.accepted BY <1>1 DEF ConnState
  <2> HIDE DEF w
  <2>4. Counted(w)
    <3>1. Holds(w.connecting) = 0 /\ Holds(w.reader) = 1 /\ Holds(w.writer) = 0 BY <1>1, <2>3 DEF Holds, Quiet
    <3>2. Holds(x.connecting) = 1 BY DEF Holds
    <3>3. Holds(x.owned) \in 0..1 /\ x.refs = Holds(x.owned) + Holds(x.connecting)
        BY <1>1, NetWatches, NetQuietRefs
    <3>4. w.refs = x.refs /\ Holds(w.owned) = Holds(x.owned) BY <2>3
    <3>5. w.refs = Holds(w.owned) + 0 + 1 + 0 BY <3>2, <3>3, <3>4
    <3> QED BY <3>1, <3>5 DEF Counted
  <2>5. x.owned /\ x.pending = <<>> /\ ~x.writer BY <1>1, <1>3 DEF MidFits, Alive, Quiet
  <2>6. Alive(w) /\ Told(w) /\ Queue(w) BY <1>1, <1>3, <2>3, <2>5 DEF MidFits, Alive, Told, Queue
  <2>7. Served(w) /\ (w.writer => w.pending # <<>>) BY <2>3, <2>5 DEF Served
  <2>8. ConnFits(w) BY <2>2, <2>4, <2>6, <2>7 DEF ConnFits, MidFits
  <2> QED BY <2>1, <2>3, <2>8
<1> QED BY <1>2, <1>3

\* The other side ends.
LEMMA NetReadStops ==
    ASSUME NEW x, ConnFits(x), x.reader
    PROVE  ConnFits(StopNetwork(x)) /\ StopNetwork(x).owned = x.owned
BY NetStop DEF ConnFits, MidFits, Alive, Quiet

\* A send that is accepted waits, and is watched for.
LEMMA NetSend ==
    ASSUME NEW x, ConnFits(x), NEW length \in 0..MaxLength, MaySendOn(x, length)
    PROVE  LET w == [x EXCEPT !.pending = Append(x.pending, length), !.queued = x.queued + length,
                              !.accepted = x.accepted + 1, !.writer = TRUE,
                              !.refs = IF x.writer THEN x.refs ELSE x.refs + 1]
           IN ConnFits(w) /\ w.owned = x.owned
<1> DEFINE pending == Append(x.pending, length)
           queued == x.queued + length
           count == x.accepted + 1
           refs == IF x.writer THEN x.refs ELSE x.refs + 1
           w == [x EXCEPT !.pending = pending, !.queued = queued, !.accepted = count, !.writer = TRUE, !.refs = refs]
<1>1. x \in ConnState /\ MidFits(x) BY DEF ConnFits, MidFits
<1>2. MaxLength \in Nat /\ length \in Nat BY ToolboxAssumption DEF NetworkAssumption
<1>3. /\ x.pending \in Seq(0..MaxLength) /\ x.queued \in Nat /\ x.accepted \in Nat /\ x.refs \in Nat
      /\ Len(x.pending) \in Nat /\ x.told \in Nat BY <1>1 DEF ConnState
<1>4. /\ pending \in Seq(0..MaxLength) /\ pending # <<>> /\ Len(pending) = Len(x.pending) + 1
      /\ Sum(pending) = Sum(x.pending) + length
  <2>1. Sum(pending) = Sum(x.pending) + length BY <1>3, NetSums
  <2>2. pending \in Seq(0..MaxLength) /\ pending # <<>> /\ Len(pending) = Len(x.pending) + 1 BY <1>3
  <2> QED BY <2>1, <2>2
<1>5. queued \in Nat /\ count \in Nat /\ refs \in Nat BY <1>2, <1>3
<1>6. x.ready /\ queued <= MaxQueued /\ Len(x.pending) < MaxPendingSends BY DEF MaySendOn
<1>7. ~x.closed /\ ~x.connecting /\ x.reader /\ x.owned BY <1>1, <1>6 DEF MidFits, Alive, Quiet, Served
<1>8. refs = Holds(x.owned) + Holds(x.connecting) + Holds(x.reader) + 1
  <2>1. x.refs = Holds(x.owned) + Holds(x.connecting) + Holds(x.reader) + Holds(x.writer)
      BY <1>1 DEF MidFits, Counted
  <2>2. /\ Holds(x.owned) \in 0..1 /\ Holds(x.connecting) \in 0..1 /\ Holds(x.reader) \in 0..1
      BY <1>1, NetWatches
  <2>3. CASE x.writer
    <3>1. Holds(x.writer) = 1 /\ refs = x.refs BY <2>3 DEF Holds
    <3> QED BY <2>1, <3>1
  <2>4. CASE ~x.writer
    <3>1. Holds(x.writer) = 0 /\ refs = x.refs + 1 BY <2>4 DEF Holds
    <3> HIDE DEF refs
    <3> QED BY <2>1, <2>2, <3>1
  <2> QED BY <2>3, <2>4
<1>9. queued = x.queued + length /\ count = x.accepted + 1 OBVIOUS
<1> HIDE DEF pending, queued, count, refs
<1>10. w \in ConnState BY <1>1, <1>4, <1>5 DEF ConnState
<1>11. /\ w.refs = refs /\ w.owned = x.owned /\ w.connecting = x.connecting /\ w.ready = x.ready /\ w.reader = x.reader
       /\ w.writer = TRUE /\ w.closed = x.closed /\ w.pending = pending /\ w.queued = queued
       /\ w.wire = x.wire /\ w.confirmed = x.confirmed /\ w.offset = x.offset /\ w.told = x.told
       /\ w.accepted = count BY <1>1 DEF ConnState
<1> HIDE DEF w
<1>12. Counted(w)
  <2>1. Holds(w.writer) = 1 BY <1>11 DEF Holds
  <2>2. w.refs = refs /\ Holds(w.owned) = Holds(x.owned) /\ Holds(w.connecting) = Holds(x.connecting)
        /\ Holds(w.reader) = Holds(x.reader) BY <1>11
  <2> QED BY <1>8, <2>1, <2>2 DEF Counted
<1>13. Alive(w) BY <1>7, <1>11 DEF Alive
<1>14. Told(w)
  <2>1. x.wire = x.confirmed + x.offset /\ x.told + Len(x.pending) = x.accepted BY <1>1, <1>7 DEF MidFits, Told
  <2>3. Len(pending) = Len(x.pending) + 1 BY <1>4
  <2>2. x.told + Len(pending) = count
    <3>1. x.told \in Nat /\ Len(x.pending) \in Nat /\ x.told + Len(x.pending) = x.accepted BY <1>3, <2>1
    <3>2. count = x.accepted + 1 BY <1>9
    <3> QED BY <2>3, <3>1, <3>2
  <2> QED BY <1>11, <2>1, <2>2 DEF Told
<1>15. Queue(w)
  <2>1. x.queued = Sum(x.pending) BY <1>1 DEF MidFits, Queue
  <2>2. queued = Sum(pending) BY <1>4, <1>9, <2>1
  <2>3. MaxPendingSends \in Nat /\ Len(pending) <= MaxPendingSends
      BY <1>3, <1>4, <1>6, ToolboxAssumption DEF NetworkAssumption
  <2> QED BY <1>6, <1>11, <2>2, <2>3 DEF Queue
<1>16. Served(w) BY <1>1, <1>4, <1>11 DEF MidFits, Served
<1>17. ConnFits(w) BY <1>4, <1>10, <1>11, <1>12, <1>13, <1>14, <1>15, <1>16 DEF ConnFits, MidFits
<1> QED BY <1>11, <1>17 DEF w, pending, queued, count, refs

-----------------------------------------------------------------------------
(* A notice that the socket takes more *)

\* A part of the first send is on the wire.
LEMMA NetPart ==
    ASSUME NEW x, MidFits(x), NEW n \in Nat
    PROVE  LET y == [x EXCEPT !.offset = x.offset + n, !.wire = x.wire + n]
           IN /\ MidFits(y) /\ y.offset = x.offset + n /\ y.pending = x.pending /\ y.closed = x.closed
              /\ y.owned = x.owned /\ y.udp = x.udp
<1> DEFINE offset == x.offset + n
           wire == x.wire + n
           y == [x EXCEPT !.offset = offset, !.wire = wire]
<1>1. x \in ConnState /\ x.offset \in Nat /\ x.wire \in Nat /\ x.confirmed \in Nat BY DEF MidFits, ConnState
<1>2. offset \in Nat /\ wire \in Nat BY <1>1
<1>3. ~x.closed => wire = x.confirmed + offset
  <2> SUFFICES ASSUME ~x.closed PROVE wire = x.confirmed + offset OBVIOUS
  <2>1. x.wire = x.confirmed + x.offset BY DEF MidFits, Told
  <2> QED BY <1>1, <2>1
<1>4. offset = x.offset + n OBVIOUS
<1> HIDE DEF offset, wire
<1>5. y \in ConnState BY <1>1, <1>2 DEF ConnState
<1>6. /\ y.refs = x.refs /\ y.udp = x.udp /\ y.owned = x.owned /\ y.connecting = x.connecting /\ y.ready = x.ready
      /\ y.reader = x.reader /\ y.writer = x.writer /\ y.closed = x.closed /\ y.pending = x.pending
      /\ y.queued = x.queued /\ y.wire = wire /\ y.confirmed = x.confirmed /\ y.offset = offset
      /\ y.told = x.told /\ y.accepted = x.accepted BY <1>1 DEF ConnState
<1> HIDE DEF y
<1>7. MidFits(y) BY <1>3, <1>5, <1>6 DEF MidFits, Counted, Alive, Quiet, Told, Queue, Served
<1> QED BY <1>4, <1>6, <1>7 DEF y, offset, wire

\* The first send is on the wire as a whole, and told.
LEMMA NetTell ==
    ASSUME NEW x, MidFits(x), More(x), x.offset = Head(x.pending)
    PROVE  MidFits(Tell(x)) /\ Tell(x).owned = x.owned
<1> DEFINE pending == Tail(x.pending)
           queued == x.queued - Head(x.pending)
           told == x.told + 1
           confirmed == x.confirmed + Head(x.pending)
           w == [x EXCEPT !.pending = pending, !.queued = queued, !.offset = 0, !.told = told,
                          !.confirmed = confirmed]
<1>1. x \in ConnState /\ ~x.closed /\ x.pending # <<>> /\ MaxLength \in Nat
    BY ToolboxAssumption DEF MidFits, More, NetworkAssumption
<1>2. /\ x.pending \in Seq(0..MaxLength) /\ x.queued \in Nat /\ x.told \in Nat /\ x.confirmed \in Nat
      /\ x.wire \in Nat /\ x.offset \in Nat BY <1>1 DEF ConnState
<1>3. Head(x.pending) \in Nat /\ pending \in Seq(0..MaxLength) /\ Len(pending) \in Nat
      /\ Len(x.pending) = Len(pending) + 1
  <2>1. x.pending \in Seq(0..MaxLength) /\ x.pending # <<>> /\ MaxLength \in Nat BY <1>1, <1>2
  <2>2. Head(x.pending) \in 0..MaxLength /\ pending \in Seq(0..MaxLength) BY <2>1, HeadTailProperties
  <2>3. Len(pending) = Len(x.pending) - 1 /\ Len(x.pending) \in Nat /\ Len(pending) \in Nat BY <2>1
  <2> HIDE DEF pending
  <2> QED BY <2>1, <2>2, <2>3
<1>4. Sum(x.pending) = Head(x.pending) + Sum(pending) /\ Sum(pending) \in Nat BY <1>1, <1>2, <1>3, NetSums
<1>5. Tell(x) = w BY DEF Tell
<1>6. x.queued = Sum(x.pending) /\ x.queued <= MaxQueued /\ Len(x.pending) <= MaxPendingSends
    BY DEF MidFits, Queue
<1>7. MaxQueued \in Nat /\ MaxPendingSends \in Nat BY ToolboxAssumption DEF NetworkAssumption
<1>8. queued = Sum(pending) /\ queued \in Nat /\ queued <= MaxQueued BY <1>2, <1>3, <1>4, <1>6, <1>7
<1>9. Len(pending) <= MaxPendingSends
  <2> HIDE DEF pending
  <2> QED BY <1>3, <1>6, <1>7
<1>10. told \in Nat /\ confirmed \in Nat BY <1>2, <1>3
<1>11. x.wire = confirmed + 0
  <2>1. x.wire = x.confirmed + x.offset BY <1>1 DEF MidFits, Told
  <2> QED BY <1>2, <1>3, <2>1
<1>12. told + Len(pending) = x.accepted
  <2>1. x.told + Len(x.pending) = x.accepted BY <1>1 DEF MidFits, Told
  <2>2. told = x.told + 1 OBVIOUS
  <2> HIDE DEF told, pending
  <2>3. x.told \in Nat /\ Len(pending) \in Nat /\ Len(x.pending) = Len(pending) + 1 BY <1>2, <1>3
  <2> QED BY <2>1, <2>2, <2>3
<1> HIDE DEF pending, queued, told, confirmed
<1>13. w \in ConnState BY <1>1, <1>3, <1>8, <1>10 DEF ConnState
<1>14. /\ w.refs = x.refs /\ w.owned = x.owned /\ w.connecting = x.connecting /\ w.ready = x.ready
      /\ w.reader = x.reader /\ w.writer = x.writer /\ w.closed = x.closed /\ w.pending = pending
      /\ w.queued = queued /\ w.wire = x.wire /\ w.confirmed = confirmed /\ w.offset = 0
      /\ w.told = told /\ w.accepted = x.accepted BY <1>1 DEF ConnState
<1> HIDE DEF w
<1>15. Counted(w) BY <1>14 DEF MidFits, Counted
<1>16. Alive(w) BY <1>1, <1>14 DEF MidFits, Alive, Quiet
<1>17. Told(w) BY <1>11, <1>12, <1>14 DEF Told
<1>18. Queue(w) BY <1>8, <1>9, <1>14 DEF Queue
<1>19. Served(w) BY <1>1, <1>14 DEF MidFits, Served
<1>20. MidFits(w) BY <1>13, <1>15, <1>16, <1>17, <1>18, <1>19 DEF MidFits
<1> QED BY <1>5, <1>14, <1>20

\* One call to write: a part, the whole of the first send, or the end of the connection.
LEMMA NetWrite ==
    ASSUME NEW x, MidFits(x), x.owned, More(x), NEW z \in Write(x)
    PROVE  MidFits(z) /\ z.owned
<1> DEFINE length == Head(x.pending)
           least == IF length = 0 THEN 0 ELSE 1
           part(n) == [x EXCEPT !.offset = x.offset + n, !.wire = x.wire + n]
           after(y) == CASE y.offset = length -> Tell(y)
                         [] y.offset # length /\ x.udp -> StopNetwork(y)
                         [] OTHER -> y
<1>1. x \in ConnState /\ x.pending # <<>> /\ ~x.closed /\ MaxLength \in Nat
    BY ToolboxAssumption DEF MidFits, More, NetworkAssumption
<1>2. length \in Nat /\ x.offset \in Nat
  <2>1. x.pending \in Seq(0..MaxLength) /\ x.offset \in Nat BY <1>1 DEF ConnState
  <2> QED BY <1>1, <2>1
<1>3. Write(x) = {StopNetwork(x)} \cup {after(y) : y \in {part(n) : n \in least..(length - x.offset)}}
    BY DEF Write
<1>4. CASE z = StopNetwork(x) BY <1>4, NetStop DEF ConnFits
<1>5. CASE z \in {after(y) : y \in {part(n) : n \in least..(length - x.offset)}}
  <2>1. PICK n \in least..(length - x.offset) : z = after(part(n)) BY <1>5
  <2>2. n \in Nat BY <1>2
  <2> DEFINE y == part(n)
  <2>3. /\ MidFits(y) /\ y.pending = x.pending /\ y.closed = x.closed /\ y.owned = x.owned BY <2>2, NetPart
  <2>4. z = after(y) BY <2>1
  <2> HIDE DEF y, part
  <2>5. More(y) BY <1>1, <2>3 DEF More
  <2>6. CASE y.offset = length
    <3>1. z = Tell(y) BY <2>4, <2>6
    <3> QED BY <2>3, <2>5, <2>6, <3>1, NetTell
  <2>7. CASE y.offset # length /\ x.udp
    <3>1. z = StopNetwork(y) BY <2>4, <2>7
    <3> QED BY <2>3, <3>1, NetStop DEF ConnFits
  <2>8. CASE y.offset # length /\ ~x.udp
    <3>1. z = y BY <2>4, <2>8
    <3> QED BY <2>3, <3>1
  <2> QED BY <2>6, <2>7, <2>8
<1> QED BY <1>3, <1>4, <1>5

\* The table of what a notice may leave of x after up to k calls.
Rounds(g, x, k) == g = [n \in 0..k |-> IF n = 0 THEN {x} ELSE Writes(g[n - 1])]

\* There is such a table.
LEMMA NetRounds ==
    ASSUME NEW x, NEW k \in Nat
    PROVE  \E g : Rounds(g, x, k)
<1> DEFINE T(g, m) == g = [n \in 0..m |-> IF n = 0 THEN {x} ELSE Writes(g[n - 1])]
           S == {m \in Nat : \E g : T(g, m)}
<1>1. 0 \in S
  <2> DEFINE g == [n \in 0..0 |-> {x}]
  <2>1. T(g, 0) OBVIOUS
  <2> QED BY <2>1
<1>2. ASSUME NEW m \in Nat, m \in S
      PROVE  m + 1 \in S
  <2>1. PICK g : T(g, m) BY <1>2
  <2> DEFINE h == [n \in 0..(m + 1) |-> IF n <= m THEN g[n] ELSE Writes(g[m])]
  <2>2. \A n \in 0..m : g[n] = IF n = 0 THEN {x} ELSE Writes(g[n - 1]) BY <2>1
  <2>3. \A n \in 0..(m + 1) : h[n] = IF n = 0 THEN {x} ELSE Writes(h[n - 1])
    <3> SUFFICES ASSUME NEW n \in 0..(m + 1) PROVE h[n] = IF n = 0 THEN {x} ELSE Writes(h[n - 1]) OBVIOUS
    <3>1. CASE n = 0 BY <2>2, <3>1
    <3>2. CASE n # 0 /\ n <= m
      <4>1. n \in 0..m /\ n - 1 \in 0..m /\ n - 1 \in 0..(m + 1) BY <3>2
      <4>2. h[n] = g[n] /\ h[n - 1] = g[n - 1] BY <3>2, <4>1
      <4> QED BY <2>2, <3>2, <4>1, <4>2
    <3>3. CASE n # 0 /\ ~(n <= m)
      <4>1. n = m + 1 /\ n - 1 = m /\ m \in 0..(m + 1) BY <3>3
      <4>2. h[n] = Writes(g[m]) /\ h[m] = g[m] BY <4>1
      <4> QED BY <3>3, <4>1, <4>2
    <3> QED BY <3>1, <3>2, <3>3
  <2>4. DOMAIN h = 0..(m + 1) /\ h = [n \in 0..(m + 1) |-> h[n]] OBVIOUS
  <2> HIDE DEF h
  <2>5. T(h, m + 1) BY <2>3, <2>4
  <2> HIDE DEF T
  <2> QED BY <2>5
<1>3. Nat \subseteq S
  <2> HIDE DEF S
  <2> QED BY <1>1, <1>2, NatInSet
<1>4. \E g : T(g, k)
  <2> HIDE DEF T
  <2> QED BY <1>3
<1> QED BY <1>4 DEF Rounds

\* Whatever a notice leaves a connection in, its references and its sends are right.
LEMMA NetWritten ==
    ASSUME NEW x, MidFits(x), x.owned, NEW z \in NetworkWritten(x)
    PROVE  MidFits(z) /\ z.owned
<1> DEFINE P(g) == g = [n \in 0..WriteBudget |-> IF n = 0 THEN {x} ELSE Writes(g[n - 1])]
           f == CHOOSE g : P(g)
           MayFollow == {y \in ConnState : MidFits(y) /\ y.owned}
<1>1. WriteBudget \in Nat BY ToolboxAssumption DEF NetworkAssumption
<1>2. NetworkWritten(x) = f[WriteBudget] BY DEF NetworkWritten
<1>3. P(f)
  <2>1. \E g : Rounds(g, x, WriteBudget) BY <1>1, NetRounds
  <2>2. \E g : P(g) BY <2>1 DEF Rounds
  <2> HIDE DEF P
  <2> QED BY <2>2
<1> HIDE DEF f
<1>4. \A n \in 0..WriteBudget : f[n] = IF n = 0 THEN {x} ELSE Writes(f[n - 1]) BY <1>3
<1>5. ASSUME NEW Q, Q \subseteq MayFollow
      PROVE  Writes(Q) \subseteq MayFollow
  <2> SUFFICES ASSUME NEW w \in Writes(Q) PROVE w \in MayFollow OBVIOUS
  <2>1. w \in Q \/ \E y \in Q : More(y) /\ w \in Write(y) BY DEF Writes
  <2>2. CASE w \in Q BY <1>5, <2>2
  <2>3. CASE \E y \in Q : More(y) /\ w \in Write(y)
    <3>1. PICK y \in Q : More(y) /\ w \in Write(y) BY <2>3
    <3>2. MidFits(y) /\ y.owned BY <1>5
    <3>3. MidFits(w) /\ w.owned BY <3>1, <3>2, NetWrite
    <3> QED BY <3>3 DEF MidFits
  <2> QED BY <2>1, <2>2, <2>3
<1> DEFINE S == {n \in Nat : n <= WriteBudget => f[n] \subseteq MayFollow}
<1>6. 0 \in S
  <2>1. x \in MayFollow BY DEF MidFits
  <2>2. f[0] = {x} BY <1>1, <1>4
  <2> HIDE DEF MayFollow
  <2> QED BY <2>1, <2>2
<1>7. ASSUME NEW n \in Nat, n \in S
      PROVE  n + 1 \in S
  <2> HIDE DEF MayFollow
  <2> SUFFICES ASSUME n + 1 <= WriteBudget PROVE f[n + 1] \subseteq MayFollow OBVIOUS
  <2>1. f[n] \subseteq MayFollow BY <1>1, <1>7
  <2>2. n + 1 \in 0..WriteBudget /\ n + 1 # 0 /\ (n + 1) - 1 = n BY <1>1
  <2>3. f[n + 1] = Writes(f[n]) BY <1>4, <2>2
  <2> QED BY <1>5, <2>1, <2>3
<1>8. Nat \subseteq S
  <2> HIDE DEF S
  <2> QED BY <1>6, <1>7, NatInSet
<1>9. f[WriteBudget] \subseteq MayFollow
  <2> HIDE DEF MayFollow
  <2> QED BY <1>1, <1>8
<1> QED BY <1>2, <1>9

\* The watch goes when nothing waits any more.
LEMMA NetLeft ==
    ASSUME NEW x, MidFits(x), x.owned
    PROVE  ConnFits(Left(x)) /\ Left(x).owned = x.owned
<1> DEFINE off == [x EXCEPT !.writer = FALSE]
           refs == x.refs - 1
           w == [off EXCEPT !.refs = refs]
<1>1. x \in ConnState /\ Counted(x) BY DEF MidFits
<1>2. CASE More(x) \/ ~x.writer BY <1>2 DEF Left, More, ConnFits
<1>3. CASE ~More(x) /\ x.writer
  <2>1. Left(x) = Drop(off, 1) BY <1>3 DEF Left
  <2>2. ~x.closed /\ x.pending = <<>> /\ ~x.connecting BY <1>3 DEF MidFits, Alive, Quiet, More
  <2>3. Holds(x.owned) = 1 /\ Holds(x.writer) = 1 BY <1>3 DEF Holds
  <2>4. Holds(x.connecting) \in 0..1 /\ Holds(x.reader) \in 0..1 BY <1>1, NetWatches
  <2>5. x.refs = 1 + Holds(x.connecting) + Holds(x.reader) + 1 BY <1>1, <2>3, <2>4 DEF Counted
  <2>6. refs \in Nat /\ x.refs > 1 /\ refs = 1 + Holds(x.connecting) + Holds(x.reader) BY <2>4, <2>5
  <2>7. off \in ConnState /\ off.refs = x.refs BY <1>1 DEF ConnState
  <2>8. Left(x) = w BY <2>1, <2>6, <2>7 DEF Drop
  <2> HIDE DEF refs
  <2>9. w \in ConnState BY <2>6, <2>7 DEF ConnState
  <2>10. /\ w.refs = refs /\ w.owned = x.owned /\ w.connecting = x.connecting /\ w.ready = x.ready
         /\ w.reader = x.reader /\ w.writer = FALSE /\ w.closed = x.closed /\ w.pending = x.pending
         /\ w.queued = x.queued /\ w.wire = x.wire /\ w.confirmed = x.confirmed /\ w.offset = x.offset
         /\ w.told = x.told /\ w.accepted = x.accepted BY <1>1 DEF ConnState
  <2> HIDE DEF w
  <2>11. Counted(w)
    <3>1. Holds(w.writer) = 0 BY <2>10 DEF Holds
    <3>2. Holds(w.owned) = Holds(x.owned) /\ Holds(w.connecting) = Holds(x.connecting)
          /\ Holds(w.reader) = Holds(x.reader) /\ w.refs = refs BY <2>10
    <3>3. w.refs = Holds(w.owned) + Holds(w.connecting) + Holds(w.reader) + 0 BY <2>3, <2>4, <2>6, <3>2
    <3> QED BY <3>1, <3>3 DEF Counted
  <2>12. ConnFits(w) BY <2>2, <2>9, <2>10, <2>11 DEF ConnFits, MidFits, Alive, Quiet, Told, Queue, Served
  <2> QED BY <2>8, <2>10, <2>12
<1> QED BY <1>2, <1>3

\* A notice that the socket takes more leaves the connection sound.
LEMMA NetWritable ==
    ASSUME NEW x, ConnFits(x), x.writer, NEW z \in NetworkWritten(x)
    PROVE  ConnFits(Left(z)) /\ Left(z).owned /\ x.owned
<1>1. MidFits(x) /\ x.owned BY DEF ConnFits, MidFits, Alive, Quiet
<1>2. MidFits(z) /\ z.owned BY <1>1, NetWritten
<1>3. ConnFits(Left(z)) /\ Left(z).owned = z.owned BY <1>2, NetLeft
<1>4. z \in ConnState /\ Left(z) \in ConnState BY <1>2, <1>3 DEF ConnFits, MidFits
<1>5. z.owned \in BOOLEAN /\ Left(z).owned \in BOOLEAN BY <1>4 DEF ConnState
<1> QED BY <1>1, <1>2, <1>3, <1>5

-----------------------------------------------------------------------------
(* The window and its connections *)

\* A handler of one connection leaves the others and the window alone.
LEMMA NetBecomes ==
    ASSUME NetInv, NEW c \in Conn, NEW x, ConnFits(x), x.owned = net.conn[c].owned, Become(c, x)
    PROVE  NetInv'
<1> DEFINE conn == [net.conn EXCEPT ![c] = x]
<1>1. net = [window |-> net.window, current |-> net.current, conn |-> net.conn]
      /\ net.conn = [d \in Conn |-> net.conn[d]] BY DEF NetInv
<1>2. net' = [net EXCEPT !.conn = conn] BY <1>1 DEF Become
<1>3. /\ conn = [d \in Conn |-> conn[d]] /\ conn[c] = x
      /\ \A d \in Conn \ {c} : conn[d] = net.conn[d] BY <1>1
<1> HIDE DEF conn
<1>4. net' = [window |-> net.window, current |-> net.current, conn |-> conn] BY <1>1, <1>2
<1>5. net'.window = net.window /\ net'.current = net.current /\ net'.conn = conn BY <1>4
<1>6. \A d \in Conn : ConnFits(conn[d]) /\ conn[d].owned = net.conn[d].owned BY <1>3 DEF NetInv
<1>7. net.current # None => net.current \in Conn /\ conn[net.current].owned BY <1>6 DEF NetInv
<1> QED BY <1>3, <1>4, <1>5, <1>6, <1>7 DEF NetInv

\* What the window lets go of is right, and is nobody's.
LEMMA NetReleased ==
    ASSUME NetInv
    PROVE  /\ Released = [c \in Conn |-> Released[c]]
           /\ \A c \in Conn : ConnFits(Released[c])
<1>1. net.conn = [c \in Conn |-> net.conn[c]] /\ \A c \in Conn : ConnFits(net.conn[c]) BY DEF NetInv
<1>2. CASE net.current = None
  <2>1. Released = net.conn BY <1>2 DEF Released
  <2> QED BY <1>1, <2>1
<1>3. CASE net.current # None
  <2> DEFINE x == net.conn[net.current]
             f == FreeNetwork(x)
  <2>1. net.current \in Conn /\ x.owned /\ ConnFits(x) BY <1>3 DEF NetInv
  <2>2. ConnFits(f) BY <2>1, NetFree
  <2>3. Released = [net.conn EXCEPT ![net.current] = f] BY <1>3 DEF Released
  <2> HIDE DEF f, x
  <2> QED BY <1>1, <2>1, <2>2, <2>3
<1> QED BY <1>2, <1>3

\* A new connection has its owner and its operation.
LEMMA NetNew ==
    ASSUME NEW udp \in BOOLEAN
    PROVE  LET x == [Unused EXCEPT !.refs = 2, !.udp = udp, !.owned = TRUE, !.connecting = TRUE]
           IN ConnFits(x) /\ x.owned
<1> DEFINE u == Unused
           x == [u EXCEPT !.refs = 2, !.udp = udp, !.owned = TRUE, !.connecting = TRUE]
<1>1. u \in ConnState /\ Quiet(u) /\ Told(u) /\ u.closed = FALSE
  <2>1. u \in ConnState /\ Told(u) BY NetUnused DEF ConnFits, MidFits
  <2>2. Quiet(u) /\ u.closed = FALSE BY DEF Unused, Quiet
  <2> QED BY <2>1, <2>2
<1> HIDE DEF u
<1>2. x \in ConnState BY <1>1 DEF ConnState
<1>3. /\ x.refs = 2 /\ x.owned = TRUE /\ x.connecting = TRUE /\ x.ready = u.ready
      /\ x.reader = u.reader /\ x.writer = u.writer /\ x.closed = u.closed /\ x.pending = u.pending
      /\ x.queued = u.queued /\ x.wire = u.wire /\ x.confirmed = u.confirmed /\ x.offset = u.offset
      /\ x.told = u.told /\ x.accepted = u.accepted BY <1>1 DEF ConnState
<1> HIDE DEF x
<1>4. Quiet(x) /\ Told(x) BY <1>1, <1>3 DEF Quiet, Told
<1>5. Counted(x)
  <2> DEFINE a == Holds(x.owned)
             b == Holds(x.connecting)
             c == Holds(x.reader)
             d == Holds(x.writer)
  <2>1. a = 1 /\ b = 1 /\ c = 0 /\ d = 0 BY <1>3, <1>4 DEF Holds, Quiet
  <2>2. x.refs = 2 BY <1>3
  <2> HIDE DEF a, b, c, d
  <2>3. x.refs = a + b + c + d BY <2>1, <2>2
  <2> QED BY <2>3 DEF Counted, a, b, c, d
<1>6. ConnFits(x) /\ x.owned BY <1>2, <1>3, <1>4, <1>5, NetQuiet
<1> QED BY <1>6 DEF x, u

\* Every step keeps the connections.
LEMMA NetStep ==
    ASSUME NetInv, [NetworkNext]_net
    PROVE  NetInv'
<1>1. \A c \in Conn : ConnFits(net.conn[c]) BY DEF NetInv
<1>2. ASSUME NEW c \in Conn, Connected(c)
      PROVE  NetInv' BY <1>1, <1>2, NetConnected, NetBecomes DEF Connected
<1>3. ASSUME NEW c \in Conn, ConnectFails(c)
      PROVE  NetInv'
  <2> DEFINE w == Drop([StopNetwork(net.conn[c]) EXCEPT !.connecting = FALSE], 1)
  <2>1. ConnFits(w) /\ w.owned = net.conn[c].owned BY <1>1, <1>3, NetConnectFails DEF ConnectFails
  <2>2. Become(c, w) BY <1>3 DEF ConnectFails
  <2> HIDE DEF w
  <2> QED BY <2>1, <2>2, NetBecomes
<1>4. ASSUME NEW c \in Conn, ReadStops(c)
      PROVE  NetInv' BY <1>1, <1>4, NetReadStops, NetBecomes DEF ReadStops
<1>5. ASSUME NEW c \in Conn, Writable(c)
      PROVE  NetInv'
  <2>1. PICK z \in NetworkWritten(net.conn[c]) : Become(c, Left(z)) BY <1>5 DEF Writable
  <2>2. net.conn[c].writer BY <1>5 DEF Writable
  <2>3. ConnFits(Left(z)) /\ Left(z).owned /\ net.conn[c].owned BY <1>1, <2>2, NetWritable
  <2>4. Left(z) \in ConnState /\ net.conn[c] \in ConnState BY <1>1, <2>3 DEF ConnFits, MidFits
  <2>5. Left(z).owned = net.conn[c].owned BY <2>3, <2>4 DEF ConnState
  <2> QED BY <2>1, <2>3, <2>5, NetBecomes
<1>6. ASSUME NEW c \in Conn, NEW length \in 0..MaxLength, SendOn(c, length)
      PROVE  NetInv'
  <2> DEFINE x == net.conn[c]
             w == [x EXCEPT !.pending = Append(x.pending, length), !.queued = x.queued + length,
                            !.accepted = x.accepted + 1, !.writer = TRUE,
                            !.refs = IF x.writer THEN x.refs ELSE x.refs + 1]
  <2>1. MaySendOn(x, length) /\ Become(c, w) BY <1>6 DEF SendOn
  <2>2. ConnFits(w) /\ w.owned = x.owned BY <1>1, <2>1, NetSend
  <2> HIDE DEF w
  <2> QED BY <2>1, <2>2, NetBecomes
<1>7. ASSUME NEW c \in Conn, NEW udp \in BOOLEAN, ConnectNetwork(c, udp)
      PROVE  NetInv'
  <2> DEFINE x == [Unused EXCEPT !.refs = 2, !.udp = udp, !.owned = TRUE, !.connecting = TRUE]
             r == Released
             conn == [r EXCEPT ![c] = x]
  <2>1. ConnFits(x) /\ x.owned BY NetNew
  <2>2. net' = [net EXCEPT !.current = c, !.conn = conn] BY <1>7 DEF ConnectNetwork
  <2>3. r = [d \in Conn |-> r[d]] /\ \A d \in Conn : ConnFits(r[d]) BY NetReleased
  <2> HIDE DEF x, r
  <2>4. conn = [d \in Conn |-> conn[d]] /\ conn[c] = x /\ \A d \in Conn : ConnFits(conn[d]) BY <2>1, <2>3
  <2> HIDE DEF conn
  <2>5. net = [window |-> net.window, current |-> net.current, conn |-> net.conn] BY DEF NetInv
  <2>6. net' = [window |-> net.window, current |-> c, conn |-> conn] BY <2>2, <2>5
  <2>7. net'.window = net.window /\ net'.current = c /\ net'.conn = conn BY <2>6
  <2> QED BY <2>1, <2>4, <2>6, <2>7 DEF NetInv
<1>8. ASSUME DisconnectNetwork \/ CloseNetworkWindow
      PROVE  NetInv'
  <2> DEFINE r == Released
  <2>1. r = [d \in Conn |-> r[d]] /\ \A d \in Conn : ConnFits(r[d]) BY NetReleased
  <2>2. net = [window |-> net.window, current |-> net.current, conn |-> net.conn] BY DEF NetInv
  <2>3. net' = [net EXCEPT !.current = None, !.conn = r]
        \/ net' = [window |-> "gone", current |-> None, conn |-> r]
      BY <1>8 DEF DisconnectNetwork, CloseNetworkWindow
  <2> HIDE DEF r
  <2>4. \E window : net' = [window |-> window, current |-> None, conn |-> r]
    <3>1. CASE net' = [net EXCEPT !.current = None, !.conn = r]
      <4>1. net' = [window |-> net.window, current |-> None, conn |-> r] BY <2>2, <3>1
      <4> QED BY <4>1
    <3> QED BY <2>3, <3>1
  <2>5. PICK window : net' = [window |-> window, current |-> None, conn |-> r] BY <2>4
  <2>6. net'.window = window /\ net'.current = None /\ net'.conn = r BY <2>5
  <2> QED BY <2>1, <2>5, <2>6 DEF NetInv
<1>9. CASE UNCHANGED net BY <1>9 DEF NetInv
<1> QED BY <1>2, <1>3, <1>4, <1>5, <1>6, <1>7, <1>8, <1>9 DEF NetworkNext

\* No connection is used at the beginning.
LEMMA NetStart ==
    ASSUME NetworkInit
    PROVE  NetInv
<1>1. /\ net.current = None /\ net.conn = [c \in Conn |-> Unused]
      /\ net = [window |-> net.window, current |-> net.current, conn |-> net.conn] BY DEF NetworkInit
<1>2. \A c \in Conn : ConnFits(net.conn[c]) BY <1>1, NetUnused
<1>3. net.conn = [c \in Conn |-> net.conn[c]] BY <1>1
<1> QED BY <1>1, <1>2, <1>3 DEF NetInv

\* The connections are as claimed.
LEMMA NetGood ==
    ASSUME NetInv
    PROVE  NetworkSound
<1>1. RefsExact BY DEF NetInv, ConnFits, MidFits, Counted, RefsExact
<1>2. ToldIsWritten BY DEF NetInv, ConnFits, MidFits, Told, ToldIsWritten
<1>3. QueueWatched
  <2> SUFFICES ASSUME NEW c \in Conn
               PROVE  LET x == net.conn[c]
                      IN /\ x.queued = Sum(x.pending)
                         /\ x.queued <= MaxQueued /\ Len(x.pending) <= MaxPendingSends
                         /\ x.writer <=> x.pending # <<>>
                         /\ x.reader <=> x.ready BY DEF QueueWatched
  <2> DEFINE x == net.conn[c]
  <2>1. ConnFits(x) BY DEF NetInv
  <2> HIDE DEF x
  <2>2. Queue(x) BY <2>1 DEF ConnFits, MidFits
  <2>3. (x.writer <=> x.pending # <<>>) /\ (x.reader <=> x.ready) BY <2>1 DEF ConnFits, MidFits, Served
  <2> QED BY <2>2, <2>3 DEF Queue, x
<1> QED BY <1>1, <1>2, <1>3 DEF NetworkSound

\* For any connections, limits of the queue and sizes: a connection has as many references
\* as holders, its owner was told of each send once and in order, when its bytes were on
\* the wire, and sends that wait are counted, within the limits and watched for (network.c:
\* writable, tio_network_send).
THEOREM PeersTold == NetworkSpec => []NetworkSound
<1>1. NetworkInit => NetInv BY NetStart
<1>2. NetInv /\ [NetworkNext]_net => NetInv' BY NetStep
<1>3. NetInv => NetworkSound BY NetGood
<1> QED BY <1>1, <1>2, <1>3, PTL DEF NetworkSpec

-----------------------------------------------------------------------------
(* The send bar and its history *)

Single(s) == \A i, j \in DOMAIN s : s[i] = s[j] => i = j
HistFits(s, limit) == (\E R : s \in Seq(R)) /\ Single(s) /\ Len(s) <= limit
HistShape(e) == e = [history |-> e.history, listed |-> e.listed, cursor |-> e.cursor, draft |-> e.draft,
                     entry |-> e.entry, typed |-> e.typed, running |-> e.running]
Remembers(e) == e.typed = (IF e.cursor = 0 THEN e.entry ELSE e.draft)
SendFits(e) == HistShape(e) /\ Remembers(e) /\ HistFits(e.history, MaxHistory) /\ HistFits(e.listed, MaxListed)
SendInv == SendFits(send)

\* What is sent is once in the history, and the history keeps its limit.
LEMMA HistPushed ==
    ASSUME NEW s, HistFits(s, MaxHistory), NEW e
    PROVE  HistFits(Push(s, e), MaxHistory)
<1>1. PICK R : s \in Seq(R) BY DEF HistFits
<1>2. MaxHistory \in Nat \ {0} BY ToolboxAssumption DEF SendHistoryAssumption
<1> DEFINE t == RemoveFirst(s, e)
           u == Append(t, e)
           v == Limited(u)
<1>3. Len(s) \in Nat /\ Len(s) <= MaxHistory /\ DOMAIN s = 1..Len(s) BY <1>1 DEF HistFits
<1>4. t \in Seq(R) /\ Len(t) <= Len(s) /\ Single(t) /\ \A i \in DOMAIN t : t[i] # e
  <2>1. CASE t = s /\ \A i \in 1..Len(s) : s[i] # e BY <1>1, <1>3, <2>1 DEF HistFits
  <2>2. ASSUME NEW i \in 1..Len(s), s[i] = e, Lacks(t, s, R, i)
        PROVE  t \in Seq(R) /\ Len(t) <= Len(s) /\ Single(t) /\ \A k \in DOMAIN t : t[k] # e
    <3> HIDE DEF t
    <3> DEFINE place(j) == IF j < i THEN j ELSE j + 1
    <3>1. /\ t \in Seq(R) /\ Len(t) = Len(s) - 1 /\ DOMAIN t = 1..(Len(s) - 1)
          /\ \A j \in 1..(Len(s) - 1) : t[j] = s[place(j)] BY <2>2, RemovedIs
    <3>2. \A j \in DOMAIN t : place(j) \in DOMAIN s /\ place(j) # i BY <1>3, <3>1
    <3>3. \A j, k \in DOMAIN t : place(j) = place(k) => j = k BY <1>3, <3>1
    <3>4. \A j \in DOMAIN t : t[j] = s[place(j)] BY <3>1
    <3>5. Len(t) <= Len(s) BY <1>3, <3>1
    <3> HIDE DEF place
    <3>6. Single(t) BY <3>2, <3>3, <3>4 DEF HistFits, Single
    <3>7. \A k \in DOMAIN t : t[k] # e BY <1>3, <2>2, <3>2, <3>4 DEF HistFits, Single
    <3> QED BY <3>1, <3>5, <3>6, <3>7
  <2> QED BY <1>1, <1>3, <2>1, <2>2, FirstRemoved DEF Lacks
<1> HIDE DEF t
<1>5. u \in Seq(R \cup {e}) /\ Len(u) = Len(t) + 1 /\ DOMAIN u = 1..(Len(t) + 1) /\ DOMAIN t = 1..Len(t)
      /\ (\A i \in 1..Len(t) : u[i] = t[i]) /\ u[Len(t) + 1] = e /\ Len(t) \in Nat
  <2>1. t \in Seq(R \cup {e}) BY <1>4
  <2> QED BY <2>1
<1> HIDE DEF u
<1>6. Single(u)
  <2> SUFFICES ASSUME NEW i \in 1..(Len(t) + 1), NEW j \in 1..(Len(t) + 1), u[i] = u[j]
               PROVE  i = j BY <1>5 DEF Single
  <2>1. CASE i = Len(t) + 1 \/ j = Len(t) + 1 BY <1>4, <1>5, <2>1
  <2>2. CASE i # Len(t) + 1 /\ j # Len(t) + 1
    <3>1. i \in 1..Len(t) /\ j \in 1..Len(t) BY <1>5, <2>2
    <3> QED BY <1>4, <1>5, <3>1 DEF Single
  <2> QED BY <2>1, <2>2
<1>7. Len(u) \in Nat /\ Len(u) <= MaxHistory + 1 /\ u # <<>> BY <1>2, <1>3, <1>4, <1>5
<1>8. HistFits(v, MaxHistory)
  <2>1. CASE Len(u) > MaxHistory
    <3>1. v = Tail(u) BY <2>1 DEF Limited
    <3>2. v \in Seq(R \cup {e}) /\ Len(v) = Len(u) - 1 /\ \A i \in 1..Len(v) : v[i] = u[i + 1]
        BY <1>5, <1>7, <3>1, HeadTailProperties
    <3> HIDE DEF v
    <3>3. DOMAIN v = 1..Len(v) /\ Len(v) \in Nat /\ \A i \in DOMAIN v : i \in Nat /\ i + 1 \in DOMAIN u
        BY <1>5, <1>7, <3>2
    <3>4. Single(v) BY <1>6, <3>2, <3>3 DEF Single
    <3>5. Len(v) <= MaxHistory BY <1>2, <1>7, <3>2
    <3> QED BY <3>2, <3>4, <3>5 DEF HistFits
  <2>2. CASE ~(Len(u) > MaxHistory)
    <3>1. v = u BY <2>2 DEF Limited
    <3>2. Len(u) <= MaxHistory BY <1>2, <1>7, <2>2
    <3> QED BY <1>5, <1>6, <3>1, <3>2 DEF HistFits
  <2> QED BY <2>1, <2>2
<1> QED BY <1>8 DEF Push, t, u

\* The menu has every line once, as the history has.
LEMMA HistNewest ==
    ASSUME NEW s, HistFits(s, MaxHistory)
    PROVE  HistFits(Newest(s), MaxListed)
<1>1. PICK R : s \in Seq(R) BY DEF HistFits
<1> DEFINE n == Len(s)
           r == Reverse(s)
           m == IF n < MaxListed THEN n ELSE MaxListed
           v == SubSeq(r, 1, m)
<1>2. n \in Nat /\ DOMAIN s = 1..n /\ \A i \in 1..n : s[i] \in R BY <1>1
<1>3. MaxListed \in Nat BY ToolboxAssumption DEF SendHistoryAssumption
<1>4. r = [i \in 1..n |-> s[(n - i) + 1]] BY DEF Reverse
<1> HIDE DEF r
<1>5. r \in Seq(R) /\ Len(r) = n /\ DOMAIN r = 1..n BY <1>2, <1>4
<1>6. m \in Nat /\ m <= n /\ m <= MaxListed BY <1>2, <1>3
<1> HIDE DEF m
<1>7. v \in Seq(R) /\ Len(v) = m /\ DOMAIN v = 1..m /\ \A i \in 1..m : v[i] = r[i] BY <1>2, <1>5, <1>6
<1> HIDE DEF v
<1>8. \A i \in 1..m : v[i] = s[(n - i) + 1] /\ (n - i) + 1 \in 1..n
  <2> SUFFICES ASSUME NEW i \in 1..m PROVE v[i] = s[(n - i) + 1] /\ (n - i) + 1 \in 1..n OBVIOUS
  <2>1. i \in 1..n /\ (n - i) + 1 \in 1..n BY <1>2, <1>6
  <2>2. r[i] = s[(n - i) + 1] BY <1>4, <2>1
  <2>3. v[i] = r[i] BY <1>7
  <2> QED BY <2>1, <2>2, <2>3
<1>9. Single(v)
  <2> SUFFICES ASSUME NEW i \in 1..m, NEW j \in 1..m, v[i] = v[j] PROVE i = j BY <1>7 DEF Single
  <2>1. (n - i) + 1 = (n - j) + 1 BY <1>2, <1>8 DEF HistFits, Single
  <2>2. i \in Nat /\ j \in Nat BY <1>6
  <2> QED BY <1>2, <2>1, <2>2
<1>10. HistFits(v, MaxListed) BY <1>6, <1>7, <1>9 DEF HistFits
<1> QED BY <1>10 DEF Newest, v, m, r

\* The user types and browses: what the history and the menu hold stays.
LEMMA SendBrowses ==
    ASSUME SendInv, HistShape(send'), Remembers(send'), send'.history = send.history, send'.listed = send.listed
    PROVE  SendInv' BY DEF SendInv, SendFits

\* Browsing keeps what was typed behind the cursor.
LEMMA SendGoes ==
    ASSUME SendInv, NEW cursor, Go(cursor)
    PROVE  SendInv'
<1> DEFINE s == Kept(send)
           entry == At(s, cursor)
           u == [s EXCEPT !.entry = entry]
           v == [u EXCEPT !.cursor = cursor]
<1>1. send' = v /\ cursor # send.cursor BY DEF Go
<1>2. HistShape(send) /\ Remembers(send) BY DEF SendInv, SendFits
<1>3. /\ HistShape(s) /\ s.history = send.history /\ s.listed = send.listed /\ s.cursor = send.cursor
      /\ s.typed = send.typed /\ (s.cursor = 0 => s.draft = send.entry) /\ (s.cursor # 0 => s.draft = send.draft)
  <2>1. CASE send.cursor = 0
    <3> DEFINE d == send.entry
               w == [send EXCEPT !.draft = d]
    <3>1. s = w BY <2>1 DEF Kept
    <3>2. d = send.entry OBVIOUS
    <3> HIDE DEF d
    <3>3. /\ HistShape(w) /\ w.history = send.history /\ w.listed = send.listed /\ w.cursor = send.cursor
          /\ w.typed = send.typed /\ w.draft = d BY <1>2 DEF HistShape
    <3> HIDE DEF w, s
    <3> QED BY <2>1, <3>1, <3>2, <3>3
  <2>2. CASE send.cursor # 0
    <3>1. s = send BY <2>2 DEF Kept
    <3> QED BY <1>2, <2>2, <3>1
  <2> QED BY <2>1, <2>2
<1>4. s.draft = send.typed BY <1>2, <1>3 DEF Remembers
<1>5. entry = IF cursor = 0 THEN s.draft ELSE s.history[Len(s.history) - cursor + 1] BY DEF At
<1> HIDE DEF s
<1>6. cursor = 0 => entry = s.draft BY <1>5
<1> HIDE DEF entry
<1>7. /\ HistShape(u) /\ u.history = s.history /\ u.listed = s.listed /\ u.typed = s.typed /\ u.draft = s.draft
      /\ u.entry = entry BY <1>3 DEF HistShape
<1> HIDE DEF u
<1>8. /\ HistShape(v) /\ v.history = u.history /\ v.listed = u.listed /\ v.typed = u.typed /\ v.draft = u.draft
      /\ v.entry = u.entry /\ v.cursor = cursor BY <1>7 DEF HistShape
<1> HIDE DEF v
<1>9. Remembers(v) BY <1>3, <1>4, <1>6, <1>7, <1>8 DEF Remembers
<1> QED BY <1>1, <1>3, <1>7, <1>8, <1>9, SendBrowses

\* A step of the tab, or of another one, keeps the history, the menu and what was typed.
LEMMA SendStep ==
    ASSUME SendInv, [HistoryNext]_send
    PROVE  SendInv'
<1>1. HistShape(send) /\ Remembers(send) /\ HistFits(send.history, MaxHistory) /\ HistFits(send.listed, MaxListed)
    BY DEF SendInv, SendFits
<1>2. ASSUME NEW text, Type(text)
      PROVE  SendInv'
  <2>1. /\ HistShape(send') /\ send'.history = send.history /\ send'.listed = send.listed /\ send'.cursor = 0
        /\ send'.entry = text /\ send'.typed = text BY <1>1, <1>2 DEF Type, HistShape
  <2>2. Remembers(send') BY <2>1 DEF Remembers
  <2> QED BY <2>1, <2>2, SendBrowses
<1>3. CASE Up \/ Down BY <1>3, SendGoes DEF Up, Down
<1>4. ASSUME NEW h, NEW l, NEW text, HistFits(h, MaxHistory), HistFits(l, MaxListed),
             send' = [history |-> h, listed |-> l, cursor |-> 0, draft |-> "", entry |-> text, typed |-> text,
                      running |-> send.running]
      PROVE  SendInv'
  <2>1. /\ HistShape(send') /\ send'.history = h /\ send'.listed = l /\ send'.cursor = 0
        /\ send'.entry = text /\ send'.typed = text BY <1>4 DEF HistShape
  <2>2. Remembers(send') BY <2>1 DEF Remembers
  <2> QED BY <1>4, <2>1, <2>2 DEF SendInv, SendFits
<1>5. CASE SendEntry
  <2> DEFINE h == Push(send.history, send.entry)
             l == Newest(h)
  <2>1. HistFits(h, MaxHistory) BY <1>1, HistPushed
  <2> HIDE DEF h
  <2>2. HistFits(l, MaxListed) BY <2>1, HistNewest
  <2>3. send' = [send EXCEPT !.history = h, !.listed = l, !.cursor = 0, !.draft = "", !.entry = "", !.typed = ""]
      BY <1>5 DEF SendEntry, h
  <2> HIDE DEF l
  <2>4. send' = [history |-> h, listed |-> l, cursor |-> 0, draft |-> "", entry |-> "", typed |-> "",
                 running |-> send.running] BY <1>1, <2>3 DEF HistShape
  <2> QED BY <1>4, <2>1, <2>2, <2>4
<1>6. ASSUME NEW i, Pick(i)
      PROVE  SendInv'
  <2> DEFINE text == send.listed[i]
  <2>1. send' = [send EXCEPT !.entry = text, !.typed = text, !.cursor = 0] BY <1>6 DEF Pick
  <2> HIDE DEF text
  <2>2. /\ HistShape(send') /\ send'.history = send.history /\ send'.listed = send.listed /\ send'.cursor = 0
        /\ send'.entry = text /\ send'.typed = text BY <1>1, <2>1 DEF HistShape
  <2>3. Remembers(send') BY <2>2 DEF Remembers
  <2> QED BY <2>2, <2>3, SendBrowses
<1>7. MaxHistory \in Nat /\ MaxListed \in Nat BY ToolboxAssumption DEF SendHistoryAssumption
<1>8. \A n \in Nat : HistFits(<<>>, n)
  <2>1. <<>> \in Seq({}) /\ Len(<<>>) = 0 /\ DOMAIN <<>> = {} OBVIOUS
  <2> QED BY <2>1 DEF HistFits, Single
<1>9. CASE Clear
  <2> DEFINE h == <<>>
             text == send.entry
  <2>1. HistFits(h, MaxHistory) /\ HistFits(h, MaxListed) BY <1>7, <1>8
  <2>2. send' = [send EXCEPT !.history = h, !.listed = h, !.cursor = 0, !.draft = "", !.typed = text]
      BY <1>9 DEF Clear
  <2>3. text = send.entry OBVIOUS
  <2> HIDE DEF h, text
  <2>4. send' = [history |-> h, listed |-> h, cursor |-> 0, draft |-> "", entry |-> text, typed |-> text,
                 running |-> send.running] BY <1>1, <2>2, <2>3 DEF HistShape
  <2> QED BY <1>4, <2>1, <2>4
\* The history and the menu change, by another tab or by the settings.
<1>10. ASSUME NEW h, HistFits(h, MaxHistory), NEW l, HistFits(l, MaxListed),
              \/ send' = [send EXCEPT !.history = h] /\ l = send.listed
              \/ send' = [send EXCEPT !.history = h, !.listed = l]
              \/ send' = [send EXCEPT !.listed = l] /\ h = send.history
       PROVE  SendInv'
  <2>1. /\ HistShape(send') /\ send'.history = h /\ send'.listed = l /\ send'.cursor = send.cursor
        /\ send'.entry = send.entry /\ send'.typed = send.typed /\ send'.draft = send.draft
      BY <1>1, <1>10 DEF HistShape
  <2>2. Remembers(send') BY <1>1, <2>1 DEF Remembers
  <2> QED BY <1>10, <2>1, <2>2 DEF SendInv, SendFits
<1>11. CASE SentElsewhere
  <2>1. ASSUME NEW text, send' = [send EXCEPT !.history = Push(send.history, text)]
        PROVE  SendInv' BY <1>1, <1>10, <2>1, HistPushed
  <2>2. CASE send' = [send EXCEPT !.history = <<>>] BY <1>1, <1>7, <1>8, <1>10, <2>2
  <2> QED BY <1>11, <2>1, <2>2 DEF SentElsewhere
<1>12. CASE Run
  <2>1. PICK running : send' = [send EXCEPT !.running = running] BY <1>12 DEF Run
  <2>2. /\ HistShape(send') /\ send'.history = send.history /\ send'.listed = send.listed
        /\ send'.cursor = send.cursor /\ send'.entry = send.entry /\ send'.typed = send.typed
        /\ send'.draft = send.draft BY <1>1, <2>1 DEF HistShape
  <2>3. Remembers(send') BY <1>1, <2>2 DEF Remembers
  <2> QED BY <2>2, <2>3, SendBrowses
<1>13. CASE Import
  <2>1. PICK h \in WrittenHistories : send' = [send EXCEPT !.history = h, !.listed = Newest(h)]
      BY <1>13 DEF Import
  <2>2. HistFits(h, MaxHistory)
    <3> DEFINE S == SentText \ {""}
    <3>1. PICK n \in 0..MaxHistory : h \in [1..n -> S] BY DEF WrittenHistories
    <3> HIDE DEF S
    <3>2. h \in Seq(S) /\ Len(h) = n
      <4>1. n \in Nat BY <1>7
      <4> QED BY <3>1, <4>1
    <3>3. Single(h) BY DEF WrittenHistories, IsInjective, Single
    <3>4. Len(h) <= MaxHistory BY <1>7, <3>1, <3>2
    <3> QED BY <3>2, <3>3, <3>4 DEF HistFits
  <2>3. HistFits(Newest(h), MaxListed) BY <2>2, HistNewest
  <2> QED BY <1>10, <2>1, <2>2, <2>3
<1>14. CASE Relist
  <2>1. HistFits(Newest(send.history), MaxListed) BY <1>1, HistNewest
  <2> QED BY <1>1, <1>10, <1>14, <2>1 DEF Relist
<1>15. CASE UNCHANGED send BY <1>15 DEF SendInv
<1> QED BY <1>2, <1>3, <1>5, <1>6, <1>9, <1>11, <1>12, <1>13, <1>14, <1>15 DEF HistoryNext

\* A tab begins with nothing typed and nothing sent.
LEMMA SendStart ==
    ASSUME HistoryInit
    PROVE  SendInv
<1>1. MaxHistory \in Nat /\ MaxListed \in Nat BY ToolboxAssumption DEF SendHistoryAssumption
<1>2. \A n \in Nat : HistFits(<<>>, n)
  <2>1. <<>> \in Seq({}) /\ Len(<<>>) = 0 /\ DOMAIN <<>> = {} OBVIOUS
  <2> QED BY <2>1 DEF HistFits, Single
<1>3. send.history = <<>> /\ send.listed = <<>> /\ send.typed = "" /\ send.entry = "" /\ send.cursor = 0
    BY DEF HistoryInit
<1>4. HistShape(send) BY DEF HistoryInit, HistShape
<1> QED BY <1>1, <1>2, <1>3, <1>4 DEF SendInv, SendFits, Remembers

\* The invariant of the send bar is what is claimed of it.
LEMMA SendGood ==
    ASSUME SendInv
    PROVE  HistorySound
<1>1. DraftKept BY DEF SendInv, SendFits, Remembers, DraftKept
<1>2. HistoryDistinct BY DEF SendInv, SendFits, HistFits, Single, HistoryDistinct, IsInjective
<1>3. ListedBounded BY DEF SendInv, SendFits, HistFits, Single, ListedBounded, IsInjective
<1> QED BY <1>1, <1>2, <1>3 DEF HistorySound

\* For any texts and limits: what was being typed is not lost by browsing, whatever other
\* tabs send and clear meanwhile, and neither the history nor the menu has a line twice or
\* is too long (main.c: history_navigate; settings.c: tio_settings_push_history).
THEOREM DraftsKept == HistorySpec => []HistorySound
<1>1. HistoryInit => SendInv BY SendStart
<1>2. SendInv /\ [HistoryNext]_send => SendInv' BY SendStep
<1>3. SendInv => HistorySound BY SendGood
<1> QED BY <1>1, <1>2, <1>3, PTL DEF HistorySpec

-----------------------------------------------------------------------------
(* The editor of sequences *)

Distinct(s) == \A i, j \in DOMAIN s :
                   Decodes(s[i]) /\ Decodes(s[j]) /\ s[i].name = s[j].name => i = j
ListFits(s) == /\ \E R : s \in Seq(R)
               /\ Distinct(s) /\ (\A i \in DOMAIN s : Decodes(s[i]) \/ s[i] = Garbled)
               /\ Len(s) <= MaxSaved
EditorShape(e) == e = [open |-> e.open, saved |-> e.saved, shown |-> e.shown, selected |-> e.selected,
                       name |-> e.name, rows |-> e.rows, stale |-> e.stale]
EditorFits(e) == /\ EditorShape(e) /\ ListFits(e.saved)
                 /\ e.open /\ ~e.stale => e.shown = NamesOf(e.saved)
EditorInv == EditorFits(editor)

\* Lists that have one sequence of a name still have after one is removed.
LEMMA ListRemoved ==
    ASSUME NEW s, ListFits(s), NEW i \in DOMAIN s
    PROVE  ListFits(RemoveAt(s, i))
<1>1. PICK R : s \in Seq(R) BY DEF ListFits
<1> DEFINE t == RemoveAt(s, i)
           n == Len(s)
           place(j) == IF j < i THEN j ELSE j + 1
<1>2. n \in Nat /\ DOMAIN s = 1..n /\ i \in 1..n BY <1>1
<1>3. t \in Seq(R) /\ Len(t) = n - 1 /\ \A j \in 1..(n - 1) : t[j] = s[place(j)]
  <2>1. Lacks(t, s, R, i) BY <1>1, <1>2 DEF Lacks, RemoveAt
  <2> HIDE DEF t
  <2> QED BY <2>1, RemovedIs
<1>4. DOMAIN t = 1..(n - 1) BY <1>3
<1> HIDE DEF t
<1>5. Distinct(t)
  <2> SUFFICES ASSUME NEW j \in DOMAIN t, NEW k \in DOMAIN t, Decodes(t[j]), Decodes(t[k]),
                      t[j].name = t[k].name
               PROVE  j = k BY DEF Distinct
  <2>1. place(j) \in DOMAIN s /\ place(k) \in DOMAIN s /\ j \in Nat /\ k \in Nat /\ i \in Nat BY <1>2, <1>4
  <2>2. t[j] = s[place(j)] /\ t[k] = s[place(k)] BY <1>3, <1>4
  <2>3. place(j) = place(k)
    <3> HIDE DEF place
    <3> QED BY <2>1, <2>2 DEF ListFits, Distinct
  <2> QED BY <2>1, <2>3
<1>6. \A j \in DOMAIN t : Decodes(t[j]) \/ t[j] = Garbled
  <2> SUFFICES ASSUME NEW j \in DOMAIN t PROVE Decodes(t[j]) \/ t[j] = Garbled OBVIOUS
  <2>1. place(j) \in DOMAIN s BY <1>2, <1>4
  <2>2. t[j] = s[place(j)] BY <1>3, <1>4
  <2> HIDE DEF place
  <2> QED BY <2>1, <2>2 DEF ListFits
<1>7. Len(t) <= MaxSaved
  <2>1. MaxSaved \in Nat /\ n <= MaxSaved BY ToolboxAssumption DEF ListFits, SequenceEditorAssumption
  <2> QED BY <1>2, <1>3, <2>1
<1>8. \E Q : t \in Seq(Q) BY <1>3
<1> QED BY <1>5, <1>6, <1>7, <1>8 DEF ListFits, t

\* A sequence is saved in the place of the one with its name, or at the end.
LEMMA EditorPlace ==
    ASSUME NEW s, ListFits(s), NEW name
    PROVE  LET p == Place(s, name)
           IN \/ p \in DOMAIN s /\ Decodes(s[p]) /\ s[p].name = name
              \/ p = Len(s) + 1 /\ \A i \in DOMAIN s : Decodes(s[i]) => s[i].name # name
<1> DEFINE same == {i \in DOMAIN s : Decodes(s[i]) /\ s[i].name = name}
           First(i) == i \in same /\ \A j \in same : i <= j
<1>1. PICK R : s \in Seq(R) BY DEF ListFits
<1>2. Place(s, name) = IF same = {} THEN Len(s) + 1 ELSE CHOOSE i \in same : \A j \in same : i <= j BY DEF Place
<1>3. CASE same = {} BY <1>2, <1>3
<1>4. CASE same # {}
  <2>1. same \in SUBSET Nat BY <1>1
  <2>2. \E i \in same : \A j \in same : i <= j
    <3> HIDE DEF same
    <3> QED BY <1>4, <2>1, SmallestIs
  <2>3. Place(s, name) \in same
    <3> HIDE DEF same
    <3> QED BY <1>2, <1>4, <2>2
  <2> QED BY <2>3
<1> QED BY <1>3, <1>4

\* Saving leaves one sequence of each name.
LEMMA ListSaved ==
    ASSUME NEW s, ListFits(s), NEW e, MaySave(s, e)
    PROVE  ListFits(SavedAs(s, e))
<1>1. PICK R : s \in Seq(R) BY DEF ListFits
<1> DEFINE p == Place(s, e.name)
           n == Len(s)
           m == IF p > n THEN n + 1 ELSE n
           t == [i \in 1..m |-> IF i = p THEN e ELSE s[i]]
<1>2. n \in Nat /\ DOMAIN s = 1..n /\ \A i \in 1..n : s[i] \in R BY <1>1
<1>3. SavedAs(s, e) = t BY DEF SavedAs
<1>4. \/ p \in 1..n /\ Decodes(s[p]) /\ s[p].name = e.name
      \/ p = n + 1 /\ \A i \in 1..n : Decodes(s[i]) => s[i].name # e.name BY <1>2, EditorPlace
<1> HIDE DEF p
<1>5. m \in Nat /\ p \in 1..m /\ \A i \in 1..m : i # p => i \in 1..n BY <1>2, <1>4
<1>6. Decodes(e)
  <2>1. Valid(e) BY DEF MaySave
  <2>2. ~Valid(Garbled)
    <3>1. Garbled.steps = <<>> /\ Len(<<>>) = 0 /\ 0 \notin 1..MaxRows BY DEF Garbled
    <3> QED BY <3>1 DEF Valid
  <2> QED BY <2>1, <2>2 DEF Decodes
<1>7. m <= MaxSaved
  <2>1. MaxSaved \in Nat /\ n <= MaxSaved BY ToolboxAssumption DEF ListFits, SequenceEditorAssumption
  <2>2. p <= n \/ n < MaxSaved BY DEF MaySave, p
  <2> QED BY <1>2, <1>4, <2>1, <2>2
<1> HIDE DEF m
<1>8. t \in Seq(R \cup {e}) BY <1>2, <1>5
<1>9. DOMAIN t = 1..m /\ Len(t) = m /\ t[p] = e /\ \A i \in 1..m : i # p => t[i] = s[i] BY <1>5
<1> HIDE DEF t
<1>10. Distinct(t)
  <2> SUFFICES ASSUME NEW i \in 1..m, NEW j \in 1..m, Decodes(t[i]), Decodes(t[j]),
                      t[i].name = t[j].name
               PROVE  i = j BY <1>9 DEF Distinct
  <2>1. ASSUME NEW k \in 1..m, k # p, Decodes(t[k]), t[k].name = e.name
        PROVE  FALSE
    <3>1. k \in 1..n /\ t[k] = s[k] BY <1>5, <1>9, <2>1
    <3>2. p \in 1..n /\ Decodes(s[p]) /\ s[p].name = e.name BY <1>4, <2>1, <3>1
    <3>3. k = p BY <1>2, <2>1, <3>1, <3>2 DEF ListFits, Distinct
    <3> QED BY <2>1, <3>3
  <2>2. CASE i = p \/ j = p BY <1>9, <2>1, <2>2
  <2>3. CASE i # p /\ j # p
    <3>1. i \in 1..n /\ t[i] = s[i] /\ j \in 1..n /\ t[j] = s[j] BY <1>5, <1>9, <2>3
    <3> QED BY <1>2, <3>1 DEF ListFits, Distinct
  <2> QED BY <2>2, <2>3
<1>11. \A i \in DOMAIN t : Decodes(t[i]) \/ t[i] = Garbled
  <2> SUFFICES ASSUME NEW i \in 1..m PROVE Decodes(t[i]) \/ t[i] = Garbled BY <1>9
  <2>1. CASE i = p BY <1>6, <1>9, <2>1
  <2>2. CASE i # p BY <1>2, <1>5, <1>9, <2>2 DEF ListFits
  <2> QED BY <2>1, <2>2
<1>12. Len(t) <= MaxSaved BY <1>7, <1>9
<1> QED BY <1>3, <1>8, <1>10, <1>11, <1>12 DEF ListFits

\* A list that was just shown is what is shown of it.
LEMMA EditorRefreshed ==
    ASSUME NEW e, EditorShape(e), ListFits(e.saved), NEW index
    PROVE  EditorFits(Refreshed(e, index)) /\ Refreshed(e, index).saved = e.saved
<1> DEFINE names == NamesOf(e.saved)
           selected == IF e.saved = <<>> THEN 0 ELSE index
           new == FALSE
           w == [e EXCEPT !.shown = names, !.stale = new, !.selected = selected]
<1>1. Refreshed(e, index) = w BY DEF Refreshed
<1>2. names = NamesOf(e.saved) OBVIOUS
<1> HIDE DEF names, selected, new
<1>3. EditorShape(w) /\ w.saved = e.saved /\ w.shown = names
  <2> DEFINE u == [e EXCEPT !.shown = names]
             v == [u EXCEPT !.stale = new]
  <2>1. w = [v EXCEPT !.selected = selected] OBVIOUS
  <2> HIDE DEF w
  <2>2. EditorShape(u) /\ u.saved = e.saved /\ u.shown = names BY DEF EditorShape
  <2> HIDE DEF u
  <2>3. EditorShape(v) /\ v.saved = u.saved /\ v.shown = u.shown BY <2>2 DEF EditorShape
  <2> HIDE DEF v
  <2> QED BY <2>1, <2>2, <2>3 DEF EditorShape
<1> HIDE DEF w
<1> QED BY <1>1, <1>2, <1>3 DEF EditorFits

\* An editor that closes forgets its draft, and the list stays.
LEMMA EditorClosed ==
    ASSUME NEW s, ListFits(s)
    PROVE  EditorFits(Closed(s)) BY DEF Closed, EditorFits, EditorShape

\* The user edits the draft, and what is shown of the list stays so.
LEMMA EditorDrafts ==
    ASSUME EditorInv, EditorShape(editor'), editor'.saved = editor.saved, editor'.open = editor.open,
           editor'.stale = editor.stale, editor'.shown = editor.shown
    PROVE  EditorInv' /\ SavedStays
<1>1. EditorInv' BY DEF EditorInv, EditorFits
<1>2. SavedStays BY DEF SavedStays, ToSet
<1> QED BY <1>1, <1>2

\* Deleting takes the one that is selected, and what is shown there.
LEMMA EditorDeletes ==
    ASSUME EditorInv, Delete, editor'.saved = RemoveAt(editor.saved, editor.selected)
    PROVE  SavedStays
<1> DEFINE i == editor.selected
           s == editor.saved
           t == RemoveAt(s, i)
<1>1. PICK R : s \in Seq(R) BY DEF EditorInv, EditorFits, ListFits
<1>2. editor.open /\ i \in DOMAIN s /\ Lacks(t, s, R, i) BY <1>1 DEF Delete, Lacks, RemoveAt
<1>3. Len(s) \in Nat /\ Len(t) = Len(s) - 1 BY <1>1, <1>2, RemovedIs
<1>4. editor.stale \/ editor.shown[i] = s[i].name BY <1>2 DEF EditorInv, EditorFits, NamesOf
<1>5. \A j \in DOMAIN s : j # i => s[j] \in ToSet(t) BY <1>2, OthersStay
<1> HIDE DEF t
<1>6. Deletes(i) BY <1>3, <1>4 DEF Deletes, t
<1> QED BY <1>5, <1>6 DEF SavedStays, t

\* Saving takes nothing but the one of the draft's name.
LEMMA EditorSaves ==
    ASSUME EditorInv, Save, editor'.saved = SavedAs(editor.saved, Draft(editor))
    PROVE  SavedStays
<1> DEFINE s == editor.saved
           d == Draft(editor)
           p == Place(s, d.name)
           n == Len(s)
           m == IF p > n THEN n + 1 ELSE n
           t == [i \in 1..m |-> IF i = p THEN d ELSE s[i]]
<1>1. PICK R : s \in Seq(R) BY DEF EditorInv, EditorFits, ListFits
<1>2. n \in Nat /\ DOMAIN s = 1..n BY <1>1
<1>3. (p \in 1..n /\ s[p].name = d.name) \/ p = n + 1 BY <1>2, EditorPlace DEF EditorInv, EditorFits
<1>4. d.name = editor.name BY DEF Draft
<1>5. editor'.saved = t BY DEF SavedAs
<1> HIDE DEF p, d
<1>6. p \in 1..m /\ \A j \in 1..n : j \in 1..m BY <1>2, <1>3
<1>7. d \in ToSet(t) /\ \A j \in 1..n : j # p => s[j] \in ToSet(t) BY <1>6 DEF ToSet
<1> HIDE DEF t
<1> QED BY <1>2, <1>3, <1>4, <1>5, <1>7 DEF SavedStays, Saves, d

\* Every step keeps the list and what is shown of it, and takes no more than was asked.
LEMMA EditorStep ==
    ASSUME EditorInv, [EditorNext]_editor
    PROVE  EditorInv' /\ SavedStays
<1>1. EditorShape(editor) /\ ListFits(editor.saved) BY DEF EditorInv, EditorFits
<1>2. CASE Close BY <1>1, <1>2, EditorClosed DEF Close, EditorInv, Closed, SavedStays, ToSet
<1>3. CASE EditorAdd \/ Load BY <1>1, <1>3, EditorDrafts DEF EditorAdd, Load, EditorShape
<1>4. CASE Delete
  <2> DEFINE saved == RemoveAt(editor.saved, editor.selected)
             e == [editor EXCEPT !.saved = saved]
  <2>1. ListFits(saved) BY <1>1, <1>4, ListRemoved DEF Delete
  <2>2. editor' = Refreshed(e, 1) BY <1>4 DEF Delete, Deleted
  <2> HIDE DEF saved
  <2>3. EditorShape(e) /\ e.saved = saved BY <1>1 DEF EditorShape
  <2>4. EditorInv' /\ editor'.saved = saved BY <2>1, <2>2, <2>3, EditorRefreshed DEF EditorInv
  <2> QED BY <1>4, <2>4, EditorDeletes DEF saved
<1>5. CASE Save
  <2> DEFINE d == Draft(editor)
             saved == SavedAs(editor.saved, d)
             e == [editor EXCEPT !.saved = saved]
  <2>1. ListFits(saved) BY <1>1, <1>5, ListSaved DEF Save
  <2>2. editor' = Refreshed(e, Place(editor.saved, d.name)) BY <1>5 DEF Save
  <2> HIDE DEF saved, d
  <2>3. EditorShape(e) /\ e.saved = saved BY <1>1 DEF EditorShape
  <2>4. EditorInv' /\ editor'.saved = saved BY <2>1, <2>2, <2>3, EditorRefreshed DEF EditorInv
  <2> QED BY <1>5, <2>4, EditorSaves DEF saved, d
<1>6. CASE EditedElsewhere
  <2>1. ASSUME NEW saved, ListFits(saved), editor' = [editor EXCEPT !.saved = saved, !.stale = editor.open]
        PROVE  EditorInv' /\ SavedStays
    <3>1. EditorShape(editor') /\ editor'.saved = saved /\ editor'.open = editor.open /\ editor'.stale = editor.open
        BY <1>1, <2>1 DEF EditorShape
    <3> QED BY <2>1, <3>1 DEF EditorInv, EditorFits, SavedStays, OwnStep
  <2>2. CASE \E i \in DOMAIN editor.saved :
                editor' = [editor EXCEPT !.saved = RemoveAt(editor.saved, i), !.stale = editor.open]
      BY <1>1, <2>1, <2>2, ListRemoved
  <2>3. ASSUME NEW name \in Name, NEW s, MaySave(editor.saved, s),
               editor' = [editor EXCEPT !.saved = SavedAs(editor.saved, s), !.stale = editor.open]
        PROVE  EditorInv' /\ SavedStays BY <1>1, <2>1, <2>3, ListSaved
  <2> QED BY <1>6, <2>2, <2>3 DEF EditedElsewhere
<1>7. ASSUME NEW name \in Name, Open(name)
      PROVE  EditorInv' /\ SavedStays
  <2> DEFINE rows == <<Fresh>>
             yes == TRUE
             e == [editor EXCEPT !.open = yes, !.name = name, !.rows = rows]
  <2>1. editor' = Refreshed(e, 1) BY <1>7 DEF Open
  <2> HIDE DEF rows, yes
  <2>2. EditorShape(e) /\ e.saved = editor.saved
    <3> DEFINE u == [editor EXCEPT !.open = yes]
               v == [u EXCEPT !.name = name]
    <3>1. e = [v EXCEPT !.rows = rows] OBVIOUS
    <3> HIDE DEF e
    <3>2. EditorShape(u) /\ u.saved = editor.saved BY <1>1 DEF EditorShape
    <3> HIDE DEF u
    <3>3. EditorShape(v) /\ v.saved = u.saved BY <3>2 DEF EditorShape
    <3> HIDE DEF v
    <3> QED BY <3>1, <3>2, <3>3 DEF EditorShape
  <2> HIDE DEF e
  <2>3. EditorInv' BY <1>1, <2>1, <2>2, EditorRefreshed DEF EditorInv
  <2> QED BY <1>7, <2>3 DEF Open, SavedStays, OwnStep
<1>8. ASSUME NEW name \in Name, Rename(name) \/ EditorNew(name)
      PROVE  EditorInv' /\ SavedStays BY <1>1, <1>8, EditorDrafts DEF Rename, EditorNew, EditorShape
<1>9. ASSUME NEW i, Select(i) \/ RemoveRow(i)
      PROVE  EditorInv' /\ SavedStays BY <1>1, <1>9, EditorDrafts DEF Select, RemoveRow, EditorShape
<1>10. ASSUME NEW i, NEW j, Move(i, j)
       PROVE  EditorInv' /\ SavedStays
  <2> DEFINE first == [editor EXCEPT !.rows[i] = editor.rows[j]]
             second == [first EXCEPT !.rows[j] = editor.rows[i]]
  <2>1. editor' = second BY <1>10 DEF Move
  <2>2. ASSUME NEW e, EditorShape(e), NEW k, NEW r
        PROVE  /\ EditorShape([e EXCEPT !.rows[k] = r]) /\ [e EXCEPT !.rows[k] = r].saved = e.saved
               /\ [e EXCEPT !.rows[k] = r].open = e.open /\ [e EXCEPT !.rows[k] = r].stale = e.stale
               /\ [e EXCEPT !.rows[k] = r].shown = e.shown
    <3> DEFINE rows == [e.rows EXCEPT ![k] = r]
    <3>1. [e EXCEPT !.rows[k] = r] = [e EXCEPT !.rows = rows] OBVIOUS
    <3> HIDE DEF rows
    <3> QED BY <2>2, <3>1 DEF EditorShape
  <2>3. /\ EditorShape(first) /\ first.saved = editor.saved /\ first.open = editor.open
        /\ first.stale = editor.stale /\ first.shown = editor.shown BY <1>1, <2>2
  <2> HIDE DEF first
  <2>4. /\ EditorShape(second) /\ second.saved = first.saved /\ second.open = first.open
        /\ second.stale = first.stale /\ second.shown = first.shown BY <2>2, <2>3
  <2> QED BY <2>1, <2>3, <2>4, EditorDrafts
<1>11. ASSUME NEW i, NEW step, Edit(i, step)
       PROVE  EditorInv' /\ SavedStays
  <2>1. \E rows : editor' = [editor EXCEPT !.rows = rows] BY <1>11 DEF Edit
  <2> QED BY <1>1, <2>1, EditorDrafts DEF EditorShape
<1>12. CASE UNCHANGED editor BY <1>1, <1>12, EditorDrafts
<1> QED BY <1>2, <1>3, <1>4, <1>5, <1>6, <1>7, <1>8, <1>9, <1>10, <1>11, <1>12 DEF EditorNext

\* The list is empty or has something that does not decode.
LEMMA EditorStart ==
    ASSUME EditorInit
    PROVE  EditorInv
<1> DEFINE g == <<Garbled>>
<1>1. ListFits(<<>>)
  <2>1. <<>> \in Seq({}) /\ Len(<<>>) = 0 /\ DOMAIN <<>> = {} /\ MaxSaved \in Nat
      BY ToolboxAssumption DEF SequenceEditorAssumption
  <2> QED BY <2>1 DEF ListFits, Distinct
<1>2. ListFits(g)
  <2>1. g \in Seq({Garbled}) /\ Len(g) = 1 /\ DOMAIN g = 1..1 /\ g[1] = Garbled
        /\ MaxSaved \in Nat \ {0} BY ToolboxAssumption DEF SequenceEditorAssumption
  <2> HIDE DEF g
  <2>2. Distinct(g) BY <2>1 DEF Distinct
  <2>3. Len(g) <= MaxSaved BY <2>1
  <2> QED BY <2>1, <2>2, <2>3 DEF ListFits
<1> QED BY <1>1, <1>2, EditorClosed DEF EditorInit, EditorInv

\* The list is as claimed.
LEMMA EditorGood ==
    ASSUME EditorInv
    PROVE  EditorSound
<1>1. NamesUnique BY DEF EditorInv, EditorFits, ListFits, Distinct, NamesUnique
<1>2. SelectsShown BY DEF EditorInv, EditorFits, SelectsShown
<1> QED BY <1>1, <1>2 DEF EditorSound

\* For any names and limits: a name finds one saved sequence, whichever editors saved it,
\* and an editor shows the list it acts on unless another one changed it meanwhile
\* (sequence_ui.h: sequence_action, sequence_refresh_saved).
THEOREM SequencesKept == EditorSpec => []EditorSound
<1>1. EditorInit => EditorInv BY EditorStart
<1>2. EditorInv /\ [EditorNext]_editor => EditorInv' BY EditorStep
<1>3. EditorInv => EditorSound BY EditorGood
<1> QED BY <1>1, <1>2, <1>3, PTL DEF EditorSpec

\* For any names and limits: no step of an editor takes a saved sequence from the list but
\* the one that its draft of the same name replaces and, deleting, the one in the place
\* selected, which is the one shown as selected unless another editor changed the list
\* after it was shown (sequence_ui.h: sequence_action).
THEOREM SavedSequencesStay == EditorSpec => SavedStay
<1>1. EditorInit => EditorInv BY EditorStart
<1>2. EditorInv /\ [EditorNext]_editor => EditorInv' BY EditorStep
<1>3. EditorInv /\ [EditorNext]_editor => [SavedStays]_editor BY EditorStep
<1> QED BY <1>1, <1>2, <1>3, PTL DEF EditorSpec, SavedStay

-----------------------------------------------------------------------------
(* Mqtt: every request of a client has an identifier of its own, that the       *)
(* broker still owes an answer to, or whose answer was received and not read.   *)

\* The shape of a client; the broker owes each answer once.
AskedOnce == {SetToBag(S) : S \in SUBSET Ack}
Client == [status : {"none", "connecting", "ready", "closed"}, connectSent : BOOLEAN,
           received : Seq(Packet), pending : SUBSET Ack, packetId : 0..MaxId,
           lateStart : BOOLEAN, silent : BOOLEAN, idle : BOOLEAN, asked : AskedOnce,
           welcomed : BOOLEAN, honest : BOOLEAN,
           reason : {"none", "refused", "malformed", "full", "overflow", "lost", "timeout"},
           window : {"open", "gone"}]

\* What a client waits for, an honest broker still owes or it was received.
Owed(m) ==
    /\ BagToSet(m.asked) \subseteq m.pending
    /\ \A i \in 1..Len(m.received) : m.received[i] \in Ack =>
           m.received[i] \in m.pending /\ m.received[i] \notin BagToSet(m.asked)
    /\ \A i, j \in 1..Len(m.received) :
           m.received[i] \in Ack /\ m.received[i] = m.received[j] => i = j

\* An honest broker greets a client first, and once.
Greeting(p) == p.kind \in {"accepted", "refused"}
Greeted(m) ==
    /\ m.status = "ready" => m.welcomed
    /\ m.status = "connecting" =>
           /\ BagToSet(m.asked) = {}
           /\ m.welcomed <=> m.received # <<>>
           /\ m.received # <<>> => Greeting(m.received[1])
    /\ \A i \in 1..Len(m.received) :
           /\ m.received[i].kind # "malformed"
           /\ Greeting(m.received[i]) => i = 1 /\ m.status = "connecting"

ClientSound(m) ==
    /\ m \in Client
    /\ IsFiniteSet(m.pending)
    /\ \A p, q \in m.pending : p.id = q.id => p = q
    /\ m.reason = "malformed" => ~m.honest
    /\ LiveClient(m) /\ m.honest => Owed(m) /\ Greeted(m)

MqttInv == ClientSound(mqtt)

\* A broker that was asked nothing owes nothing.
LEMMA NoneAsked == EmptyBag \in AskedOnce /\ BagToSet(EmptyBag) = {} BY SingleBag DEF EmptyBag, AskedOnce

\* A new client, and a window without one, are sound.
LEMMA ClientStarts ==
    ASSUME NEW window \in {"open", "gone"}, MqttAssumption
    PROVE  ClientSound(NewClient(window)) /\ ClientSound(NoClient(window))
<1>1. IsFiniteSet({}) BY FS_EmptySet
<1>2. 0 \in 0..MaxId /\ <<>> \in Seq(Packet) /\ {} \in SUBSET Ack /\ EmptyBag \in AskedOnce
    BY NoneAsked DEF MqttAssumption
<1>3. NewClient(window) \in Client BY <1>2 DEF Client, NewClient
<1>4. NoClient(window) \in Client BY <1>3 DEF Client, NoClient
<1> QED BY <1>1, <1>2, <1>3, <1>4, NoneAsked DEF ClientSound, NewClient, NoClient, LiveClient, Owed, Greeted, Greeting

\* So is a client that closed, for malformed packets if its broker was not honest.
LEMMA ClientCloses ==
    ASSUME NEW m, ClientSound(m), MqttAssumption,
           NEW reason \in {"refused", "malformed", "full", "overflow", "lost", "timeout"},
           reason = "malformed" => ~m.honest
    PROVE  ClientSound(CloseMqtt(m, reason))
<1>1. IsFiniteSet({}) BY FS_EmptySet
<1> DEFINE c == [NewClient(m.window) EXCEPT !.status = "closed", !.reason = reason, !.honest = m.honest]
<1>2. m.window \in {"open", "gone"} /\ m.honest \in BOOLEAN BY DEF ClientSound, Client
<1>3. NewClient(m.window) \in Client /\ NewClient(m.window).pending = {}
    BY <1>2, ClientStarts DEF ClientSound, NewClient
<1>4. c \in Client /\ c.status = "closed" /\ c.reason = reason /\ c.honest = m.honest /\ c.pending = {}
    BY <1>2, <1>3 DEF Client
<1>5. ClientSound(c)
  <2> HIDE DEF c
  <2> QED BY <1>1, <1>4 DEF ClientSound, LiveClient
<1> QED BY <1>5 DEF CloseMqtt

\* A packet that was received is taken.
LEMMA PacketTaken ==
    ASSUME NEW m, ClientSound(m), m.received # <<>>
    PROVE  LET p == Head(m.received)
               rest == [m EXCEPT !.received = Tail(@)]
           IN /\ p = m.received[1] /\ p \in Packet
              /\ rest \in Client /\ 1 \in 1..Len(m.received)
              /\ \A i \in 1..Len(rest.received) :
                     i + 1 \in 1..Len(m.received) /\ rest.received[i] = m.received[i + 1]
<1> DEFINE s == m.received
           rest == [m EXCEPT !.received = Tail(@)]
<1>1. s \in Seq(Packet) /\ s # <<>> /\ m \in Client BY DEF ClientSound, Client
<1>2. Head(s) = s[1] /\ Tail(s) \in Seq(Packet) /\ Len(s) \in Nat \ {0} /\ Len(Tail(s)) = Len(s) - 1 BY <1>1
<1>3. \A i \in 1..Len(Tail(s)) : Tail(s)[i] = s[i + 1] BY <1>1
<1>4. s[1] \in Packet BY <1>1, <1>2
<1>5. rest \in Client /\ rest.received = Tail(s) BY <1>1, <1>2 DEF Client
<1> QED BY <1>2, <1>3, <1>4, <1>5

\* What is owed after a packet was taken: it may be an answer.
LEMMA OwedLater ==
    ASSUME NEW m, m \in Client, Owed(m), NEW y, y \in Client, y.asked = m.asked,
           1 \in 1..Len(m.received),
           \A i \in 1..Len(y.received) :
               i + 1 \in 1..Len(m.received) /\ y.received[i] = m.received[i + 1],
           \/ y.pending = m.pending
           \/ m.received[1] \in Ack /\ y.pending = m.pending \ {m.received[1]}
    PROVE  Owed(y)
<1> DEFINE s == m.received
           t == y.received
<1>1. Len(s) \in Nat /\ Len(t) \in Nat BY DEF Client
<1>2. s[1] \in Ack => s[1] \notin BagToSet(m.asked) BY DEF Owed
<1>3. BagToSet(y.asked) \subseteq y.pending BY <1>2 DEF Owed
<1>4. ASSUME NEW i \in 1..Len(t), t[i] \in Ack
      PROVE  t[i] \in y.pending /\ t[i] \notin BagToSet(y.asked)
  <2>1. i + 1 # 1 /\ i + 1 \in 1..Len(s) /\ s[i + 1] = t[i] BY <1>1
  <2>2. s[i + 1] \in m.pending /\ s[i + 1] \notin BagToSet(m.asked) BY <2>1, <1>4 DEF Owed
  <2>3. s[i + 1] # s[1] BY <2>1, <1>4 DEF Owed
  <2> QED BY <2>1, <2>2, <2>3
<1>5. ASSUME NEW i \in 1..Len(t), NEW j \in 1..Len(t), t[i] \in Ack, t[i] = t[j]
      PROVE  i = j
  <2>1. i + 1 \in 1..Len(s) /\ s[i + 1] = t[i] /\ j + 1 \in 1..Len(s) /\ s[j + 1] = t[j] OBVIOUS
  <2>2. i + 1 = j + 1 BY <2>1, <1>5 DEF Owed
  <2> QED BY <2>2, <1>1
<1> QED BY <1>3, <1>4, <1>5 DEF Owed

\* One packet is handled: an honest broker never sends what the client cannot take.
LEMMA HandleSound ==
    ASSUME NEW m, ClientSound(m), LiveClient(m), m.received # <<>>, MqttAssumption, NEW x \in Handle(m)
    PROVE  ClientSound(x)
<1> DEFINE p == Head(m.received)
           rest == [m EXCEPT !.received = Tail(@)]
<1>1. /\ p = m.received[1] /\ p \in Packet
      /\ rest \in Client /\ 1 \in 1..Len(m.received)
      /\ \A i \in 1..Len(rest.received) :
             i + 1 \in 1..Len(m.received) /\ rest.received[i] = m.received[i + 1] BY PacketTaken
<1>2. m \in Client /\ m.received \in Seq(Packet) /\ rest.pending = m.pending /\ rest.asked = m.asked
      /\ rest.honest = m.honest /\ rest.welcomed = m.welcomed /\ rest.status = m.status
      /\ rest.reason = m.reason BY DEF ClientSound, Client
<1>3. CASE m.status = "connecting" /\ p.kind = "accepted"
  <2> DEFINE y == [rest EXCEPT !.status = "ready", !.lateStart = FALSE]
  <2>1. x = y BY <1>3 DEF Handle
  <2>2. y \in Client /\ y.status = "ready" /\ y.pending = m.pending /\ y.asked = m.asked /\ y.honest = m.honest
        /\ y.welcomed = m.welcomed /\ y.received = rest.received /\ y.reason = m.reason
      BY <1>1, <1>2 DEF Client
  <2> HIDE DEF y, rest, p
  <2>3. ASSUME m.honest PROVE Owed(y) /\ Greeted(y)
    <3>1. Owed(m) /\ Greeted(m) BY <2>3 DEF ClientSound
    <3>2. Owed(y) BY <3>1, <1>1, <1>2, <2>2, OwedLater
    <3>3. Greeted(y) BY <3>1, <1>1, <1>3, <2>2 DEF Greeted, Greeting
    <3> QED BY <3>2, <3>3
  <2> QED BY <2>1, <2>2, <2>3 DEF ClientSound
<1>4. CASE m.status = "connecting" /\ p.kind = "refused"
  <2>1. x = CloseMqtt(m, "refused") BY <1>4 DEF Handle
  <2> QED BY <2>1, ClientCloses
<1>5. CASE m.status = "ready" /\ p \in m.pending
  <2> DEFINE y == [rest EXCEPT !.pending = @ \ {p}]
  <2>0. p \in Ack /\ p.kind \in Answer BY <1>2, <1>5 DEF Client, Ack
  <2>1. x = y BY <1>5, <2>0 DEF Handle, Answer
  <2>2. y \in Client /\ y.status = "ready" /\ y.pending = m.pending \ {p} /\ y.asked = m.asked /\ y.honest = m.honest
        /\ y.welcomed = m.welcomed /\ y.received = rest.received /\ y.reason = m.reason
      BY <1>1, <1>2, <1>5 DEF Client
  <2> HIDE DEF y, rest, p
  <2>3. ASSUME m.honest PROVE Owed(y) /\ Greeted(y)
    <3>1. Owed(m) /\ Greeted(m) BY <2>3 DEF ClientSound
    <3>2. Owed(y) BY <3>1, <1>1, <1>2, <2>0, <2>2, OwedLater
    <3>3. Greeted(y) BY <3>1, <1>1, <1>5, <2>2 DEF Greeted, Greeting
    <3> QED BY <3>2, <3>3
  <2>4. IsFiniteSet(y.pending) BY <2>2, FS_Subset DEF ClientSound
  <2> QED BY <2>1, <2>2, <2>3, <2>4 DEF ClientSound
<1>6. CASE m.status = "ready" /\ p \notin m.pending /\ p.kind \in {"message", "pong", "message1"}
  <2>1. x \in {rest, [rest EXCEPT !.idle = FALSE], CloseMqtt(m, "full")} BY <1>6 DEF Handle
  <2>2. ASSUME NEW y \in Client, y.status = m.status, y.pending = m.pending, y.asked = m.asked, y.honest = m.honest,
               y.welcomed = m.welcomed, y.received = rest.received, y.reason = m.reason
        PROVE  ClientSound(y)
    <3>1. ASSUME m.honest PROVE Owed(y) /\ Greeted(y)
      <4> HIDE DEF rest, p
      <4>1. Owed(m) /\ Greeted(m) BY <3>1 DEF ClientSound
      <4>2. Owed(y) BY <4>1, <1>1, <1>2, <2>2, OwedLater
      <4>3. Greeted(y) BY <4>1, <1>1, <1>6, <2>2 DEF Greeted, Greeting
      <4> QED BY <4>2, <4>3
    <3> QED BY <2>2, <3>1 DEF ClientSound
  <2>3. ClientSound(rest) BY <1>1, <1>2, <2>2
  <2> DEFINE z == [rest EXCEPT !.idle = FALSE]
  <2>4. z \in Client /\ z.status = m.status /\ z.pending = m.pending /\ z.asked = m.asked /\ z.honest = m.honest
        /\ z.welcomed = m.welcomed /\ z.received = rest.received /\ z.reason = m.reason
      BY <1>1, <1>2 DEF Client
  <2>5. ClientSound(z)
    <3> HIDE DEF z
    <3> QED BY <2>2, <2>4
  <2> QED BY <2>1, <2>3, <2>5, ClientCloses
<1>7. CASE ~m.honest /\ x = CloseMqtt(m, "malformed") BY <1>7, ClientCloses
<1>8. ASSUME m.honest
      PROVE  \/ m.status = "connecting" /\ p.kind \in {"accepted", "refused"}
             \/ m.status = "ready" /\ (p \in m.pending \/ p.kind \in {"message", "pong", "message1"})
  <2>1. Owed(m) /\ Greeted(m) BY <1>8 DEF ClientSound
  <2>2. p.kind # "malformed" /\ (p.kind \in {"accepted", "refused"} => m.status = "connecting")
      BY <1>1, <2>1 DEF Greeted, Greeting
  <2>3. CASE m.status = "connecting" BY <1>1, <2>1, <2>3 DEF Greeted, Greeting
  <2>4. CASE m.status = "ready" BY <1>1, <2>1, <2>2, <2>4 DEF Owed, Packet, Ack
  <2> QED BY <2>3, <2>4 DEF LiveClient
<1>9. \/ m.status = "connecting" /\ p.kind \in {"accepted", "refused"}
      \/ m.status = "ready" /\ (p \in m.pending \/ p.kind \in {"message", "pong", "message1"})
      \/ x = CloseMqtt(m, "malformed") BY DEF Handle
<1> QED BY <1>3, <1>4, <1>5, <1>6, <1>7, <1>8, <1>9

\* Parsing a few packets leaves the client sound.
LEMMA ParseSound ==
    ASSUME NEW m, ClientSound(m), MqttAssumption, NEW x \in ParsePackets(m)
    PROVE  ClientSound(x)
<1> DEFINE P(f) == f = [n \in 0..ParseBudget |-> IF n = 0 THEN {m} ELSE HandleNext(f[n - 1])]
           after == CHOOSE f : P(f)
           Good == {y \in Client : ClientSound(y)}
           D == SUBSET Good
           F == [n \in 1..ParseBudget |-> [S \in D |-> HandleNext(S)]]
<1>1. ParseBudget \in Nat BY DEF MqttAssumption
<1>2. \A y : ClientSound(y) => y \in Good BY DEF ClientSound
<1>3. ASSUME NEW S \in D PROVE HandleNext(S) \in D
  <2> SUFFICES ASSUME NEW y \in HandleNext(S) PROVE y \in Good OBVIOUS
  <2>1. PICK z \in S : y \in IF LiveClient(z) /\ z.received # <<>> THEN Handle(z) ELSE {z} BY DEF HandleNext
  <2>2. ClientSound(z) OBVIOUS
  <2> QED BY <1>2, <2>1, <2>2, HandleSound
<1>4. {m} \in D BY <1>2
<1> HIDE DEF D
<1>5. F \in [1..ParseBudget -> [D -> D]] BY <1>3
<1>6. PICK g \in [0..ParseBudget -> D] : Iterates(g, F, {m}, ParseBudget)
  <2> HIDE DEF F
  <2> QED BY <1>1, <1>4, <1>5, IteratesExist
<1>7. ASSUME NEW n \in 0..ParseBudget
      PROVE  g[n] = IF n = 0 THEN {m} ELSE HandleNext(g[n - 1])
  <2>1. CASE n = 0 BY <1>6, <2>1 DEF Iterates
  <2>2. CASE n # 0
    <3>1. n - 1 \in 0..ParseBudget /\ n \in 1..ParseBudget /\ g[n - 1] \in D BY <1>1, <2>2
    <3>2. F[n][g[n - 1]] = HandleNext(g[n - 1]) BY <3>1
    <3>3. g[n] = F[n][g[n - 1]]
      <4> HIDE DEF F
      <4> QED BY <1>6, <2>2 DEF Iterates
    <3> QED BY <2>2, <3>2, <3>3
  <2> QED BY <2>1, <2>2
<1>8. P(g) BY <1>7
<1>9. P(after)
  <2> HIDE DEF P
  <2> QED BY <1>8
<1> HIDE DEF after
<1>10. \A n \in 0..ParseBudget : after[n] = IF n = 0 THEN {m} ELSE HandleNext(after[n - 1]) BY <1>9
<1>11. \A n \in 0..ParseBudget : after[n] \in D
  <2>1. after[0] = {m} BY <1>1, <1>10
  <2>2. ASSUME NEW n \in 1..ParseBudget, after[n - 1] \in D PROVE after[n] \in D
    <3>1. n \in 0..ParseBudget /\ n # 0 BY <1>1
    <3>2. after[n] = HandleNext(after[n - 1]) BY <1>10, <3>1
    <3> QED BY <1>3, <2>2, <3>2
  <2>3. after[0] \in D BY <1>4, <2>1
  <2> QED BY <1>1, <2>2, <2>3, IteratesStay
<1>12. ParsePackets(m) = after[ParseBudget] BY DEF ParsePackets, after
<1>13. x \in Good BY <1>1, <1>11, <1>12 DEF D
<1> QED BY <1>13

\* What the broker sends, what it was asked for or not.
LEMMA SendsSound ==
    ASSUME NEW m, ClientSound(m), LiveClient(m), NEW p \in Packet, MqttAssumption
    PROVE  ClientSound(Sends(m, p)) /\ LiveClient(Sends(m, p))
<1> DEFINE s == m.received
           t == Append(s, p)
           sent == [m EXCEPT !.received = t]
           x == Sends(m, p)
<1>1. m \in Client /\ s \in Seq(Packet) /\ m.asked \in AskedOnce BY DEF ClientSound, Client
<1>2. t \in Seq(Packet) /\ Len(s) \in Nat /\ Len(t) = Len(s) + 1 /\ t[Len(s) + 1] = p
      /\ \A i \in 1..Len(s) : t[i] = s[i] BY <1>1
<1>3. sent \in Client BY <1>1, <1>2 DEF Client
<1> HIDE DEF t
<1>4. CASE ~(m.honest /\ Legal(m, p))
  <2>1. x = [sent EXCEPT !.honest = FALSE, !.welcomed = FALSE, !.asked = EmptyBag] BY <1>4 DEF Sends, t
  <2>2. x \in Client /\ ~x.honest /\ x.pending = m.pending /\ x.status = m.status
      BY <1>1, <1>3, <2>1, NoneAsked DEF Client
  <2> QED BY <2>2 DEF ClientSound, LiveClient
<1>5. CASE m.honest /\ Legal(m, p)
  <2> DEFINE S == BagToSet(m.asked)
             asked == IF p \in Ack THEN m.asked (-) SetToBag({p}) ELSE m.asked
             welcomed == m.welcomed \/ Greeting(p)
  <2>1. Owed(m) /\ Greeted(m) BY <1>5 DEF ClientSound
  <2>2. p \in Ack => ~Greeting(p) /\ p.kind # "malformed" BY DEF Ack, Answer, Greeting
  <2>3. \/ Greeting(p) /\ p \notin Ack /\ ~m.welcomed
        \/ p \in Ack /\ p \in S
        \/ ~Greeting(p) /\ p \notin Ack /\ p.kind # "malformed" /\ m.welcomed
      BY <1>5, <2>2 DEF Legal, Greeting
  <2>4. asked \in AskedOnce /\ BagToSet(asked) = S \ {p}
    <3>1. PICK R \in SUBSET Ack : m.asked = SetToBag(R) BY <1>1 DEF AskedOnce
    <3>2. S = R BY <3>1, SingleBag
    <3>3. CASE p \in Ack
      <4>1. p \in R BY <2>2, <2>3, <3>2, <3>3
      <4>2. asked = SetToBag(R \ {p}) BY <3>1, <3>3, <4>1, SingleBag
      <4>3. BagToSet(asked) = R \ {p} /\ asked \in AskedOnce BY <4>2, SingleBag DEF AskedOnce
      <4> QED BY <3>2, <3>3, <4>3
    <3>4. CASE p \notin Ack
      <4>1. asked = m.asked /\ p \notin R BY <3>4
      <4> QED BY <1>1, <4>1, <3>2
    <3> QED BY <3>3, <3>4
  <2> DEFINE y == [sent EXCEPT !.welcomed = welcomed, !.asked = asked]
  <2>5. x = y BY <1>5 DEF Sends, Greeting, t
  <2> HIDE DEF asked, welcomed
  <2>6. y \in Client /\ y.received = t /\ y.welcomed = welcomed /\ y.asked = asked /\ y.pending = m.pending
        /\ y.status = m.status /\ y.honest = m.honest /\ y.reason = m.reason
    <3>1. welcomed \in BOOLEAN BY <1>1 DEF welcomed, Client, Greeting
    <3> QED BY <1>1, <1>3, <2>4, <3>1 DEF Client
  <2> HIDE DEF y, sent
  <2>7. p \in Ack => p \in S BY <2>2, <2>3
  <2>8. Owed(y)
    <3>1. BagToSet(y.asked) \subseteq y.pending BY <2>1, <2>4, <2>6 DEF Owed
    <3>2. ASSUME NEW i \in 1..Len(t), t[i] \in Ack PROVE t[i] \in m.pending /\ t[i] \notin BagToSet(asked)
      <4>1. CASE i = Len(s) + 1 BY <1>2, <2>1, <2>4, <2>7, <3>2, <4>1 DEF Owed
      <4>2. CASE i \in 1..Len(s) BY <1>2, <2>1, <2>4, <3>2, <4>2 DEF Owed
      <4> QED BY <1>2, <4>1, <4>2
    <3>3. ASSUME NEW i \in 1..Len(s), t[i] \in Ack PROVE t[i] # p BY <1>2, <2>1, <2>7, <3>3 DEF Owed
    <3>4. ASSUME NEW i \in 1..Len(t), NEW j \in 1..Len(t), t[i] \in Ack, t[i] = t[j] PROVE i = j
      <4>1. CASE i = Len(s) + 1 BY <1>2, <3>3, <3>4, <4>1
      <4>2. CASE j = Len(s) + 1 BY <1>2, <3>3, <3>4, <4>2
      <4>3. CASE i \in 1..Len(s) /\ j \in 1..Len(s) BY <1>2, <2>1, <3>4, <4>3 DEF Owed
      <4> QED BY <1>2, <4>1, <4>2, <4>3
    <3> QED BY <2>6, <3>1, <3>2, <3>4 DEF Owed
  <2>9. Greeted(y)
    <3>1. y.status = "ready" => y.welcomed BY <2>1, <2>6 DEF Greeted, welcomed
    <3>2. ASSUME y.status = "connecting"
          PROVE  BagToSet(asked) = {} /\ welcomed /\ t # <<>> /\ Greeting(t[1])
      <4>1. S = {} /\ (m.welcomed <=> s # <<>>) /\ (s # <<>> => Greeting(s[1])) BY <2>1, <2>6, <3>2 DEF Greeted
      <4>2. BagToSet(asked) = {} /\ welcomed BY <2>3, <2>4, <4>1 DEF welcomed
      <4>3. CASE s = <<>>
        <5>1. Len(s) = 0 /\ Greeting(p) BY <2>3, <4>1, <4>3
        <5> QED BY <1>2, <4>2, <5>1
      <4>4. CASE s # <<>>
        <5>1. 1 \in 1..Len(s) BY <1>1, <4>4
        <5> QED BY <1>2, <4>1, <4>2, <4>4, <5>1
      <4> QED BY <4>3, <4>4
    <3>3. ASSUME NEW i \in 1..Len(t)
          PROVE  t[i].kind # "malformed" /\ (Greeting(t[i]) => i = 1 /\ m.status = "connecting")
      <4>1. CASE i \in 1..Len(s) BY <1>2, <2>1, <4>1 DEF Greeted
      <4>2. CASE i = Len(s) + 1
        <5>1. p.kind # "malformed" BY <2>2, <2>3 DEF Greeting
        <5>2. ASSUME Greeting(p) PROVE m.status = "connecting" /\ Len(s) = 0
          <6>1. ~m.welcomed BY <2>2, <2>3, <5>2
          <6>2. m.status = "connecting" /\ s = <<>> BY <2>1, <6>1 DEF Greeted, LiveClient
          <6> QED BY <6>2
        <5> QED BY <1>2, <4>2, <5>1, <5>2
      <4> QED BY <1>2, <4>1, <4>2
    <3> QED BY <2>6, <3>1, <3>2, <3>3 DEF Greeted
  <2> QED BY <2>5, <2>6, <2>8, <2>9 DEF ClientSound, LiveClient
<1> QED BY <1>4, <1>5

\* And all that arrives at once.
LEMMA SentSound ==
    ASSUME NEW m, ClientSound(m), LiveClient(m), NEW k \in Nat, NEW chunk \in [1..k -> Packet], MqttAssumption
    PROVE  ClientSound(Sent(m, chunk)) /\ LiveClient(Sent(m, chunk))
<1> DEFINE P(f) == f = [i \in 0..k |-> IF i = 0 THEN m ELSE Sends(f[i - 1], chunk[i])]
           after == CHOOSE f : P(f)
           D == {y \in Client : ClientSound(y) /\ LiveClient(y)}
           F == [i \in 1..k |-> [y \in D |-> Sends(y, chunk[i])]]
<1>1. \A y : ClientSound(y) /\ LiveClient(y) <=> y \in D BY DEF ClientSound
<1>2. m \in D BY <1>1
<1>3. \A y \in D : \A i \in 1..k : Sends(y, chunk[i]) \in D BY <1>1, SendsSound
<1> HIDE DEF D
<1>4. F \in [1..k -> [D -> D]] BY <1>3
<1>5. PICK g \in [0..k -> D] : Iterates(g, F, m, k)
  <2> HIDE DEF F
  <2> QED BY <1>2, <1>4, IteratesExist
<1>6. ASSUME NEW i \in 0..k
      PROVE  g[i] = IF i = 0 THEN m ELSE Sends(g[i - 1], chunk[i])
  <2>1. CASE i = 0 BY <1>5, <2>1 DEF Iterates
  <2>2. CASE i # 0
    <3>1. i - 1 \in 0..k /\ i \in 1..k /\ g[i - 1] \in D BY <2>2
    <3>2. F[i][g[i - 1]] = Sends(g[i - 1], chunk[i]) BY <3>1
    <3>3. g[i] = F[i][g[i - 1]]
      <4> HIDE DEF F
      <4> QED BY <1>5, <2>2 DEF Iterates
    <3> QED BY <2>2, <3>2, <3>3
  <2> QED BY <2>1, <2>2
<1>7. P(g) BY <1>6
<1>8. P(after)
  <2> HIDE DEF P
  <2> QED BY <1>7
<1> HIDE DEF after
<1>9. \A i \in 0..k : after[i] = IF i = 0 THEN m ELSE Sends(after[i - 1], chunk[i]) BY <1>8
<1>10. \A i \in 0..k : after[i] \in D
  <2>1. after[0] = m BY <1>9
  <2>2. ASSUME NEW i \in 1..k, after[i - 1] \in D PROVE after[i] \in D
    <3>1. i \in 0..k /\ i # 0 OBVIOUS
    <3>2. after[i] = Sends(after[i - 1], chunk[i]) BY <1>9, <3>1
    <3> QED BY <1>3, <2>2, <3>2
  <2>3. after[0] \in D BY <1>2, <2>1
  <2> QED BY <2>2, <2>3, IteratesStay
<1>11. Len(chunk) = k OBVIOUS
<1>12. Sent(m, chunk) = after[k] BY <1>11 DEF Sent, after
<1> QED BY <1>1, <1>10, <1>12

\* What arrives is queued and parsed, or closes the client.
LEMMA ReceivePacketsSound ==
    ASSUME MqttInv, MqttAssumption, NEW k \in 1..MaxChunk, NEW chunk \in [1..k -> Packet], ReceivePackets(chunk)
    PROVE  MqttInv'
<1> DEFINE y == Sent(mqtt, chunk)
           m == [y EXCEPT !.silent = FALSE]
<1>1. LiveClient(mqtt) /\ ClientSound(mqtt) /\ k \in Nat BY DEF ReceivePackets, MqttInv, MqttAssumption
<1>2. ClientSound(y) /\ LiveClient(y) BY <1>1, SentSound
<1>3. m \in Client /\ m.received = y.received /\ m.pending = y.pending /\ m.asked = y.asked
      /\ m.honest = y.honest /\ m.welcomed = y.welcomed /\ m.status = y.status /\ m.reason = y.reason
    BY <1>2 DEF ClientSound, Client
<1>4. mqtt' = CloseMqtt(m, "overflow") \/ mqtt' \in ParsePackets(m) BY DEF ReceivePackets
<1> HIDE DEF m, y
<1>5. ClientSound(m) BY <1>2, <1>3 DEF ClientSound, LiveClient, Owed, Greeted
<1> QED BY <1>4, <1>5, ClientCloses, ParseSound DEF MqttInv

\* The number of a request is one that no other request waits with.
LEMMA NextIdFree ==
    ASSUME NEW m, ClientSound(m), CheckReady(m), MqttAssumption
    PROVE  NextId(m) \in 1..MaxId /\ \A r \in m.pending : r.id # NextId(m)
<1> DEFINE ids == {r.id : r \in m.pending}
           number(k) == (m.packetId + k) % (MaxId + 1)
           free == {k \in 1..(2 * (MaxId + 1)) : number(k) \notin ids \cup {0}}
<1>1. m.packetId \in 0..MaxId /\ MaxId \in Nat \ {0} /\ m.pending \subseteq Ack /\ IsFiniteSet(m.pending)
    BY DEF ClientSound, Client, MqttAssumption
<1>2. ids \subseteq 1..MaxId BY <1>1 DEF Ack
<1>3. IsFiniteSet(ids) /\ Cardinality(ids) <= Cardinality(m.pending)
  <2> DEFINE f == [r \in m.pending |-> r.id]
  <2>1. f \in Surjection(m.pending, ids) BY DEF Surjection
  <2> QED BY <1>1, <2>1, FS_Surjection
<1>4. PICK id \in 1..MaxId : id \notin ids
  <2> SUFFICES ASSUME 1..MaxId \subseteq ids PROVE FALSE OBVIOUS
  <2>1. Cardinality(1..MaxId) <= Cardinality(ids) BY <1>3, FS_Subset
  <2>2. Cardinality(1..MaxId) = MaxId BY <1>1, FS_Interval
  <2>3. Cardinality(m.pending) < MaxPendingRequests /\ MaxPendingRequests <= MaxId
      BY <1>1 DEF CheckReady, MqttAssumption
  <2>4. Cardinality(ids) \in Nat /\ Cardinality(m.pending) \in Nat BY <1>1, <1>3, FS_CardinalityType
  <2> QED BY <1>1, <1>3, <2>1, <2>2, <2>3, <2>4 DEF MqttAssumption
<1>5. \E k \in 1..(2 * (MaxId + 1)) : number(k) = id
  <2>1. CASE id > m.packetId
    <3>1. id - m.packetId \in 1..(2 * (MaxId + 1)) /\ m.packetId + (id - m.packetId) = id BY <1>1, <2>1
    <3>2. id % (MaxId + 1) = id BY <1>1
    <3> QED BY <3>1, <3>2
  <2>2. CASE id <= m.packetId
    <3> DEFINE k == id - m.packetId + (MaxId + 1)
    <3>1. k \in 1..(2 * (MaxId + 1)) /\ m.packetId + k = id + (MaxId + 1) BY <1>1, <2>2
    <3>2. (id + (MaxId + 1)) % (MaxId + 1) = id BY <1>1, Remainder
    <3> QED BY <3>1, <3>2
  <2> QED BY <1>1, <2>1, <2>2
<1>6. Min(free) \in free
  <2>1. free \subseteq Nat /\ free # {} BY <1>1, <1>4, <1>5
  <2> QED BY <2>1, SmallestIs
<1>7. NextId(m) = number(Min(free)) BY DEF NextId, NextFree
<1>8. NextId(m) \notin ids \cup {0} BY <1>6, <1>7
<1>9. NextId(m) \in 0..MaxId
  <2>1. Min(free) \in Nat BY <1>1, <1>6
  <2> HIDE DEF free
  <2> QED BY <1>1, <1>7, <2>1
<1> QED BY <1>1, <1>8, <1>9

\* What a change that only touches the clocks and the number leaves.
LEMMA SameClient ==
    ASSUME NEW m, ClientSound(m), NEW y \in Client, y.status = m.status, y.received = m.received,
           y.pending = m.pending, y.asked = m.asked, y.welcomed = m.welcomed, y.honest = m.honest,
           y.reason = m.reason
    PROVE  ClientSound(y) BY DEF ClientSound, LiveClient, Owed, Greeted

\* A request has its own number, and the broker owes its answer.
LEMMA RequestSound ==
    ASSUME MqttInv, MqttAssumption, NEW kind \in Answer, Request(kind)
    PROVE  MqttInv'
<1> DEFINE m == mqtt
           id == NextId(m)
           r == [kind |-> kind, id |-> id]
           numbered == [m EXCEPT !.packetId = id]
           pending == {q \in m.pending : q.id # id} \cup {r}
           asked == IF m.honest THEN m.asked (+) SetToBag({r}) ELSE m.asked
           y == [numbered EXCEPT !.pending = pending, !.idle = FALSE, !.asked = asked]
<1>1. ClientSound(m) /\ CheckReady(m) /\ m \in Client BY DEF MqttInv, ClientSound, Request
<1>2. id \in 1..MaxId /\ \A q \in m.pending : q.id # id BY <1>1, NextIdFree
<1>3. mqtt' \in {numbered, y} BY DEF Request
<1> HIDE DEF id
<1>4. numbered \in Client /\ id \in 0..MaxId BY <1>1, <1>2 DEF Client
<1>5. ClientSound(numbered)
  <2>1. numbered.status = m.status /\ numbered.received = m.received /\ numbered.pending = m.pending
        /\ numbered.asked = m.asked /\ numbered.welcomed = m.welcomed /\ numbered.honest = m.honest
        /\ numbered.reason = m.reason BY <1>1 DEF Client
  <2> HIDE DEF numbered, m
  <2> QED BY <1>1, <1>4, <2>1, SameClient
<1>6. r \in Ack /\ r \notin m.pending BY <1>2 DEF Ack
<1>7. pending = m.pending \cup {r} /\ pending \in SUBSET Ack /\ IsFiniteSet(pending)
  <2>1. pending = m.pending \cup {r} /\ m.pending \in SUBSET Ack /\ IsFiniteSet(m.pending)
      BY <1>1, <1>2 DEF ClientSound, Client
  <2> HIDE DEF pending
  <2> QED BY <1>6, <2>1, FS_AddElement
<1>8. asked \in AskedOnce /\ (m.honest => BagToSet(asked) = BagToSet(m.asked) \cup {r})
  <2>1. PICK S \in SUBSET Ack : m.asked = SetToBag(S) BY <1>1 DEF Client, AskedOnce
  <2>2. BagToSet(m.asked) = S BY <2>1, SingleBag
  <2>3. CASE m.honest
    <3>1. Owed(m) BY <1>1, <2>3 DEF ClientSound, LiveClient, CheckReady
    <3>2. r \notin S BY <1>6, <2>2, <3>1 DEF Owed
    <3>3. asked = SetToBag(S \cup {r}) BY <2>1, <2>3, <3>2, SingleBag
    <3>4. BagToSet(asked) = S \cup {r} /\ asked \in AskedOnce BY <1>6, <3>3, SingleBag DEF AskedOnce
    <3> QED BY <2>2, <3>4
  <2>4. CASE ~m.honest BY <1>1, <2>4 DEF Client
  <2> QED BY <2>3, <2>4
<1> HIDE DEF asked, pending
<1>9. /\ y \in Client /\ y.pending = pending /\ y.asked = asked /\ y.received = m.received
      /\ y.welcomed = m.welcomed /\ y.status = m.status /\ y.honest = m.honest /\ y.reason = m.reason
    BY <1>1, <1>4, <1>7, <1>8 DEF Client
<1> HIDE DEF y, numbered
<1>10. ClientSound(y)
  <2>1. \A p, q \in pending : p.id = q.id => p = q BY <1>1, <1>2, <1>7 DEF ClientSound
  <2>2. ASSUME m.honest PROVE Owed(y) /\ Greeted(y)
    <3>1. Owed(m) /\ Greeted(m) /\ m.status = "ready" BY <1>1, <2>2 DEF ClientSound, LiveClient, CheckReady
    <3>2. Owed(y) BY <1>6, <1>7, <1>8, <1>9, <2>2, <3>1 DEF Owed
    <3>3. Greeted(y) BY <1>9, <3>1 DEF Greeted
    <3> QED BY <3>2, <3>3
  <2> QED BY <1>1, <1>7, <1>9, <2>1, <2>2 DEF ClientSound
<1> QED BY <1>3, <1>5, <1>10 DEF MqttInv

\* Time, the timer, and the connection.
LEMMA ClockSound ==
    ASSUME MqttInv, MqttAssumption, LinkReady \/ LinkLost \/ Late \/ MqttTick \/ Publish
    PROVE  MqttInv'
<1> DEFINE m == mqtt
<1>1. ClientSound(m) /\ m \in Client BY DEF MqttInv, ClientSound
<1>2. ASSUME NEW y \in {[m EXCEPT !.idle = FALSE], [m EXCEPT !.lateStart = TRUE], [m EXCEPT !.silent = TRUE],
                        [m EXCEPT !.idle = TRUE], [m EXCEPT !.connectSent = TRUE, !.idle = FALSE]}
      PROVE  ClientSound(y)
  <2>1. /\ y \in Client /\ y.status = m.status /\ y.received = m.received /\ y.pending = m.pending
        /\ y.asked = m.asked /\ y.welcomed = m.welcomed /\ y.honest = m.honest /\ y.reason = m.reason
      BY <1>1 DEF Client
  <2> QED BY <1>1, <2>1, SameClient
<1>3. \A reason \in {"full", "lost", "timeout"} : ClientSound(CloseMqtt(m, reason)) BY <1>1, ClientCloses
<1>4. CASE LinkReady BY <1>2, <1>3, <1>4 DEF LinkReady, MqttInv
<1>5. CASE LinkLost BY <1>3, <1>5 DEF LinkLost, MqttInv
<1>6. CASE Late BY <1>2, <1>6 DEF Late, MqttInv
<1>7. CASE Publish BY <1>2, <1>7 DEF Publish, MqttInv
<1>8. CASE MqttTick
  <2>1. \A x \in Pinged(m) : ClientSound(x) BY <1>1, <1>2, <1>3 DEF Pinged
  <2>2. \A x \in Watch(m) : ClientSound(x)
    <3>1. CASE Overdue(m) BY <1>3, <3>1 DEF Watch
    <3>2. CASE ~Overdue(m) BY <2>1, <3>2, ParseSound DEF Watch
    <3> QED BY <3>1, <3>2
  <2> QED BY <1>8, <2>2 DEF MqttTick, MqttInv
<1> QED BY <1>4, <1>5, <1>6, <1>7, <1>8

\* The window starts without a client.
LEMMA MqttStart == ASSUME MqttAssumption, MqttInit PROVE MqttInv BY ClientStarts DEF MqttInit, MqttInv

\* Every step keeps the client sound.
LEMMA MqttStep == ASSUME MqttAssumption, MqttInv, [MqttNext]_mqtt PROVE MqttInv'
<1>1. CASE \E n \in 1..MaxChunk : \E chunk \in [1..n -> Packet] : ReceivePackets(chunk)
    BY <1>1, ReceivePacketsSound
<1>2. CASE LinkReady \/ LinkLost \/ Late \/ MqttTick \/ Publish BY <1>2, ClockSound
<1>3. CASE \E kind \in Answer : Request(kind) BY <1>3, RequestSound
<1>4. CASE ConnectMqtt \/ DisconnectMqtt \/ CloseMqttWindow
    BY <1>4, ClientStarts DEF ConnectMqtt, DisconnectMqtt, CloseMqttWindow, MqttInv
<1>5. CASE UNCHANGED mqtt BY <1>5 DEF MqttInv
<1> QED BY <1>1, <1>2, <1>3, <1>4, <1>5 DEF MqttNext

\* What the client claims is in the invariant.
LEMMA MqttGood == ASSUME MqttInv PROVE MqttSound
    BY DEF MqttInv, ClientSound, MqttSound, HonestIsServed, NothingForgotten, LiveClient, Owed

\* For any identifiers, limits and packets: a broker that answers what it was asked, once
\* and in any order, is never closed as malformed, and the table of a ready client has
\* every request it still owes an answer to (mqtt.c: next_id, take_ack, parse).
THEOREM BrokerServes == MqttSpec => []MqttSound
<1>1. MqttInit => MqttInv BY ToolboxAssumption, MqttStart
<1>2. MqttInv /\ [MqttNext]_mqtt => MqttInv' BY ToolboxAssumption, MqttStep
<1>3. MqttInv => MqttSound BY MqttGood
<1> QED BY <1>1, <1>2, <1>3, PTL DEF MqttSpec

-----------------------------------------------------------------------------
(* The analyzer: its log is the latest of the recording, and stays that when    *)
(* events are fed, since what is due follows the position without a gap, and    *)
(* when the oldest entries leave, since no later one does.                      *)

\* An event of a recording; the shapes of the log, the replay and the window.
Ref == (DOMAIN Recording) \X Nat
LogEntry == [id : Nat, text : Seq(Ref), hex : BOOLEAN]
Replay == [file : DOMAIN Recording \cup {""}, serial : Nat, index : Nat, virtual : 0..EndTime,
           elapsed : Nat, speed : Nat, paused : BOOLEAN, timer : BOOLEAN]
LoadOf == [serial : Nat, file : DOMAIN Recording]
AnalyzerView == [entries : Seq(LogEntry), line : Seq(Ref), nextId : Nat, behind : BOOLEAN,
                 replay : Replay, loads : SUBSET LoadOf, loadSerial : Nat, done : SUBSET Nat, clears : Nat,
                 pauseBox : BOOLEAN, speedBox : Nat, follow : BOOLEAN, rebuild : BOOLEAN,
                 filter : SUBSET Level, rows : Seq(LogEntry), window : BOOLEAN]

\* What was loaded, and what still will be: no result comes twice.
LoadsFit(v) ==
    /\ \A load \in v.loads : load.serial \in 1..v.loadSerial /\ load.serial \notin v.done
    /\ \A a, b \in v.loads : a.serial = b.serial => a = b
    /\ v.done \subseteq 1..v.loadSerial
    /\ v.window /\ v.loadSerial \in v.done => v.replay.serial = v.loadSerial
\* The replay is of a recording that was loaded.
ReplayFits(v) ==
    IF v.replay.file = "" THEN v.replay = NoReplay /\ v.entries = <<>> /\ v.line = <<>>
    ELSE /\ v.replay.serial \in v.done
         /\ v.replay.index <= Len(Recording[v.replay.file])
         /\ LatestOf(Texts(v), v.replay.file, v.replay.index)
         /\ \A p \in 1..Len(v.line) : Received(v.line[p])
\* Lines have the numbers they were given; those listed are or were in the log.
EntriesFit(v) ==
    /\ Len(v.entries) <= v.nextId
    /\ \A i \in 1..Len(v.entries) : v.entries[i].id = v.nextId - Len(v.entries) + i
    /\ \A i \in 1..Len(v.rows) : v.rows[i].id <= v.nextId
    /\ \A i \in 1..Len(v.rows) : \A j \in 1..Len(v.entries) :
           v.rows[i].id = v.entries[j].id => v.rows[i] = v.entries[j]
\* The limits of the log, and a list with nothing to rebuild.
WithinBoth(v) == Len(v.entries) <= MaxLines /\ LogBytes(v.entries) <= MaxBytes
RowsFit(v) == v.window /\ ~v.rebuild /\ ~v.behind => v.rows = Listed(v)

ViewSound(v) == /\ v \in AnalyzerView
                /\ LoadsFit(v) /\ ReplayFits(v) /\ EntriesFit(v) /\ WithinBoth(v) /\ RowsFit(v)
AnalyzerInv == ViewSound(analyzer)

-----------------------------------------------------------------------------
(* The clock of a replay *)

\* The time of a replay does not pass the end; one that is paused or was just anchored
\* shows its anchor.
LEMMA TimeIs ==
    ASSUME AnalyzerAssumption, NEW r \in Replay
    PROVE  /\ ReplayTime(r) \in 0..EndTime
           /\ r.paused \/ r.elapsed = 0 => ReplayTime(r) = r.virtual
<1>1. EndTime \in Nat /\ r.virtual \in 0..EndTime /\ r.elapsed \in Nat /\ r.speed \in Nat
    BY DEF AnalyzerAssumption, Replay
<1>2. r.elapsed * r.speed \in Nat /\ (r.elapsed = 0 => r.elapsed * r.speed = 0) BY <1>1
<1> DEFINE x == r.virtual + (IF r.paused THEN 0 ELSE r.elapsed * r.speed)
<1>3. x \in Nat BY <1>1, <1>2
<1>4. ReplayTime(r) = IF EndTime <= x THEN EndTime ELSE x BY <1>1, <1>3, LeastOfTwo DEF ReplayTime
<1> QED BY <1>1, <1>2, <1>3, <1>4

\* The clock that is anchored shows the time it showed.
LEMMA AnchoredTime ==
    ASSUME AnalyzerAssumption, NEW r \in Replay
    PROVE  Anchored(r) \in Replay /\ Anchored(r).virtual = ReplayTime(r) /\ Anchored(r).elapsed = 0
    BY TimeIs DEF Anchored, Replay

\* Another speed leaves the time, the file and the position (capture.c:
\* tio_replay_speed).
LEMMA FasterTime ==
    ASSUME AnalyzerAssumption, NEW r \in Replay, NEW speed \in Nat
    PROVE  /\ Faster(r, speed) \in Replay /\ ReplayTime(Faster(r, speed)) = ReplayTime(r)
           /\ Faster(r, speed).file = r.file /\ Faster(r, speed).index = r.index
           /\ Faster(r, speed).serial = r.serial /\ (r.file = "" => Faster(r, speed) = r)
<1>1. CASE r.file = "" BY <1>1 DEF Faster
<1>2. CASE r.file # ""
  <2> DEFINE a == Anchored(r)
             x == [a EXCEPT !.speed = speed]
  <2>1. a \in Replay /\ a.virtual = ReplayTime(r) /\ a.elapsed = 0
        /\ a.file = r.file /\ a.index = r.index /\ a.serial = r.serial
      BY AnchoredTime DEF Anchored, Replay
  <2>2. x \in Replay /\ x.virtual = ReplayTime(r) /\ x.elapsed = 0
        /\ x.file = r.file /\ x.index = r.index /\ x.serial = r.serial BY <2>1 DEF Replay
  <2>3. Faster(r, speed) = x BY <1>2 DEF Faster
  <2> HIDE DEF x
  <2> QED BY <1>2, <2>2, <2>3, TimeIs
<1> QED BY <1>1, <1>2

\* So does a pause, and its end (capture.c: tio_replay_pause).
LEMMA PausedTime ==
    ASSUME AnalyzerAssumption, NEW r \in Replay, NEW paused \in BOOLEAN
    PROVE  /\ Paused(r, paused) \in Replay /\ ReplayTime(Paused(r, paused)) = ReplayTime(r)
           /\ Paused(r, paused).file = r.file /\ Paused(r, paused).index = r.index
           /\ Paused(r, paused).serial = r.serial /\ (r.file = "" => Paused(r, paused) = r)
<1>1. CASE r.file = "" \/ r.paused = paused BY <1>1 DEF Paused
<1>2. CASE ~(r.file = "" \/ r.paused = paused)
  <2> DEFINE a == Anchored(r)
             timer == a.timer \/ (~paused /\ ~ReplayFinished(r))
             x == [a EXCEPT !.paused = paused, !.timer = timer]
  <2>1. a \in Replay /\ a.virtual = ReplayTime(r) /\ a.elapsed = 0
        /\ a.file = r.file /\ a.index = r.index /\ a.serial = r.serial
      BY AnchoredTime DEF Anchored, Replay
  <2>2. timer \in BOOLEAN BY <2>1 DEF Replay
  <2>3. x \in Replay /\ x.virtual = ReplayTime(r) /\ x.elapsed = 0
        /\ x.file = r.file /\ x.index = r.index /\ x.serial = r.serial BY <2>1, <2>2 DEF Replay
  <2>4. Paused(r, paused) = x BY <1>2 DEF Paused
  <2> HIDE DEF x
  <2> QED BY <1>2, <2>3, <2>4, TimeIs
<1> QED BY <1>1, <1>2

-----------------------------------------------------------------------------
(* The entries *)

\* The last n entries.
LEMMA LastAre ==
    ASSUME NEW S, NEW s \in Seq(S), NEW n \in 0..Len(s)
    PROVE  /\ LastEntries(s, n) \in Seq(S) /\ Len(LastEntries(s, n)) = n
           /\ \A i \in 1..n : LastEntries(s, n)[i] = s[Len(s) - n + i]
           /\ n = Len(s) => LastEntries(s, n) = s
<1> DEFINE l == SubSeq(s, Len(s) - n + 1, Len(s))
<1>1. l \in Seq(S) /\ Len(l) = n /\ \A i \in 1..n : l[i] = s[Len(s) - n + i] OBVIOUS
<1>2. n = Len(s) => l = s
  <2> SUFFICES ASSUME n = Len(s) PROVE l = s OBVIOUS
  <2>1. \A i \in 1..Len(s) : l[i] = s[i] BY <1>1
  <2> QED BY <1>1, <2>1
<1> QED BY <1>1, <1>2 DEF LastEntries

\* How much the entries take: less, when some of the first have left.
LEMMA BytesAre ==
    ASSUME NEW s \in Seq(LogEntry)
    PROVE  /\ LogBytes(s) \in Nat
           /\ \A m, n \in 0..Len(s) : m <= n => LogBytes(LastEntries(s, m)) <= LogBytes(LastEntries(s, n))
           /\ LogBytes(LastEntries(s, 0)) = 0
<1> DEFINE W(q) == [i \in 1..Len(q) |-> EntrySize(q[i])]
<1>1. ASSUME NEW q \in Seq(LogEntry)
      PROVE  LogBytes(q) = Total(W(q), Len(q)) /\ \A i \in 1..Len(q) : W(q)[i] \in Nat
  <2>1. Len(q) \in Nat /\ DOMAIN W(q) = 1..Len(q) OBVIOUS
  <2>2. LogBytes(q) = FoldLeft(LAMBDA sum, m : sum + m, 0, W(q)) BY Zenon DEF LogBytes
  <2>3. LogBytes(q) = Total(W(q), Len(q))
    <3> HIDE DEF W
    <3> QED BY <2>1, <2>2, FoldIsTotal
  <2>4. ASSUME NEW i \in 1..Len(q) PROVE W(q)[i] \in Nat
    <3>1. q[i] \in LogEntry OBVIOUS
    <3>2. Len(q[i].text) \in Nat BY <3>1 DEF LogEntry
    <3> QED BY <3>2 DEF EntrySize
  <2> QED BY <2>3, <2>4
<1>2. LogBytes(s) \in Nat
  <2> HIDE DEF W
  <2> QED BY <1>1, TotalNat
<1>3. ASSUME NEW m \in 0..Len(s), NEW n \in 0..Len(s), m <= n
      PROVE  LogBytes(LastEntries(s, m)) <= LogBytes(LastEntries(s, n))
  <2> DEFINE a == LastEntries(s, m)
             b == LastEntries(s, n)
  <2>1. /\ a \in Seq(LogEntry) /\ Len(a) = m /\ \A i \in 1..m : a[i] = s[Len(s) - m + i]
        /\ b \in Seq(LogEntry) /\ Len(b) = n /\ \A i \in 1..n : b[i] = s[Len(s) - n + i] BY LastAre
  <2> HIDE DEF a, b
  <2>2. n - m \in Nat /\ m \in Nat /\ (n - m) + m = n BY <1>3
  <2>3. \A i \in 1..m : W(a)[i] = W(b)[(n - m) + i]
    <3> SUFFICES ASSUME NEW i \in 1..m PROVE W(a)[i] = W(b)[(n - m) + i] OBVIOUS
    <3>1. (n - m) + i \in 1..n /\ Len(s) - n + ((n - m) + i) = Len(s) - m + i BY <2>2
    <3>2. a[i] = b[(n - m) + i] BY <2>1, <3>1
    <3> QED BY <2>1, <3>1, <3>2
  <2>4. \A i \in 1..((n - m) + m) : W(b)[i] \in Nat BY <1>1, <2>1, <2>2
  <2> HIDE DEF W
  <2> DEFINE k == n - m
  <2>5. Total(W(b), n) = Total(W(b), k) + Total(W(a), m)
    <3>1. k \in Nat /\ m \in Nat /\ k + m = n BY <2>2
    <3>2. \A i \in 1..m : W(a)[i] = W(b)[k + i] BY <2>3
    <3>3. \A i \in 1..(k + m) : W(b)[i] \in Nat BY <2>4
    <3> DEFINE x == W(b)
               y == W(a)
    <3> HIDE DEF k, x, y
    <3>4. Total(x, k + m) = Total(x, k) + Total(y, m)
      <4>1. (\A i \in 1..m : y[i] = x[k + i]) /\ \A i \in 1..(k + m) : x[i] \in Nat BY <3>2, <3>3 DEF x, y
      <4>2. Joins(x, k, y, m, x) BY <3>1, <4>1 DEF Joins, Agree
      <4> QED BY <4>2, TotalJoined
    <3> QED BY <3>1, <3>4 DEF x, y
  <2>6. Total(W(b), n - m) \in Nat /\ Total(W(a), m) \in Nat
    <3>1. \A i \in 1..(n - m) : W(b)[i] \in Nat BY <2>2, <2>4
    <3>2. \A i \in 1..m : W(a)[i] \in Nat BY <1>1, <2>1
    <3> QED BY <2>2, <3>1, <3>2, TotalNat
  <2>7. LogBytes(a) = Total(W(a), m) /\ LogBytes(b) = Total(W(b), n) BY <1>1, <2>1
  <2> QED BY <2>2, <2>5, <2>6, <2>7 DEF a, b
<1>4. LogBytes(LastEntries(s, 0)) = 0
  <2>1. LastEntries(s, 0) \in Seq(LogEntry) /\ Len(LastEntries(s, 0)) = 0 BY LastAre
  <2> HIDE DEF W
  <2> QED BY <1>1, <2>1, TotalNone
<1> QED BY <1>2, <1>3, <1>4

\* What the limits leave: the last entries, and all of them if they keep the limits.
LEMMA RetainedIs ==
    ASSUME AnalyzerAssumption, NEW s \in Seq(LogEntry)
    PROVE  \E n \in 0..Len(s) : /\ Retained(s) = LastEntries(s, n) /\ WithinLimits(s, n)
                                /\ WithinLimits(s, Len(s)) => n = Len(s)
<1> DEFINE n == CHOOSE m \in 0..Len(s) : AsMany(s, m)
<1>1. MaxLines \in Nat /\ MaxBytes \in Nat /\ Len(s) \in Nat
  <2>1. {MaxLines, MaxBytes, MaxShown, ReplayBudget} \subseteq Nat \ {0} BY DEF AnalyzerAssumption
  <2> QED BY <2>1
<1>2. WithinLimits(s, 0) BY <1>1, BytesAre DEF WithinLimits
<1>3. \E m \in 0..Len(s) : AsMany(s, m)
  <2> SUFFICES ASSUME \A m \in 0..Len(s) : ~AsMany(s, m) PROVE FALSE OBVIOUS
  <2> DEFINE D == {m \in 0..Len(s) : WithinLimits(s, m)}
             id == [m \in 0..Len(s) |-> m]
  <2>1. \A m \in 1..Len(s) : id[m - 1] \in D => id[m] \in D
    <3> SUFFICES ASSUME NEW m \in 1..Len(s), id[m - 1] \in D PROVE id[m] \in D OBVIOUS
    <3>1. m - 1 \in 0..Len(s) /\ m \in 0..Len(s) /\ (m - 1) + 1 = m /\ m - 1 < Len(s) BY <1>1
    <3>2. WithinLimits(s, m - 1) /\ ~AsMany(s, m - 1) BY <3>1
    <3> QED BY <3>1, <3>2 DEF AsMany
  <2>2. id[0] \in D BY <1>1, <1>2
  <2>3. \A m \in 0..Len(s) : id[m] \in D
    <3> HIDE DEF D, id
    <3> QED BY <1>1, <2>1, <2>2, IteratesStay
  <2>4. WithinLimits(s, Len(s)) BY <1>1, <2>3
  <2> QED BY <1>1, <2>4 DEF AsMany
<1>4. n \in 0..Len(s) /\ AsMany(s, n) BY <1>3
<1>5. Retained(s) = LastEntries(s, n) BY DEF Retained
<1>6. ASSUME WithinLimits(s, Len(s)) PROVE n = Len(s)
  <2> SUFFICES ASSUME n < Len(s) PROVE FALSE BY <1>1, <1>4
  <2>1. n + 1 \in 0..Len(s) /\ n + 1 <= Len(s) BY <1>1, <1>4
  <2>2. LogBytes(LastEntries(s, n + 1)) <= LogBytes(LastEntries(s, Len(s))) BY <1>1, <2>1, BytesAre
  <2>3. LastEntries(s, n + 1) \in Seq(LogEntry) /\ LastEntries(s, Len(s)) \in Seq(LogEntry)
      BY <1>1, <2>1, LastAre
  <2>4. LogBytes(LastEntries(s, n + 1)) \in Nat /\ LogBytes(LastEntries(s, Len(s))) \in Nat BY <2>3, BytesAre
  <2> HIDE DEF n
  <2>5. WithinLimits(s, n + 1) BY <1>1, <1>4, <1>6, <2>1, <2>2, <2>4 DEF WithinLimits, AsMany
  <2> QED BY <1>4, <2>5 DEF AsMany
<1> HIDE DEF n
<1> QED BY <1>4, <1>5, <1>6 DEF AsMany

\* What a filter leaves of some entries is of them.
LEMMA MatchingIs ==
    ASSUME NEW s \in Seq(LogEntry), NEW filter
    PROVE  /\ Matching(s, filter) \in Seq(LogEntry)
           /\ \A i \in 1..Len(Matching(s, filter)) : \E j \in 1..Len(s) : Matching(s, filter)[i] = s[j]
<1> DEFINE From(q) == q \in Seq(LogEntry) /\ \A i \in 1..Len(q) : \E j \in 1..Len(s) : q[i] = s[j]
           P(f) == f = [i \in 0..Len(s) |-> IF i = 0 THEN <<>>
                                            ELSE IF LevelOf(s[i]) \in filter THEN Append(f[i - 1], s[i]) ELSE f[i - 1]]
           g == CHOOSE f : P(f)
           D == {q \in Seq(LogEntry) : From(q)}
           F == [i \in 1..Len(s) |-> [q \in D |-> IF LevelOf(s[i]) \in filter THEN Append(q, s[i]) ELSE q]]
<1>1. Len(s) \in Nat OBVIOUS
<1>2. <<>> \in D OBVIOUS
<1>3. ASSUME NEW q \in D, NEW i \in 1..Len(s) PROVE Append(q, s[i]) \in D
  <2>1. s[i] \in LogEntry /\ Append(q, s[i]) \in Seq(LogEntry) /\ Len(Append(q, s[i])) = Len(q) + 1 OBVIOUS
  <2>2. ASSUME NEW k \in 1..(Len(q) + 1) PROVE \E j \in 1..Len(s) : Append(q, s[i])[k] = s[j]
    <3>1. CASE k = Len(q) + 1 BY <3>1
    <3>2. CASE k \in 1..Len(q) BY <3>2
    <3> QED BY <3>1, <3>2
  <2> QED BY <2>1, <2>2
<1> HIDE DEF D
<1>4. F \in [1..Len(s) -> [D -> D]] BY <1>3
<1>5. PICK h \in [0..Len(s) -> D] : Iterates(h, F, <<>>, Len(s))
  <2> HIDE DEF F
  <2> QED BY <1>1, <1>2, <1>4, IteratesExist
<1>6. ASSUME NEW i \in 0..Len(s)
      PROVE  h[i] = IF i = 0 THEN <<>>
                    ELSE IF LevelOf(s[i]) \in filter THEN Append(h[i - 1], s[i]) ELSE h[i - 1]
  <2>1. CASE i = 0 BY <1>5, <2>1 DEF Iterates
  <2>2. CASE i # 0
    <3>1. i - 1 \in 0..Len(s) /\ i \in 1..Len(s) /\ h[i - 1] \in D BY <1>1, <2>2
    <3>2. F[i][h[i - 1]] = IF LevelOf(s[i]) \in filter THEN Append(h[i - 1], s[i]) ELSE h[i - 1] BY <3>1
    <3>3. h[i] = F[i][h[i - 1]]
      <4> HIDE DEF F
      <4> QED BY <1>5, <2>2 DEF Iterates
    <3> QED BY <2>2, <3>2, <3>3
  <2> QED BY <2>1, <2>2
<1>7. P(h) BY <1>6
<1>8. P(g)
  <2> HIDE DEF P
  <2> QED BY <1>7
<1> HIDE DEF g
<1>9. \A i \in 0..Len(s) : g[i] = IF i = 0 THEN <<>>
                                  ELSE IF LevelOf(s[i]) \in filter THEN Append(g[i - 1], s[i]) ELSE g[i - 1]
    BY <1>8
<1>10. \A i \in 0..Len(s) : g[i] \in D
  <2>1. g[0] = <<>> BY <1>1, <1>9
  <2>2. ASSUME NEW i \in 1..Len(s), g[i - 1] \in D PROVE g[i] \in D
    <3>1. i \in 0..Len(s) /\ i # 0 BY <1>1
    <3>2. g[i] = IF LevelOf(s[i]) \in filter THEN Append(g[i - 1], s[i]) ELSE g[i - 1] BY <1>9, <3>1
    <3> QED BY <1>3, <2>2, <3>2
  <2>3. g[0] \in D BY <1>2, <2>1
  <2> QED BY <1>1, <2>2, <2>3, IteratesStay
<1>11. Matching(s, filter) = g[Len(s)] BY DEF Matching, g
<1>12. Matching(s, filter) \in D BY <1>1, <1>10, <1>11
<1> QED BY <1>12 DEF D

-----------------------------------------------------------------------------
(* What the log has of its recording *)

\* The texts of a log are those of its entries, and the line that is not ended.
LEMMA TextsAre ==
    ASSUME NEW v, v.entries \in Seq(LogEntry), v.line \in Seq(Ref)
    PROVE  /\ Texts(v) \in Seq(Seq(Ref)) /\ Len(Texts(v)) = Len(v.entries) + 1
           /\ \A t \in 1..Len(v.entries) : Texts(v)[t] = v.entries[t].text
           /\ Texts(v)[Len(v.entries) + 1] = v.line
<1> DEFINE T == [i \in 1..Len(v.entries) |-> v.entries[i].text]
<1>1. \A i \in 1..Len(v.entries) : v.entries[i].text \in Seq(Ref)
  <2>1. \A i \in 1..Len(v.entries) : v.entries[i] \in LogEntry OBVIOUS
  <2> QED BY <2>1 DEF LogEntry
<1>2. T \in Seq(Seq(Ref)) /\ Len(T) = Len(v.entries) BY <1>1
<1>3. \A i \in 1..Len(v.entries) : T[i] = v.entries[i].text OBVIOUS
<1> HIDE DEF T
<1>4. /\ Append(T, v.line) \in Seq(Seq(Ref)) /\ Len(Append(T, v.line)) = Len(v.entries) + 1
      /\ \A t \in 1..Len(v.entries) : Append(T, v.line)[t] = T[t]
      /\ Append(T, v.line)[Len(v.entries) + 1] = v.line BY <1>2
<1> QED BY <1>3, <1>4 DEF Texts, T

\* Those of a file that were received.
ReceivedOf(file) == {ref \in {file} \X Nat : Received(ref)}

\* LatestOf over lengths.
LEMMA LatestParts ==
    ASSUME NEW T \in Seq(Seq(Ref)), NEW file, NEW n \in Nat
    PROVE  LatestOf(T, file, n) <=> LatestIn(T, file, n, ReceivedOf(file))
<1> DEFINE R == ReceivedOf(file)
           D(t) == DOMAIN T[t]
<1>1. DOMAIN T = 1..Len(T) /\ \A t \in 1..Len(T) : DOMAIN T[t] = 1..Len(T[t]) OBVIOUS
<1>2. AllFrom(T, file, n) <=> \A t \in DOMAIN T : \A p \in D(t) : \E i \in 1..n : T[t][p] = <<file, i>>
    BY <1>1 DEF AllFrom
<1>3. \A i \in Nat : <<file, i>> \in R <=> Received(<<file, i>>) BY DEF ReceivedOf
<1> HIDE DEF R
<1>4. ASSUME AllFrom(T, file, n), NEW t \in 1..Len(T), NEW p \in 1..Len(T[t])
      PROVE  T[t][p][2] \in 1..n /\ (T[t][p] \in R <=> Received(T[t][p]))
  <2>1. PICK i \in 1..n : T[t][p] = <<file, i>> BY <1>4 DEF AllFrom
  <2> QED BY <1>3, <2>1
<1>5. ASSUME AllFrom(T, file, n)
      PROVE  Ascending(T, R) <=> \A t, u \in DOMAIN T : \A p \in D(t), q \in D(u) :
                 Received(T[t][p]) = Received(T[u][q]) /\ (t < u \/ (t = u /\ p < q)) => T[t][p][2] < T[u][q][2]
  <2>1. ASSUME NEW t \in 1..Len(T), NEW u \in 1..Len(T), NEW p \in 1..Len(T[t]), NEW q \in 1..Len(T[u])
        PROVE  (T[t][p] \in R <=> T[u][q] \in R) <=> Received(T[t][p]) = Received(T[u][q])
      BY <1>4, <1>5 DEF Received
  <2>2. Ascending(T, R) <=> \A t, u \in 1..Len(T) : \A p \in 1..Len(T[t]), q \in 1..Len(T[u]) :
            Received(T[t][p]) = Received(T[u][q]) /\ (t < u \/ (t = u /\ p < q)) => T[t][p][2] < T[u][q][2]
    <3> DEFINE lt(t, u, p, q) == t < u \/ (t = u /\ p < q)
               less(t, u, p, q) == T[t][p][2] < T[u][q][2]
               same(t, u, p, q) == Received(T[t][p]) = Received(T[u][q])
               eq(t, u, p, q) == T[t][p] \in R <=> T[u][q] \in R
    <3>1. \A t, u \in 1..Len(T) : \A p \in 1..Len(T[t]), q \in 1..Len(T[u]) : eq(t, u, p, q) <=> same(t, u, p, q)
        BY <2>1
    <3> HIDE DEF lt, less, same, eq
    <3>2. (\A t, u \in 1..Len(T) : \A p \in 1..Len(T[t]), q \in 1..Len(T[u]) :
               eq(t, u, p, q) /\ lt(t, u, p, q) => less(t, u, p, q))
          <=> (\A t, u \in 1..Len(T) : \A p \in 1..Len(T[t]), q \in 1..Len(T[u]) :
                   same(t, u, p, q) /\ lt(t, u, p, q) => less(t, u, p, q)) BY <3>1
    <3> QED BY <3>2 DEF Ascending, lt, less, same, eq
  <2> QED BY <1>1, <2>2
<1>6. ASSUME AllFrom(T, file, n)
      PROVE  NoneMissing(T, file, n, R) <=> \A t \in DOMAIN T : \A p \in D(t) : \A i \in T[t][p][2]..n :
                 Received(<<file, i>>) = Received(T[t][p]) =>
                     \E u \in DOMAIN T : \E q \in D(u) : T[u][q] = <<file, i>>
  <2>1. ASSUME NEW t \in 1..Len(T), NEW p \in 1..Len(T[t]), NEW i \in T[t][p][2]..n
        PROVE  (<<file, i>> \in R <=> T[t][p] \in R) <=> Received(<<file, i>>) = Received(T[t][p])
    <3> DEFINE first == T[t][p][2]
    <3>1. first \in 1..n BY <1>4, <1>6
    <3>2. i \in first..n OBVIOUS
    <3> HIDE DEF first
    <3>3. i \in Nat BY <3>1, <3>2
    <3> QED BY <1>3, <1>4, <1>6, <3>3 DEF Received
  <2>2. NoneMissing(T, file, n, R) <=> \A t \in 1..Len(T) : \A p \in 1..Len(T[t]) : \A i \in T[t][p][2]..n :
            Received(<<file, i>>) = Received(T[t][p]) =>
                \E u \in 1..Len(T) : \E q \in 1..Len(T[u]) : T[u][q] = <<file, i>>
    <3> DEFINE there(i) == \E u \in 1..Len(T) : \E q \in 1..Len(T[u]) : T[u][q] = <<file, i>>
               same(t, p, i) == Received(<<file, i>>) = Received(T[t][p])
               eq(t, p, i) == <<file, i>> \in R <=> T[t][p] \in R
    <3>1. \A t \in 1..Len(T) : \A p \in 1..Len(T[t]) : \A i \in T[t][p][2]..n : eq(t, p, i) <=> same(t, p, i)
        BY <2>1
    <3> HIDE DEF there, same, eq
    <3>2. (\A t \in 1..Len(T) : \A p \in 1..Len(T[t]) : \A i \in T[t][p][2]..n : eq(t, p, i) => there(i))
          <=> (\A t \in 1..Len(T) : \A p \in 1..Len(T[t]) : \A i \in T[t][p][2]..n : same(t, p, i) => there(i))
        BY <3>1
    <3> QED BY <3>2 DEF NoneMissing, there, same, eq
  <2> QED BY <1>1, <2>2
<1> QED BY <1>2, <1>5, <1>6, Zenon DEF LatestOf, LatestIn, R

-----------------------------------------------------------------------------
(* Feeding events *)

\* What feeding does not touch.
Feeds(v, w) ==
    /\ w.replay = v.replay /\ w.loads = v.loads /\ w.loadSerial = v.loadSerial /\ w.done = v.done
    /\ w.clears = v.clears /\ w.pauseBox = v.pauseBox /\ w.speedBox = v.speedBox /\ w.follow = v.follow
    /\ w.rebuild = v.rebuild /\ w.filter = v.filter /\ w.rows = v.rows /\ w.window = v.window
    /\ w.behind \/ (w.entries = v.entries /\ w.behind = v.behind)

\* The log after n events of a file.
FedWell(v, file, n) ==
    /\ v \in AnalyzerView /\ LatestOf(Texts(v), file, n) /\ EntriesFit(v)
    /\ \A p \in 1..Len(v.line) : Received(v.line[p])

\* An entry is added with the next number (log_model.c: append).
LEMMA Added ==
    ASSUME NEW v \in AnalyzerView, EntriesFit(v), NEW text \in Seq(Ref), NEW hex \in BOOLEAN
    PROVE  LET w == AddEntry(v, text, hex)
           IN /\ w \in AnalyzerView /\ EntriesFit(w) /\ Feeds(v, w) /\ w.behind /\ w.line = v.line
              /\ w.entries = Append(v.entries, [id |-> v.nextId + 1, text |-> text, hex |-> hex])
<1> DEFINE w == AddEntry(v, text, hex)
           e == [id |-> v.nextId + 1, text |-> text, hex |-> hex]
<1>1. v.nextId \in Nat /\ v.entries \in Seq(LogEntry) /\ v.rows \in Seq(LogEntry) /\ Len(v.entries) \in Nat
    BY DEF AnalyzerView
<1>2. e \in LogEntry /\ e.id = v.nextId + 1 /\ v.nextId + 1 \in Nat BY <1>1 DEF LogEntry
<1> HIDE DEF e
<1>3. w = [v EXCEPT !.nextId = @ + 1, !.behind = TRUE, !.entries = Append(@, e)] BY DEF AddEntry, e
<1>4. Append(v.entries, e) \in Seq(LogEntry) BY <1>1, <1>2
<1>5. w.entries = Append(v.entries, e) /\ w.nextId = v.nextId + 1 /\ w.behind /\ w.line = v.line
    BY <1>3 DEF AnalyzerView
<1>6. w \in AnalyzerView BY <1>2, <1>3, <1>4 DEF AnalyzerView
<1>7. Feeds(v, w) BY <1>3 DEF AnalyzerView, Feeds
<1> HIDE DEF w
<1>8. EntriesFit(w)
  <2>1. Len(w.entries) = Len(v.entries) + 1 /\ w.rows = v.rows BY <1>1, <1>2, <1>5, <1>7 DEF Feeds
  <2>2. \A i \in 1..Len(w.entries) : (i \in 1..Len(v.entries) /\ w.entries[i] = v.entries[i])
                                     \/ (i = Len(v.entries) + 1 /\ w.entries[i] = e)
      BY <1>1, <1>2, <1>5, <2>1
  <2>3. Len(w.entries) <= w.nextId BY <1>1, <1>5, <2>1 DEF EntriesFit
  <2>4. \A i \in 1..Len(w.entries) : w.entries[i].id = w.nextId - Len(w.entries) + i
    <3> SUFFICES ASSUME NEW i \in 1..Len(w.entries) PROVE w.entries[i].id = w.nextId - Len(w.entries) + i
      OBVIOUS
    <3>1. CASE i \in 1..Len(v.entries) /\ w.entries[i] = v.entries[i]
      <4>1. w.entries[i].id = v.nextId - Len(v.entries) + i BY <3>1 DEF EntriesFit
      <4> QED BY <1>1, <1>5, <2>1, <3>1, <4>1
    <3>2. CASE i = Len(v.entries) + 1 /\ w.entries[i] = e
      <4>1. w.entries[i].id = v.nextId + 1 BY <1>2, <3>2
      <4> QED BY <1>1, <1>5, <2>1, <3>2, <4>1
    <3> QED BY <2>2, <3>1, <3>2
  <2>5. \A i \in 1..Len(w.rows) : w.rows[i].id <= v.nextId /\ w.rows[i].id \in Nat
    <3>1. \A i \in 1..Len(v.rows) : v.rows[i] \in LogEntry BY <1>1
    <3> QED BY <2>1, <3>1 DEF EntriesFit, LogEntry
  <2>6. \A i \in 1..Len(w.rows) : w.rows[i].id <= w.nextId BY <1>1, <1>5, <2>5
  <2>7. ASSUME NEW i \in 1..Len(w.rows), NEW j \in 1..Len(w.entries), w.rows[i].id = w.entries[j].id
        PROVE  w.rows[i] = w.entries[j]
    <3>1. CASE j \in 1..Len(v.entries) /\ w.entries[j] = v.entries[j] BY <2>1, <2>7, <3>1 DEF EntriesFit
    <3>2. CASE w.entries[j] = e
      <4>1. w.rows[i].id = v.nextId + 1 BY <1>2, <2>7, <3>2
      <4> QED BY <1>1, <2>5, <4>1
    <3> QED BY <2>2, <3>1, <3>2
  <2> QED BY <2>3, <2>4, <2>6, <2>7 DEF EntriesFit
<1> QED BY <1>5, <1>6, <1>7, <1>8 DEF w, e

\* An event that is fed is in the log, after all the others (analyzer.c: replay_event).
LEMMA FedFits ==
    ASSUME NEW file \in DOMAIN Recording, NEW n \in Nat, NEW v, FedWell(v, file, n), NEW hex \in BOOLEAN
    PROVE  LET w == Fed(v, <<file, n + 1>>, hex) IN FedWell(w, file, n + 1) /\ Feeds(v, w)
<1> DEFINE ref == <<file, n + 1>>
           w == Fed(v, ref, hex)
           T == Texts(v)
           N == Len(v.entries)
           line == Append(v.line, ref)
<1>1. v \in AnalyzerView /\ LatestOf(T, file, n) /\ EntriesFit(v) /\ \A p \in 1..Len(v.line) : Received(v.line[p])
    BY DEF FedWell
<1>2. v.entries \in Seq(LogEntry) /\ v.line \in Seq(Ref) /\ N \in Nat /\ Len(v.line) \in Nat
    BY <1>1 DEF AnalyzerView
<1>3. ref \in Ref /\ <<ref>> \in Seq(Ref) BY DEF Ref
<1> HIDE DEF ref
<1>4. /\ line \in Seq(Ref) /\ Len(line) = Len(v.line) + 1 /\ line[Len(line)] = ref
      /\ \A p \in 1..Len(v.line) : line[p] = v.line[p] BY <1>2, <1>3
<1>5. /\ T \in Seq(Seq(Ref)) /\ Len(T) = N + 1 /\ T[N + 1] = v.line
      /\ \A t \in 1..N : T[t] = v.entries[t].text BY <1>2, TextsAre
<1> HIDE DEF T, N, line
<1>6. CASE Recording[ref[1]][ref[2]].level = CommandLevel
  <2>1. w = AddEntry(v, <<ref>>, FALSE) BY <1>6 DEF Fed
  <2> DEFINE e == [id |-> v.nextId + 1, text |-> <<ref>>, hex |-> FALSE]
             U == Texts(w)
  <2>2. w \in AnalyzerView /\ EntriesFit(w) /\ Feeds(v, w) /\ w.behind /\ w.line = v.line
        /\ w.entries = Append(v.entries, e) BY <1>1, <1>3, <2>1, Added
  <2> HIDE DEF w
  <2>3. w.entries \in Seq(LogEntry) /\ w.line \in Seq(Ref) /\ e.text = <<ref>> BY <2>2 DEF AnalyzerView
  <2> HIDE DEF e
  <2>4. Len(w.entries) = N + 1 /\ w.entries[N + 1] = e /\ \A t \in 1..N : w.entries[t] = v.entries[t]
    <3>1. e \in LogEntry BY <1>1, <1>3 DEF e, LogEntry, AnalyzerView
    <3> QED BY <1>2, <2>2, <3>1 DEF N
  <2>5. /\ U \in Seq(Seq(Ref)) /\ Len(U) = Len(w.entries) + 1
        /\ \A t \in 1..Len(w.entries) : U[t] = w.entries[t].text
        /\ U[Len(w.entries) + 1] = w.line BY <2>3, TextsAre
  <2> HIDE DEF U
  <2>6. /\ Len(U) = Len(T) + 1 /\ U[Len(T) + 1] = T[Len(T)] /\ U[Len(T)] = <<<<file, n + 1>>>>
        /\ \A t \in 1..(Len(T) - 1) : U[t] = T[t]
    <3>1. Len(U) = N + 2 /\ U[N + 2] = v.line /\ U[N + 1] = <<ref>> BY <1>2, <2>2, <2>3, <2>4, <2>5
    <3>2. \A t \in 1..N : U[t] = T[t]
      <4> SUFFICES ASSUME NEW t \in 1..N PROVE U[t] = T[t] OBVIOUS
      <4>1. t \in 1..Len(w.entries) BY <1>2, <2>4
      <4>2. U[t] = w.entries[t].text /\ w.entries[t] = v.entries[t] BY <2>4, <2>5, <4>1
      <4> QED BY <1>5, <4>2
    <3> QED BY <1>2, <1>5, <3>1, <3>2 DEF ref
  <2>7. ~Received(<<file, n + 1>>) BY <1>6 DEF Received, ref
  <2>8. LatestOf(U, file, n + 1)
    <3>1. \A p \in 1..Len(T[Len(T)]) : Received(T[Len(T)][p]) BY <1>1, <1>5
    <3>2. Len(T) > 0 BY <1>2, <1>5
    <3> DEFINE R == ReceivedOf(file)
    <3>3. LatestIn(T, file, n, R) BY <1>1, <1>5, LatestParts DEF T
    <3>4. <<file, n + 1>> \notin R BY <2>7 DEF ReceivedOf
    <3>5. ASSUME NEW p \in 1..Len(T[Len(T)])
          PROVE  T[Len(T)][p] \in R
      <4>1. PICK i \in 1..n : T[Len(T)][p] = <<file, i>> BY <3>2, <3>3 DEF LatestIn, AllFrom
      <4> QED BY <3>1, <4>1 DEF ReceivedOf
    <3> HIDE DEF R
    <3>6. LatestIn(U, file, n + 1, R) BY <1>5, <2>5, <2>6, <3>2, <3>3, <3>4, <3>5, LatestInserted
    <3> QED BY <2>5, <3>6, LatestParts DEF R
  <2> QED BY <1>1, <2>2, <2>8 DEF FedWell, U, w, ref
<1>7. CASE Recording[ref[1]][ref[2]].level # CommandLevel
  <2>1. Received(ref) BY <1>7 DEF Received
  <2> DEFINE x == [v EXCEPT !.line = line]
             X == Texts(x)
  <2>2. x \in AnalyzerView /\ Feeds(v, x) /\ x.entries = v.entries /\ x.line = line /\ x.nextId = v.nextId
      BY <1>1, <1>4 DEF AnalyzerView, Feeds
  <2>3. EntriesFit(x) BY <1>1, <2>2 DEF EntriesFit, Feeds
  <2>4. \A p \in 1..Len(line) : Received(line[p])
    <3> SUFFICES ASSUME NEW p \in 1..Len(line) PROVE Received(line[p]) OBVIOUS
    <3>1. CASE p = Len(line) BY <1>4, <2>1, <3>1
    <3>2. CASE p # Len(line)
      <4>1. p \in 1..Len(v.line) BY <1>2, <1>4, <3>2
      <4> QED BY <1>1, <1>4, <4>1
    <3> QED BY <3>1, <3>2
  <2>5. /\ X \in Seq(Seq(Ref)) /\ Len(X) = N + 1 /\ X[N + 1] = line
        /\ \A t \in 1..N : X[t] = v.entries[t].text
    <3>1. x.entries \in Seq(LogEntry) /\ x.line \in Seq(Ref) BY <1>2, <1>4, <2>2
    <3> HIDE DEF x
    <3> QED BY <2>2, <3>1, TextsAre DEF N
  <2> HIDE DEF X, x
  <2>6. LatestOf(X, file, n + 1)
    <3>1. Len(X) = Len(T) /\ Len(T) > 0 /\ X[Len(T)] = Append(T[Len(T)], <<file, n + 1>>)
        BY <1>2, <1>5, <2>5 DEF ref, line
    <3>2. \A t \in 1..(Len(T) - 1) : X[t] = T[t] BY <1>2, <1>5, <2>5
    <3> DEFINE R == ReceivedOf(file)
    <3>3. LatestIn(T, file, n, R) BY <1>1, <1>5, LatestParts DEF T
    <3> HIDE DEF R
    <3>4. LatestIn(X, file, n + 1, R) BY <1>5, <2>5, <3>1, <3>2, <3>3, LatestGrows
    <3> QED BY <2>5, <3>4, LatestParts DEF R
  <2>7. CASE ~(Recording[ref[1]][ref[2]].ends \/ hex)
    <3>1. w = x BY <1>7, <2>7 DEF Fed, x, line
    <3> HIDE DEF w
    <3> QED BY <2>2, <2>3, <2>4, <2>6, <3>1 DEF FedWell, X, w, ref
  <2>8. CASE Recording[ref[1]][ref[2]].ends \/ hex
    <3> DEFINE y == AddEntry(v, line, hex)
               e == [id |-> v.nextId + 1, text |-> line, hex |-> hex]
               U == Texts(w)
    <3>1. w = [y EXCEPT !.line = <<>>] BY <1>7, <2>8 DEF Fed, line
    <3>2. y \in AnalyzerView /\ EntriesFit(y) /\ Feeds(v, y) /\ y.behind /\ y.line = v.line
          /\ y.entries = Append(v.entries, e) BY <1>1, <1>4, Added
    <3> HIDE DEF y, w
    <3>3. w \in AnalyzerView /\ Feeds(v, w) /\ w.line = <<>> /\ w.entries = y.entries
          /\ w.nextId = y.nextId /\ w.rows = y.rows
      <4>1. <<>> \in Seq(Ref) OBVIOUS
      <4>2. w \in AnalyzerView /\ w.line = <<>> /\ w.entries = y.entries /\ w.nextId = y.nextId /\ w.rows = y.rows
          BY <3>1, <3>2, <4>1 DEF AnalyzerView
      <4>3. Feeds(y, w) /\ w.behind = y.behind BY <3>1, <3>2 DEF AnalyzerView, Feeds
      <4> QED BY <3>2, <4>2, <4>3 DEF Feeds
    <3>4. EntriesFit(w) BY <3>2, <3>3 DEF EntriesFit
    <3>5. e.text = line /\ e \in LogEntry BY <1>1, <1>4 DEF LogEntry, AnalyzerView
    <3> HIDE DEF e
    <3>6. w.entries \in Seq(LogEntry) /\ w.line \in Seq(Ref) /\ w.line = <<>> BY <3>3 DEF AnalyzerView
    <3>7. Len(w.entries) = N + 1 /\ w.entries[N + 1] = e /\ \A t \in 1..N : w.entries[t] = v.entries[t]
        BY <1>2, <3>2, <3>3, <3>5 DEF N
    <3>8. /\ U \in Seq(Seq(Ref)) /\ Len(U) = Len(w.entries) + 1
          /\ \A t \in 1..Len(w.entries) : U[t] = w.entries[t].text
          /\ U[Len(w.entries) + 1] = w.line BY <3>6, TextsAre
    <3> HIDE DEF U
    <3>9. Len(U) = Len(X) + 1 /\ U[Len(X) + 1] = <<>> BY <1>2, <2>5, <3>6, <3>7, <3>8
    <3>10. \A t \in 1..Len(X) : U[t] = X[t]
      <4> SUFFICES ASSUME NEW t \in 1..Len(X) PROVE U[t] = X[t] OBVIOUS
      <4>1. CASE t = N + 1
        <5>1. U[N + 1] = line BY <1>2, <3>5, <3>7, <3>8
        <5> QED BY <2>5, <4>1, <5>1
      <4>2. CASE t # N + 1
        <5>1. t \in 1..N /\ t \in 1..(N + 1) BY <1>2, <2>5, <4>2
        <5> QED BY <2>5, <3>7, <3>8, <5>1
      <4> QED BY <4>1, <4>2
    <3>11. LatestOf(U, file, n + 1)
      <4>1. n + 1 \in Nat OBVIOUS
      <4> DEFINE R == ReceivedOf(file)
      <4>2. LatestIn(X, file, n + 1, R) BY <2>5, <2>6, <4>1, LatestParts
      <4> HIDE DEF R
      <4>3. LatestIn(U, file, n + 1, R) BY <2>5, <3>8, <3>9, <3>10, <4>1, <4>2, LatestPadded
      <4> QED BY <3>8, <4>1, <4>3, LatestParts DEF R
    <3>12. \A p \in 1..Len(w.line) : Received(w.line[p]) BY <3>6
    <3> QED BY <3>3, <3>4, <3>11, <3>12 DEF FedWell, U, w, ref
  <2> QED BY <2>7, <2>8
<1> QED BY <1>6, <1>7

\* Feeding may go on.
LEMMA FeedsOn ==
    ASSUME NEW v, NEW a, NEW b, Feeds(v, a), Feeds(a, b)
    PROVE  Feeds(v, b) BY DEF Feeds

\* What is fed keeps the shape of the window.
LEMMA FedType ==
    ASSUME NEW v \in AnalyzerView, NEW ref \in Ref, NEW hex \in BOOLEAN
    PROVE  Fed(v, ref, hex) \in AnalyzerView
<1> DEFINE line == Append(v.line, ref)
<1>1. v.nextId \in Nat /\ v.entries \in Seq(LogEntry) /\ v.line \in Seq(Ref) BY DEF AnalyzerView
<1>2. line \in Seq(Ref) /\ <<ref>> \in Seq(Ref) /\ <<>> \in Seq(Ref) BY <1>1
<1> HIDE DEF line
<1>3. ASSUME NEW text \in Seq(Ref), NEW h \in BOOLEAN PROVE AddEntry(v, text, h) \in AnalyzerView
  <2> DEFINE e == [id |-> v.nextId + 1, text |-> text, hex |-> h]
  <2>1. e \in LogEntry BY <1>1 DEF LogEntry
  <2>2. Append(v.entries, e) \in Seq(LogEntry) /\ v.nextId + 1 \in Nat
    <3> HIDE DEF e
    <3> QED BY <1>1, <2>1
  <2>3. AddEntry(v, text, h) = [v EXCEPT !.nextId = @ + 1, !.behind = TRUE, !.entries = Append(@, e)]
      BY DEF AddEntry
  <2> HIDE DEF e
  <2> QED BY <2>2, <2>3 DEF AnalyzerView
<1>4. ASSUME NEW y \in AnalyzerView, NEW l \in Seq(Ref) PROVE [y EXCEPT !.line = l] \in AnalyzerView
    BY DEF AnalyzerView
<1>5. [AddEntry(v, line, hex) EXCEPT !.line = <<>>] \in AnalyzerView BY <1>2, <1>3, <1>4
<1>6. [v EXCEPT !.line = line] \in AnalyzerView BY <1>2, <1>4
<1> QED BY <1>2, <1>3, <1>5, <1>6 DEF Fed, line

\* So several events are fed, one after the other.
LEMMA FedUpToFits ==
    ASSUME NEW v, v.replay.file \in DOMAIN Recording, FedWell(v, v.replay.file, v.replay.index),
           NEW k \in Nat, NEW hex \in BOOLEAN
    PROVE  FedWell(FedUpTo(v, k, hex), v.replay.file, v.replay.index + k) /\ Feeds(v, FedUpTo(v, k, hex))
<1> DEFINE file == v.replay.file
           index == v.replay.index
           P(f) == f = [i \in 0..k |-> IF i = 0 THEN v ELSE Fed(f[i - 1], <<file, index + i>>, hex)]
           g == CHOOSE f : P(f)
           F == [i \in 1..k |-> [w \in AnalyzerView |-> Fed(w, <<file, index + i>>, hex)]]
<1>0. FedUpTo(v, k, hex) = g[k] BY DEF FedUpTo
<1>1. v \in AnalyzerView /\ index \in Nat
  <2>1. v \in AnalyzerView BY DEF FedWell
  <2> QED BY <2>1 DEF AnalyzerView, Replay
<1>2. F \in [1..k -> [AnalyzerView -> AnalyzerView]]
  <2>1. \A i \in 1..k : <<file, index + i>> \in Ref BY <1>1 DEF Ref
  <2> HIDE DEF file, index
  <2> QED BY <2>1, FedType
<1>3. PICK h \in [0..k -> AnalyzerView] : Iterates(h, F, v, k)
  <2> HIDE DEF F
  <2> QED BY <1>1, <1>2, IteratesExist
<1> HIDE DEF file, index
<1>4. ASSUME NEW i \in 0..k
      PROVE  h[i] = IF i = 0 THEN v ELSE Fed(h[i - 1], <<file, index + i>>, hex)
  <2>1. CASE i = 0 BY <1>3, <2>1 DEF Iterates
  <2>2. CASE i # 0
    <3>1. i - 1 \in 0..k /\ i \in 1..k /\ h[i - 1] \in AnalyzerView BY <2>2
    <3>2. F[i][h[i - 1]] = Fed(h[i - 1], <<file, index + i>>, hex) BY <3>1
    <3>3. h[i] = F[i][h[i - 1]]
      <4> HIDE DEF F
      <4> QED BY <1>3, <2>2 DEF Iterates
    <3> QED BY <2>2, <3>2, <3>3
  <2> QED BY <2>1, <2>2
<1>5. P(h) BY <1>4
<1>6. P(g)
  <2> HIDE DEF P
  <2> QED BY <1>5
<1> HIDE DEF g
<1>7. \A i \in 0..k : g[i] = IF i = 0 THEN v ELSE Fed(g[i - 1], <<file, index + i>>, hex) BY <1>6
<1> HIDE DEF P
<1> DEFINE D == {i \in 0..k : FedWell(g[i], file, index + i) /\ Feeds(v, g[i])}
           id == [i \in 0..k |-> i]
<1>8. 0 \in D
  <2>1. g[0] = v /\ index + 0 = index
    <3> HIDE DEF D, id, F
    <3>1. 0 \in 0..k /\ index + 0 = index BY <1>1
    <3>2. g[0] = IF 0 = 0 THEN v ELSE Fed(g[0 - 1], <<file, index + 0>>, hex) BY <1>7, <3>1
    <3> QED BY <3>1, <3>2
  <2>2. FedWell(v, file, index) /\ Feeds(v, v) BY DEF file, index, Feeds
  <2> QED BY <2>1, <2>2
<1>9. ASSUME NEW i \in 1..k, i - 1 \in D PROVE i \in D
  <2>1. i \in 0..k /\ i # 0 /\ index + (i - 1) \in Nat /\ (index + (i - 1)) + 1 = index + i BY <1>1
  <2>2. g[i] = Fed(g[i - 1], <<file, index + i>>, hex) BY <1>7, <2>1
  <2>3. FedWell(g[i - 1], file, index + (i - 1)) /\ Feeds(v, g[i - 1]) BY <1>9
  <2>4. file \in DOMAIN Recording BY DEF file
  <2> DEFINE m == index + (i - 1)
  <2>5. m \in Nat /\ m + 1 = index + i BY <2>1
  <2> HIDE DEF m
  <2>6. FedWell(Fed(g[i - 1], <<file, m + 1>>, hex), file, m + 1) /\ Feeds(g[i - 1], Fed(g[i - 1], <<file, m + 1>>, hex))
      BY <2>3, <2>4, <2>5, FedFits DEF m
  <2>7. FedWell(g[i], file, index + i) /\ Feeds(v, g[i]) BY <2>2, <2>3, <2>5, <2>6, FeedsOn
  <2> QED BY <2>1, <2>7
<1>10. k \in D
  <2>1. id[0] \in D /\ \A i \in 1..k : id[i - 1] \in D => id[i] \in D
    <3> SUFFICES ASSUME NEW i \in 1..k, id[i - 1] \in D PROVE id[i] \in D BY <1>8
    <3>1. i - 1 \in 0..k /\ i \in 0..k OBVIOUS
    <3>2. id[i - 1] = i - 1 /\ id[i] = i BY <3>1
    <3> HIDE DEF D, id
    <3> QED BY <1>9, <3>2
  <2>2. \A i \in 0..k : id[i] \in D
    <3> HIDE DEF D, id
    <3> QED BY <2>1, IteratesStay
  <2>3. k \in 0..k OBVIOUS
  <2>4. id[k] = k BY <2>3
  <2> HIDE DEF D, id
  <2> QED BY <2>2, <2>3, <2>4
<1> HIDE DEF id
<1> QED BY <1>10, <1>0 DEF file, index

-----------------------------------------------------------------------------
(* The steps *)

\* The texts are those of the entries and the line alone.
LEMMA TextsSame ==
    ASSUME NEW v \in AnalyzerView, NEW w \in AnalyzerView, w.entries = v.entries, w.line = v.line
    PROVE  Texts(w) = Texts(v)
<1>1. v.entries \in Seq(LogEntry) /\ v.line \in Seq(Ref) BY DEF AnalyzerView
<1>2. /\ Texts(v) \in Seq(Seq(Ref)) /\ Len(Texts(v)) = Len(v.entries) + 1
      /\ \A t \in 1..Len(v.entries) : Texts(v)[t] = v.entries[t].text
      /\ Texts(v)[Len(v.entries) + 1] = v.line BY <1>1, TextsAre
<1>3. /\ Texts(w) \in Seq(Seq(Ref)) /\ Len(Texts(w)) = Len(v.entries) + 1
      /\ \A t \in 1..Len(v.entries) : Texts(w)[t] = v.entries[t].text
      /\ Texts(w)[Len(v.entries) + 1] = v.line BY <1>1, TextsAre
<1>4. \A t \in 1..Len(Texts(v)) : Texts(w)[t] = Texts(v)[t]
  <2> SUFFICES ASSUME NEW t \in 1..Len(Texts(v)) PROVE Texts(w)[t] = Texts(v)[t] OBVIOUS
  <2>1. Len(v.entries) \in Nat BY <1>1
  <2>2. t \in 1..Len(v.entries) \/ t = Len(v.entries) + 1 BY <1>2, <2>1
  <2> QED BY <1>2, <1>3, <2>2
<1> DEFINE a == Texts(v)
           b == Texts(w)
<1>5. a \in Seq(Seq(Ref)) /\ b \in Seq(Seq(Ref)) /\ Len(b) = Len(a) /\ \A t \in 1..Len(a) : b[t] = a[t]
    BY <1>2, <1>3, <1>4
<1> HIDE DEF a, b
<1>6. b = a BY <1>5, SeqEqual
<1> QED BY <1>6 DEF a, b

\* A log that was cleared has nothing that could be wrong.
LEMMA LatestOfNone ==
    ASSUME NEW v \in AnalyzerView, v.entries = <<>>, v.line = <<>>, NEW file, NEW n \in Nat
    PROVE  LatestOf(Texts(v), file, n)
<1> DEFINE T == Texts(v)
<1>1. T \in Seq(Seq(Ref)) /\ Len(T) = 1 /\ T[1] = <<>>
  <2>1. v.entries \in Seq(LogEntry) /\ v.line \in Seq(Ref) /\ Len(v.entries) = 0 BY DEF AnalyzerView
  <2>2. T \in Seq(Seq(Ref)) /\ Len(T) = Len(v.entries) + 1 /\ T[Len(v.entries) + 1] = v.line BY <2>1, TextsAre
  <2>3. Len(v.entries) + 1 = 1 BY <2>1
  <2> HIDE DEF T
  <2> QED BY <2>2, <2>3
<1> HIDE DEF T
<1>2. \A t \in 1..Len(T) : Len(T[t]) = 0
  <2> SUFFICES ASSUME NEW t \in 1..Len(T) PROVE Len(T[t]) = 0 OBVIOUS
  <2>1. t = 1 BY <1>1
  <2>2. T[t] = <<>> BY <1>1, <2>1
  <2> QED BY <2>2
<1>3. \A t \in 1..Len(T) : 1..Len(T[t]) = {} BY <1>2
<1>4. LatestIn(T, file, n, ReceivedOf(file)) BY <1>3 DEF LatestIn, AllFrom, Ascending, NoneMissing
<1> QED BY <1>1, <1>4, LatestParts DEF T

\* The limits take the first entries, and none of a log that keeps them.
LEMMA RetainedFits ==
    ASSUME AnalyzerAssumption, NEW file, NEW n \in Nat, NEW v, FedWell(v, file, n),
           NEW w \in AnalyzerView, w.entries = Retained(v.entries), w.line = v.line, w.nextId = v.nextId, w.rows = v.rows
    PROVE  FedWell(w, file, n) /\ WithinBoth(w) /\ (WithinBoth(v) => w.entries = v.entries)
<1>1. v \in AnalyzerView /\ LatestOf(Texts(v), file, n) /\ EntriesFit(v) /\ \A p \in 1..Len(v.line) : Received(v.line[p])
    BY DEF FedWell
<1>2. v.entries \in Seq(LogEntry) /\ v.line \in Seq(Ref) /\ v.nextId \in Nat /\ Len(v.entries) \in Nat
    BY <1>1 DEF AnalyzerView
<1>3. PICK m \in 0..Len(v.entries) : /\ Retained(v.entries) = LastEntries(v.entries, m) /\ WithinLimits(v.entries, m)
                                     /\ WithinLimits(v.entries, Len(v.entries)) => m = Len(v.entries)
    BY <1>2, RetainedIs
<1>4. /\ w.entries \in Seq(LogEntry) /\ Len(w.entries) = m
      /\ \A i \in 1..m : w.entries[i] = v.entries[Len(v.entries) - m + i]
      /\ m = Len(v.entries) => w.entries = v.entries
  <2> DEFINE s == v.entries
  <2>1. s \in Seq(LogEntry) /\ m \in 0..Len(s) /\ w.entries = LastEntries(s, m) BY <1>2, <1>3
  <2> HIDE DEF s
  <2>2. /\ LastEntries(s, m) \in Seq(LogEntry) /\ Len(LastEntries(s, m)) = m
        /\ \A i \in 1..m : LastEntries(s, m)[i] = s[Len(s) - m + i]
        /\ m = Len(s) => LastEntries(s, m) = s BY <2>1, LastAre
  <2> QED BY <2>1, <2>2 DEF s
<1> DEFINE k == Len(v.entries) - m
           N == Len(v.entries)
<1>5. k \in Nat /\ k + m = N /\ m \in Nat /\ N \in Nat /\ k = N - m BY <1>2
<1>6. \A i \in 1..m : k + i \in 1..N /\ w.entries[i] = v.entries[k + i]
  <2>1. \A i \in 1..m : w.entries[i] = v.entries[k + i] BY <1>4
  <2> HIDE DEF k, N
  <2> QED BY <1>5, <2>1
<1>7. LatestOf(Texts(w), file, n)
  <2> DEFINE T == Texts(v)
             U == Texts(w)
  <2>1. T \in Seq(Seq(Ref)) /\ Len(T) = N + 1 /\ T[N + 1] = v.line
        /\ \A t \in 1..N : T[t] = v.entries[t].text BY <1>2, TextsAre
  <2>2. U \in Seq(Seq(Ref)) /\ Len(U) = m + 1 /\ U[m + 1] = v.line
        /\ \A t \in 1..m : U[t] = w.entries[t].text BY <1>2, <1>4, TextsAre
  <2> HIDE DEF T, U, k, N
  <2>3. ASSUME NEW t \in 1..Len(U) PROVE U[t] = T[k + t]
    <3>1. CASE t = m + 1
      <4>1. k + t = N + 1 BY <1>5, <3>1
      <4> QED BY <2>1, <2>2, <3>1, <4>1
    <3>2. CASE t # m + 1
      <4>1. t \in 1..m BY <1>5, <2>2, <3>2
      <4> QED BY <1>6, <2>1, <2>2, <4>1
    <3> QED BY <3>1, <3>2
  <2>4. Len(U) + k = Len(T)
    <3> DEFINE lu == Len(U)
               lt == Len(T)
    <3>1. lu = m + 1 /\ lt = N + 1 BY <2>1, <2>2
    <3> HIDE DEF lu, lt
    <3>2. lu + k = lt BY <1>5, <3>1
    <3> QED BY <3>2 DEF lu, lt
  <2>5. LatestOf(U, file, n)
    <3> DEFINE R == ReceivedOf(file)
    <3>1. LatestIn(T, file, n, R) BY <1>1, <2>1, LatestParts DEF T
    <3> HIDE DEF R
    <3>2. LatestIn(U, file, n, R) BY <1>5, <2>1, <2>2, <2>3, <2>4, <3>1, LatestShifted
    <3> QED BY <2>2, <3>2, LatestParts DEF R
  <2> QED BY <2>5 DEF U
<1>8. EntriesFit(w)
  <2> HIDE DEF k, N
  <2>1. N <= v.nextId /\ \A i \in 1..N : v.entries[i].id = v.nextId - N + i BY <1>1 DEF EntriesFit, N
  <2>2. Len(w.entries) <= w.nextId BY <1>2, <1>4, <1>5, <2>1
  <2>3. ASSUME NEW i \in 1..Len(w.entries) PROVE w.entries[i].id = w.nextId - Len(w.entries) + i
    <3>1. k + i \in 1..N /\ w.entries[i] = v.entries[k + i] BY <1>4, <1>6
    <3>2. v.entries[k + i].id = v.nextId - N + (k + i) BY <2>1, <3>1
    <3>3. v.nextId - N + (k + i) = v.nextId - m + i BY <1>2, <1>5
    <3> QED BY <1>4, <3>1, <3>2, <3>3
  <2>4. \A i \in 1..Len(w.rows) : w.rows[i].id <= w.nextId BY <1>1 DEF EntriesFit
  <2>5. ASSUME NEW i \in 1..Len(w.rows), NEW j \in 1..Len(w.entries), w.rows[i].id = w.entries[j].id
        PROVE  w.rows[i] = w.entries[j]
    <3>1. k + j \in 1..N /\ w.entries[j] = v.entries[k + j] BY <1>4, <1>6
    <3> QED BY <1>1, <2>5, <3>1 DEF EntriesFit, N
  <2> QED BY <2>2, <2>3, <2>4, <2>5 DEF EntriesFit
<1>9. WithinBoth(w) BY <1>3, <1>4 DEF WithinLimits, WithinBoth
<1>10. WithinBoth(v) => w.entries = v.entries
  <2> SUFFICES ASSUME WithinBoth(v) PROVE w.entries = v.entries OBVIOUS
  <2>1. LastEntries(v.entries, Len(v.entries)) = v.entries BY <1>2, LastAre
  <2>2. WithinLimits(v.entries, Len(v.entries)) BY <2>1 DEF WithinLimits, WithinBoth
  <2> QED BY <1>3, <1>4, <2>2
<1> QED BY <1>1, <1>7, <1>8, <1>9, <1>10 DEF FedWell

\* A step that leaves the log, the rows and the position of the replay as they are.
LEMMA SameLog ==
    ASSUME NEW v, ViewSound(v), NEW w \in AnalyzerView, LoadsFit(w),
           w.entries = v.entries, w.line = v.line, w.nextId = v.nextId, w.rows = v.rows,
           w.replay.file = v.replay.file, w.replay.index = v.replay.index, w.replay.serial = v.replay.serial,
           v.replay.file = "" => w.replay = v.replay,
           w.done = v.done, RowsFit(w)
    PROVE  ViewSound(w)
<1>1. v \in AnalyzerView /\ ReplayFits(v) /\ EntriesFit(v) /\ WithinBoth(v) BY DEF ViewSound
<1>2. Texts(w) = Texts(v) BY <1>1, TextsSame
<1>3. ReplayFits(w) BY <1>1, <1>2 DEF ReplayFits
<1>4. EntriesFit(w)
  <2>1. EntriesFit(v) BY <1>1
  <2> DEFINE e == v.entries
             r == v.rows
             k == v.nextId
  <2>2. w.entries = e /\ w.rows = r /\ w.nextId = k OBVIOUS
  <2>3. /\ Len(e) <= k
        /\ \A i \in 1..Len(e) : e[i].id = k - Len(e) + i
        /\ \A i \in 1..Len(r) : r[i].id <= k
        /\ \A i \in 1..Len(r) : \A j \in 1..Len(e) : r[i].id = e[j].id => r[i] = e[j]
      BY <2>1 DEF EntriesFit
  <2> HIDE DEF e, r, k
  <2> QED BY <2>2, <2>3 DEF EntriesFit
<1>5. WithinBoth(w) BY <1>1 DEF WithinBoth
<1> QED BY <1>3, <1>4, <1>5 DEF ViewSound

\* The rows are a list of the log.
LEMMA ListedIs ==
    ASSUME AnalyzerAssumption, NEW v \in AnalyzerView
    PROVE  /\ Listed(v) \in Seq(LogEntry)
           /\ \A i \in 1..Len(Listed(v)) : \E j \in 1..Len(v.entries) : Listed(v)[i] = v.entries[j]
<1> DEFINE m == Matching(v.entries, v.filter)
           n == Min({Len(m), MaxShown})
<1>1. v.entries \in Seq(LogEntry) BY DEF AnalyzerView
<1>2. m \in Seq(LogEntry) /\ \A i \in 1..Len(m) : \E j \in 1..Len(v.entries) : m[i] = v.entries[j]
    BY <1>1, MatchingIs
<1>3. Listed(v) = LastEntries(m, n) BY DEF Listed
<1> HIDE DEF m
<1>4. n \in 0..Len(m)
  <2>1. MaxShown \in Nat /\ Len(m) \in Nat
    <3>1. {MaxLines, MaxBytes, MaxShown, ReplayBudget} \subseteq Nat \ {0} BY DEF AnalyzerAssumption
    <3> QED BY <1>2, <3>1
  <2> QED BY <2>1, LeastOfTwo
<1> HIDE DEF n
<1>5. /\ Listed(v) \in Seq(LogEntry) /\ Len(Listed(v)) = n
      /\ \A i \in 1..n : Listed(v)[i] = m[Len(m) - n + i] BY <1>2, <1>3, <1>4, LastAre
<1>6. \A i \in 1..n : Len(m) - n + i \in 1..Len(m)
  <2>1. Len(m) \in Nat BY <1>2
  <2> QED BY <1>4, <2>1
<1> QED BY <1>2, <1>5, <1>6

\* No replay is one.
LEMMA NoReplayFits == ASSUME AnalyzerAssumption PROVE NoReplay \in Replay
<1>1. EndTime \in Nat BY DEF AnalyzerAssumption
<1>2. 0 \in 0..EndTime BY <1>1
<1> QED BY <1>2 DEF NoReplay, Replay

\* A log without entries is within its limits.
LEMMA NoneWithin == ASSUME AnalyzerAssumption, NEW v, v.entries = <<>> PROVE WithinBoth(v)
<1> DEFINE s == v.entries
<1>1. s \in Seq(LogEntry) /\ Len(s) = 0 OBVIOUS
<1> HIDE DEF s
<1>2. LastEntries(s, 0) = s /\ LogBytes(LastEntries(s, 0)) = 0
  <2>1. 0 \in 0..Len(s) /\ 0 = Len(s) BY <1>1
  <2>2. LastEntries(s, 0) = s BY <1>1, <2>1, LastAre
  <2> QED BY <1>1, <2>2, BytesAre
<1>3. MaxLines \in Nat /\ MaxBytes \in Nat
  <2>1. {MaxLines, MaxBytes, MaxShown, ReplayBudget} \subseteq Nat \ {0} BY DEF AnalyzerAssumption
  <2> QED BY <2>1
<1> QED BY <1>1, <1>2, <1>3 DEF WithinBoth, s

\* The window starts with an empty log.
LEMMA AnalyzerStart == ASSUME AnalyzerAssumption, AnalyzerInit PROVE AnalyzerInv
<1>1. analyzer \in AnalyzerView
  <2>1. NoReplay \in Replay BY NoReplayFits
  <2>2. <<>> \in Seq(LogEntry) /\ <<>> \in Seq(Ref) OBVIOUS
  <2> QED BY <2>1, <2>2 DEF AnalyzerInit, AnalyzerView
<1>2. LoadsFit(analyzer) /\ ReplayFits(analyzer) /\ RowsFit(analyzer)
    BY DEF AnalyzerInit, LoadsFit, ReplayFits, RowsFit, NoReplay
<1>3. EntriesFit(analyzer) BY DEF AnalyzerInit, EntriesFit
<1>4. WithinBoth(analyzer) BY NoneWithin DEF AnalyzerInit
<1> QED BY <1>1, <1>2, <1>3, <1>4 DEF AnalyzerInv, ViewSound

\* What an empty log is: within the limits, and all that is listed was there.
LEMMA EmptyFits ==
    ASSUME AnalyzerAssumption, NEW v, ViewSound(v), NEW w \in AnalyzerView, w.entries = <<>>, w.line = <<>>,
           w.nextId = v.nextId, w.rows = v.rows \/ w.rows = <<>>, w.behind
    PROVE  EntriesFit(w) /\ WithinBoth(w) /\ RowsFit(w) /\ \A file : \A n \in Nat : LatestOf(Texts(w), file, n)
<1>1. EntriesFit(w)
  <2>1. Len(w.entries) = 0 /\ v.nextId \in Nat BY DEF ViewSound, AnalyzerView
  <2>2. \A i \in 1..Len(w.rows) : w.rows[i].id <= w.nextId
    <3>1. CASE w.rows = v.rows BY <3>1 DEF ViewSound, EntriesFit
    <3>2. CASE w.rows = <<>> BY <3>2
    <3> QED BY <3>1, <3>2
  <2> QED BY <2>1, <2>2 DEF EntriesFit
<1>2. WithinBoth(w) BY NoneWithin
<1>3. RowsFit(w) BY DEF RowsFit
<1>4. \A file : \A n \in Nat : LatestOf(Texts(w), file, n) BY LatestOfNone
<1> QED BY <1>1, <1>2, <1>3, <1>4

\* What is listed stays so while the log, the filter and the rows do.
LEMMA ListStays ==
    ASSUME NEW v, RowsFit(v), NEW w, w.entries = v.entries, w.filter = v.filter, w.rows = v.rows,
           w.window => v.window, v.behind => w.behind, v.rebuild => w.rebuild
    PROVE  RowsFit(w)
<1>1. Listed(w) = Listed(v) BY DEF Listed
<1> QED BY <1>1 DEF RowsFit

\* Time passes.
LEMMA PassesGood == ASSUME AnalyzerAssumption, AnalyzerInv, Passes PROVE AnalyzerInv'
<1>1. analyzer \in AnalyzerView /\ LoadsFit(analyzer) /\ RowsFit(analyzer) /\ ReplayFits(analyzer)
    BY DEF AnalyzerInv, ViewSound
<1> DEFINE w == [analyzer EXCEPT !.replay = [analyzer.replay EXCEPT !.elapsed = @ + 1]]
<1>2. analyzer' = w /\ ~analyzer.replay.paused BY DEF Passes
<1>3. w \in AnalyzerView
  <2>1. [analyzer.replay EXCEPT !.elapsed = @ + 1] \in Replay
    <3> DEFINE r == analyzer.replay
    <3>1. r \in Replay BY <1>1 DEF AnalyzerView
    <3> HIDE DEF r, w
    <3> DEFINE e == r.elapsed + 1
    <3>2. e \in Nat
      <4>1. r.elapsed \in Nat BY <3>1 DEF Replay
      <4> QED BY <4>1
    <3> HIDE DEF e
    <3>3. [r EXCEPT !.elapsed = e] \in Replay BY <3>1, <3>2 DEF Replay
    <3> QED BY <3>3 DEF r, e
  <2> QED BY <1>1, <2>1 DEF AnalyzerView
<1>4. analyzer.replay.file # ""
  <2> SUFFICES ASSUME analyzer.replay.file = "" PROVE FALSE OBVIOUS
  <2>1. analyzer.replay = NoReplay BY <1>1 DEF ReplayFits
  <2>2. NoReplay.paused BY DEF NoReplay
  <2> HIDE DEF w
  <2>3. analyzer.replay.paused = NoReplay.paused BY <2>1
  <2> QED BY <1>2, <2>2, <2>3, Zenon
<1>5. /\ w.entries = analyzer.entries /\ w.line = analyzer.line /\ w.nextId = analyzer.nextId /\ w.rows = analyzer.rows
      /\ w.filter = analyzer.filter /\ w.window = analyzer.window /\ w.behind = analyzer.behind /\ w.rebuild = analyzer.rebuild
      /\ w.done = analyzer.done /\ w.loads = analyzer.loads /\ w.loadSerial = analyzer.loadSerial
      /\ w.replay.file = analyzer.replay.file /\ w.replay.index = analyzer.replay.index
      /\ w.replay.serial = analyzer.replay.serial BY <1>1 DEF AnalyzerView, Replay
<1> HIDE DEF w
<1>6. LoadsFit(w) BY <1>1, <1>5 DEF LoadsFit
<1>7. RowsFit(w) BY <1>1, <1>5, ListStays
<1>8. ViewSound(w) BY <1>3, <1>4, <1>5, <1>6, <1>7, SameLog DEF AnalyzerInv
<1> QED BY <1>2, <1>8 DEF AnalyzerInv

\* Pause and speed, as the controls stand.
LEMMA ControlsFit ==
    ASSUME AnalyzerAssumption, NEW v, ViewSound(v)
    PROVE  ViewSound(Controls(v)) /\ ReplayTime(Controls(v).replay) = ReplayTime(v.replay)
<1> DEFINE r == Faster(Paused(v.replay, v.pauseBox), v.speedBox)
           w == Controls(v)
<1>1. v \in AnalyzerView /\ LoadsFit(v) /\ RowsFit(v) /\ ReplayFits(v) BY DEF ViewSound
<1>2. v.replay \in Replay /\ v.pauseBox \in BOOLEAN /\ v.speedBox \in Nat BY <1>1 DEF AnalyzerView
<1>3. r \in Replay /\ ReplayTime(r) = ReplayTime(v.replay) /\ r.file = v.replay.file /\ r.index = v.replay.index
      /\ r.serial = v.replay.serial /\ (v.replay.file = "" => r = v.replay)
  <2> DEFINE p == Paused(v.replay, v.pauseBox)
  <2>1. p \in Replay /\ ReplayTime(p) = ReplayTime(v.replay) /\ p.file = v.replay.file /\ p.index = v.replay.index
        /\ p.serial = v.replay.serial /\ (v.replay.file = "" => p = v.replay) BY <1>2, PausedTime
  <2> HIDE DEF p
  <2>2. Faster(p, v.speedBox) \in Replay /\ ReplayTime(Faster(p, v.speedBox)) = ReplayTime(p)
        /\ Faster(p, v.speedBox).file = p.file /\ Faster(p, v.speedBox).index = p.index
        /\ Faster(p, v.speedBox).serial = p.serial /\ (p.file = "" => Faster(p, v.speedBox) = p)
      BY <1>2, <2>1, FasterTime
  <2> QED BY <2>1, <2>2 DEF p
<1>4. w = [v EXCEPT !.replay = r] BY DEF Controls
<1> HIDE DEF r, w
<1>5. w \in AnalyzerView BY <1>1, <1>3, <1>4 DEF AnalyzerView
<1>6. /\ w.entries = v.entries /\ w.line = v.line /\ w.nextId = v.nextId /\ w.rows = v.rows
      /\ w.filter = v.filter /\ w.window = v.window /\ w.behind = v.behind /\ w.rebuild = v.rebuild
      /\ w.done = v.done /\ w.loads = v.loads /\ w.loadSerial = v.loadSerial /\ w.replay = r
    BY <1>1, <1>4 DEF AnalyzerView
<1>7. LoadsFit(w) BY <1>1, <1>3, <1>6 DEF LoadsFit
<1>8. RowsFit(w) BY <1>1, <1>6, ListStays
<1>9. ViewSound(w) BY <1>3, <1>5, <1>6, <1>7, <1>8, SameLog
<1> QED BY <1>3, <1>6, <1>9 DEF w

\* A change of the controls keeps what is sound.
LEMMA BoxSet ==
    ASSUME AnalyzerAssumption, AnalyzerInv, NEW w \in AnalyzerView,
           \E paused \in BOOLEAN : \E speed \in Nat : w = [analyzer EXCEPT !.pauseBox = paused, !.speedBox = speed]
    PROVE  ViewSound(w) /\ w.replay = analyzer.replay
<1>1. analyzer \in AnalyzerView /\ LoadsFit(analyzer) /\ RowsFit(analyzer) /\ ViewSound(analyzer)
    BY DEF AnalyzerInv, ViewSound
<1>2. /\ w.entries = analyzer.entries /\ w.line = analyzer.line /\ w.nextId = analyzer.nextId /\ w.rows = analyzer.rows
      /\ w.filter = analyzer.filter /\ w.window = analyzer.window /\ w.behind = analyzer.behind /\ w.rebuild = analyzer.rebuild
      /\ w.done = analyzer.done /\ w.loads = analyzer.loads /\ w.loadSerial = analyzer.loadSerial
      /\ w.replay = analyzer.replay BY <1>1 DEF AnalyzerView
<1>3. LoadsFit(w) BY <1>1, <1>2 DEF LoadsFit
<1>4. RowsFit(w) BY <1>1, <1>2, ListStays
<1> QED BY <1>1, <1>2, <1>3, <1>4, SameLog

\* The pause box does not move the playback (analyzer.c: replay_controls_changed).
LEMMA TogglePauseGood ==
    ASSUME AnalyzerAssumption, AnalyzerInv, TogglePause
    PROVE  AnalyzerInv' /\ ReplayTime(analyzer'.replay) = ReplayTime(analyzer.replay)
<1>1. analyzer \in AnalyzerView BY DEF AnalyzerInv, ViewSound
<1>2. analyzer.pauseBox \in BOOLEAN /\ analyzer.speedBox \in Nat BY <1>1 DEF AnalyzerView
<1> DEFINE paused == ~analyzer.pauseBox
           w == [analyzer EXCEPT !.pauseBox = paused]
<1>3. analyzer' = Controls(w) BY DEF TogglePause
<1>4. paused \in BOOLEAN OBVIOUS
<1> HIDE DEF paused
<1>5. w \in AnalyzerView BY <1>1, <1>4 DEF AnalyzerView
<1>6. w = [analyzer EXCEPT !.pauseBox = paused, !.speedBox = analyzer.speedBox] BY <1>1 DEF AnalyzerView
<1> HIDE DEF w
<1>7. ViewSound(w) /\ w.replay = analyzer.replay BY <1>2, <1>4, <1>5, <1>6, BoxSet
<1> QED BY <1>3, <1>7, ControlsFit DEF AnalyzerInv

\* Nor does the speed box.
LEMMA ChangeSpeedGood ==
    ASSUME AnalyzerAssumption, AnalyzerInv, ChangeSpeed
    PROVE  AnalyzerInv' /\ ReplayTime(analyzer'.replay) = ReplayTime(analyzer.replay)
<1>1. analyzer \in AnalyzerView BY DEF AnalyzerInv, ViewSound
<1>2. analyzer.pauseBox \in BOOLEAN /\ analyzer.speedBox \in Nat BY <1>1 DEF AnalyzerView
<1>3. PICK s \in Speed : analyzer' = Controls([analyzer EXCEPT !.speedBox = s]) BY DEF ChangeSpeed
<1> DEFINE w == [analyzer EXCEPT !.speedBox = s]
<1>4. s \in Nat BY DEF AnalyzerAssumption
<1>5. w \in AnalyzerView BY <1>1, <1>4 DEF AnalyzerView
<1>6. w = [analyzer EXCEPT !.pauseBox = analyzer.pauseBox, !.speedBox = s] BY <1>1 DEF AnalyzerView
<1>7. analyzer' = Controls(w) BY <1>3
<1> HIDE DEF w
<1>8. ViewSound(w) /\ w.replay = analyzer.replay BY <1>2, <1>4, <1>5, <1>6, BoxSet
<1> QED BY <1>7, <1>8, ControlsFit DEF AnalyzerInv

\* A load that is asked for has a serial of its own (analyzer.c: replay_file_finished).
LEMMA FileChosenGood == ASSUME AnalyzerAssumption, AnalyzerInv, FileChosen PROVE AnalyzerInv' /\ analyzer'.replay = analyzer.replay
<1>1. analyzer \in AnalyzerView /\ LoadsFit(analyzer) /\ RowsFit(analyzer) /\ ViewSound(analyzer)
    BY DEF AnalyzerInv, ViewSound
<1>2. PICK f \in DOMAIN Recording :
          analyzer' = [analyzer EXCEPT !.loadSerial = @ + 1,
                                       !.loads = @ \cup {[serial |-> analyzer.loadSerial + 1, file |-> f]}]
    BY DEF FileChosen
<1> DEFINE n == analyzer.loadSerial + 1
           load == [serial |-> n, file |-> f]
           loads == analyzer.loads \cup {load}
           w == [analyzer EXCEPT !.loadSerial = n, !.loads = loads]
<1>3. analyzer.loadSerial \in Nat /\ n \in Nat /\ analyzer.loads \in SUBSET LoadOf
  <2>1. analyzer.loadSerial \in Nat /\ analyzer.loads \in SUBSET LoadOf BY <1>1 DEF AnalyzerView
  <2> QED BY <2>1
<1>4. load \in LoadOf /\ load.serial = n BY <1>3 DEF LoadOf
<1>5. analyzer' = w BY <1>2
<1> HIDE DEF load
<1>6. loads \in SUBSET LoadOf BY <1>3, <1>4
<1> HIDE DEF n, loads
<1>7. w \in AnalyzerView BY <1>1, <1>3, <1>6 DEF AnalyzerView
<1>8. /\ w.entries = analyzer.entries /\ w.line = analyzer.line /\ w.nextId = analyzer.nextId /\ w.rows = analyzer.rows
      /\ w.filter = analyzer.filter /\ w.window = analyzer.window /\ w.behind = analyzer.behind /\ w.rebuild = analyzer.rebuild
      /\ w.done = analyzer.done /\ w.loads = loads /\ w.loadSerial = n
      /\ w.replay = analyzer.replay BY <1>1 DEF AnalyzerView
<1> HIDE DEF w
<1>9. LoadsFit(w)
  <2>1. \A a \in loads : a = load \/ a \in analyzer.loads BY DEF loads
  <2>2. /\ \A a \in analyzer.loads : a.serial \in 1..analyzer.loadSerial /\ a.serial \notin analyzer.done
        /\ \A a, b \in analyzer.loads : a.serial = b.serial => a = b
        /\ analyzer.done \subseteq 1..analyzer.loadSerial BY <1>1 DEF LoadsFit
  <2>3. n \in 1..n /\ n \notin analyzer.done /\ 1..analyzer.loadSerial \subseteq 1..n /\ n \notin 1..analyzer.loadSerial
      BY <1>3, <2>2 DEF n
  <2>4. \A a \in loads : a.serial \in 1..n /\ a.serial \notin analyzer.done BY <1>4, <2>1, <2>2, <2>3
  <2>5. \A a, b \in loads : a.serial = b.serial => a = b BY <1>4, <2>1, <2>2, <2>3
  <2> QED BY <1>8, <2>2, <2>3, <2>4, <2>5 DEF LoadsFit
<1>10. RowsFit(w) BY <1>1, <1>8, ListStays
<1>11. ViewSound(w) BY <1>1, <1>7, <1>8, <1>9, <1>10, SameLog
<1> QED BY <1>5, <1>8, <1>11 DEF AnalyzerInv

\* What the user does to the list alone.
LEMMA ListingGood ==
    ASSUME AnalyzerAssumption, AnalyzerInv, ApplyFilter \/ ToggleFollow \/ SelectLine
    PROVE  AnalyzerInv' /\ analyzer'.replay = analyzer.replay
<1>1. analyzer \in AnalyzerView /\ LoadsFit(analyzer) /\ RowsFit(analyzer) /\ ViewSound(analyzer)
    BY DEF AnalyzerInv, ViewSound
<1>2. /\ analyzer' \in AnalyzerView
      /\ analyzer'.entries = analyzer.entries /\ analyzer'.line = analyzer.line /\ analyzer'.nextId = analyzer.nextId
      /\ analyzer'.rows = analyzer.rows /\ analyzer'.window = analyzer.window /\ analyzer'.behind = analyzer.behind
      /\ analyzer'.done = analyzer.done /\ analyzer'.loads = analyzer.loads /\ analyzer'.loadSerial = analyzer.loadSerial
      /\ analyzer'.replay = analyzer.replay
      /\ analyzer'.rebuild \/ (analyzer'.filter = analyzer.filter /\ analyzer'.rebuild = analyzer.rebuild)
  <2>1. CASE ApplyFilter
    <3>1. PICK m \in Mask : analyzer' = [analyzer EXCEPT !.filter = m, !.rebuild = TRUE] BY <2>1 DEF ApplyFilter
    <3>2. m \in SUBSET Level BY DEF AnalyzerAssumption
    <3> QED BY <1>1, <3>1, <3>2 DEF AnalyzerView
  <2>2. CASE ToggleFollow
    <3> DEFINE follow == ~analyzer.follow
    <3>1. analyzer' = [analyzer EXCEPT !.follow = follow] BY <2>2 DEF ToggleFollow
    <3>2. follow \in BOOLEAN OBVIOUS
    <3> HIDE DEF follow
    <3> QED BY <1>1, <3>1, <3>2 DEF AnalyzerView
  <2>3. CASE SelectLine
    <3>1. analyzer' = [analyzer EXCEPT !.follow = FALSE] BY <2>3 DEF SelectLine
    <3> QED BY <1>1, <3>1 DEF AnalyzerView
  <2> QED BY <2>1, <2>2, <2>3
<1> DEFINE w == analyzer'
<1> HIDE DEF w
<1>3. /\ w \in AnalyzerView
      /\ w.entries = analyzer.entries /\ w.line = analyzer.line /\ w.nextId = analyzer.nextId
      /\ w.rows = analyzer.rows /\ w.window = analyzer.window /\ w.behind = analyzer.behind
      /\ w.done = analyzer.done /\ w.loads = analyzer.loads /\ w.loadSerial = analyzer.loadSerial
      /\ w.replay = analyzer.replay
      /\ w.rebuild \/ (w.filter = analyzer.filter /\ w.rebuild = analyzer.rebuild) BY <1>2 DEF w
<1>4. LoadsFit(w) BY <1>1, <1>3 DEF LoadsFit
<1>5. RowsFit(w)
  <2>1. CASE w.rebuild BY <2>1 DEF RowsFit
  <2>2. CASE w.filter = analyzer.filter /\ w.rebuild = analyzer.rebuild BY <1>1, <1>3, <2>2, ListStays
  <2> QED BY <1>3, <2>1, <2>2
<1>6. ViewSound(w) BY <1>1, <1>3, <1>4, <1>5, SameLog
<1> QED BY <1>3, <1>6 DEF AnalyzerInv, w

\* The list is brought up to date (analyzer.c: tick).
LEMMA ViewTickGood == ASSUME AnalyzerAssumption, AnalyzerInv, ViewTick PROVE AnalyzerInv' /\ analyzer'.replay = analyzer.replay
<1>1. analyzer \in AnalyzerView /\ LoadsFit(analyzer) /\ ReplayFits(analyzer) /\ EntriesFit(analyzer) /\ WithinBoth(analyzer)
    BY DEF AnalyzerInv, ViewSound
<1> DEFINE rows == Listed(analyzer)
           w == [analyzer EXCEPT !.rows = rows, !.behind = FALSE, !.rebuild = FALSE]
<1>2. analyzer' = w BY DEF ViewTick
<1>3. rows \in Seq(LogEntry) /\ \A i \in 1..Len(rows) : \E j \in 1..Len(analyzer.entries) : rows[i] = analyzer.entries[j]
    BY <1>1, ListedIs
<1> HIDE DEF rows
<1>4. w \in AnalyzerView BY <1>1, <1>3 DEF AnalyzerView
<1>5. /\ w.entries = analyzer.entries /\ w.line = analyzer.line /\ w.nextId = analyzer.nextId /\ w.rows = rows
      /\ w.filter = analyzer.filter /\ w.window = analyzer.window
      /\ w.done = analyzer.done /\ w.loads = analyzer.loads /\ w.loadSerial = analyzer.loadSerial
      /\ w.replay = analyzer.replay BY <1>1 DEF AnalyzerView
<1> HIDE DEF w
<1>6. LoadsFit(w) BY <1>1, <1>5 DEF LoadsFit
<1>7. RowsFit(w) BY <1>5 DEF RowsFit, Listed, rows
<1>8. Texts(w) = Texts(analyzer) BY <1>1, <1>4, <1>5, TextsSame
<1>9. ReplayFits(w) BY <1>1, <1>5, <1>8 DEF ReplayFits
<1>10. WithinBoth(w) BY <1>1, <1>5 DEF WithinBoth
<1>11. EntriesFit(w)
  <2> DEFINE e == analyzer.entries
             k == analyzer.nextId
  <2>1. w.entries = e /\ w.rows = rows /\ w.nextId = k BY <1>5
  <2>2. /\ Len(e) <= k /\ k \in Nat /\ Len(e) \in Nat
        /\ \A i \in 1..Len(e) : e[i].id = k - Len(e) + i BY <1>1 DEF EntriesFit, AnalyzerView
  <2>3. \A i \in 1..Len(rows) : \E j \in 1..Len(e) : rows[i] = e[j] BY <1>3
  <2> HIDE DEF e, k
  <2>4. \A i \in 1..Len(e) : e[i].id <= k BY <2>2
  <2>5. \A i \in 1..Len(rows) : rows[i].id <= k BY <2>3, <2>4
  <2>6. ASSUME NEW i \in 1..Len(rows), NEW j \in 1..Len(e), rows[i].id = e[j].id PROVE rows[i] = e[j]
    <3>1. PICK m \in 1..Len(e) : rows[i] = e[m] BY <2>3
    <3>2. e[m].id = k - Len(e) + m /\ e[j].id = k - Len(e) + j /\ e[m].id = e[j].id BY <2>2, <2>6, <3>1
    <3>3. m = j BY <2>2, <3>2
    <3> QED BY <3>1, <3>3
  <2> QED BY <2>1, <2>2, <2>5, <2>6 DEF EntriesFit
<1> QED BY <1>2, <1>4, <1>5, <1>6, <1>7, <1>9, <1>10, <1>11 DEF AnalyzerInv, ViewSound

\* A clear leaves an empty log that counts on (log_model.c: tio_log_model_clear).
LEMMA ClearAnalysisGood ==
    ASSUME AnalyzerAssumption, AnalyzerInv, ClearAnalysis PROVE AnalyzerInv' /\ analyzer'.replay = analyzer.replay
<1>1. analyzer \in AnalyzerView /\ LoadsFit(analyzer) /\ ReplayFits(analyzer) /\ ViewSound(analyzer)
    BY DEF AnalyzerInv, ViewSound
<1> DEFINE clears == analyzer.clears + 1
           w == [analyzer EXCEPT !.entries = <<>>, !.line = <<>>, !.behind = TRUE, !.rebuild = TRUE, !.clears = clears]
<1>2. analyzer' = w BY <1>1 DEF ClearAnalysis, ClearLog, Cleared, AnalyzerView
<1>3. clears \in Nat
  <2>1. analyzer.clears \in Nat BY <1>1 DEF AnalyzerView
  <2> QED BY <2>1
<1> HIDE DEF clears
<1>4. w \in AnalyzerView
  <2>1. <<>> \in Seq(LogEntry) /\ <<>> \in Seq(Ref) OBVIOUS
  <2> QED BY <1>1, <1>3, <2>1 DEF AnalyzerView
<1>5. /\ w.entries = <<>> /\ w.line = <<>> /\ w.nextId = analyzer.nextId /\ w.rows = analyzer.rows
      /\ w.window = analyzer.window /\ w.behind
      /\ w.done = analyzer.done /\ w.loads = analyzer.loads /\ w.loadSerial = analyzer.loadSerial
      /\ w.replay = analyzer.replay BY <1>1 DEF AnalyzerView
<1> HIDE DEF w
<1>6. LoadsFit(w) BY <1>1, <1>5 DEF LoadsFit
<1>7. EntriesFit(w) /\ WithinBoth(w) /\ RowsFit(w) /\ \A file : \A n \in Nat : LatestOf(Texts(w), file, n)
    BY <1>1, <1>4, <1>5, EmptyFits
<1>8. ReplayFits(w)
  <2>1. w.replay.index \in Nat BY <1>4 DEF AnalyzerView, Replay
  <2>2. \A p \in 1..Len(w.line) : Received(w.line[p]) BY <1>5
  <2>3. CASE analyzer.replay.file = ""
    <3>1. analyzer.replay = NoReplay BY <1>1, <2>3 DEF ReplayFits
    <3> QED BY <1>5, <2>3, <3>1 DEF ReplayFits
  <2>4. CASE analyzer.replay.file # ""
    <3>1. /\ analyzer.replay.serial \in analyzer.done
          /\ analyzer.replay.index <= Len(Recording[analyzer.replay.file]) BY <1>1, <2>4 DEF ReplayFits
    <3>2. LatestOf(Texts(w), w.replay.file, w.replay.index) BY <1>7, <2>1
    <3> QED BY <1>5, <2>2, <2>4, <3>1, <3>2 DEF ReplayFits
  <2> QED BY <2>3, <2>4
<1> QED BY <1>2, <1>4, <1>5, <1>6, <1>7, <1>8 DEF AnalyzerInv, ViewSound

\* The window closes; what is still loaded will not be taken (analyzer.c:
\* free_analyzer).
LEMMA CloseAnalyzerGood ==
    ASSUME AnalyzerAssumption, AnalyzerInv, CloseAnalyzer
    PROVE  AnalyzerInv' /\ (analyzer'.replay = analyzer.replay \/ analyzer'.replay.serial # analyzer.replay.serial)
<1>1. analyzer \in AnalyzerView /\ LoadsFit(analyzer) /\ ReplayFits(analyzer) /\ ViewSound(analyzer)
    BY DEF AnalyzerInv, ViewSound
<1> DEFINE w == [analyzer EXCEPT !.entries = <<>>, !.line = <<>>, !.behind = TRUE,
                                 !.window = FALSE, !.replay = NoReplay, !.rows = <<>>]
<1>2. analyzer' = w BY <1>1 DEF CloseAnalyzer, Cleared, AnalyzerView
<1>3. w \in AnalyzerView
  <2>1. <<>> \in Seq(LogEntry) /\ <<>> \in Seq(Ref) /\ NoReplay \in Replay BY NoReplayFits
  <2> QED BY <1>1, <2>1 DEF AnalyzerView
<1>4. /\ w.entries = <<>> /\ w.line = <<>> /\ w.nextId = analyzer.nextId /\ w.rows = <<>>
      /\ ~w.window /\ w.behind
      /\ w.done = analyzer.done /\ w.loads = analyzer.loads /\ w.loadSerial = analyzer.loadSerial
      /\ w.replay = NoReplay BY <1>1 DEF AnalyzerView
<1> HIDE DEF w
<1>5. LoadsFit(w) BY <1>1, <1>4 DEF LoadsFit
<1>6. EntriesFit(w) /\ WithinBoth(w) /\ RowsFit(w) BY <1>1, <1>3, <1>4, EmptyFits
<1>7. ReplayFits(w)
  <2>1. NoReplay.file = "" BY DEF NoReplay
  <2> QED BY <1>4, <2>1 DEF ReplayFits
<1>8. w.replay = analyzer.replay \/ w.replay.serial # analyzer.replay.serial
  <2>1. CASE analyzer.replay.file = "" BY <1>1, <1>4, <2>1 DEF ReplayFits
  <2>2. CASE analyzer.replay.file # ""
    <3>1. analyzer.replay.serial \in analyzer.done /\ analyzer.done \subseteq 1..analyzer.loadSerial
        BY <1>1, <2>2 DEF ReplayFits, LoadsFit
    <3>2. analyzer.replay.serial # 0 BY <3>1
    <3>3. NoReplay.serial = 0 BY DEF NoReplay
    <3> QED BY <1>4, <3>2, <3>3
  <2> QED BY <2>1, <2>2
<1> QED BY <1>2, <1>3, <1>5, <1>6, <1>7, <1>8 DEF AnalyzerInv, ViewSound

\* A replay in memory that has just been loaded.
LEMMA FreshReplay ==
    ASSUME AnalyzerAssumption, NEW file \in DOMAIN Recording, NEW serial \in Nat
    PROVE  [NoReplay EXCEPT !.file = file, !.serial = serial,
                            !.virtual = IF Recording[file] = <<>> THEN 0 ELSE Recording[file][1].time] \in Replay
<1> DEFINE virtual == IF Recording[file] = <<>> THEN 0 ELSE Recording[file][1].time
<1>1. NoReplay \in Replay BY NoReplayFits
<1>2. virtual \in 0..EndTime
  <2>1. Recording[file] \in Seq(Event) /\ EndTime \in Nat BY DEF AnalyzerAssumption
  <2>2. CASE Recording[file] = <<>> BY <2>1, <2>2
  <2>3. CASE Recording[file] # <<>>
    <3>1. Recording[file][1] \in Event BY <2>1, <2>3
    <3> QED BY <2>3, <3>1 DEF Event
  <2> QED BY <2>2, <2>3
<1> HIDE DEF virtual
<1>3. [NoReplay EXCEPT !.file = file, !.serial = serial, !.virtual = virtual] \in Replay
    BY <1>1, <1>2 DEF Replay
<1> QED BY <1>3 DEF virtual

\* The last load that was asked for replaces the replay and the log (analyzer.c:
\* replay_loaded).
LEMMA LoadedGood ==
    ASSUME AnalyzerAssumption, AnalyzerInv, Loaded
    PROVE  AnalyzerInv' /\ (analyzer'.replay = analyzer.replay \/ analyzer'.replay.serial # analyzer.replay.serial)
<1>1. analyzer \in AnalyzerView /\ LoadsFit(analyzer) /\ ReplayFits(analyzer) /\ RowsFit(analyzer) /\ ViewSound(analyzer)
    BY DEF AnalyzerInv, ViewSound
<1> DEFINE Rest(load) == [analyzer EXCEPT !.loads = @ \ {load}]
           FreshOf(load) == [NoReplay EXCEPT !.file = load.file, !.serial = load.serial,
                              !.virtual = IF Recording[load.file] = <<>> THEN 0 ELSE Recording[load.file][1].time]
           Played(load) == Paused(Faster(FreshOf(load), analyzer.speedBox), analyzer.pauseBox)
<1>2. PICK load \in analyzer.loads :
          \/ analyzer' = Rest(load)
          \/ /\ load.serial = analyzer.loadSerial
             /\ analyzer' = [Cleared(Rest(load)) EXCEPT !.replay = Played(load), !.rebuild = TRUE,
                                                        !.done = @ \cup {load.serial}]
    BY DEF Loaded, Takes
<1> DEFINE x == Rest(load)
           r == Played(load)
           loads == analyzer.loads \ {load}
<1>3. load \in LoadOf /\ analyzer.loads \in SUBSET LoadOf /\ analyzer.done \in SUBSET Nat /\ analyzer.replay \in Replay
    BY <1>1 DEF AnalyzerView
<1>4. load.serial \in Nat /\ load.file \in DOMAIN Recording BY <1>3 DEF LoadOf
<1>5. loads \in SUBSET LoadOf BY <1>3
<1>6. /\ \A a \in loads : a.serial \in 1..analyzer.loadSerial /\ a.serial \notin analyzer.done /\ a.serial # load.serial
      /\ \A a, b \in loads : a.serial = b.serial => a = b
      /\ load.serial \in 1..analyzer.loadSerial /\ load.serial \notin analyzer.done
      /\ analyzer.done \subseteq 1..analyzer.loadSerial BY <1>1 DEF LoadsFit
<1>7. x = [analyzer EXCEPT !.loads = loads] OBVIOUS
<1> HIDE DEF loads
<1>8. CASE analyzer' = x
  <2>1. x \in AnalyzerView BY <1>1, <1>5, <1>7 DEF AnalyzerView
  <2>2. /\ x.entries = analyzer.entries /\ x.line = analyzer.line /\ x.nextId = analyzer.nextId /\ x.rows = analyzer.rows
        /\ x.filter = analyzer.filter /\ x.window = analyzer.window /\ x.behind = analyzer.behind /\ x.rebuild = analyzer.rebuild
        /\ x.done = analyzer.done /\ x.loads = loads /\ x.loadSerial = analyzer.loadSerial
        /\ x.replay = analyzer.replay BY <1>1, <1>7 DEF AnalyzerView
  <2> HIDE DEF x
  <2>3. LoadsFit(x) BY <1>1, <1>6, <2>2 DEF LoadsFit
  <2>4. RowsFit(x) BY <1>1, <2>2, ListStays
  <2>5. ViewSound(x) BY <1>1, <2>1, <2>2, <2>3, <2>4, SameLog
  <2> QED BY <1>8, <2>2, <2>5 DEF AnalyzerInv
<1>9. CASE /\ load.serial = analyzer.loadSerial
           /\ analyzer' = [Cleared(x) EXCEPT !.replay = r, !.rebuild = TRUE, !.done = @ \cup {load.serial}]
  <2> DEFINE f == FreshOf(load)
             q == Faster(f, analyzer.speedBox)
             done == analyzer.done \cup {load.serial}
             w == [analyzer EXCEPT !.loads = loads, !.entries = <<>>, !.line = <<>>, !.behind = TRUE, !.replay = r,
                                   !.rebuild = TRUE, !.done = done]
  <2>1. f \in Replay /\ f.file = load.file /\ f.index = 0 /\ f.serial = load.serial
    <3>1. f \in Replay BY <1>4, FreshReplay
    <3>2. f.file = load.file /\ f.index = 0 /\ f.serial = load.serial BY DEF NoReplay
    <3> QED BY <3>1, <3>2
  <2> HIDE DEF f
  <2>2. q \in Replay /\ q.file = load.file /\ q.index = 0 /\ q.serial = load.serial
    <3>1. analyzer.speedBox \in Nat BY <1>1 DEF AnalyzerView
    <3> QED BY <2>1, <3>1, FasterTime
  <2>3. r = Paused(q, analyzer.pauseBox) BY DEF q, f
  <2> HIDE DEF q, r
  <2>4. r \in Replay /\ r.file = load.file /\ r.index = 0 /\ r.serial = load.serial
    <3>1. analyzer.pauseBox \in BOOLEAN BY <1>1 DEF AnalyzerView
    <3> QED BY <2>2, <2>3, <3>1, PausedTime
  <2>5. analyzer' = w
    <3> HIDE DEF x
    <3> QED BY <1>1, <1>7, <1>9 DEF Cleared, AnalyzerView
  <2>6. done \in SUBSET Nat BY <1>3, <1>4
  <2>7. w \in AnalyzerView
    <3>1. <<>> \in Seq(LogEntry) /\ <<>> \in Seq(Ref) OBVIOUS
    <3> HIDE DEF done
    <3> QED BY <1>1, <1>5, <2>4, <2>6, <3>1 DEF AnalyzerView
  <2>8. /\ w.entries = <<>> /\ w.line = <<>> /\ w.nextId = analyzer.nextId /\ w.rows = analyzer.rows
        /\ w.behind /\ w.done = done /\ w.loads = loads /\ w.loadSerial = analyzer.loadSerial
        /\ w.replay = r BY <1>1 DEF AnalyzerView
  <2> HIDE DEF w
  <2>9. LoadsFit(w)
    <3>1. done \subseteq 1..analyzer.loadSerial /\ \A a \in loads : a.serial \in 1..analyzer.loadSerial /\ a.serial \notin done
        BY <1>6
    <3> HIDE DEF done
    <3> QED BY <1>6, <1>9, <2>4, <2>8, <3>1 DEF LoadsFit
  <2>10. EntriesFit(w) /\ WithinBoth(w) /\ RowsFit(w) /\ LatestOf(Texts(w), r.file, r.index)
       BY <1>1, <2>4, <2>7, <2>8, EmptyFits
  <2>11. ReplayFits(w)
    <3>1. load.file # "" /\ 0 <= Len(Recording[load.file])
      <4>1. "" \notin DOMAIN Recording /\ Recording \in [DOMAIN Recording -> Seq(Event)]
          BY DEF AnalyzerAssumption
      <4>2. Recording[load.file] \in Seq(Event) BY <1>4, <4>1
      <4>3. Len(Recording[load.file]) \in Nat BY <4>2
      <4>4. load.file # ""
        <5>1. "" \notin DOMAIN Recording BY <4>1
        <5> DEFINE file == load.file
        <5>2. file \in DOMAIN Recording BY <1>4
        <5> HIDE DEF file
        <5>3. file # "" BY <5>1, <5>2
        <5> QED BY <5>3 DEF file
      <4> DEFINE n == Len(Recording[load.file])
      <4>5. n \in Nat BY <4>3
      <4> HIDE DEF n
      <4>6. 0 <= n BY <4>5
      <4> QED BY <4>4, <4>6 DEF n
    <3>2. r.serial \in w.done BY <2>4, <2>8
    <3>3. \A p \in 1..Len(w.line) : Received(w.line[p]) BY <2>8
    <3> QED BY <2>4, <2>8, <2>10, <3>1, <3>2, <3>3 DEF ReplayFits
  <2>12. r.serial # analyzer.replay.serial
    <3>1. CASE analyzer.replay.file = ""
      <4>1. analyzer.replay = NoReplay BY <1>1, <3>1 DEF ReplayFits
      <4>2. NoReplay.serial = 0 BY DEF NoReplay
      <4>3. analyzer.replay.serial = 0 BY <4>1, <4>2
      <4> QED BY <1>6, <2>4, <4>3
    <3>2. CASE analyzer.replay.file # ""
      <4>1. analyzer.replay.serial \in analyzer.done BY <1>1, <3>2 DEF ReplayFits
      <4> QED BY <1>6, <2>4, <4>1
    <3> QED BY <3>1, <3>2
  <2>13. ViewSound(w) BY <2>7, <2>9, <2>10, <2>11 DEF ViewSound
  <2> QED BY <2>5, <2>8, <2>12, <2>13 DEF AnalyzerInv
<1> QED BY <1>2, <1>8, <1>9

\* The events that are due are fed, then the limits are restored (capture.c:
\* replay_tick).
LEMMA ReplayTickGood ==
    ASSUME AnalyzerAssumption, AnalyzerInv, ReplayTick
    PROVE  AnalyzerInv' /\ ReplayTime(analyzer'.replay) = ReplayTime(analyzer.replay)
<1>1. analyzer \in AnalyzerView /\ LoadsFit(analyzer) /\ ReplayFits(analyzer) /\ RowsFit(analyzer)
      /\ EntriesFit(analyzer) /\ WithinBoth(analyzer) BY DEF AnalyzerInv, ViewSound
<1> DEFINE r == analyzer.replay
           Due(i) == i <= Len(Events(r)) /\ Events(r)[i].time <= ReplayTime(r)
<1>2. PICK last \in r.index..(r.index + ReplayBudget), hex \in BOOLEAN :
          /\ r.timer /\ \A i \in (r.index + 1)..last : Due(i)
          /\ analyzer' = [FedUpTo(analyzer, last - r.index, hex) EXCEPT !.entries = Retained(@), !.replay.index = last,
                                                                        !.replay.timer = GoesOn(r, last)]
    BY Zenon DEF ReplayTick
<1>3. r \in Replay /\ r.index \in Nat /\ ReplayBudget \in Nat
  <2>1. r \in Replay BY <1>1 DEF AnalyzerView
  <2>2. {MaxLines, MaxBytes, MaxShown, ReplayBudget} \subseteq Nat \ {0} BY DEF AnalyzerAssumption
  <2> HIDE DEF r
  <2> QED BY <2>1, <2>2 DEF Replay
<1>4. r.file # ""
  <2> SUFFICES ASSUME r.file = "" PROVE FALSE OBVIOUS
  <2>1. r = NoReplay BY <1>1 DEF ReplayFits
  <2>2. NoReplay.timer = FALSE BY DEF NoReplay
  <2>3. r.timer BY <1>2
  <2> HIDE DEF r
  <2> QED BY <2>1, <2>2, <2>3
<1>5. r.file \in DOMAIN Recording
  <2> HIDE DEF r
  <2> QED BY <1>3, <1>4 DEF Replay
<1>6. /\ r.serial \in analyzer.done /\ r.index <= Len(Recording[r.file]) /\ LatestOf(Texts(analyzer), r.file, r.index)
      /\ \A p \in 1..Len(analyzer.line) : Received(analyzer.line[p]) BY <1>1, <1>4 DEF ReplayFits
<1> DEFINE k == last - r.index
           fed == FedUpTo(analyzer, k, hex)
<1>7. k \in Nat /\ r.index + k = last /\ last \in Nat
  <2> HIDE DEF r
  <2> QED BY <1>3
<1>8. FedWell(fed, r.file, r.index + k) /\ Feeds(analyzer, fed)
  <2>1. FedWell(analyzer, r.file, r.index) BY <1>1, <1>6 DEF FedWell
  <2> HIDE DEF k
  <2> QED BY <1>5, <1>7, <2>1, FedUpToFits
<1> HIDE DEF k, fed
<1>9. last <= Len(Recording[r.file])
  <2>1. CASE last = r.index BY <1>6, <2>1
  <2>2. CASE last # r.index
    <3>1. last \in (r.index + 1)..last
      <4> HIDE DEF r
      <4> QED BY <1>3, <2>2
    <3>2. last <= Len(Events(r)) BY <1>2, <3>1
    <3>3. Events(r) = Recording[r.file] BY <1>4 DEF Events
    <3> QED BY <3>2, <3>3
  <2> QED BY <2>1, <2>2
<1>10. fed \in AnalyzerView /\ fed.replay = r BY <1>8 DEF FedWell, Feeds
<1> DEFINE timer == GoesOn(r, last)
           s == [r EXCEPT !.index = last, !.timer = timer]
           w == [fed EXCEPT !.entries = Retained(fed.entries), !.replay = s]
<1>11. timer \in BOOLEAN BY DEF GoesOn
<1>12. analyzer' = w
  <2>1. analyzer' = [fed EXCEPT !.entries = Retained(@), !.replay.index = last, !.replay.timer = timer]
      BY <1>2 DEF fed, k
  <2> HIDE DEF timer
  <2>2. [fed EXCEPT !.entries = Retained(@), !.replay.index = last, !.replay.timer = timer] = w
    <3> HIDE DEF r
    <3>1. r \in Replay BY <1>3
    <3> QED BY <1>10, <3>1 DEF AnalyzerView, Replay
  <2> QED BY <2>1, <2>2
<1> HIDE DEF timer
<1>13. s \in Replay /\ s.file = r.file /\ s.index = last /\ s.serial = r.serial
       /\ s.virtual = r.virtual /\ s.elapsed = r.elapsed /\ s.speed = r.speed /\ s.paused = r.paused
  <2> HIDE DEF r
  <2> QED BY <1>3, <1>7, <1>11 DEF Replay
<1>14. ReplayTime(s) = ReplayTime(r)
  <2> HIDE DEF s, r
  <2> QED BY <1>13 DEF ReplayTime
<1> HIDE DEF s, r
<1>15. Retained(fed.entries) \in Seq(LogEntry)
  <2>1. fed.entries \in Seq(LogEntry) BY <1>10 DEF AnalyzerView
  <2>2. PICK n \in 0..Len(fed.entries) : Retained(fed.entries) = LastEntries(fed.entries, n) BY <2>1, RetainedIs
  <2> QED BY <2>1, <2>2, LastAre
<1>16. w \in AnalyzerView BY <1>10, <1>13, <1>15 DEF AnalyzerView
<1>17. /\ w.entries = Retained(fed.entries) /\ w.line = fed.line /\ w.nextId = fed.nextId /\ w.rows = fed.rows
       /\ w.filter = fed.filter /\ w.window = fed.window /\ w.behind = fed.behind /\ w.rebuild = fed.rebuild
       /\ w.done = fed.done /\ w.loads = fed.loads /\ w.loadSerial = fed.loadSerial /\ w.replay = s
     BY <1>10 DEF AnalyzerView
<1> HIDE DEF w
<1>18. FedWell(w, r.file, last) /\ WithinBoth(w) /\ (WithinBoth(fed) => w.entries = fed.entries)
     BY <1>7, <1>8, <1>16, <1>17, RetainedFits
<1>19. /\ w.rows = analyzer.rows /\ w.filter = analyzer.filter /\ w.window = analyzer.window
       /\ w.rebuild = analyzer.rebuild /\ w.done = analyzer.done /\ w.loads = analyzer.loads
       /\ w.loadSerial = analyzer.loadSerial BY <1>8, <1>17 DEF Feeds
<1>20. LoadsFit(w) BY <1>1, <1>13, <1>17, <1>19 DEF LoadsFit, r
<1>21. ReplayFits(w) BY <1>4, <1>6, <1>9, <1>13, <1>17, <1>18, <1>19 DEF ReplayFits, FedWell
<1>22. RowsFit(w)
  <2>1. CASE fed.behind BY <1>17, <2>1 DEF RowsFit
  <2>2. CASE ~fed.behind
    <3>1. fed.entries = analyzer.entries /\ fed.behind = analyzer.behind BY <1>8, <2>2 DEF Feeds
    <3>2. WithinBoth(fed) BY <1>1, <3>1 DEF WithinBoth
    <3>3. w.entries = analyzer.entries /\ w.behind = analyzer.behind BY <1>17, <1>18, <3>1, <3>2
    <3> QED BY <1>1, <1>19, <3>3, ListStays
  <2> QED BY <2>1, <2>2
<1>23. ViewSound(w) BY <1>16, <1>18, <1>20, <1>21, <1>22 DEF ViewSound, FedWell
<1> QED BY <1>12, <1>14, <1>17, <1>23 DEF AnalyzerInv, r

\* Every step keeps the window sound.
LEMMA AnalyzerStep == ASSUME AnalyzerAssumption, AnalyzerInv, [AnalyzerNext]_analyzer PROVE AnalyzerInv'
<1>1. CASE UNCHANGED analyzer BY <1>1 DEF AnalyzerInv
<1>2. CASE AnalyzerNext
    BY <1>2, PassesGood, ReplayTickGood, TogglePauseGood, ChangeSpeedGood, FileChosenGood, LoadedGood, ViewTickGood,
       ListingGood, ClearAnalysisGood, CloseAnalyzerGood DEF AnalyzerNext
<1> QED BY <1>1, <1>2

\* The position of the playback moves with time, and with a new recording.
LEMMA AnalyzerMoves == ASSUME AnalyzerAssumption, AnalyzerInv, [AnalyzerNext]_analyzer PROVE [NoJump]_analyzer
<1>1. SUFFICES ASSUME AnalyzerNext PROVE NoJump OBVIOUS
<1>2. CASE Passes
  <2>1. analyzer \in AnalyzerView BY DEF AnalyzerInv, ViewSound
  <2>2. analyzer.replay \in Replay BY <2>1 DEF AnalyzerView
  <2>3. analyzer'.replay.elapsed = analyzer.replay.elapsed + 1
      BY <1>2, <2>1, <2>2 DEF Passes, AnalyzerView, Replay
  <2> QED BY <2>3 DEF NoJump
<1>3. CASE ~Passes
  <2>1. ReplayTime(analyzer'.replay) = ReplayTime(analyzer.replay) \/ analyzer'.replay = analyzer.replay
        \/ analyzer'.replay.serial # analyzer.replay.serial
      BY <1>1, <1>3, ReplayTickGood, TogglePauseGood, ChangeSpeedGood, FileChosenGood, LoadedGood, ViewTickGood,
         ListingGood, ClearAnalysisGood, CloseAnalyzerGood DEF AnalyzerNext
  <2> QED BY <2>1 DEF NoJump
<1> QED BY <1>2, <1>3

\* What the analyzer claims is in the invariant.
LEMMA AnalyzerGood == ASSUME AnalyzerInv PROVE AnalyzerSound
<1>1. analyzer \in AnalyzerView /\ LoadsFit(analyzer) /\ ReplayFits(analyzer) /\ EntriesFit(analyzer)
      /\ WithinBoth(analyzer) /\ RowsFit(analyzer) BY DEF AnalyzerInv, ViewSound
<1>2. LogIsReplay BY <1>1 DEF LogIsReplay, LoadsFit, ReplayFits
<1>3. LinesKept
  <2>1. analyzer.entries \in Seq(LogEntry) /\ analyzer.rows \in Seq(LogEntry) BY <1>1 DEF AnalyzerView
  <2>2. DOMAIN analyzer.entries = 1..Len(analyzer.entries) /\ DOMAIN analyzer.rows = 1..Len(analyzer.rows)
      BY <2>1
  <2> QED BY <1>1, <2>2 DEF LinesKept, EntriesFit, WithinBoth
<1>4. ListCurrent BY <1>1 DEF ListCurrent, RowsFit, Behind
<1> QED BY <1>2, <1>3, <1>4 DEF AnalyzerSound

\* For any recordings, limits, filters and speeds: the log of a replay is the latest of its
\* recording up to the position, without a gap, of the last recording that was loaded;
\* lines keep their numbers, and a list with nothing to rebuild is what the filter leaves
\* (log_model.c: append; capture.c: replay_tick; analyzer.c: replay_loaded, tick).
THEOREM ReplaysShown == AnalyzerSpec => []AnalyzerSound
<1>1. AnalyzerInit => AnalyzerInv BY ToolboxAssumption, AnalyzerStart
<1>2. AnalyzerInv /\ [AnalyzerNext]_analyzer => AnalyzerInv' BY ToolboxAssumption, AnalyzerStep
<1>3. AnalyzerInv => AnalyzerSound BY AnalyzerGood
<1> QED BY <1>1, <1>2, <1>3, PTL DEF AnalyzerSpec

-----------------------------------------------------------------------------
(* Together *)

\* Of the connections: peers are told and brokers are served, for any limits and sizes
\* (network.c: writable, stop; mqtt.c: parse).
THEOREM ConnectionsTold == NetworkSpec /\ MqttSpec => []ConnectionsSound
<1>1. NetworkSound /\ MqttSound => ConnectionsSound BY DEF ConnectionsSound
<1> QED BY <1>1, PeersTold, BrokerServes, PTL

\* Of the tools for devices: what one began is undone, what it shows was read, for any
\* devices, texts, addresses, frames and files (ble.c: completed; plugin.c: worker).
THEOREM DevicesAccounted ==
    Bluez!Spec /\ Plugins!Spec /\ Bus!Spec /\ CanSpec => []DevicesSound
<1>1. Bluez!Sound /\ Plugins!Sound /\ Bus!ShownIsAsked /\ (BusExact /\ DbcValid) => DevicesSound
    BY DEF DevicesSound
<1> QED BY <1>1, BlePartsAccounted, PluginRunsClean, ModbusShowsAnswers, CanBusExact, PTL

\* Of the editors: a name finds one saved sequence, a fresh list is the one acted on, what
\* was being typed is kept while browsing, and saved sequences go only as their user asked,
\* for any names, texts and limits (sequence_ui.h: sequence_action; main.c: history_navigate).
THEOREM EditorsKeep == EditorSpec /\ HistorySpec => EditorsSound
BY SequencesKept, DraftsKept, SavedSequencesStay, PTL DEF EditorsSound

\* Of the views: they follow what they show, for any pages, texts, recordings and limits
\* (main.c: on_highlight_scrolled; analyzer.c: tick).
THEOREM ViewsFollow == Log!Spec /\ AnalyzerSpec => []ViewsSound
<1>1. Log!Sound /\ AnalyzerSound => ViewsSound BY DEF ViewsSound
<1> QED BY <1>1, LogFollows, ReplaysShown, PTL

\* The invariants of the parts, of the specification that has them all.
ToolsInv == /\ IInv /\ NetInv /\ MqttInv /\ ModbusInv /\ BleInv /\ CanInv
            /\ PluginInv /\ EditorInv /\ SendInv /\ AnalyzerInv /\ LogInv

\* A step of the tools is one of each part, or leaves that part alone.
LEMMA EachSteps ==
    ASSUME [ToolsNext]_toolVars
    PROVE  /\ [Next]_vars /\ [NetworkNext]_net /\ [MqttNext]_mqtt /\ [Bus!Next]_modbus
           /\ [Bluez!Next]_ble /\ [CanNext]_can /\ [Plugins!Next]_plugin /\ [EditorNext]_editor
           /\ [HistoryNext]_send /\ [AnalyzerNext]_analyzer /\ [Log!Next]_log
<1>1. CASE UNCHANGED toolVars BY <1>1 DEF toolVars
<1>2. CASE ToolsNext BY <1>2 DEF ToolsNext, Others
<1> QED BY <1>1, <1>2

\* The tools start with each part at its start.
LEMMA ToolsStart == ASSUME ToolsInit PROVE ToolsInv
<1>1. /\ Init /\ NetworkInit /\ MqttInit /\ Bus!Init /\ Bluez!Init /\ CanInit
      /\ Plugins!Init /\ EditorInit /\ HistoryInit /\ AnalyzerInit /\ Log!Init BY DEF ToolsInit
<1> QED BY <1>1, ToolboxAssumption, InitSound, NetStart, MqttStart, ModbusStart, BleStart, CanStart,
           PluginStart, EditorStart, SendStart, AnalyzerStart, LogStart DEF ToolsInv

\* The steps keep the invariants of the parts.
LEMMA ToolsStep == ASSUME ToolsInv, [ToolsNext]_toolVars PROVE ToolsInv'
<1>1. IInv' /\ NetInv' /\ MqttInv' /\ ModbusInv'
    BY EachSteps, ToolboxAssumption, StepSound, NetStep, MqttStep, ModbusStep DEF ToolsInv
<1>2. BleInv' /\ CanInv' /\ PluginInv' /\ EditorInv'
    BY EachSteps, BleStep, CanStep, PluginStep, EditorStep DEF ToolsInv
<1>3. SendInv' /\ AnalyzerInv' /\ LogInv'
    BY EachSteps, ToolboxAssumption, SendStep, AnalyzerStep, LogStep DEF ToolsInv
<1> QED BY <1>1, <1>2, <1>3 DEF ToolsInv

\* The specification that is model-checked keeps what its parts promise, for any values of
\* the constants: whichever part a behavior is of, the parts are sound in all of its states.
THEOREM ToolsHold ==
    ToolsSpec => /\ [](Recorded /\ ConnectionsSound /\ DevicesSound /\ ViewsSound)
                 /\ EditorsSound
<1>1. ToolsInit => ToolsInv BY ToolsStart
<1>2. ToolsInv /\ [ToolsNext]_toolVars => ToolsInv' BY ToolsStep
<1>3. ASSUME ToolsInv
      PROVE  Recorded /\ ConnectionsSound /\ DevicesSound /\ ViewsSound /\ EditorSound /\ HistorySound
  <2>1. Recorded BY <1>3, SoundRecords DEF ToolsInv
  <2>2. ConnectionsSound BY <1>3, NetGood, MqttGood DEF ToolsInv, ConnectionsSound
  <2>3. DevicesSound BY <1>3, BleGood, PluginGood, ModbusGood, CanGood DEF ToolsInv, DevicesSound
  <2>4. EditorSound /\ HistorySound BY <1>3, EditorGood, SendGood DEF ToolsInv
  <2>5. ViewsSound BY <1>3, LogGood, AnalyzerGood DEF ToolsInv, ViewsSound
  <2> QED BY <2>1, <2>2, <2>3, <2>4, <2>5
<1>4. ToolsInv /\ [ToolsNext]_toolVars => [SavedStays]_editor BY EachSteps, EditorStep DEF ToolsInv
<1> QED BY <1>1, <1>2, <1>3, <1>4, PTL DEF ToolsSpec, EditorsSound, SavedStay

\* Nothing moves by itself, for any recordings, speeds, pages and texts: the time of a
\* replay goes on only with the clock or with a new recording, and a log that its user
\* paused stays where it is (capture.c: tio_replay_speed; main.c: update_highlight_display).
THEOREM NothingMovesAlone == ToolsSpec => NothingJumps
<1>1. ToolsInit => ToolsInv BY ToolsStart
<1>2. ToolsInv /\ [ToolsNext]_toolVars => ToolsInv' BY ToolsStep
<1>3. ASSUME ToolsInv, [ToolsNext]_toolVars
      PROVE  [(which = "analyzer" => NoJump) /\ (which = "log" => Log!PausedStays)]_toolVars
  <2>1. NoJump
    <3>1. [NoJump]_analyzer BY <1>3, EachSteps, ToolboxAssumption, AnalyzerMoves DEF ToolsInv
    <3>2. CASE UNCHANGED analyzer BY <3>2 DEF NoJump, ReplayTime
    <3> QED BY <3>1, <3>2
  <2>2. Log!PausedStays
    <3>1. log' # log => Log!PausedStays BY <1>3, EachSteps, LogStep DEF ToolsInv
    <3>2. CASE log' = log BY <3>2 DEF Log!PausedStays
    <3> QED BY <3>1, <3>2
  <2> QED BY <2>1, <2>2
<1> QED BY <1>1, <1>2, <1>3, PTL DEF ToolsSpec, NothingJumps
=============================================================================
