-------------------------------- MODULE Capture --------------------------------
(***************************************************************************)
(* The capture recorder of src/capture.c: records are queued, one          *)
(* asynchronous write is in flight at a time, and the file is rotated by   *)
(* size or age, the oldest parts being deleted to honour the limits on     *)
(* their number and total size. The main loop runs the operations and the  *)
(* completion of the write one at a time, in any order.                    *)
(*                                                                         *)
(* The recorder's fields are one record, cap. Lines of a capture file are  *)
(* entries: the header, or a record with its stamp and number. Sizes are   *)
(* in units; a payload above the chunk size is recorded by recursion, as   *)
(* consecutive records with one time.                                      *)
(***************************************************************************)
EXTENDS Integers, Sequences, SequencesExt, FiniteSetsExt

CONSTANTS Header,      \* size of the header line
          LineSizes,   \* sizes of a recorded line
          PartBytes,   \* a part is rotated before it grows beyond this
          AgeLimit,    \* whether parts are also rotated by age (part_seconds)
          KeepFiles,   \* number of parts kept
          DiskLimit,   \* total size of the parts kept
          QueueLimit,  \* QUEUE_LIMIT: size of the queue before it fails
          ReplayLimit, \* REPLAY_LIMIT: size of a file that can be replayed (128 MiB)
          MaxEvents,   \* records of a file that can be replayed (1,000,000)
          Times,       \* time stamps of the callers
          MaxRecords   \* bound: records accepted

ASSUME LimitsAssumption ==
    /\ Header \in Nat \ {0} /\ LineSizes \subseteq Nat \ {0}
    /\ PartBytes \in Nat /\ Header < PartBytes
    /\ ReplayLimit \in Nat /\ PartBytes <= ReplayLimit /\ MaxEvents \in Nat
    /\ KeepFiles \in Nat \ {0}
    /\ DiskLimit \in Nat /\ DiskLimit >= PartBytes
    /\ QueueLimit \in Nat /\ AgeLimit \in BOOLEAN
    /\ Times \subseteq Nat /\ MaxRecords \in Nat

VARIABLES cap,       \* the recorder
          accepted,  \* history: the records accepted, in order
          written    \* history: the records written whole, in order

vars == <<cap, accepted, written>>

HeaderEntry == [header |-> TRUE, size |-> Header, t |-> 0, n |-> 0]
Entry(size, t, n) == [header |-> FALSE, size |-> size, t |-> t, n |-> n]
Torn(e, count) == [e EXCEPT !.size = count]
EmptyPart == [size |-> 0, file |-> <<>>]

-----------------------------------------------------------------------------
(* Steps of the recorder: each is a function from a recorder to the set of    *)
(* recorders it may become, as the file system allows                        *)

\* fail()
Failed(c) == [c EXCEPT !.error = TRUE, !.stopped = TRUE]

\* The open file is closed once the recorder is stopped and the queue empty.
Settle(c) == IF c.stopped /\ c.open
             THEN {[c EXCEPT !.open = FALSE], Failed([c EXCEPT !.open = FALSE])}
             ELSE {c}

\* (Beside a definition, a wrong form of it that the properties of this module
\* are expected to reject; nothing else uses these.)
DiscardKeepsCount(c) == [c EXCEPT !.pending = <<>>]
\* An error discards the queue.
Discard(c) == [c EXCEPT !.pending = <<>>, !.queued = 0]

OpenPartAtTail(c) == [c EXCEPT !.open = TRUE,
                               !.parts = Append(@, EmptyPart),
                               !.pending = Append(@, HeaderEntry),
                               !.queued = @ + Header]
OpenPartClearsQueue(c) == [c EXCEPT !.open = TRUE,
                                    !.parts = Append(@, EmptyPart),
                                    !.pending = <<HeaderEntry>>,
                                    !.queued = Header]
\* open_part(): the header goes to the head of the queue.
OpenPart(c) == [c EXCEPT !.open = TRUE,
                         !.parts = Append(@, EmptyPart),
                         !.pending = <<HeaderEntry>> \o @,
                         !.queued = @ + Header]

\* The current part is closed and the next one opened; either may fail.
Rotate(c) == Settle(Discard(Failed(c)))
             \cup Settle(Discard(Failed([c EXCEPT !.open = FALSE])))
             \cup {[OpenPart(c) EXCEPT !.busy = TRUE]}

FullIgnoringLine(c) ==
    LET size == Last(c.parts).size
    IN  size > Header /\ size > PartBytes
Full(c) == LET size == Last(c.parts).size
           IN  size > Header /\ size + Head(c.pending).size > PartBytes
Old(c) == AgeLimit /\ Last(c.parts).size > Header

PumpKeepsFileOpen(c) ==
    IF c.busy THEN {c}
    ELSE LET d == IF c.error THEN Discard(c) ELSE c
         IN  IF d.pending = <<>> THEN {d}
             ELSE IF Full(d) THEN Rotate(d)
             ELSE {[d EXCEPT !.busy = TRUE]} \cup (IF Old(d) THEN Rotate(d) ELSE {})

\* pump(): starts the next write unless one is in flight, after rotating the
\* file if the line would overfill it or its time is up.
Pump(c) ==
    IF c.busy THEN {c}
    ELSE LET d == IF c.error THEN Discard(c) ELSE c
         IN  IF d.pending = <<>> THEN Settle(d)
             ELSE IF Full(d) THEN Rotate(d)
             ELSE {[d EXCEPT !.busy = TRUE]} \cup (IF Old(d) THEN Rotate(d) ELSE {})

\* The size of entries, or of parts
SizeOf(items) == FoldLeft(LAMBDA sum, n : sum + n, 0, [i \in DOMAIN items |-> items[i].size])
\* The oldest parts that go so that the limits hold, never the current one.
Expired(parts, total) ==
    Min({ k \in 0..(Len(parts) - 1) :
            \/ k = Len(parts) - 1
            \/ /\ Len(parts) - k <= KeepFiles
               /\ total - SizeOf(SubSeq(parts, 1, k)) <= DiskLimit })

Dropped(c, k) == [c EXCEPT !.parts = SubSeq(@, k + 1, Len(@)),
                           !.total = @ - SizeOf(SubSeq(c.parts, 1, k))]

\* Deleting them; an unlink that fails ends the recording.
Trim(c) ==
    LET k == Expired(c.parts, c.total)
    IN  {Dropped(c, k)} \cup {Failed(Dropped(c, j)) : j \in 0..(k - 1)}

-----------------------------------------------------------------------------
(* Operations *)

New == OpenPart([pending |-> <<>>, queued |-> 0, parts |-> <<>>, total |-> 0,
                 open |-> FALSE, busy |-> FALSE, stopped |-> FALSE,
                 error |-> FALSE, stamp |-> 0])

Init == /\ cap \in Pump(New)
        /\ accepted = <<>>
        /\ written = <<>>

Latest(t) == IF t < cap.stamp THEN cap.stamp ELSE t
\* tio_capture_record, for a line of the given size (a Base64 payload).
Record(size, time) ==
    LET t == Latest(time)
        e == Entry(size, t, Len(accepted) + 1)
    IN  /\ ~cap.stopped /\ ~cap.error
        /\ Len(accepted) < MaxRecords
        /\ IF size + Header > PartBytes \/ cap.queued + size > QueueLimit
           THEN /\ cap' \in Pump(Failed([cap EXCEPT !.stamp = t]))
                /\ UNCHANGED accepted
           ELSE /\ accepted' = Append(accepted, e)
                /\ cap' \in Pump([cap EXCEPT !.stamp = t,
                                             !.pending = Append(@, e),
                                             !.queued = @ + size])
        /\ UNCHANGED written

\* A record with an invalid kind or a negative time.
RecordInvalid == /\ ~cap.stopped /\ ~cap.error
                 /\ cap' \in Pump(Failed(cap))
                 /\ UNCHANGED <<accepted, written>>

\* tio_capture_stop
Stop == /\ cap.stopped = FALSE
        /\ cap' \in Pump([cap EXCEPT !.stopped = TRUE])
        /\ UNCHANGED <<accepted, written>>

\* What the part's file and the accounts become when count of e was written.
Account(c, e, count) ==
    [c EXCEPT !.pending = Tail(@),
              !.queued = @ - e.size,
              !.parts[Len(c.parts)] =
                  [size |-> @.size + count,
                   file |-> IF count = 0 THEN @.file
                            ELSE Append(@.file, Torn(e, count))],
              !.total = @ + count,
              !.busy = FALSE]

\* written(): the write in flight ends, whole or, on an error, after a part of
\* the line.
Written(ok) ==
    LET e == Head(cap.pending)
    IN  /\ cap.busy
        /\ \E count \in (IF ok THEN {e.size} ELSE 0..(e.size - 1)) :
               \E c \in Trim(IF ok THEN Account(cap, e, count)
                                   ELSE Failed(Account(cap, e, count))) :
                   cap' \in Pump(c)
        /\ written' = IF ok /\ ~e.header THEN Append(written, e) ELSE written
        /\ UNCHANGED accepted

Next == \/ \E size \in LineSizes, time \in Times : Record(size, time)
        \/ RecordInvalid
        \/ Stop
        \/ Written(TRUE) \/ Written(FALSE)

Spec == Init /\ [][Next]_vars

\* The system completes every write it was given.
Fairness == WF_vars(Written(TRUE) \/ Written(FALSE))
FairSpec == Spec /\ Fairness

-----------------------------------------------------------------------------
(* Properties *)

Finished == cap.stopped /\ ~cap.busy /\ ~cap.open
\* What a queue holds besides the header of a part, which is always its head.
Records(queue) == IF queue # <<>> /\ Head(queue).header THEN Tail(queue) ELSE queue

\* The fields have their types, and a write in flight is of the queue's head.
TypeOK == /\ cap.queued \in Nat /\ cap.total \in Nat /\ cap.stamp \in Nat
          /\ {cap.open, cap.busy, cap.stopped, cap.error} \subseteq BOOLEAN
          /\ cap.parts # <<>>
          /\ cap.busy => cap.pending # <<>> /\ cap.open

\* The two counters that the limits are checked against are exact: the queue's
\* size and the size on disk of the parts, through rotation, short writes,
\* deletions and discarded queues.
AccountsExact == /\ cap.queued = SizeOf(cap.pending)
                 /\ cap.total = SizeOf(cap.parts)

\* Whatever the order of records and completed writes, what was written is a
\* prefix of what was accepted, and without an error nothing accepted is missing
\* from the file and the queue.
WrittenInOrder ==
    /\ IsPrefix(written, accepted)
    /\ ~cap.error => accepted = written \o Records(cap.pending)

\* The recorder keeps the limits it was created with: no part outgrows its size,
\* the queue its limit (and the header of one part), and, unless a deletion
\* failed, the parts their number and their total size.
LimitsKept ==
    /\ \A i \in DOMAIN cap.parts : cap.parts[i].size <= PartBytes
    /\ cap.queued <= QueueLimit + Header
    /\ ~cap.error => /\ cap.total <= DiskLimit
                     /\ Len(cap.parts) <= KeepFiles + (IF cap.busy THEN 1 ELSE 0)

\* What tio_replay_load accepts: a file that is not too large, of a header line,
\* then whole records, not too many, whose times do not decrease.
Loadable(part) ==
    LET file == part.file
    IN  /\ part.size <= ReplayLimit
        /\ file # <<>>
        /\ \A i \in DOMAIN file : file[i].header = (i = 1)
        /\ Head(file).size = Header
        /\ Len(file) - 1 <= MaxEvents
        /\ \A i, j \in DOMAIN file : 1 < i /\ i < j =>
               file[i].t <= file[j].t /\ file[i].n < file[j].n
        /\ \A i \in DOMAIN file : i > 1 => file[i].size = accepted[file[i].n].size

\* Every part that was rotated away can be replayed, and so can the current one
\* between two writes, as long as nothing failed and it has no more records than a
\* replay takes: rotation never splits a record and never puts one before the
\* header of its part.
PartsLoadable ==
    \A i \in DOMAIN cap.parts :
        /\ i < Len(cap.parts) \/ (~cap.busy /\ ~cap.error)
        /\ Len(cap.parts[i].file) - 1 <= MaxEvents
        => Loadable(cap.parts[i])

\* Through every order of records, completed writes, rotations, deletions and errors
\* (record, written, pump), what the recorder wrote is in order and within its
\* limits, its counters are exact, and its parts can be replayed unless they have more
\* records than a replay takes.
Recorded == TypeOK /\ AccountsExact /\ LimitsKept /\ WrittenInOrder /\ PartsLoadable

\* A stopped recorder drains its queue, closes its file and is finished, so that
\* a window that waits for its recordings closes.
Closing == cap.stopped /\ ~Finished
=============================================================================
