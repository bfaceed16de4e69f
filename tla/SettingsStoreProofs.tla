-------------------------- MODULE SettingsStoreProofs --------------------------
(***************************************************************************)
(* Proofs about SettingsStore, for every set of threads and processes,     *)
(* every range of the counter and any number of saves and faults.          *)
(***************************************************************************)
EXTENDS SettingsStore, FiniteSetTheorems, TLAPS

\* The locks are held by the thread that is where only their holder may be.
LockInv ==
    /\ \A t \in Thread : pc[t] \in Critical \cup {"lock", "unlock"} =>
                             mutex[ProcOf[t]] = t
    /\ \A t \in Thread : pc[t] \in Critical => fileLock = ProcOf[t]

\* d was committed right after c.
Follows(c, d) == /\ d.kind = "versioned"
                 /\ d.seq = Succ(c.seq)
                 /\ c.snap < d.snap

\* Two valid copies are adjacent snapshots, one of them the last committed, and
\* only the primary slot holds an unversioned one.
DiskInv ==
    /\ \A s \in Slot : disk[s].kind \in {"missing", "damaged", "legacy", "versioned"}
    /\ disk[1].kind # "legacy"
    /\ \A s \in Slot : disk[s].snap <= commits
    /\ Valid(disk[0]) /\ Valid(disk[1]) =>
           \/ Follows(disk[0], disk[1])
           \/ disk[1].kind = "versioned" /\ Follows(disk[1], disk[0])

\* Without a fault a load of the files returns the last snapshot, and both can
\* be read.
FaultFreeInv == faults = 0 => /\ Stored = commits
                              /\ \A s \in Slot : access[s]
                              /\ ~disturbed

\* What the lock holder read still holds, except where a fault has struck or
\* the holder itself has removed its target.
ViewInv ==
    \A t \in Thread : pc[t] \in {"read", "write", "gap"} =>
        /\ \A s \in Slot :
               \/ seen[t][s].kind \in {"unread", "unreadable"}
               \/ seen[t][s] = disk[s]
               \/ ~Valid(disk[s])
        /\ ~disturbed =>
               \A s \in Slot :
                   /\ seen[t][s].kind = "unread" \/ access[s] = (seen[t][s].kind # "unreadable")
                   /\ \/ seen[t][s].kind \in {"unread", "unreadable"}
                      \/ seen[t][s] = disk[s]
                      \/ pc[t] = "gap" /\ s = Target(seen[t]) /\ disk[s].kind = "missing"
        /\ pc[t] \in {"write", "gap"} => BothRead(t) /\ MayWrite(seen[t])

IInv == TypeOK /\ LockInv /\ DiskInv /\ FaultFreeInv /\ ViewInv

-----------------------------------------------------------------------------
(* The operators the model is built from *)

\* The counter's successor stays in its range, across the wrap-around.
LEMMA SuccType == ASSUME NEW q \in Seqs PROVE Succ(q) \in Seqs
BY ModulusAssumption DEF Seqs, Succ

\* Two consecutive counters are at distance 1, and at a distance of more than
\* half the range the other way round.
LEMMA SuccDistance ==
    ASSUME NEW q \in Seqs
    PROVE  /\ Distance(q, Succ(q)) = 1
           /\ Distance(Succ(q), q) > Half
BY ModulusAssumption DEF Seqs, Succ, Distance

\* A choice is a slot that holds a valid snapshot, or none.
LEMMA SelectValid ==
    ASSUME NEW v
    PROVE  Select(v) \in {0, 1, NoSlot} /\ (Select(v) # NoSlot => Valid(v[Select(v)]))
BY DEF Select, NoSlot

\* Without two valid copies the choice is the valid one.
LEMMA SelectSingle ==
    ASSUME NEW v, NEW s \in Slot, ~Valid(v[1 - s])
    PROVE  Select(v) = IF Valid(v[s]) THEN s ELSE NoSlot
<1>1. CASE s = 0
  BY <1>1 DEF Select
<1>2. CASE s = 1
  BY <1>2 DEF Select
<1> QED BY <1>1, <1>2 DEF Slot

\* Of two adjacent copies the choice is the one committed last.
LEMMA SelectFollower ==
    ASSUME NEW v \in [Slot -> Content], NEW s \in Slot,
           Valid(v[0]), Valid(v[1]), v[1].kind # "legacy",
           Follows(v[1 - s], v[s])
    PROVE  Select(v) = s
<1>1. v[0].seq \in Seqs /\ v[1].seq \in Seqs
  BY DEF Slot, Content
<1>2. v[1].kind = "versioned"
  BY DEF Valid
<1>3. CASE s = 1
  <2>1. v[1].seq = Succ(v[0].seq)
    BY <1>3 DEF Follows
  <2>2. Distance(v[0].seq, v[1].seq) = 1
    BY <2>1, <1>1, SuccDistance
  <2> QED BY <1>3, <2>2, ModulusAssumption DEF Select
<1>4. CASE s = 0
  <2>1. v[0].kind = "versioned" /\ v[0].seq = Succ(v[1].seq)
    BY <1>4 DEF Follows
  <2>2. Distance(v[0].seq, v[1].seq) > Half
    BY <2>1, <1>1, SuccDistance
  <2>3. Distance(v[0].seq, v[1].seq) \in Int
    BY <1>1, ModulusAssumption DEF Distance, Seqs
  <2> QED BY <1>4, <2>1, <2>2, <2>3, ModulusAssumption DEF Select
<1> QED BY <1>3, <1>4 DEF Slot

\* A save replaces the other slot than the one it chose.
LEMMA TargetOther ==
    ASSUME NEW v
    PROVE  /\ Target(v) \in Slot
           /\ Select(v) # NoSlot => Target(v) = 1 - Select(v)
BY SelectValid DEF Target, Slot, NoSlot

\* The counter of the next snapshot is in range.
LEMMA NextSeqType ==
    ASSUME NEW v \in [Slot -> Content], MayWrite(v)
    PROVE  NextSeq(v) \in Seqs
<1>1. CASE Empty(v)
  BY <1>1, ModulusAssumption DEF NextSeq, Seqs
<1>2. CASE ~Empty(v)
  <2>1. Select(v) \in Slot
    BY <1>2, SelectValid DEF MayWrite, Slot
  <2> QED BY <2>1, <1>2, SuccType DEF NextSeq, Content
<1> QED BY <1>1, <1>2

-----------------------------------------------------------------------------
(* Type correctness and the locks *)

\* Slots without a usable snapshot have the type of a slot.
LEMMA BlankType == ASSUME NEW kind \in Kinds PROVE Blank(kind) \in Content
BY ModulusAssumption DEF Blank, Content, Seqs

\* So has the view of a thread that has read nothing.
LEMMA UnreadType == Unread \in [Slot -> Content]
BY BlankType DEF Unread, Kinds

\* The stores that earlier runs leave behind have their type.
LEMMA InitialDiskType ==
    ASSUME NEW first \in FirstSeqs, NEW d \in InitialDisk(first)
    PROVE  d \in [Slot -> Content]
<1>1. first \in Seqs /\ Succ(first) \in Seqs
  BY FirstSeqsAssumption, SuccType DEF Seqs
<1>2. /\ Blank("missing") \in Content
      /\ Versioned(first, 1) \in Content
      /\ Versioned(Succ(first), 2) \in Content
      /\ [kind |-> "legacy", seq |-> 0, snap |-> 1] \in Content
  <2>1. 0 \in Seqs
    BY ModulusAssumption DEF Seqs
  <2> QED BY <1>1, <2>1, BlankType DEF Versioned, Content, Kinds
<1> QED BY <1>2 DEF InitialDisk

\* What a thread makes of a slot's file has the type of a slot.
LEMMA ReadType ==
    ASSUME TypeOK, NEW s \in Slot
    PROVE  ReadOf(s) \in Content
BY BlankType DEF ReadOf, TypeOK, Kinds

\* The initial states have their types.
LEMMA TypeInit == Init => TypeOK
<1> SUFFICES ASSUME Init PROVE TypeOK
  OBVIOUS
<1>1. disk \in [Slot -> Content]
  BY InitialDiskType DEF Init
<1>2. commits \in Nat
  <2>1. Select(disk) \in {0, 1, NoSlot}
    BY SelectValid
  <2> QED BY <1>1, <2>1 DEF Init, Stored, SnapOf, Content, Slot
<1> QED BY <1>1, <1>2, UnreadType DEF Init, TypeOK, Critical

\* The only types a step does not obviously keep are those of the snapshot a
\* save writes and of the slots a thread reads.
LEMMA TypeStep == TypeOK /\ ViewInv /\ [Next]_vars => TypeOK'
<1> SUFFICES ASSUME TypeOK, ViewInv, [Next]_vars PROVE TypeOK'
  OBVIOUS
<1> USE DEF Goto, history, locks, Critical
<1>1. ASSUME NEW t \in Thread, StartSave(t) PROVE TypeOK'
  BY <1>1, ThreadAssumption DEF TypeOK, StartSave
<1>2. ASSUME NEW t \in Thread, LockFile(t) PROVE TypeOK'
  <2>1. CASE fileLock \in {None, ProcOf[t]}
    <3>1. /\ seen' = [seen EXCEPT ![t] = Unread]
          /\ fileLock' = ProcOf[t] /\ disturbed' = FALSE /\ UNCHANGED mutex
      BY <1>2, <2>1 DEF LockFile
    <3>2. seen' \in [Thread -> [Slot -> Content]]
      BY <3>1, UnreadType DEF TypeOK
    <3> QED BY <1>2, <3>1, <3>2, ThreadAssumption DEF TypeOK, LockFile
  <2>2. CASE fileLock \notin {None, ProcOf[t]}
    BY <1>2, <2>2, ThreadAssumption DEF TypeOK, LockFile
  <2> QED BY <2>1, <2>2
<1>3. ASSUME NEW t \in Thread, LockFails(t) PROVE TypeOK'
  BY <1>3, ThreadAssumption DEF TypeOK, LockFails
<1>4. ASSUME NEW t \in Thread, NEW s \in Slot, ReadSlot(t, s) PROVE TypeOK'
  BY <1>4, ReadType DEF TypeOK, ReadSlot
<1>5. ASSUME NEW t \in Thread, Choose(t) PROVE TypeOK'
  BY <1>5 DEF TypeOK, Choose
<1>6. ASSUME NEW t \in Thread, WriteFails(t) PROVE TypeOK'
  BY <1>6 DEF TypeOK, WriteFails
<1>7. ASSUME NEW t \in Thread, RemoveTarget(t) PROVE TypeOK'
  BY <1>7, BlankType DEF TypeOK, RemoveTarget, Kinds
<1>8. ASSUME NEW t \in Thread, Rename(t) PROVE TypeOK'
  <2>1. NextSeq(seen[t]) \in Seqs
    BY <1>8, NextSeqType DEF TypeOK, ViewInv, Rename
  <2>2. Versioned(NextSeq(seen[t]), commits + 1) \in Content
    BY <2>1 DEF TypeOK, Versioned, Content, Kinds
  <2>3. disk' \in [Slot -> Content] /\ commits' \in Nat
    <3>1. /\ commits' = commits + 1
          /\ disk' = [disk EXCEPT ![Target(seen[t])] =
                              Versioned(NextSeq(seen[t]), commits + 1)]
      BY <1>8 DEF Rename
    <3>2. disk \in [Slot -> Content] /\ commits \in Nat
      BY DEF TypeOK
    <3>3. commits' \in Nat
      BY <3>1, <3>2
    <3> HIDE DEF Goto, history, locks, Critical
    <3>4. disk' \in [Slot -> Content]
      BY <2>2, <3>1, <3>2
    <3> QED BY <3>3, <3>4
  <2>4. access' \in [Slot -> BOOLEAN] /\ pc' \in [Thread -> {"idle", "lock", "unlock", "load"} \cup Critical]
    BY <1>8 DEF TypeOK, Rename
  <2> QED BY <1>8, <2>3, <2>4 DEF TypeOK, Rename
<1>9. ASSUME NEW t \in Thread, Protect(t) PROVE TypeOK'
  BY <1>9 DEF TypeOK, Protect
<1>10. ASSUME NEW t \in Thread, CloseLock(t) PROVE TypeOK'
  BY <1>10, UnreadType DEF TypeOK, CloseLock
<1>11. ASSUME NEW t \in Thread, Unlock(t) PROVE TypeOK'
  BY <1>11, ThreadAssumption DEF TypeOK, Unlock
<1>12. ASSUME NEW t \in Thread, StartLoad(t) PROVE TypeOK'
  BY <1>12, UnreadType DEF TypeOK, StartLoad
<1>13. ASSUME NEW t \in Thread, FinishLoad(t) PROVE TypeOK'
  BY <1>13, UnreadType DEF TypeOK, FinishLoad
<1>14. ASSUME NEW p \in Process, Crash(p) PROVE TypeOK'
  BY <1>14, UnreadType DEF TypeOK, Crash
<1>15. ASSUME NEW s \in Slot, Damage(s) PROVE TypeOK'
  BY <1>15, BlankType DEF TypeOK, Damage, Fault, Kinds
<1>16. ASSUME NEW s \in Slot, Deny(s) PROVE TypeOK'
  BY <1>16 DEF TypeOK, Deny, Fault
<1>17. ASSUME NEW s \in Slot, Restore(s) PROVE TypeOK'
  BY <1>17 DEF TypeOK, Restore
<1>18. CASE UNCHANGED vars
  BY <1>18 DEF TypeOK, vars
<1> QED
  BY <1>1, <1>2, <1>3, <1>4, <1>5, <1>6, <1>7, <1>8, <1>9, <1>10, <1>11, <1>12,
     <1>13, <1>14, <1>15, <1>16, <1>17, <1>18, ThreadAssumption
     DEF Next, SaveStep

\* A thread takes a lock only when its holder may be nobody else: the mutex when
\* it is free, the file lock when no other process has it.
LEMMA LockStep == TypeOK /\ LockInv /\ [Next]_vars => LockInv'
<1> SUFFICES ASSUME TypeOK, LockInv, [Next]_vars PROVE LockInv'
  OBVIOUS
<1> USE NoneAssumption, ThreadAssumption DEF Goto, history, locks, Critical, TypeOK, LockInv
<1>1. ASSUME NEW t \in Thread, StartSave(t) PROVE LockInv'
  BY <1>1 DEF StartSave
<1>2. ASSUME NEW t \in Thread, LockFile(t) PROVE LockInv'
  BY <1>2 DEF LockFile
<1>3. ASSUME NEW t \in Thread, LockFails(t) PROVE LockInv'
  BY <1>3 DEF LockFails
<1>4. ASSUME NEW t \in Thread, NEW s \in Slot, ReadSlot(t, s) PROVE LockInv'
  BY <1>4 DEF ReadSlot
<1>5. ASSUME NEW t \in Thread, Choose(t) PROVE LockInv'
  BY <1>5 DEF Choose
<1>6. ASSUME NEW t \in Thread, WriteFails(t) PROVE LockInv'
  BY <1>6 DEF WriteFails
<1>7. ASSUME NEW t \in Thread, RemoveTarget(t) PROVE LockInv'
  BY <1>7 DEF RemoveTarget
<1>8. ASSUME NEW t \in Thread, Rename(t) PROVE LockInv'
  BY <1>8 DEF Rename
<1>9. ASSUME NEW t \in Thread, Protect(t) PROVE LockInv'
  BY <1>9 DEF Protect
<1>10. ASSUME NEW t \in Thread, CloseLock(t) PROVE LockInv'
  BY <1>10 DEF CloseLock
<1>11. ASSUME NEW t \in Thread, Unlock(t) PROVE LockInv'
  BY <1>11 DEF Unlock
<1>12. ASSUME NEW t \in Thread, StartLoad(t) PROVE LockInv'
  BY <1>12 DEF StartLoad
<1>13. ASSUME NEW t \in Thread, FinishLoad(t) PROVE LockInv'
  BY <1>13 DEF FinishLoad
<1>14. ASSUME NEW p \in Process, Crash(p) PROVE LockInv'
  BY <1>14 DEF Crash
<1>15. ASSUME NEW s \in Slot, Damage(s) PROVE LockInv'
  BY <1>15 DEF Damage, Fault
<1>16. ASSUME NEW s \in Slot, Deny(s) PROVE LockInv'
  BY <1>16 DEF Deny, Fault
<1>17. ASSUME NEW s \in Slot, Restore(s) PROVE LockInv'
  BY <1>17 DEF Restore
<1>18. CASE UNCHANGED vars
  BY <1>18 DEF vars
<1> QED
  BY <1>1, <1>2, <1>3, <1>4, <1>5, <1>6, <1>7, <1>8, <1>9, <1>10, <1>11, <1>12,
     <1>13, <1>14, <1>15, <1>16, <1>17, <1>18
     DEF Next, SaveStep

\* The holder of both locks is alone in the critical section.
LEMMA LockExcludes == LockInv => MutualExclusion
BY DEF LockInv, MutualExclusion

-----------------------------------------------------------------------------
(* The files: the invariant is kept by the two actions of a save that write,   *)
(* and by the faults                                                           *)

\* Steps that leave the files alone keep what is said of the files.
LEMMA DiskUnchanged ==
    ASSUME DiskInv, UNCHANGED <<disk, commits>>
    PROVE  DiskInv'
BY DEF DiskInv, Follows, Valid, Succ

\* What a load returns depends on the files only.
LEMMA StoredUnchanged == UNCHANGED disk => Stored' = Stored
BY DEF Stored

\* Steps that leave files, commits and faults alone keep the fault-free store whole.
LEMMA FaultFreeUnchanged ==
    ASSUME FaultFreeInv, UNCHANGED <<disk, access, commits, faults>>, ~disturbed => ~disturbed'
    PROVE  FaultFreeInv'
BY StoredUnchanged DEF FaultFreeInv

\* A slot that loses its snapshot leaves the other one as the choice.
LEMMA DiskBlanked ==
    ASSUME TypeOK, DiskInv, NEW s \in Slot, NEW kind \in {"missing", "damaged"},
           disk' = [disk EXCEPT ![s] = Blank(kind)], UNCHANGED commits
    PROVE  DiskInv'
<1>1. /\ ~Valid(disk'[s])
      /\ disk'[s].kind = kind
      /\ disk'[s].snap = 0
      /\ \A u \in Slot : u # s => disk'[u] = disk[u]
  BY DEF TypeOK, Valid, Blank
<1>2. ~(Valid(disk'[0]) /\ Valid(disk'[1]))
  BY <1>1 DEF Slot
<1>3. \A u \in Slot : /\ disk'[u].kind \in {"missing", "damaged", "legacy", "versioned"}
                      /\ disk'[u].snap <= commits'
  BY <1>1 DEF TypeOK, DiskInv
<1>4. disk'[1].kind # "legacy"
  BY <1>1 DEF DiskInv, Slot
<1> QED BY <1>2, <1>3, <1>4 DEF DiskInv, Valid

\* What a save that may write knows of its target and of the other slot.
LEMMA WriterView ==
    ASSUME TypeOK, ViewInv, NEW t \in Thread, pc[t] \in {"write", "gap"}
    PROVE  LET s == Target(seen[t]) IN
           /\ s \in Slot /\ 1 - s \in Slot
           /\ \/ Empty(seen[t]) /\ seen[t][1 - s].kind = "missing"
              \/ /\ ~Empty(seen[t])
                 /\ Select(seen[t]) = 1 - s
                 /\ Valid(seen[t][1 - s])
                 /\ NextSeq(seen[t]) = Succ(seen[t][1 - s].seq)
           /\ \/ seen[t][1 - s] = disk[1 - s]
              \/ ~Valid(disk[1 - s])
<1> DEFINE s == Target(seen[t])
<1>1. MayWrite(seen[t]) /\ BothRead(t)
  BY DEF ViewInv
<1>2. s \in Slot /\ 1 - s \in Slot
  BY TargetOther DEF Slot
<1>3. Empty(seen[t]) => seen[t][1 - s].kind = "missing"
  BY <1>2 DEF Empty
<1>4. ASSUME ~Empty(seen[t])
      PROVE  /\ Select(seen[t]) = 1 - s
             /\ Valid(seen[t][1 - s])
             /\ NextSeq(seen[t]) = Succ(seen[t][1 - s].seq)
  <2>1. Select(seen[t]) # NoSlot
    BY <1>1, <1>4 DEF MayWrite
  <2>2. Select(seen[t]) = 1 - s
    BY <2>1, TargetOther, SelectValid DEF NoSlot
  <2>3. Valid(seen[t][1 - s])
    BY <2>1, <2>2, SelectValid
  <2>4. NextSeq(seen[t]) = Succ(seen[t][1 - s].seq)
    BY <1>4, <2>2 DEF NextSeq
  <2> QED BY <2>2, <2>3, <2>4
<1>5. seen[t][1 - s] = disk[1 - s] \/ ~Valid(disk[1 - s])
  <2>1. \/ seen[t][1 - s].kind \in {"unread", "unreadable"}
        \/ seen[t][1 - s] = disk[1 - s]
        \/ ~Valid(disk[1 - s])
    BY <1>2 DEF ViewInv
  <2>2. seen[t][1 - s].kind \notin {"unread", "unreadable"}
    BY <1>1, <1>2 DEF MayWrite, BothRead
  <2> QED BY <2>1, <2>2
<1> QED BY <1>2, <1>3, <1>4, <1>5

\* The new snapshot follows whatever valid copy stays beside it, so a load
\* returns it.
LEMMA RenameCommits ==
    ASSUME TypeOK, TypeOK', ViewInv, DiskInv, NEW t \in Thread, Rename(t)
    PROVE  DiskInv' /\ Stored' = commits'
<1> DEFINE s == Target(seen[t])
<1>1. pc[t] \in {"write", "gap"}
  BY DEF Rename
<1>2. /\ s \in Slot /\ 1 - s \in Slot /\ s # 1 - s /\ 1 - (1 - s) = s
      /\ \A u \in Slot : u = s \/ u = 1 - s
  BY <1>1, WriterView DEF Slot
<1>3. /\ disk'[s] = Versioned(NextSeq(seen[t]), commits + 1)
      /\ disk'[1 - s] = disk[1 - s]
      /\ commits' = commits + 1
  BY <1>2 DEF Rename, TypeOK
<1>4. /\ Valid(disk'[s])
      /\ disk'[s].kind = "versioned"
      /\ disk'[s].seq = NextSeq(seen[t])
      /\ disk'[s].snap = commits + 1
  BY <1>3 DEF Versioned, Valid
<1>5. Valid(disk'[1 - s]) => Follows(disk'[1 - s], disk'[s])
  <2> SUFFICES ASSUME Valid(disk[1 - s]) PROVE Follows(disk[1 - s], disk'[s])
    BY <1>3
  <2>1. seen[t][1 - s] = disk[1 - s]
    BY <1>1, WriterView
  <2>2. NextSeq(seen[t]) = Succ(disk[1 - s].seq)
    BY <1>1, <2>1, WriterView DEF Valid
  <2>3. disk[1 - s].snap < commits + 1
    BY <1>2 DEF DiskInv, TypeOK, Content
  <2> QED BY <1>4, <2>2, <2>3 DEF Follows
<1>6. disk'[1].kind # "legacy"
  BY <1>2, <1>3, <1>4 DEF DiskInv, Slot
<1>7. Select(disk') = s
  <2>1. CASE Valid(disk'[1 - s])
    <3>1. disk' \in [Slot -> Content]
      BY DEF TypeOK
    <3>2. Valid(disk'[0]) /\ Valid(disk'[1])
      BY <1>2, <1>4, <2>1 DEF Slot
    <3> QED BY <1>2, <1>5, <1>6, <2>1, <3>1, <3>2, SelectFollower
  <2>2. CASE ~Valid(disk'[1 - s])
    BY <1>2, <1>4, <2>2, SelectSingle
  <2> QED BY <2>1, <2>2
<1>8. Stored' = commits'
  <2>1. Stored' = SnapOf(disk', s)
    BY <1>7 DEF Stored
  <2>2. s # NoSlot
    BY <1>2 DEF Slot, NoSlot
  <2> QED BY <1>3, <1>4, <2>1, <2>2 DEF SnapOf
<1>9. \A u \in Slot : /\ disk'[u].kind \in {"missing", "damaged", "legacy", "versioned"}
                      /\ disk'[u].snap <= commits'
  <2>1. /\ disk'[1 - s].kind \in {"missing", "damaged", "legacy", "versioned"}
        /\ disk'[1 - s].snap <= commits'
    <3>1. disk[1 - s].snap \in Nat /\ commits \in Nat
      BY <1>2 DEF TypeOK, Content
    <3> QED BY <1>2, <1>3, <3>1 DEF DiskInv
  <2>2. /\ disk'[s].kind \in {"missing", "damaged", "legacy", "versioned"}
        /\ disk'[s].snap <= commits'
    BY <1>3, <1>4 DEF TypeOK
  <2> QED BY <1>2, <2>1, <2>2
<1>10. Valid(disk'[0]) /\ Valid(disk'[1]) =>
           \/ Follows(disk'[0], disk'[1])
           \/ disk'[1].kind = "versioned" /\ Follows(disk'[1], disk'[0])
  BY <1>2, <1>5, <1>6 DEF Slot, Valid
<1> QED BY <1>6, <1>8, <1>9, <1>10 DEF DiskInv

\* A save that removes its target leaves the copy it selected, hence what a load
\* returns.
LEMMA RemoveKeepsStored ==
    ASSUME TypeOK, ViewInv, DiskInv, FaultFreeInv, faults = 0,
           NEW t \in Thread, RemoveTarget(t)
    PROVE  Stored' = Stored
<1> DEFINE s == Target(seen[t])
<1>1. pc[t] = "write"
  BY DEF RemoveTarget
<1>2. /\ s \in Slot /\ 1 - s \in Slot /\ s # 1 - s /\ 1 - (1 - s) = s
      /\ \A u \in Slot : u = s \/ u = 1 - s
  BY <1>1, WriterView DEF Slot
<1>3. disk'[1 - s] = disk[1 - s] /\ ~Valid(disk'[s])
  BY <1>2 DEF RemoveTarget, TypeOK, Blank, Valid
<1>4. \A u \in Slot : seen[t][u] = disk[u]
  <2>1. MayWrite(seen[t]) /\ BothRead(t) /\ ~disturbed
    BY <1>1 DEF ViewInv, FaultFreeInv
  <2> QED BY <1>1, <2>1 DEF ViewInv, MayWrite, BothRead
<1>5. CASE Empty(seen[t])
  <2>1. ~Valid(disk[0]) /\ ~Valid(disk[1]) /\ ~Valid(disk'[0]) /\ ~Valid(disk'[1])
    BY <1>2, <1>3, <1>4, <1>5 DEF Empty, Valid, Slot
  <2>2. Select(disk) = NoSlot /\ Select(disk') = NoSlot
    BY <2>1 DEF Select
  <2> QED BY <2>2 DEF Stored, SnapOf
<1>6. CASE ~Empty(seen[t])
  <2>1. Select(seen[t]) = 1 - s /\ Valid(seen[t][1 - s])
    BY <1>1, <1>6, WriterView
  <2>2. Select(disk) = Select(seen[t])
    BY <1>4 DEF Select, Slot
  <2>3. Select(disk') = 1 - s
    BY <1>2, <1>3, <1>4, <2>1, SelectSingle
  <2>4. SnapOf(disk', 1 - s) = SnapOf(disk, 1 - s)
    BY <1>3 DEF SnapOf
  <2> QED BY <2>1, <2>2, <2>3, <2>4 DEF Stored
<1> QED BY <1>5, <1>6

\* A store found at the start holds one snapshot or two adjacent ones.
LEMMA DiskInit == Init => DiskInv /\ FaultFreeInv
<1> SUFFICES ASSUME Init PROVE DiskInv /\ FaultFreeInv
  OBVIOUS
<1>1. TypeOK
  BY TypeInit
<1>2. FaultFreeInv
  BY DEF Init, FaultFreeInv
<1>3. PICK first \in FirstSeqs : disk \in InitialDisk(first)
  BY DEF Init
<1>4. first \in Seqs
  BY FirstSeqsAssumption DEF Seqs
<1>5. CASE ~(Valid(disk[0]) /\ Valid(disk[1]))
  <2>1. \A s \in Slot : Valid(disk[s]) => Stored = disk[s].snap
    <3> SUFFICES ASSUME NEW s \in Slot, Valid(disk[s]) PROVE Stored = disk[s].snap
      OBVIOUS
    <3>1. ~Valid(disk[1 - s])
      BY <1>5 DEF Slot
    <3>2. Select(disk) = s
      BY <3>1, SelectSingle
    <3> QED BY <3>2 DEF Stored, SnapOf, Slot, NoSlot
  <2>2. \A s \in Slot : ~Valid(disk[s]) => disk[s].snap = 0 /\ disk[s].kind = "missing"
    BY <1>3 DEF InitialDisk, Blank, Versioned, Valid
  <2>3. \A s \in Slot : disk[s].kind \in {"missing", "damaged", "legacy", "versioned"}
    BY <2>2 DEF Valid
  <2>4. disk[1].kind # "legacy"
    BY <1>3 DEF InitialDisk, Blank, Versioned, Slot
  <2>5. \A s \in Slot : disk[s].snap <= commits
    <3> SUFFICES ASSUME NEW s \in Slot PROVE disk[s].snap <= commits
      OBVIOUS
    <3>1. commits \in Nat /\ disk[s].snap \in Nat
      BY <1>1 DEF TypeOK, Content
    <3>2. commits = Stored
      BY DEF Init
    <3> QED BY <2>1, <2>2, <3>1, <3>2
  <2> QED BY <1>2, <1>5, <2>3, <2>4, <2>5 DEF DiskInv
<1>6. CASE Valid(disk[0]) /\ Valid(disk[1])
  <2>1. \E s \in Slot : /\ disk[s] = Versioned(Succ(first), 2)
                        /\ disk[1 - s] = Versioned(first, 1)
    BY <1>3, <1>6 DEF InitialDisk, Blank, Valid, Slot
  <2>2. PICK s \in Slot : /\ disk[s] = Versioned(Succ(first), 2)
                          /\ disk[1 - s] = Versioned(first, 1)
    BY <2>1
  <2>3. Follows(disk[1 - s], disk[s])
    BY <2>2 DEF Follows, Versioned
  <2>4. /\ 1 - s \in Slot
        /\ \A u \in Slot : u = s \/ u = 1 - s
    BY DEF Slot
  <2>5. \A u \in Slot : disk[u].kind = "versioned" /\ disk[u].snap <= 2
    BY <2>2, <2>4 DEF Versioned
  <2>6. Select(disk) = s
    BY <1>1, <1>6, <2>3, <2>5, SelectFollower DEF TypeOK, Slot
  <2>7. commits = 2
    BY <2>2, <2>6 DEF Init, Stored, SnapOf, Versioned, Slot, NoSlot
  <2> QED BY <1>2, <2>3, <2>4, <2>5, <2>7 DEF DiskInv, Slot
<1> QED BY <1>5, <1>6

\* Saves keep the two copies adjacent and, without faults, the last one chosen;
\* faults only take copies away.
LEMMA DiskStep == IInv /\ TypeOK' /\ [Next]_vars => DiskInv' /\ FaultFreeInv'
<1> SUFFICES ASSUME IInv, TypeOK', [Next]_vars PROVE DiskInv' /\ FaultFreeInv'
  OBVIOUS
<1> USE DEF IInv, history
<1>1. ASSUME NEW t \in Thread, StartSave(t) PROVE DiskInv' /\ FaultFreeInv'
  BY <1>1, DiskUnchanged, FaultFreeUnchanged DEF StartSave
<1>2. ASSUME NEW t \in Thread, LockFile(t) PROVE DiskInv' /\ FaultFreeInv'
  BY <1>2, DiskUnchanged, FaultFreeUnchanged DEF LockFile
<1>3. ASSUME NEW t \in Thread, LockFails(t) PROVE DiskInv' /\ FaultFreeInv'
  BY <1>3, DiskUnchanged, FaultFreeUnchanged DEF LockFails
<1>4. ASSUME NEW t \in Thread, NEW s \in Slot, ReadSlot(t, s) PROVE DiskInv' /\ FaultFreeInv'
  BY <1>4, DiskUnchanged, FaultFreeUnchanged DEF ReadSlot
<1>5. ASSUME NEW t \in Thread, Choose(t) PROVE DiskInv' /\ FaultFreeInv'
  BY <1>5, DiskUnchanged, FaultFreeUnchanged DEF Choose
<1>6. ASSUME NEW t \in Thread, WriteFails(t) PROVE DiskInv' /\ FaultFreeInv'
  BY <1>6, DiskUnchanged, FaultFreeUnchanged DEF WriteFails
<1>7. ASSUME NEW t \in Thread, RemoveTarget(t) PROVE DiskInv' /\ FaultFreeInv'
  <2>1. DiskInv'
    <3>1. disk' = [disk EXCEPT ![Target(seen[t])] = Blank("missing")] /\ UNCHANGED commits
      BY <1>7 DEF RemoveTarget
    <3> QED BY <3>1, TargetOther, DiskBlanked
  <2>2. FaultFreeInv'
    <3>1. faults = 0 => Stored' = Stored
      BY <1>7, RemoveKeepsStored
    <3> QED BY <1>7, <3>1 DEF FaultFreeInv, RemoveTarget
  <2> QED BY <2>1, <2>2
<1>8. ASSUME NEW t \in Thread, Rename(t) PROVE DiskInv' /\ FaultFreeInv'
  <2>1. DiskInv' /\ Stored' = commits'
    BY <1>8, RenameCommits
  <2>2. /\ UNCHANGED <<faults, disturbed>>
        /\ access' = [access EXCEPT ![Target(seen[t])] = TRUE]
    BY <1>8 DEF Rename
  <2>3. FaultFreeInv'
    BY <2>1, <2>2 DEF FaultFreeInv, TypeOK
  <2> QED BY <2>1, <2>3
<1>9. ASSUME NEW t \in Thread, Protect(t) PROVE DiskInv' /\ FaultFreeInv'
  BY <1>9, DiskUnchanged, FaultFreeUnchanged DEF Protect
<1>10. ASSUME NEW t \in Thread, CloseLock(t) PROVE DiskInv' /\ FaultFreeInv'
  BY <1>10, DiskUnchanged, FaultFreeUnchanged DEF CloseLock
<1>11. ASSUME NEW t \in Thread, Unlock(t) PROVE DiskInv' /\ FaultFreeInv'
  BY <1>11, DiskUnchanged, FaultFreeUnchanged DEF Unlock
<1>12. ASSUME NEW t \in Thread, StartLoad(t) PROVE DiskInv' /\ FaultFreeInv'
  BY <1>12, DiskUnchanged, FaultFreeUnchanged DEF StartLoad
<1>13. ASSUME NEW t \in Thread, FinishLoad(t) PROVE DiskInv' /\ FaultFreeInv'
  BY <1>13, DiskUnchanged, FaultFreeUnchanged DEF FinishLoad
<1>14. ASSUME NEW p \in Process, Crash(p) PROVE DiskInv' /\ FaultFreeInv'
  BY <1>14, DiskUnchanged, FaultFreeUnchanged DEF Crash
<1>15. ASSUME NEW s \in Slot, Damage(s) PROVE DiskInv' /\ FaultFreeInv'
  <2>1. DiskInv'
    BY <1>15, DiskBlanked DEF Damage, Fault
  <2>2. faults' # 0
    BY <1>15 DEF Damage, Fault, TypeOK
  <2> QED BY <2>1, <2>2 DEF FaultFreeInv
<1>16. ASSUME NEW s \in Slot, Deny(s) PROVE DiskInv' /\ FaultFreeInv'
  <2>1. faults' # 0
    BY <1>16 DEF Deny, Fault, TypeOK
  <2> QED BY <1>16, <2>1, DiskUnchanged DEF FaultFreeInv, Deny, Fault
<1>17. ASSUME NEW s \in Slot, Restore(s) PROVE DiskInv' /\ FaultFreeInv'
  <2>1. faults # 0
    BY <1>17 DEF Restore, FaultFreeInv
  <2> QED BY <1>17, <2>1, DiskUnchanged DEF Restore, FaultFreeInv
<1>18. CASE UNCHANGED vars
  BY <1>18, DiskUnchanged, FaultFreeUnchanged DEF vars
<1> QED
  BY <1>1, <1>2, <1>3, <1>4, <1>5, <1>6, <1>7, <1>8, <1>9, <1>10, <1>11, <1>12,
     <1>13, <1>14, <1>15, <1>16, <1>17, <1>18, ThreadAssumption
     DEF Next, SaveStep

-----------------------------------------------------------------------------
(* What the lock holder knows of the files *)

\* Steps of other threads that leave the files alone.
LEMMA ViewUnchanged ==
    ASSUME ViewInv, UNCHANGED <<disk, access, disturbed>>,
           \A t \in Thread : pc'[t] \in {"read", "write", "gap"} =>
                                 pc'[t] = pc[t] /\ seen'[t] = seen[t]
    PROVE  ViewInv'
BY DEF ViewInv, Valid, BothRead, MayWrite, Empty, Select, Target, Distance

\* A step after which no thread is between reading and replacing.
LEMMA ViewVacuous ==
    ASSUME \A t \in Thread : pc'[t] \notin {"read", "write", "gap"}
    PROVE  ViewInv'
BY DEF ViewInv

\* While a thread is in the critical section the file lock is taken and no other
\* thread is there.
LEMMA HolderAlone ==
    ASSUME LockInv, NEW t \in Thread, pc[t] \in Critical
    PROVE  /\ fileLock # None
           /\ \A u \in Thread : pc[u] \in Critical => u = t
BY LockExcludes, NoneAssumption, ThreadAssumption DEF LockInv, MutualExclusion

\* A fault while a thread is in the critical section is recorded.
LEMMA ViewDisturbed ==
    ASSUME ViewInv, LockInv, pc' = pc, seen' = seen,
           disturbed' = (fileLock # None),
           \A s \in Slot : disk'[s] = disk[s] \/ ~Valid(disk'[s])
    PROVE  ViewInv'
<1> SUFFICES ASSUME NEW t \in Thread, pc[t] \in {"read", "write", "gap"}
             PROVE  /\ \A s \in Slot :
                           \/ seen[t][s].kind \in {"unread", "unreadable"}
                           \/ seen[t][s] = disk'[s]
                           \/ ~Valid(disk'[s])
                    /\ disturbed'
                    /\ pc[t] \in {"write", "gap"} => BothRead(t) /\ MayWrite(seen[t])
  BY DEF ViewInv, BothRead, Valid
<1>1. disturbed'
  BY HolderAlone DEF Critical
<1>2. \A s \in Slot : \/ seen[t][s].kind \in {"unread", "unreadable"}
                      \/ seen[t][s] = disk'[s]
                      \/ ~Valid(disk'[s])
  BY DEF ViewInv
<1> QED BY <1>1, <1>2 DEF ViewInv

\* Every step keeps what the lock holder read in force: only the holder changes
\* files, and each fault meanwhile is recorded.
LEMMA ViewStep == IInv /\ [Next]_vars => ViewInv'
<1> SUFFICES ASSUME IInv, [Next]_vars PROVE ViewInv'
  OBVIOUS
<1> USE DEF IInv, history, locks, Goto
<1>1. ASSUME NEW t \in Thread, StartSave(t) PROVE ViewInv'
  BY <1>1, ViewUnchanged DEF StartSave, TypeOK
<1>2. ASSUME NEW t \in Thread, LockFile(t) PROVE ViewInv'
  <2>1. CASE fileLock \in {None, ProcOf[t]}
    <3>1. \A u \in Thread : u # t => pc'[u] \notin {"read", "write", "gap"}
      <4> SUFFICES ASSUME NEW u \in Thread, u # t, pc[u] \in {"read", "write", "gap"}
                   PROVE  FALSE
        BY <1>2 DEF LockFile, TypeOK
      <4>1. fileLock = ProcOf[u] /\ mutex[ProcOf[u]] = u
        BY DEF LockInv, Critical
      <4>2. mutex[ProcOf[t]] = t
        BY <1>2 DEF LockFile, LockInv
      <4> QED BY <2>1, <4>1, <4>2, NoneAssumption, ThreadAssumption
    <3>2. pc'[t] = "read" /\ seen'[t] = Unread
      BY <1>2, <2>1 DEF LockFile, TypeOK
    <3>3. \A s \in Slot : seen'[t][s].kind = "unread"
      BY <3>2 DEF Unread, Blank
    <3> QED BY <3>1, <3>2, <3>3 DEF ViewInv
  <2>2. CASE fileLock \notin {None, ProcOf[t]}
    BY <1>2, <2>2, ViewUnchanged DEF LockFile, TypeOK
  <2> QED BY <2>1, <2>2
<1>3. ASSUME NEW t \in Thread, LockFails(t) PROVE ViewInv'
  BY <1>3, ViewUnchanged DEF LockFails, TypeOK
<1>4. ASSUME NEW t \in Thread, NEW s \in Slot, ReadSlot(t, s) PROVE ViewInv'
  <2>1. /\ UNCHANGED <<disk, access, disturbed, pc>>
        /\ \A u \in Thread : u # t => seen'[u] = seen[u]
        /\ \A r \in Slot : r # s => seen'[t][r] = seen[t][r]
        /\ seen'[t][s] = ReadOf(s)
    BY <1>4 DEF ReadSlot, TypeOK
  <2>2. CASE pc[t] = "load"
    BY <2>1, <2>2, ViewUnchanged
  <2>3. CASE pc[t] = "read"
    <3>1. ReadOf(s).kind # "unread"
      BY DEF ReadOf, Blank, DiskInv
    <3>2. IF access[s] THEN ReadOf(s) = disk[s] ELSE ReadOf(s).kind = "unreadable"
      BY DEF ReadOf, Blank, DiskInv
    <3>3. access[s] => ReadOf(s).kind # "unreadable"
      BY <3>2 DEF DiskInv
    <3>4. ASSUME NEW u \in Thread, u # t, pc[u] \in {"read", "write", "gap"}
          PROVE  FALSE
      BY <2>3, <3>4, HolderAlone DEF Critical
    <3>5. \A r \in Slot : \/ seen'[t][r].kind \in {"unread", "unreadable"}
                          \/ seen'[t][r] = disk[r]
                          \/ ~Valid(disk[r])
      BY <2>1, <2>3, <3>2 DEF ViewInv
    <3>6. ~disturbed => \A r \in Slot :
              /\ seen'[t][r].kind = "unread" \/ access[r] = (seen'[t][r].kind # "unreadable")
              /\ seen'[t][r].kind \in {"unread", "unreadable"} \/ seen'[t][r] = disk[r]
      <4> SUFFICES ASSUME ~disturbed, NEW r \in Slot
                   PROVE  /\ seen'[t][r].kind = "unread" \/ access[r] = (seen'[t][r].kind # "unreadable")
                          /\ seen'[t][r].kind \in {"unread", "unreadable"} \/ seen'[t][r] = disk[r]
        OBVIOUS
      <4>1. CASE r = s
        BY <2>1, <3>2, <3>3, <4>1 DEF TypeOK
      <4>2. CASE r # s
        BY <2>1, <2>3, <4>2 DEF ViewInv
      <4> QED BY <4>1, <4>2
    <3> QED BY <2>1, <2>3, <3>4, <3>5, <3>6 DEF ViewInv, Valid
  <2> QED BY <1>4, <2>2, <2>3 DEF ReadSlot
<1>5. ASSUME NEW t \in Thread, Choose(t) PROVE ViewInv'
  <2>1. CASE MayWrite(seen[t])
    <3>1. /\ UNCHANGED <<disk, access, disturbed, seen>>
          /\ \A u \in Thread : u # t => pc'[u] = pc[u]
          /\ pc[t] = "read" /\ pc'[t] = "write"
          /\ BothRead(t)
      BY <1>5, <2>1 DEF Choose, TypeOK
    <3>2. BothRead(t)' /\ MayWrite(seen[t])'
      BY <2>1, <3>1 DEF BothRead
    <3>3. ASSUME NEW u \in Thread, u # t, pc[u] \in {"read", "write", "gap"}
          PROVE  FALSE
      BY <3>1, <3>3, HolderAlone DEF Critical
    <3> QED BY <3>1, <3>2, <3>3 DEF ViewInv, Valid
  <2>2. CASE ~MayWrite(seen[t])
    BY <1>5, <2>2, ViewUnchanged DEF Choose, TypeOK
  <2> QED BY <2>1, <2>2
<1>6. ASSUME NEW t \in Thread, WriteFails(t) PROVE ViewInv'
  BY <1>6, ViewUnchanged DEF WriteFails, TypeOK
<1>7. ASSUME NEW t \in Thread, RemoveTarget(t) PROVE ViewInv'
  <2> DEFINE s == Target(seen[t])
  <2>1. /\ UNCHANGED <<access, disturbed, seen>>
        /\ \A u \in Thread : u # t => pc'[u] = pc[u]
        /\ pc[t] = "write" /\ pc'[t] = "gap"
        /\ s \in Slot
        /\ disk'[s].kind = "missing"
        /\ \A r \in Slot : r # s => disk'[r] = disk[r]
    BY <1>7, TargetOther DEF RemoveTarget, TypeOK, Blank
  <2>2. ASSUME NEW u \in Thread, u # t, pc[u] \in {"read", "write", "gap"}
        PROVE  FALSE
    BY <2>1, <2>2, HolderAlone DEF Critical
  <2>3. BothRead(t)' /\ MayWrite(seen[t])' /\ Target(seen[t])' = s
    BY <2>1 DEF ViewInv, BothRead
  <2>4. ASSUME NEW r \in Slot
        PROVE  /\ \/ seen'[t][r].kind \in {"unread", "unreadable"}
                  \/ seen'[t][r] = disk'[r]
                  \/ ~Valid(disk'[r])
               /\ ~disturbed =>
                    /\ \/ seen'[t][r].kind = "unread"
                       \/ access'[r] = (seen'[t][r].kind # "unreadable")
                    /\ \/ seen'[t][r].kind \in {"unread", "unreadable"}
                       \/ seen'[t][r] = disk'[r]
                       \/ r = s /\ disk'[r].kind = "missing"
    <3>1. CASE r = s
      BY <2>1, <3>1 DEF ViewInv, Valid
    <3>2. CASE r # s
      BY <2>1, <3>2 DEF ViewInv, Valid
    <3> QED BY <3>1, <3>2
  <2> QED BY <2>1, <2>2, <2>3, <2>4 DEF ViewInv
<1>8. ASSUME NEW t \in Thread, Rename(t) PROVE ViewInv'
  <2>1. \A u \in Thread : pc[u] \in {"read", "write", "gap"} => u = t
    BY <1>8, HolderAlone DEF Rename, Critical
  <2> QED BY <1>8, <2>1, ViewVacuous DEF Rename, TypeOK
<1>9. ASSUME NEW t \in Thread, Protect(t) PROVE ViewInv'
  BY <1>9, ViewUnchanged DEF Protect, TypeOK
<1>10. ASSUME NEW t \in Thread, CloseLock(t) PROVE ViewInv'
  <2>1. \A u \in Thread : pc[u] \in {"read", "write", "gap"} => u = t
    BY <1>10, HolderAlone DEF CloseLock, Critical
  <2> QED BY <1>10, <2>1, ViewVacuous DEF CloseLock, TypeOK
<1>11. ASSUME NEW t \in Thread, Unlock(t) PROVE ViewInv'
  BY <1>11, ViewUnchanged DEF Unlock, TypeOK
<1>12. ASSUME NEW t \in Thread, StartLoad(t) PROVE ViewInv'
  BY <1>12, ViewUnchanged DEF StartLoad, TypeOK
<1>13. ASSUME NEW t \in Thread, FinishLoad(t) PROVE ViewInv'
  BY <1>13, ViewUnchanged DEF FinishLoad, TypeOK
<1>14. ASSUME NEW p \in Process, Crash(p) PROVE ViewInv'
  <2>1. /\ UNCHANGED <<disk, access>>
        /\ disturbed' = (disturbed /\ fileLock # p)
        /\ \A u \in Thread : /\ ProcOf[u] = p => pc'[u] = "idle"
                             /\ ProcOf[u] # p => pc'[u] = pc[u] /\ seen'[u] = seen[u]
    BY <1>14 DEF Crash, TypeOK
  <2>2. CASE fileLock = p
    <3>1. \A u \in Thread : pc[u] \in Critical => ProcOf[u] = p
      BY <2>2 DEF LockInv
    <3> QED BY <2>1, <3>1, ViewVacuous DEF Critical
  <2>3. CASE fileLock # p
    <3>1. disturbed' = disturbed
      BY <2>1, <2>3 DEF TypeOK
    <3> QED BY <2>1, <3>1, ViewUnchanged
  <2> QED BY <2>2, <2>3
<1>15. ASSUME NEW s \in Slot, Damage(s) PROVE ViewInv'
  <2>1. \A r \in Slot : disk'[r] = disk[r] \/ ~Valid(disk'[r])
    BY <1>15 DEF Damage, TypeOK, Valid, Blank
  <2> QED BY <1>15, <2>1, ViewDisturbed DEF Damage, Fault
<1>16. ASSUME NEW s \in Slot, Deny(s) PROVE ViewInv'
  BY <1>16, ViewDisturbed DEF Deny, Fault
<1>17. ASSUME NEW s \in Slot, Restore(s) PROVE ViewInv'
  BY <1>17, ViewDisturbed DEF Restore
<1>18. CASE UNCHANGED vars
  BY <1>18, ViewUnchanged DEF vars
<1> QED
  BY <1>1, <1>2, <1>3, <1>4, <1>5, <1>6, <1>7, <1>8, <1>9, <1>10, <1>11, <1>12,
     <1>13, <1>14, <1>15, <1>16, <1>17, <1>18, ThreadAssumption
     DEF Next, SaveStep
-----------------------------------------------------------------------------
(* Theorems *)

\* The inductive invariant holds in every reachable state.
LEMMA Inductive == Spec => []IInv
<1>1. Init => IInv
  <2>1. Init => LockInv
    BY DEF Init, LockInv, Critical
  <2>2. Init => ViewInv
    BY DEF Init, ViewInv
  <2> QED BY <2>1, <2>2, TypeInit, DiskInit DEF IInv
<1>2. IInv /\ [Next]_vars => IInv'
  BY TypeStep, LockStep, DiskStep, ViewStep DEF IInv
<1> QED BY <1>1, <1>2, PTL DEF Spec

\* Every variable keeps its type; in particular no counter leaves its range.
THEOREM TypeCorrect == Spec => []TypeOK
<1>1. IInv => TypeOK
  BY DEF IInv
<1> QED BY <1>1, Inductive, PTL

\* At most one thread of all processes reads, chooses and replaces the files of
\* the store at a time, for any number of threads per process: the in-process
\* mutex covers what the per-process file lock cannot exclude.
THEOREM Exclusion == Spec => []MutualExclusion
<1>1. IInv => MutualExclusion
  BY LockExcludes DEF IInv
<1> QED BY <1>1, Inductive, PTL

\* For every range of the counter, the sequence numbers of two valid copies
\* always tell which was committed last, and are never half a range apart.
THEOREM NewestWins == Spec => []NewestSelected
<1>1. ASSUME IInv PROVE NewestSelected
  <2> SUFFICES ASSUME \A s \in Slot : Valid(disk[s])
               PROVE  /\ Select(disk) # NoSlot
                      /\ \A s \in Slot : disk[s].snap <= Stored
    BY DEF NewestSelected
  <2>1. PICK s \in Slot : Follows(disk[1 - s], disk[s])
    BY <1>1 DEF IInv, DiskInv, Slot
  <2>2. Select(disk) = s
    BY <1>1, <2>1, SelectFollower DEF IInv, DiskInv, TypeOK, Slot
  <2>3. Stored = disk[s].snap
    BY <2>2 DEF Stored, SnapOf, Slot, NoSlot
  <2>4. disk[1 - s].snap < disk[s].snap
    BY <2>1 DEF Follows
  <2>5. \A r \in Slot : disk[r].snap \in Nat
    BY <1>1 DEF IInv, TypeOK, Content
  <2> QED BY <2>2, <2>3, <2>4, <2>5 DEF Slot, NoSlot
<1> QED BY <1>1, Inductive, PTL

\* As long as the storage is sound, a load returns the snapshot committed last:
\* no crash of any process, at any step of any save, loses it.
THEOREM Durability == Spec => []CommittedSurvives
<1>1. IInv => CommittedSurvives
  BY DEF IInv, FaultFreeInv, CommittedSurvives
<1> QED BY <1>1, Inductive, PTL

\* A save that no fault disturbs changes only a slot that is not the one a load
\* would return, that it could read, and in a store that is empty or keeps a
\* valid copy.
THEOREM SparesSelected == Spec => SaveSparesSelected
<1> DEFINE Spares == \A s \in Slot :
               disk'[s] # disk[s] /\ faults' = faults /\ ~disturbed =>
                   /\ s # Select(disk)
                   /\ access[s]
                   /\ Empty(disk) \/ Select(disk) # NoSlot
<1>1. ASSUME IInv, Next PROVE Spares
  <2> SUFFICES ASSUME NEW s \in Slot, disk'[s] # disk[s], faults' = faults, ~disturbed
               PROVE  /\ s # Select(disk)
                      /\ access[s]
                      /\ Empty(disk) \/ Select(disk) # NoSlot
    OBVIOUS
  <2> USE DEF history, locks, IInv
  <2>1. PICK t \in Thread : RemoveTarget(t) \/ Rename(t)
    <3>1. ~ \E r \in Slot : Damage(r)
      BY <1>1 DEF Damage, Fault, TypeOK
    <3> QED BY <1>1, <3>1, ThreadAssumption
            DEF Next, SaveStep, StartSave, LockFile, LockFails, ReadSlot, Choose,
                WriteFails, Protect, CloseLock, Unlock, StartLoad, FinishLoad,
                Crash, Deny, Restore
  <2>2. s = Target(seen[t]) /\ pc[t] \in {"write", "gap"}
    BY <1>1, <2>1 DEF RemoveTarget, Rename, TypeOK
  <2>3. MayWrite(seen[t]) /\ BothRead(t) /\ 1 - s \in Slot /\ 1 - s # s
    BY <1>1, <2>2, WriterView DEF ViewInv, Slot
  <2>4. access[s]
    BY <1>1, <2>2, <2>3 DEF ViewInv, MayWrite, BothRead
  <2>5. seen[t][1 - s] = disk[1 - s]
    BY <1>1, <2>2, <2>3 DEF ViewInv, MayWrite, BothRead
  <2>6. seen[t][s] = disk[s] \/ disk[s].kind = "missing"
    BY <1>1, <2>2, <2>3 DEF ViewInv, MayWrite, BothRead
  <2>7. CASE Empty(seen[t])
    <3>1. Empty(disk)
      BY <2>3, <2>5, <2>6, <2>7 DEF Empty, Slot
    <3>2. Select(disk) = NoSlot
      BY <3>1, SelectValid DEF Empty, Valid, Slot, NoSlot
    <3> QED BY <2>4, <3>1, <3>2 DEF Slot, NoSlot
  <2>8. CASE ~Empty(seen[t])
    <3>1. Select(seen[t]) = 1 - s /\ Valid(disk[1 - s])
      BY <1>1, <2>2, <2>5, <2>8, WriterView
    <3>2. Select(disk) = 1 - s
      <4>1. CASE seen[t][s] = disk[s]
        <5>1. seen[t][0] = disk[0] /\ seen[t][1] = disk[1]
          BY <2>5, <4>1 DEF Slot
        <5>2. Select(disk) = Select(seen[t])
          BY <5>1 DEF Select
        <5> QED BY <3>1, <5>2
      <4>2. CASE disk[s].kind = "missing"
        <5>1. ~Valid(disk[1 - (1 - s)])
          BY <4>2 DEF Valid, Slot
        <5> QED BY <2>3, <3>1, <5>1, SelectSingle
      <4> QED BY <2>6, <4>1, <4>2
    <3> QED BY <2>3, <2>4, <3>2 DEF Slot, NoSlot
  <2> QED BY <2>7, <2>8
<1>2. UNCHANGED vars => Spares
  BY DEF vars
<1>3. IInv /\ [Next]_vars => [Spares]_vars
  BY <1>1, <1>2
<1> QED BY <1>3, Inductive, PTL DEF Spec, SaveSparesSelected

-----------------------------------------------------------------------------
(* The register: what a load would return, and the copy behind it *)

\* The other valid copy of the files d, behind the one a load of them returns.
Behind(d) == IF \E s \in Slot : Valid(d[s]) /\ s # Select(d) /\ SnapOf(d, Select(d)) > 0
             THEN SnapOf(d, 1 - Select(d)) ELSE 0

\* A valid copy that is alone is what a load returns, with nothing behind it.
LEMMA OneCopy ==
    ASSUME NEW d, NEW s \in Slot, Valid(d[s]), ~Valid(d[1 - s])
    PROVE  Select(d) = s /\ SnapOf(d, Select(d)) = d[s].snap /\ Behind(d) = 0
<1>1. Select(d) = s /\ s # NoSlot
  BY SelectSingle DEF Slot, NoSlot
<1>2. \A r \in Slot : r = s \/ r = 1 - s
  BY DEF Slot
<1> QED BY <1>1, <1>2 DEF Behind, SnapOf

\* Without a valid copy there is nothing to return.
LEMMA NoCopy ==
    ASSUME NEW d, \A s \in Slot : ~Valid(d[s])
    PROVE  SnapOf(d, Select(d)) = 0 /\ Behind(d) = 0
BY DEF Behind, Select, SnapOf, Slot

\* Of two adjacent copies a load returns the later; the other is behind it.
LEMMA TwoCopies ==
    ASSUME NEW d \in [Slot -> Content], NEW s \in Slot, Valid(d[0]), Valid(d[1]),
           d[1].kind # "legacy", Follows(d[1 - s], d[s])
    PROVE  /\ Select(d) = s /\ SnapOf(d, Select(d)) = d[s].snap /\ d[s].snap > 0
           /\ Behind(d) = d[1 - s].snap
<1>1. Select(d) = s
  BY SelectFollower
<1>2. /\ 1 - s \in Slot /\ s # 1 - s /\ s # NoSlot /\ 1 - s # NoSlot
      /\ Valid(d[1 - s])
  BY DEF Slot, NoSlot
<1>3. d[s].snap \in Nat /\ d[1 - s].snap \in Nat
  BY <1>2 DEF Content
<1>4. d[s].snap > 0
  BY <1>3 DEF Follows
<1> QED BY <1>1, <1>2, <1>4 DEF SnapOf, Behind

\* A save replaces the copy that is not returned, if the one it chose is still there.
LEMMA WriterChoice ==
    ASSUME IInv, NEW t \in Thread, pc[t] \in {"write", "gap"},
           Valid(disk[1 - Target(seen[t])])
    PROVE  Select(disk) = 1 - Target(seen[t])
<1> DEFINE s == Target(seen[t])
<1>1. MayWrite(seen[t]) /\ BothRead(t)
  BY DEF IInv, ViewInv
<1>2. s \in Slot /\ 1 - s \in Slot /\ 1 - (1 - s) = s
  BY TargetOther DEF Slot
<1>3. seen[t][1 - s] = disk[1 - s]
  BY WriterView DEF IInv
<1>4. seen[t][1 - s].kind # "missing"
  BY <1>3 DEF Valid
<1>5. Select(seen[t]) = 1 - s
  BY <1>4, WriterView DEF IInv
<1>6. CASE Valid(disk[s])
  <2>1. seen[t][s].kind \notin {"unread", "unreadable"}
    BY <1>1, <1>2 DEF MayWrite, BothRead
  <2>2. seen[t][s] = disk[s]
    BY <1>2, <1>6, <2>1 DEF IInv, ViewInv
  <2>3. seen[t][0] = disk[0] /\ seen[t][1] = disk[1]
    BY <1>2, <1>3, <2>2 DEF Slot
  <2>4. Select(disk) = Select(seen[t])
    BY <2>3 DEF Select
  <2> QED BY <1>5, <2>4
<1>7. CASE ~Valid(disk[s])
  BY <1>2, <1>7, SelectSingle
<1> QED BY <1>6, <1>7

\* A slot that loses its snapshot: the register's value, its fallback or nothing.
LEMMA BlankedRegister ==
    ASSUME IInv, DiskInv', NEW s \in Slot, NEW kind \in {"missing", "damaged"},
           disk' = [disk EXCEPT ![s] = Blank(kind)], UNCHANGED commits
    PROVE  [Register!Next]_(Register!vars)
<1>1. /\ disk \in [Slot -> Content] /\ disk[1].kind # "legacy"
      /\ 1 - s \in Slot /\ s # 1 - s /\ 1 - (1 - s) = s
      /\ \A u \in Slot : u = s \/ u = 1 - s
  BY DEF IInv, TypeOK, DiskInv, Slot
<1>2. disk'[1 - s] = disk[1 - s] /\ ~Valid(disk'[s])
  BY <1>1 DEF Blank, Valid
<1>3. /\ Stored = SnapOf(disk, Select(disk)) /\ Stored' = SnapOf(disk', Select(disk'))
      /\ Fallback = Behind(disk) /\ Fallback' = Behind(disk')
  BY DEF Stored, Fallback, Behind
<1>4. Stored' = Stored /\ Fallback' = Fallback => UNCHANGED Register!vars
  BY DEF Register!vars
<1>5. Stored # 0 /\ Stored' = Fallback /\ Fallback' = 0 => Register!Next
  BY DEF Register!Next, Register!DamageValue
<1>6. Fallback # 0 /\ Fallback' = 0 /\ Stored' = Stored => Register!Next
  BY DEF Register!Next, Register!DropFallback
<1>7. CASE Valid(disk[1 - s])
  <2>1. Stored' = disk[1 - s].snap /\ Fallback' = 0
    BY <1>1, <1>2, <1>3, <1>7, OneCopy
  <2>2. CASE Valid(disk[s])
    <3>1. Valid(disk[0]) /\ Valid(disk[1])
      BY <1>1, <1>7, <2>2 DEF Slot
    <3>2. Follows(disk[1 - s], disk[s]) \/ Follows(disk[s], disk[1 - s])
      BY <1>1, <3>1 DEF IInv, DiskInv, Slot
    <3>3. CASE Follows(disk[1 - s], disk[s])
      <4>1. Stored = disk[s].snap /\ disk[s].snap > 0 /\ Fallback = disk[1 - s].snap
        BY <1>1, <1>3, <3>1, <3>3, TwoCopies
      <4>2. Stored # 0
        BY <1>1, <4>1 DEF Content
      <4> QED BY <1>5, <2>1, <4>1, <4>2
    <3>4. CASE Follows(disk[s], disk[1 - s])
      <4>1. Stored = disk[1 - s].snap
        BY <1>1, <1>3, <3>1, <3>4, TwoCopies
      <4> QED BY <1>4, <1>6, <2>1, <4>1
    <3> QED BY <3>2, <3>3, <3>4
  <2>3. CASE ~Valid(disk[s])
    <3>1. Stored = disk[1 - s].snap /\ Fallback = 0
      BY <1>1, <1>3, <1>7, <2>3, OneCopy
    <3> QED BY <1>4, <2>1, <3>1
  <2> QED BY <2>2, <2>3
<1>8. CASE ~Valid(disk[1 - s])
  <2>1. \A u \in Slot : ~Valid(disk'[u])
    BY <1>1, <1>2, <1>8
  <2>2. Stored' = 0 /\ Fallback' = 0
    BY <1>3, <2>1, NoCopy
  <2>3. Fallback = 0
    <3>1. CASE Valid(disk[s])
      BY <1>3, <1>8, <3>1, OneCopy
    <3>2. CASE ~Valid(disk[s])
      <4>1. \A u \in Slot : ~Valid(disk[u])
        BY <1>1, <1>8, <3>2
      <4> QED BY <1>3, <4>1, NoCopy
    <3> QED BY <3>1, <3>2
  <2> QED BY <1>4, <1>5, <2>2, <2>3
<1> QED BY <1>7, <1>8

\* A save replaces the register's value, and what was returned is behind it.
LEMMA RenameRegister ==
    ASSUME IInv, TypeOK', NEW t \in Thread, Rename(t)
    PROVE  Register!Commit
<1> DEFINE s == Target(seen[t])
<1>1. pc[t] \in {"write", "gap"} /\ commits' = commits + 1
  BY DEF Rename
<1>2. /\ s \in Slot /\ 1 - s \in Slot /\ s # 1 - s /\ 1 - (1 - s) = s
      /\ \A u \in Slot : u = s \/ u = 1 - s
  BY TargetOther DEF Slot
<1>3. /\ disk'[1 - s] = disk[1 - s] /\ disk'[s] = Versioned(NextSeq(seen[t]), commits + 1)
      /\ disk' \in [Slot -> Content]
  BY <1>2 DEF IInv, Rename, TypeOK
<1>4. Valid(disk'[s])
  BY <1>3 DEF Versioned, Valid
<1>5. DiskInv' /\ Stored' = commits'
  BY RenameCommits DEF IInv
<1>6. Fallback = Behind(disk) /\ Fallback' = Behind(disk') /\ Stored = SnapOf(disk, Select(disk))
      /\ Stored' = SnapOf(disk', Select(disk'))
  BY DEF Stored, Fallback, Behind
<1>7. CASE Valid(disk[1 - s])
  <2>1. Select(disk) = 1 - s
    BY <1>1, <1>7, WriterChoice
  <2>2. Stored = disk[1 - s].snap
    BY <1>2, <1>6, <2>1 DEF SnapOf, NoSlot, Slot
  <2>3. Valid(disk'[0]) /\ Valid(disk'[1]) /\ disk'[1].kind # "legacy"
    BY <1>2, <1>3, <1>4, <1>5, <1>7 DEF Slot, DiskInv
  <2>4. disk[1 - s].snap <= commits /\ commits \in Nat /\ disk[1 - s].snap \in Nat
    BY <1>2 DEF IInv, DiskInv, TypeOK, Content
  <2>5. disk'[s].snap = commits + 1
    BY <1>3 DEF Versioned
  <2>6. ~Follows(disk'[s], disk'[1 - s])
    BY <1>3, <2>4, <2>5 DEF Follows
  <2>7. Follows(disk'[1 - s], disk'[s])
    BY <1>2, <1>5, <2>3, <2>6 DEF DiskInv, Slot
  <2>8. Fallback' = disk'[1 - s].snap
    BY <1>2, <1>3, <1>6, <2>3, <2>7, TwoCopies
  <2> QED BY <1>1, <1>3, <1>5, <2>2, <2>8 DEF Register!Commit
<1>8. CASE ~Valid(disk[1 - s])
  <2>1. Fallback' = 0
    BY <1>2, <1>3, <1>4, <1>6, <1>8, OneCopy
  <2>2. Fallback = 0
    <3>1. CASE Valid(disk[s])
      BY <1>2, <1>6, <1>8, <3>1, OneCopy
    <3>2. CASE ~Valid(disk[s])
      <4>1. \A u \in Slot : ~Valid(disk[u])
        BY <1>2, <1>8, <3>2
      <4> QED BY <1>6, <4>1, NoCopy
    <3> QED BY <3>1, <3>2
  <2> QED BY <1>1, <1>5, <2>1, <2>2 DEF Register!Commit
<1> QED BY <1>7, <1>8

\* A store found at the start is a register found at the start.
LEMMA RegisterInit == Init => Register!Init
<1> SUFFICES ASSUME Init PROVE Register!Init
  OBVIOUS
<1>1. DiskInv /\ disk \in [Slot -> Content]
  BY DiskInit, TypeInit DEF TypeOK
<1>2. commits = Stored /\ Stored = SnapOf(disk, Select(disk)) /\ Fallback = Behind(disk)
  BY DEF Init, Stored, Fallback, Behind
<1>3. PICK first \in FirstSeqs : disk \in InitialDisk(first)
  BY DEF Init
<1>4. CASE \A s \in Slot : ~Valid(disk[s])
  <2>1. Stored = 0 /\ Fallback = 0
    BY <1>2, <1>4, NoCopy
  <2> QED BY <1>2, <2>1 DEF Register!Init
<1>5. CASE Valid(disk[0]) /\ ~Valid(disk[1])
  <2>1. disk[0].snap = 1
    BY <1>3, <1>5 DEF InitialDisk, Blank, Versioned, Valid, Slot
  <2>2. 0 \in Slot /\ 1 - 0 = 1
    BY DEF Slot
  <2>3. Stored = 1 /\ Fallback = 0
    BY <1>2, <1>5, <2>1, <2>2, OneCopy
  <2> QED BY <1>2, <2>3 DEF Register!Init
<1>6. CASE Valid(disk[0]) /\ Valid(disk[1])
  <2>1. PICK s \in Slot : /\ disk[s] = Versioned(Succ(first), 2)
                          /\ disk[1 - s] = Versioned(first, 1)
    BY <1>3, <1>6 DEF InitialDisk, Blank, Valid, Slot
  <2>2. Follows(disk[1 - s], disk[s]) /\ disk[s].snap = 2 /\ disk[1 - s].snap = 1
    BY <2>1 DEF Follows, Versioned
  <2>3. disk[1].kind # "legacy"
    BY <1>1 DEF DiskInv
  <2>4. Stored = 2 /\ Fallback = 1
    BY <1>1, <1>2, <1>6, <2>2, <2>3, TwoCopies
  <2> QED BY <1>2, <2>4 DEF Register!Init
<1>7. CASE ~Valid(disk[0]) /\ Valid(disk[1])
  BY <1>3, <1>7 DEF InitialDisk, Blank, Versioned, Valid, Slot
<1> QED BY <1>4, <1>5, <1>6, <1>7 DEF Slot

\* Every step of saves, loads, crashes and faults is a step of the register or
\* changes nothing it has: the store implements what its documentation promises.
THEOREM IsARegister == Spec => ImplementsRegister
<1>1. ASSUME IInv, IInv', [Next]_vars PROVE [Register!Next]_(Register!vars)
  <2>1. CASE UNCHANGED <<disk, commits>>
    BY <2>1 DEF Register!vars, Stored, Fallback
  <2>2. ASSUME NEW t \in Thread, Rename(t) PROVE Register!Next
    BY <1>1, <2>2, RenameRegister DEF IInv, Register!Next
  <2>3. ASSUME NEW t \in Thread, RemoveTarget(t) PROVE [Register!Next]_(Register!vars)
    <3>1. Target(seen[t]) \in Slot
      BY TargetOther
    <3>2. disk' = [disk EXCEPT ![Target(seen[t])] = Blank("missing")] /\ UNCHANGED commits
      BY <2>3 DEF RemoveTarget, history
    <3> QED BY <1>1, <3>1, <3>2, BlankedRegister DEF IInv
  <2>4. ASSUME NEW s \in Slot, Damage(s) PROVE [Register!Next]_(Register!vars)
    BY <1>1, <2>4, BlankedRegister DEF IInv, Damage, Fault
  <2>5. \/ UNCHANGED <<disk, commits>>
        \/ \E t \in Thread : Rename(t) \/ RemoveTarget(t)
        \/ \E s \in Slot : Damage(s)
    BY <1>1, ThreadAssumption
       DEF Next, SaveStep, StartSave, LockFile, LockFails, ReadSlot, Choose, WriteFails,
           Protect, CloseLock, Unlock, StartLoad, FinishLoad, Crash, Deny, Restore, Fault,
           history, vars
  <2> QED BY <2>1, <2>2, <2>3, <2>4, <2>5
<1> QED BY <1>1, RegisterInit, Inductive, PTL DEF Spec, ImplementsRegister, Register!Spec

-----------------------------------------------------------------------------
(* A load beside saves: it reads the slots one after the other, without the    *)
(* lock, while saves go on. How many copies can be committed meanwhile decides *)
(* whether their counters can still be compared.                               *)

\* Saves that have yet to replace a file
Pending == {t \in Thread : pc[t] \in {"lock", "read", "write", "gap"}}
\* The first two snapshots may be of an earlier run.
Limit == IF MaxCommits < 2 THEN 2 ELSE MaxCommits
BoundInv == IsFiniteSet(Saving) /\ commits + Cardinality(Pending) <= Limit

\* The copies of a slot that there are: in its file, and where a load has read it
Copies(s) == {disk[s]} \cup
             {seen[t][s] : t \in {u \in Thread : pc[u] = "load" /\ seen[u][s].kind # "unread"}}
Whole(c) == /\ c \in Content /\ c.kind # "unreadable" /\ c.snap <= commits
            /\ IF Valid(c) THEN c.snap >= 1 ELSE c.snap = 0
            /\ c.kind = "legacy" => c.snap = 1
\* The counters of two copies are as far apart as their snapshots.
Spaced(c, d) == Valid(c) /\ Valid(d) /\ c.snap <= d.snap
                    => Distance(c.seq, d.seq) = d.snap - c.snap
CopiesInv ==
    platform = "posix" /\ faults = 0 =>
        /\ \A s \in Slot : \A c \in Copies(s) : Whole(c) /\ (s = 1 => c.kind # "legacy")
        /\ \A c, d \in Copies(0) \cup Copies(1) : Spaced(c, d)
        /\ \A c \in Copies(0), d \in Copies(1) : Valid(c) /\ Valid(d) => c.snap # d.snap

\* What a load has read or will find
Known(t, s) == IF seen[t][s].kind = "unread" THEN disk[s] ELSE seen[t][s]
\* Where files are replaced atomically both copies are recent, and one of the two
\* that a load gets is not older than what was committed when it began.
RecentInv ==
    platform = "posix" =>
        /\ faults = 0 => /\ \A s \in Slot : disk[s].snap + 1 >= commits
                         /\ \A t \in Thread : pc[t] = "load" =>
                                \E s \in Slot : Known(t, s).snap >= floor[t]
        /\ faults <= 1 => Stored + 1 >= commits

\* The number of saves under way changes by one.
LEMMA BoundKept ==
    ASSUME TypeOK, TypeOK', BoundInv, UNCHANGED commits,
           \A u \in Thread : /\ pc'[u] \in {"lock"} \cup Critical => pc[u] \in {"lock"} \cup Critical
                             /\ pc'[u] \in {"lock", "read", "write", "gap"}
                                    => pc[u] \in {"lock", "read", "write", "gap"}
    PROVE  BoundInv'
<1>1. Saving' \subseteq Saving /\ Pending' \subseteq Pending /\ Pending \subseteq Saving
  BY DEF Saving, Pending, Critical
<1>2. IsFiniteSet(Saving) /\ IsFiniteSet(Pending) /\ IsFiniteSet(Saving')
  BY <1>1, FS_Subset DEF BoundInv
<1>3. Cardinality(Pending') <= Cardinality(Pending)
  BY <1>1, <1>2, FS_Subset
<1>4. Cardinality(Pending) \in Nat /\ Cardinality(Pending') \in Nat
  BY <1>1, <1>2, FS_Subset, FS_CardinalityType
<1>5. Limit \in Nat /\ commits \in Nat
  BY BoundAssumption DEF Limit, TypeOK
<1> QED BY <1>2, <1>3, <1>4, <1>5 DEF BoundInv, Limit

LEMMA BoundStep == TypeOK /\ TypeOK' /\ BoundInv /\ [Next]_vars => BoundInv'
<1> SUFFICES ASSUME TypeOK, TypeOK', BoundInv, [Next]_vars PROVE BoundInv'
  OBVIOUS
<1>1. Limit \in Nat /\ commits \in Nat /\ MaxCommits <= Limit
  BY BoundAssumption DEF Limit, TypeOK
<1>2. /\ Pending \subseteq Saving /\ IsFiniteSet(Pending) /\ IsFiniteSet(Saving)
      /\ Cardinality(Pending) <= Cardinality(Saving)
      /\ Cardinality(Pending) \in Nat /\ Cardinality(Saving) \in Nat
  <2>1. Pending \subseteq Saving
    BY DEF Saving, Pending, Critical
  <2> QED BY <2>1, FS_Subset, FS_CardinalityType DEF BoundInv
<1>3. ASSUME NEW t \in Thread, StartSave(t) PROVE BoundInv'
  <2>1. /\ pc[t] = "idle" /\ pc' = [pc EXCEPT ![t] = "lock"] /\ commits' = commits
        /\ commits + Cardinality(Saving) < MaxCommits
    BY <1>3 DEF StartSave, Goto, history
  <2>2. Saving' = Saving \cup {t} /\ Pending' = Pending \cup {t} /\ t \notin Pending
    BY <2>1 DEF Saving, Pending, Critical, TypeOK
  <2>3. IsFiniteSet(Saving') /\ Cardinality(Pending') = Cardinality(Pending) + 1
    BY <1>2, <2>2, FS_AddElement
  <2>4. MaxCommits \in Nat
    BY BoundAssumption
  <2> QED BY <1>1, <1>2, <2>1, <2>3, <2>4 DEF BoundInv, Limit
<1>4. ASSUME NEW t \in Thread, Rename(t) PROVE BoundInv'
  <2>1. /\ pc[t] \in {"write", "gap"} /\ pc' = [pc EXCEPT ![t] = "protect"]
        /\ commits' = commits + 1
    BY <1>4 DEF Rename, Goto
  <2>2. Saving' = Saving /\ Pending' = Pending \ {t} /\ t \in Pending
    BY <2>1 DEF Saving, Pending, Critical, TypeOK
  <2>3. Cardinality(Pending') = Cardinality(Pending) - 1
    BY <1>2, <2>2, FS_RemoveElement
  <2> QED BY <1>1, <1>2, <2>1, <2>2, <2>3 DEF BoundInv, Limit
<1>5. CASE UNCHANGED vars
  BY <1>5, BoundKept DEF vars
<1>6. CASE /\ Next
           /\ \A t \in Thread : ~StartSave(t) /\ ~Rename(t)
  <2> DEFINE NoMore ==
          /\ UNCHANGED commits
          /\ \A u \in Thread :
                 /\ pc'[u] \in {"lock"} \cup Critical => pc[u] \in {"lock"} \cup Critical
                 /\ pc'[u] \in {"lock", "read", "write", "gap"}
                        => pc[u] \in {"lock", "read", "write", "gap"}
  <2>1. NoMore
    <3> USE DEF Goto, history, Critical, TypeOK
    <3>1. ASSUME NEW t \in Thread, SaveStep(t), ~Rename(t) PROVE NoMore
      BY <3>1 DEF SaveStep, LockFile, LockFails, ReadSlot, Choose, WriteFails, RemoveTarget,
                  Protect, CloseLock, Unlock
    <3>2. ASSUME NEW t \in Thread, StartLoad(t) \/ FinishLoad(t) PROVE NoMore
      BY <3>2 DEF StartLoad, FinishLoad
    <3>3. ASSUME NEW p \in Process, Crash(p) PROVE NoMore
      BY <3>3 DEF Crash
    <3>4. ASSUME NEW s \in Slot, Damage(s) \/ Deny(s) \/ Restore(s) PROVE NoMore
      BY <3>4 DEF Damage, Deny, Restore, Fault
    <3> QED BY <1>6, <3>1, <3>2, <3>3, <3>4, ThreadAssumption DEF Next
  <2> QED BY <2>1, BoundKept
<1> QED BY <1>3, <1>4, <1>5, <1>6

\* A counter that comes next is one farther away.
LEMMA DistanceNext ==
    ASSUME NEW q \in Seqs, NEW r \in Seqs, NEW k \in Nat, Distance(q, r) = k, k + 1 < Modulus
    PROVE  Distance(q, Succ(r)) = k + 1
BY ModulusAssumption DEF Seqs, Succ, Distance

\* Of two whole copies that are less than half a range apart a load returns the
\* later one.
LEMMA SelectsLatest ==
    ASSUME NEW v \in [Slot -> Content], v[1].kind # "legacy",
           \A s \in Slot : /\ IF Valid(v[s]) THEN v[s].snap >= 1 ELSE v[s].snap = 0
                           /\ v[s].kind = "legacy" => v[s].snap = 1
                           /\ v[s].snap <= Half,
           Valid(v[0]) /\ Valid(v[1]) => v[0].snap # v[1].snap,
           Spaced(v[0], v[1]), Spaced(v[1], v[0])
    PROVE  \A s \in Slot : SnapOf(v, Select(v)) >= v[s].snap
<1>1. \A s \in Slot : v[s].snap \in Nat /\ v[s].seq \in Seqs
  BY DEF Content
<1>2. /\ 0 \in Slot /\ 1 \in Slot /\ 0 # NoSlot /\ 1 # NoSlot
      /\ \A s \in Slot : s = 0 \/ s = 1
  BY DEF Slot, NoSlot
<1>3. CASE \A s \in Slot : ~Valid(v[s])
  <2>1. SnapOf(v, Select(v)) = 0
    BY <1>3, NoCopy
  <2> QED BY <1>3, <2>1
<1>4. ASSUME NEW s \in Slot, Valid(v[s]), ~Valid(v[1 - s])
      PROVE  \A r \in Slot : SnapOf(v, Select(v)) >= v[r].snap
  <2>1. SnapOf(v, Select(v)) = v[s].snap
    BY <1>4, OneCopy
  <2>2. 1 - s \in Slot /\ \A r \in Slot : r = s \/ r = 1 - s
    BY DEF Slot
  <2>3. v[1 - s].snap = 0
    BY <1>4, <2>2
  <2>4. v[s].snap \in Nat
    BY <1>1
  <2> QED BY <2>1, <2>2, <2>3, <2>4
<1>5. CASE Valid(v[0]) /\ Valid(v[1])
  <2>1. v[0].snap \in 1..Half /\ v[1].snap \in 1..Half /\ v[0].snap # v[1].snap
    BY <1>1, <1>2, <1>5, ModulusAssumption
  <2>2. CASE v[0].snap < v[1].snap
    <3>1. Distance(v[0].seq, v[1].seq) = v[1].snap - v[0].snap
      BY <1>5, <2>1, <2>2 DEF Spaced
    <3>2. Distance(v[0].seq, v[1].seq) # 0 /\ Distance(v[0].seq, v[1].seq) < Half
          /\ Distance(v[0].seq, v[1].seq) # Half
      BY <2>1, <2>2, <3>1, ModulusAssumption
    <3>3. Select(v) = 1
      BY <1>5, <3>2 DEF Select
    <3>4. SnapOf(v, Select(v)) = v[1].snap
      BY <1>2, <3>3 DEF SnapOf
    <3> QED BY <1>1, <1>2, <2>2, <3>4
  <2>3. CASE v[1].snap < v[0].snap
    <3>1. Distance(v[1].seq, v[0].seq) = v[0].snap - v[1].snap
      BY <1>5, <2>1, <2>3 DEF Spaced
    <3>2. Distance(v[1].seq, v[0].seq) \in 1..(Half - 1)
      BY <2>1, <2>3, <3>1, ModulusAssumption
    <3>3. Distance(v[0].seq, v[1].seq) > Half
      BY <1>1, <1>2, <3>2, ModulusAssumption DEF Distance, Seqs
    <3>4. Distance(v[0].seq, v[1].seq) \in Int
      BY <1>1, <1>2, ModulusAssumption DEF Distance, Seqs
    <3>5. v[0].kind # "legacy"
      BY <1>2, <2>1, <2>3
    <3>6. Select(v) = 0
      BY <1>5, <3>3, <3>4, <3>5, ModulusAssumption DEF Select
    <3>7. SnapOf(v, Select(v)) = v[0].snap
      BY <1>2, <3>6 DEF SnapOf
    <3> QED BY <1>1, <1>2, <2>3, <3>7
  <2> QED BY <2>1, <2>2, <2>3
<1>6. CASE Valid(v[0]) /\ ~Valid(v[1])
  <2>1. 1 - 0 = 1
    OBVIOUS
  <2> QED BY <1>2, <1>4, <1>6, <2>1
<1>7. CASE ~Valid(v[0]) /\ Valid(v[1])
  <2>1. 1 - 1 = 0
    OBVIOUS
  <2> QED BY <1>2, <1>4, <1>7, <2>1
<1> QED BY <1>2, <1>3, <1>5, <1>6, <1>7

\* Without faults a save replaces the older copy, with the counter that follows
\* the one of the last snapshot.
LEMMA WriterSource ==
    ASSUME IInv, NEW t \in Thread, pc[t] \in {"write", "gap"}, faults = 0
    PROVE  \/ commits = 0
           \/ /\ Valid(disk[1 - Target(seen[t])])
              /\ disk[1 - Target(seen[t])].snap = commits
              /\ NextSeq(seen[t]) = Succ(disk[1 - Target(seen[t])].seq)
<1> DEFINE s == Target(seen[t])
<1>1. MayWrite(seen[t]) /\ BothRead(t) /\ ~disturbed /\ Stored = commits
  BY DEF IInv, ViewInv, FaultFreeInv
<1>2. /\ s \in Slot /\ 1 - s \in Slot /\ s # 1 - s /\ 1 - s # NoSlot
      /\ \A u \in Slot : u = s \/ u = 1 - s
  BY TargetOther DEF Slot, NoSlot
<1>3. \A u \in Slot : seen[t][u].kind \notin {"unread", "unreadable"}
  BY <1>1 DEF MayWrite, BothRead
<1>4. /\ seen[t][1 - s] = disk[1 - s]
      /\ seen[t][s] = disk[s] \/ disk[s].kind = "missing"
  BY <1>1, <1>2, <1>3 DEF IInv, ViewInv
<1>5. CASE Valid(disk[1 - s])
  <2>1. Select(disk) = 1 - s
    BY <1>5, WriterChoice
  <2>2. disk[1 - s].snap = commits
    BY <1>1, <1>2, <2>1 DEF Stored, SnapOf
  <2>3. ~Empty(seen[t])
    BY <1>2, <1>4, <1>5 DEF Empty, Valid
  <2>4. NextSeq(seen[t]) = Succ(disk[1 - s].seq)
    BY <1>4, <2>3, WriterView DEF IInv
  <2> QED BY <1>5, <2>2, <2>4
<1>6. CASE ~Valid(disk[1 - s])
  <2>1. Empty(seen[t])
    BY <1>4, <1>6, WriterView DEF IInv
  <2>2. ~Valid(disk[s])
    BY <1>2, <1>4, <2>1 DEF Empty, Valid
  <2>3. \A u \in Slot : ~Valid(disk[u])
    BY <1>2, <1>6, <2>2
  <2>4. SnapOf(disk, Select(disk)) = 0
    BY <2>3, NoCopy
  <2> QED BY <1>1, <2>4 DEF Stored
<1> QED BY <1>5, <1>6

\* Steps that bring no new copy
LEMMA CopiesKept ==
    ASSUME CopiesInv, UNCHANGED <<commits, platform, faults>>,
           platform = "posix" /\ faults = 0 =>
               \A s \in Slot : \A c \in Copies(s)' : c \in Copies(s)
    PROVE  CopiesInv'
<1> SUFFICES ASSUME platform = "posix", faults = 0
             PROVE  /\ \A s \in Slot : \A c \in Copies(s)' :
                           Whole(c)' /\ (s = 1 => c.kind # "legacy")
                    /\ \A c, d \in Copies(0)' \cup Copies(1)' : Spaced(c, d)
                    /\ \A c \in Copies(0)', d \in Copies(1)' :
                           Valid(c) /\ Valid(d) => c.snap # d.snap
  BY DEF CopiesInv, Spaced, Valid, Distance
<1>1. /\ \A c \in Copies(0)' : c \in Copies(0)
      /\ \A c \in Copies(1)' : c \in Copies(1)
  BY DEF Slot
<1>2. \A c : Whole(c) => Whole(c)'
  BY DEF Whole, Valid
<1> QED BY <1>1, <1>2 DEF CopiesInv, Slot

\* A save that replaces a file brings one, of the next snapshot and counter.
LEMMA CopiesRename ==
    ASSUME IInv, TypeOK', CopiesInv, commits <= Half, NEW t \in Thread, Rename(t)
    PROVE  CopiesInv'
<1> SUFFICES ASSUME platform = "posix", faults = 0
             PROVE  /\ \A s \in Slot : \A c \in Copies(s)' :
                           Whole(c)' /\ (s = 1 => c.kind # "legacy")
                    /\ \A c, d \in Copies(0)' \cup Copies(1)' : Spaced(c, d)
                    /\ \A c \in Copies(0)', d \in Copies(1)' :
                           Valid(c) /\ Valid(d) => c.snap # d.snap
  BY DEF CopiesInv, Spaced, Valid, Distance, Rename
<1> DEFINE Old == Copies(0) \cup Copies(1)
<1>a. PICK s \in Slot : s = Target(seen[t])
  BY TargetOther
<1>1. /\ pc[t] \in {"write", "gap"} /\ commits' = commits + 1
      /\ disk' = [disk EXCEPT ![s] = Versioned(NextSeq(seen[t]), commits + 1)]
      /\ pc' = [pc EXCEPT ![t] = "protect"] /\ seen' = seen
  BY <1>a DEF Rename, Goto
<1>2. /\ s \in Slot /\ 1 - s \in Slot /\ s # 1 - s
      /\ \A u \in Slot : u = s \/ u = 1 - s
  BY DEF Slot
<1>3. PICK e : e = Versioned(NextSeq(seen[t]), commits + 1)
  OBVIOUS
<1>4. /\ disk'[s] = e /\ disk'[1 - s] = disk[1 - s]
      /\ e \in Content /\ e.kind = "versioned" /\ e.seq = NextSeq(seen[t])
      /\ e.snap = commits + 1 /\ commits \in Nat
  <2>1. disk \in [Slot -> Content] /\ disk' \in [Slot -> Content] /\ commits \in Nat
    BY DEF IInv, TypeOK
  <2>2. disk'[s] = e /\ disk'[1 - s] = disk[1 - s]
    BY <1>1, <1>2, <1>3, <2>1
  <2> QED BY <1>2, <1>3, <2>1, <2>2 DEF Versioned
<1>5. \A u \in Thread : pc'[u] = "load" => pc[u] = "load"
  BY <1>1 DEF IInv, TypeOK
<1>6. /\ \A c \in Copies(s)' : c = e \/ c \in Copies(s)
      /\ \A c \in Copies(1 - s)' : c \in Copies(1 - s)
  BY <1>1, <1>4, <1>5 DEF Copies
<1>b. (s = 0 /\ 1 - s = 1) \/ (s = 1 /\ 1 - s = 0)
  BY DEF Slot
<1>7. /\ \A c \in Copies(0)' : c \in Copies(0) \/ (c = e /\ s = 0)
      /\ \A c \in Copies(1)' : c \in Copies(1) \/ (c = e /\ s = 1)
  BY <1>b, <1>6
<1>8. \A c \in Old : Whole(c)
  BY DEF CopiesInv, Slot
<1>9. \A c : Whole(c) => Whole(c)'
  BY <1>1, <1>4 DEF Whole, Valid, Content
<1>10. Whole(e)' /\ Valid(e)
  BY <1>1, <1>4 DEF Whole, Valid
<1>11. \A c \in Old : c.snap < e.snap
  BY <1>4, <1>8 DEF Whole, Content
<1>12. ASSUME NEW c \in Old, Valid(c)
       PROVE  Distance(c.seq, e.seq) = e.snap - c.snap
  <2>1. c.snap \in 1..commits /\ c.seq \in Seqs
    BY <1>4, <1>8, <1>12 DEF Whole, Content
  <2>2. commits # 0
    BY <1>4, <2>1
  <2>3. PICK d : d = disk[1 - s]
    OBVIOUS
  <2>4. Valid(d) /\ d.snap = commits /\ e.seq = Succ(d.seq)
    BY <1>a, <1>1, <1>4, <2>2, <2>3, WriterSource
  <2>5. d \in Old /\ d.seq \in Seqs
    BY <1>2, <2>3 DEF Copies, Slot, IInv, TypeOK, Content
  <2>6. Distance(c.seq, d.seq) = commits - c.snap
    BY <1>4, <1>12, <2>1, <2>4, <2>5 DEF CopiesInv, Spaced
  <2>7. commits - c.snap \in Nat /\ commits - c.snap + 1 < Modulus
    BY <1>4, <2>1, ModulusAssumption
  <2>8. Distance(c.seq, Succ(d.seq)) = commits - c.snap + 1
    BY <2>1, <2>5, <2>6, <2>7, DistanceNext
  <2> QED BY <1>4, <2>1, <2>4, <2>8
<1>13. Distance(e.seq, e.seq) = 0
  BY <1>4, ModulusAssumption DEF Distance, Content, Seqs
<1>14. \A u \in Slot : \A c \in Copies(u)' : Whole(c)' /\ (u = 1 => c.kind # "legacy")
  <2>1. ASSUME NEW u \in Slot, NEW c \in Copies(u)'
        PROVE  Whole(c)' /\ (u = 1 => c.kind # "legacy")
    <3>1. CASE c = e
      BY <1>4, <1>10, <3>1
    <3>2. CASE c # e
      <4>1. c \in Copies(u)
        BY <1>2, <1>6, <2>1, <3>2
      <4> QED BY <1>9, <4>1 DEF CopiesInv
    <3> QED BY <3>1, <3>2
  <2> QED BY <2>1
<1>15. \A c, d \in Copies(0)' \cup Copies(1)' : Spaced(c, d)
  <2>1. ASSUME NEW c \in Copies(0)' \cup Copies(1)', NEW d \in Copies(0)' \cup Copies(1)'
        PROVE  Spaced(c, d)
    <3>1. (c = e \/ c \in Old) /\ (d = e \/ d \in Old)
      BY <1>7, <2>1
    <3>2. CASE c \in Old /\ d \in Old
      BY <3>2 DEF CopiesInv
    <3>3. CASE c \in Old /\ d = e
      BY <1>12, <3>3 DEF Spaced
    <3>4. CASE c = e /\ d \in Old
      <4>1. d.snap < e.snap
        BY <1>11, <3>4
      <4>2. d.snap \in Nat /\ e.snap \in Nat
        BY <1>4, <1>8, <3>4 DEF Whole, Content
      <4> QED BY <3>4, <4>1, <4>2 DEF Spaced
    <3>5. CASE c = e /\ d = e
      BY <1>4, <1>13, <3>5 DEF Spaced
    <3> QED BY <3>1, <3>2, <3>3, <3>4, <3>5
  <2> QED BY <2>1
<1>16. \A c \in Copies(0)', d \in Copies(1)' : Valid(c) /\ Valid(d) => c.snap # d.snap
  <2>1. \A c \in Old : c.snap # e.snap
    <3>1. \A c \in Old : c.snap \in Nat
      BY <1>8 DEF Whole, Content
    <3> QED BY <1>4, <1>11, <3>1
  <2>2. ASSUME NEW c \in Copies(0)', NEW d \in Copies(1)', Valid(c), Valid(d)
        PROVE  c.snap # d.snap
    <3>1. CASE c \in Copies(0) /\ d \in Copies(1)
      BY <2>2, <3>1 DEF CopiesInv
    <3>2. CASE c \notin Copies(0)
      <4>1. c = e /\ s = 0
        BY <1>7, <2>2, <3>2
      <4>2. d \in Copies(1)
        BY <1>7, <2>2, <4>1
      <4> QED BY <2>1, <4>1, <4>2
    <3>3. CASE d \notin Copies(1)
      <4>1. d = e /\ s = 1
        BY <1>7, <2>2, <3>3
      <4>2. c \in Copies(0)
        BY <1>7, <2>2, <4>1
      <4> QED BY <2>1, <4>1, <4>2
    <3> QED BY <3>1, <3>2, <3>3
  <2> QED BY <2>2
<1> QED BY <1>14, <1>15, <1>16

\* Every step keeps what is said of the copies, while they are few enough.
LEMMA CopiesStep ==
    ASSUME IInv, TypeOK', CopiesInv, commits <= Half, [Next]_vars
    PROVE  CopiesInv'
<1> DEFINE NoneNew == /\ UNCHANGED <<commits, platform>>
                      /\ \/ faults' # 0
                         \/ /\ UNCHANGED faults
                            /\ platform = "posix" /\ faults = 0 =>
                                   \A s \in Slot : \A c \in Copies(s)' : c \in Copies(s)
<1>1. NoneNew => CopiesInv'
  BY CopiesKept DEF CopiesInv
<1>2. ASSUME NEW t \in Thread, Rename(t) PROVE CopiesInv'
  BY <1>2, CopiesRename
<1>3. ASSUME NEW t \in Thread,
             \/ StartSave(t) \/ LockFile(t) \/ LockFails(t) \/ Choose(t) \/ WriteFails(t)
             \/ Protect(t) \/ CloseLock(t) \/ Unlock(t) \/ StartLoad(t) \/ FinishLoad(t)
      PROVE  NoneNew
  <2>1. /\ UNCHANGED <<disk, commits, platform, faults>>
        /\ \A u \in Thread : u # t => pc'[u] = pc[u] /\ seen'[u] = seen[u]
        /\ pc'[t] = "load" => seen'[t] = Unread
    BY <1>3 DEF StartSave, LockFile, LockFails, Choose, WriteFails, Protect, CloseLock, Unlock,
                StartLoad, FinishLoad, Goto, history, IInv, TypeOK
  <2>2. \A s \in Slot : Unread[s].kind = "unread"
    BY DEF Unread, Blank
  <2> QED BY <2>1, <2>2 DEF Copies
<1>4. ASSUME NEW t \in Thread, NEW s \in Slot, ReadSlot(t, s) PROVE NoneNew
  <2>1. /\ UNCHANGED <<disk, commits, platform, faults, pc>>
        /\ \A u \in Thread, r \in Slot : u # t \/ r # s => seen'[u][r] = seen[u][r]
        /\ seen'[t][s] = ReadOf(s)
    BY <1>4 DEF ReadSlot, history, IInv, TypeOK
  <2>2. faults = 0 => ReadOf(s) = disk[s]
    BY DEF ReadOf, IInv, FaultFreeInv, DiskInv
  <2>3. faults = 0 => \A r \in Slot : \A c \in Copies(r)' : c \in Copies(r)
    BY <2>1, <2>2 DEF Copies
  <2> QED BY <2>1, <2>3
<1>5. ASSUME NEW t \in Thread, RemoveTarget(t) PROVE NoneNew
  BY <1>5 DEF RemoveTarget, history
<1>6. ASSUME NEW p \in Process, Crash(p) PROVE NoneNew
  <2>1. /\ UNCHANGED <<disk, commits, platform, faults>>
        /\ \A u \in Thread : pc'[u] = "load" => pc'[u] = pc[u] /\ seen'[u] = seen[u]
    BY <1>6 DEF Crash
  <2> QED BY <2>1 DEF Copies
<1>7. ASSUME NEW s \in Slot, Damage(s) \/ Deny(s) PROVE NoneNew
  BY <1>7 DEF Damage, Deny, Fault, IInv, TypeOK
<1>8. ASSUME NEW s \in Slot, Restore(s) PROVE NoneNew
  BY <1>8 DEF Restore, IInv, FaultFreeInv
<1>9. CASE UNCHANGED vars
  BY <1>1, <1>9 DEF vars, Copies
<1> QED
  BY <1>1, <1>2, <1>3, <1>4, <1>5, <1>6, <1>7, <1>8, <1>9, ThreadAssumption DEF Next, SaveStep

\* Steps that leave the files, and what loads know of them
LEMMA RecentKept ==
    ASSUME RecentInv, UNCHANGED <<disk, commits, platform, faults>>,
           platform = "posix" /\ faults = 0 => \A t \in Thread : pc'[t] = "load" =>
               /\ pc[t] = "load" /\ floor'[t] = floor[t]
               /\ \A s \in Slot : Known(t, s)' = Known(t, s)
    PROVE  RecentInv'
BY StoredUnchanged DEF RecentInv

\* A new snapshot leaves the last one beside it, and what loads know gets newer.
LEMMA RecentRename ==
    ASSUME IInv, TypeOK', RecentInv, NEW t \in Thread, Rename(t)
    PROVE  RecentInv'
<1>a. PICK s \in Slot : s = Target(seen[t])
  BY TargetOther
<1>1. /\ pc[t] \in {"write", "gap"} /\ commits' = commits + 1
      /\ disk' = [disk EXCEPT ![s] = Versioned(NextSeq(seen[t]), commits + 1)]
      /\ pc' = [pc EXCEPT ![t] = "protect"] /\ UNCHANGED <<seen, floor, faults, platform>>
  BY <1>a DEF Rename, Goto
<1>2. 1 - s \in Slot /\ s # 1 - s /\ \A u \in Slot : u = s \/ u = 1 - s
  BY DEF Slot
<1>3. /\ disk'[s].snap = commits + 1 /\ disk'[1 - s] = disk[1 - s] /\ commits \in Nat
      /\ \A u \in Slot : disk[u].snap \in Nat
  BY <1>1, <1>2 DEF Versioned, IInv, TypeOK, Content
<1>4. Stored' = commits'
  BY RenameCommits DEF IInv
<1>5. ASSUME faults = 0, platform = "posix"
      PROVE  \A u \in Slot : disk'[u].snap + 1 >= commits'
  <2>1. commits = 0 \/ disk[1 - s].snap = commits
    BY <1>a, <1>1, <1>5, WriterSource
  <2> QED BY <1>1, <1>2, <1>3, <2>1
<1>6. ASSUME faults = 0, platform = "posix", NEW u \in Thread, pc'[u] = "load"
      PROVE  \E r \in Slot : Known(u, r)'.snap >= floor'[u]
  <2>1. pc[u] = "load"
    BY <1>1, <1>6 DEF IInv, TypeOK
  <2>2. PICK r \in Slot : Known(u, r).snap >= floor[u]
    BY <1>6, <2>1 DEF RecentInv
  <2>3. CASE seen[u][r].kind # "unread"
    BY <1>1, <2>2, <2>3 DEF Known
  <2>4. CASE seen[u][r].kind = "unread"
    <3>1. disk[r].snap >= floor[u] /\ Known(u, r)' = disk'[r]
      BY <1>1, <2>2, <2>4 DEF Known
    <3>2. disk[r].snap <= commits
      BY DEF IInv, DiskInv
    <3>3. disk'[r].snap >= disk[r].snap /\ disk'[r].snap \in Nat /\ floor[u] \in Nat
      BY <1>2, <1>3, <3>2 DEF IInv, TypeOK
    <3>4. disk'[r].snap >= floor[u] /\ floor'[u] = floor[u]
      BY <1>1, <1>3, <3>1, <3>3
    <3> QED BY <3>1, <3>4
  <2> QED BY <2>3, <2>4
<1>7. Stored' + 1 >= commits'
  BY <1>1, <1>3, <1>4
<1> QED BY <1>1, <1>5, <1>6, <1>7 DEF RecentInv

\* The first fault leaves the last snapshot or the one before.
LEMMA RecentDamage ==
    ASSUME IInv, CopiesInv, RecentInv, NEW s \in Slot, Damage(s)
    PROVE  RecentInv'
<1>1. PICK kind \in {"damaged", "missing"} : disk' = [disk EXCEPT ![s] = Blank(kind)]
  BY DEF Damage
<1>2. /\ UNCHANGED <<commits, platform>> /\ faults' = faults + 1 /\ faults \in Nat
      /\ commits \in Nat
  BY DEF Damage, Fault, IInv, TypeOK
<1>3. ASSUME platform = "posix", faults = 0 PROVE Stored' + 1 >= commits'
  <2>1. /\ 1 - s \in Slot /\ 1 - (1 - s) = s /\ s # 1 - s
        /\ \A u \in Slot : u = s \/ u = 1 - s
    BY DEF Slot
  <2>2. disk'[1 - s] = disk[1 - s] /\ ~Valid(disk'[s])
    BY <1>1, <2>1 DEF Blank, Valid, IInv, TypeOK
  <2>3. CASE Valid(disk[1 - s])
    <3>1. SnapOf(disk', Select(disk')) = disk[1 - s].snap
      BY <2>1, <2>2, <2>3, OneCopy
    <3>2. disk[1 - s].snap + 1 >= commits
      BY <1>3, <2>1 DEF RecentInv
    <3> QED BY <1>2, <3>1, <3>2 DEF Stored
  <2>4. CASE ~Valid(disk[1 - s])
    <3>1. \A u \in Slot : ~Valid(disk'[u])
      BY <2>1, <2>2, <2>4
    <3>2. Stored' = 0
      BY <3>1, NoCopy DEF Stored
    <3>3. disk[1 - s] \in Copies(1 - s)
      BY DEF Copies
    <3>4. disk[1 - s].snap = 0
      BY <1>3, <2>1, <2>4, <3>3 DEF CopiesInv, Whole
    <3>5. disk[1 - s].snap + 1 >= commits
      BY <1>3, <2>1 DEF RecentInv
    <3> QED BY <1>2, <3>2, <3>4, <3>5
  <2> QED BY <2>3, <2>4
<1> QED BY <1>2, <1>3 DEF RecentInv

LEMMA RecentStep ==
    ASSUME IInv, IInv', CopiesInv, RecentInv, [Next]_vars
    PROVE  RecentInv'
<1> DEFINE Same == /\ UNCHANGED <<disk, commits, platform, faults>>
                   /\ platform = "posix" /\ faults = 0 => \A t \in Thread : pc'[t] = "load" =>
                          /\ pc[t] = "load" /\ floor'[t] = floor[t]
                          /\ \A s \in Slot : Known(t, s)' = Known(t, s)
<1>1. Same => RecentInv'
  BY RecentKept
<1>2. ASSUME NEW t \in Thread, Rename(t) PROVE RecentInv'
  BY <1>2, RecentRename DEF IInv
<1>3. ASSUME NEW t \in Thread,
             \/ StartSave(t) \/ LockFile(t) \/ LockFails(t) \/ Choose(t) \/ WriteFails(t)
             \/ Protect(t) \/ CloseLock(t) \/ Unlock(t) \/ FinishLoad(t)
      PROVE  Same
  <2>1. /\ UNCHANGED <<disk, commits, platform, faults>> /\ pc'[t] # "load"
        /\ \A u \in Thread : u # t => pc'[u] = pc[u] /\ seen'[u] = seen[u] /\ floor'[u] = floor[u]
    BY <1>3 DEF StartSave, LockFile, LockFails, Choose, WriteFails, Protect, CloseLock, Unlock,
                FinishLoad, Goto, history, IInv, TypeOK
  <2> QED BY <2>1 DEF Known
<1>4. ASSUME NEW t \in Thread, StartLoad(t) PROVE RecentInv'
  <2>1. /\ UNCHANGED <<disk, commits, platform, faults>>
        /\ \A u \in Thread : u # t => pc'[u] = pc[u] /\ seen'[u] = seen[u] /\ floor'[u] = floor[u]
        /\ seen'[t] = Unread /\ floor'[t] = commits
    BY <1>4 DEF StartLoad, Goto, history, IInv, TypeOK
  <2>2. ASSUME platform = "posix", faults = 0, NEW u \in Thread, pc'[u] = "load"
        PROVE  \E s \in Slot : Known(u, s)'.snap >= floor'[u]
    <3>1. CASE u = t
      <4>1. \A s \in Slot : Known(t, s)' = disk[s]
        BY <2>1 DEF Known, Unread, Blank
      <4>2. Stored = commits /\ commits \in Nat /\ 0 \in Slot
            /\ \A s \in Slot : disk[s].snap \in Nat
        BY <2>2 DEF IInv, FaultFreeInv, TypeOK, Content, Slot
      <4>3. Select(disk) \in Slot => disk[Select(disk)].snap = commits
        BY <4>2 DEF Stored, SnapOf, Slot, NoSlot
      <4>4. Select(disk) \notin Slot => commits = 0
        BY <4>2, SelectValid DEF Stored, SnapOf, Slot, NoSlot
      <4>5. \E s \in Slot : disk[s].snap >= commits
        BY <4>2, <4>3, <4>4
      <4> QED BY <2>1, <3>1, <4>1, <4>5
    <3>2. CASE u # t
      <4>1. PICK s \in Slot : Known(u, s).snap >= floor[u]
        BY <2>1, <2>2, <3>2 DEF RecentInv
      <4>2. Known(u, s)' = Known(u, s) /\ floor'[u] = floor[u]
        BY <2>1, <3>2 DEF Known
      <4> QED BY <4>1, <4>2
    <3> QED BY <3>1, <3>2
  <2> QED BY <2>1, <2>2, StoredUnchanged DEF RecentInv
<1>5. ASSUME NEW t \in Thread, NEW s \in Slot, ReadSlot(t, s) PROVE Same
  <2>1. /\ UNCHANGED <<disk, commits, platform, faults, pc, floor>>
        /\ \A u \in Thread, r \in Slot : u # t \/ r # s => seen'[u][r] = seen[u][r]
        /\ seen'[t][s] = ReadOf(s) /\ seen[t][s].kind = "unread"
    BY <1>5 DEF ReadSlot, history, IInv, TypeOK
  <2>2. faults = 0 => ReadOf(s) = disk[s] /\ disk[s].kind # "unread"
    BY DEF ReadOf, IInv, FaultFreeInv, DiskInv
  <2>3. faults = 0 => \A u \in Thread, r \in Slot : Known(u, r)' = Known(u, r)
    BY <2>1, <2>2 DEF Known
  <2> QED BY <2>1, <2>3
<1>6. ASSUME NEW t \in Thread, RemoveTarget(t) PROVE RecentInv'
  BY <1>6 DEF RemoveTarget, RecentInv
<1>7. ASSUME NEW p \in Process, Crash(p) PROVE Same
  <2>1. /\ UNCHANGED <<disk, commits, platform, faults>>
        /\ \A u \in Thread : pc'[u] = "load" =>
               pc'[u] = pc[u] /\ seen'[u] = seen[u] /\ floor'[u] = floor[u]
    BY <1>7 DEF Crash
  <2> QED BY <2>1 DEF Known
<1>8. ASSUME NEW s \in Slot, Damage(s) PROVE RecentInv'
  BY <1>8, RecentDamage
<1>9. ASSUME NEW s \in Slot, Deny(s) PROVE RecentInv'
  <2>1. /\ UNCHANGED <<disk, commits, platform>> /\ faults' = faults + 1 /\ faults \in Nat
    BY <1>9 DEF Deny, Fault, IInv, TypeOK
  <2>2. faults' # 0 /\ (faults' <= 1 => faults <= 1)
    BY <2>1
  <2> QED BY <2>1, <2>2, StoredUnchanged DEF RecentInv
<1>10. ASSUME NEW s \in Slot, Restore(s) PROVE Same
  BY <1>10 DEF Restore, IInv, FaultFreeInv
<1>11. CASE UNCHANGED vars
  BY <1>1, <1>11 DEF vars, Known
<1> QED
  BY <1>1, <1>2, <1>3, <1>4, <1>5, <1>6, <1>7, <1>8, <1>9, <1>10, <1>11, ThreadAssumption
     DEF Next, SaveStep

\* What an earlier run left: nothing, one snapshot, or two that are adjacent.
LEMMA LoadsInit == Init => BoundInv /\ CopiesInv /\ RecentInv
<1> SUFFICES ASSUME Init PROVE BoundInv /\ CopiesInv /\ RecentInv
  OBVIOUS
<1>1. DiskInv /\ TypeOK
  BY DiskInit, TypeInit
<1>2. /\ pc = [t \in Thread |-> "idle"] /\ commits = Stored
      /\ Stored = SnapOf(disk, Select(disk))
  BY DEF Init, Stored
<1>3. PICK first \in FirstSeqs : disk \in InitialDisk(first)
  BY DEF Init
<1>4. first \in Seqs /\ Succ(first) \in Seqs
  BY FirstSeqsAssumption, SuccType DEF Seqs
<1>5. Copies(0) = {disk[0]} /\ Copies(1) = {disk[1]}
  BY <1>2 DEF Copies
<1>6. Saving = {} /\ Pending = {}
  BY <1>2 DEF Saving, Pending, Critical
<1> DEFINE Goal == commits <= 2 /\ CopiesInv /\ RecentInv
<1>7. /\ 0 \in Slot /\ 1 \in Slot /\ \A s \in Slot : s = 0 \/ s = 1
      /\ disk[0] \in Content /\ disk[1] \in Content
  BY <1>1 DEF Slot, TypeOK
<1>8. \A t \in Thread : pc[t] # "load"
  BY <1>2
<1>9. \A c : Valid(c) /\ c.seq \in Seqs => Distance(c.seq, c.seq) = 0
  BY ModulusAssumption DEF Distance, Seqs
<1>10. ASSUME \A s \in Slot : ~Valid(disk[s])
       PROVE  Goal
  <2>1. \A s \in Slot : disk[s] = Blank("missing")
    BY <1>3, <1>10 DEF InitialDisk, Versioned, Valid, Slot
  <2>2. commits = 0
    BY <1>2, <1>10, NoCopy
  <2>3. CopiesInv
    BY <1>5, <1>7, <1>10, <2>1, <2>2 DEF CopiesInv, Whole, Spaced, Blank
  <2>4. RecentInv
    BY <1>2, <1>8, <2>1, <2>2 DEF RecentInv, Blank
  <2> QED BY <2>2, <2>3, <2>4
<1>11. ASSUME Valid(disk[0]) /\ ~Valid(disk[1])
       PROVE  Goal
  <2>1. /\ disk[1] = Blank("missing") /\ disk[0].snap = 1
        /\ disk[0].kind \in {"legacy", "versioned"}
    BY <1>3, <1>11 DEF InitialDisk, Blank, Versioned, Valid, Slot
  <2>2. 1 - 0 = 1
    OBVIOUS
  <2>3. commits = 1
    BY <1>2, <1>7, <1>11, <2>1, <2>2, OneCopy
  <2>4. disk[1].snap = 0 /\ disk[1].kind = "missing"
    BY <2>1 DEF Blank
  <2>5. Spaced(disk[0], disk[0])
    BY <1>7, <1>9, <2>1 DEF Spaced, Content
  <2>6. CopiesInv
    BY <1>5, <1>7, <1>11, <2>1, <2>3, <2>4, <2>5 DEF CopiesInv, Whole, Spaced
  <2>7. RecentInv
    BY <1>2, <1>7, <1>8, <2>1, <2>3, <2>4 DEF RecentInv
  <2> QED BY <2>3, <2>6, <2>7
<1>12. ASSUME Valid(disk[0]) /\ Valid(disk[1])
       PROVE  Goal
  <2>1. PICK s \in Slot : /\ disk[s] = Versioned(Succ(first), 2)
                          /\ disk[1 - s] = Versioned(first, 1)
    BY <1>3, <1>12 DEF InitialDisk, Blank, Valid, Slot
  <2>2. /\ disk[s].snap = 2 /\ disk[s].seq = Succ(first) /\ disk[s].kind = "versioned"
        /\ disk[1 - s].snap = 1 /\ disk[1 - s].seq = first /\ disk[1 - s].kind = "versioned"
    BY <2>1 DEF Versioned
  <2>3. Follows(disk[1 - s], disk[s])
    BY <2>2 DEF Follows
  <2>4. commits = 2
    <3>1. disk \in [Slot -> Content] /\ disk[1].kind # "legacy"
      BY <1>1 DEF TypeOK, DiskInv
    <3> QED BY <1>2, <1>12, <2>2, <2>3, <3>1, TwoCopies
  <2>5. /\ \A u \in Slot : Whole(disk[u]) /\ disk[u].kind # "legacy"
        /\ \A u \in Slot : u = s \/ u = 1 - s
    <3>1. \A u \in Slot : u = s \/ u = 1 - s
      BY DEF Slot
    <3>2. Whole(disk[s]) /\ Whole(disk[1 - s])
      BY <1>7, <2>2, <2>4 DEF Whole, Valid, Slot
    <3> QED BY <2>2, <3>1, <3>2
  <2>6. Distance(first, Succ(first)) = 1
    BY <1>4, SuccDistance
  <2>7. /\ Spaced(disk[s], disk[s]) /\ Spaced(disk[1 - s], disk[1 - s])
        /\ Spaced(disk[s], disk[1 - s]) /\ Spaced(disk[1 - s], disk[s])
    BY <1>4, <1>9, <2>2, <2>6 DEF Spaced
  <2>8. \A u, v \in Slot : Spaced(disk[u], disk[v])
    BY <2>5, <2>7
  <2>9. disk[0].snap # disk[1].snap
    BY <2>2 DEF Slot
  <2>10. CopiesInv
    <3>1. \A u \in Slot : \A c \in Copies(u) : c = disk[u]
      BY <1>5, <1>7
    <3>2. \A c \in Copies(0) \cup Copies(1) : \E u \in Slot : c = disk[u]
      BY <1>7, <3>1
    <3>3. \A c, d \in Copies(0) \cup Copies(1) : Spaced(c, d)
      BY <2>8, <3>2
    <3> QED BY <1>5, <2>5, <2>9, <3>1, <3>3 DEF CopiesInv
  <2>11. RecentInv
    BY <1>2, <1>8, <2>2, <2>4, <2>5 DEF RecentInv
  <2> QED BY <2>4, <2>10, <2>11
<1>13. ASSUME ~Valid(disk[0]) /\ Valid(disk[1])
       PROVE  Goal
  BY <1>3, <1>13 DEF InitialDisk, Blank, Versioned, Valid, Slot
<1>14. Goal
  BY <1>7, <1>10, <1>11, <1>12, <1>13
<1>15. BoundInv
  <2>1. IsFiniteSet({}) /\ Cardinality({}) = 0
    BY FS_EmptySet
  <2>2. Limit >= 2 /\ Limit \in Nat /\ commits \in Nat
    BY <1>1, BoundAssumption DEF Limit, TypeOK
  <2> QED BY <1>6, <1>14, <2>1, <2>2 DEF BoundInv
<1> QED BY <1>14, <1>15

\* As long as fewer than half a range of snapshots are committed (2^63 in the code),
\* a load that reads the two slots one after the other, without the lock, beside any
\* number of saves, returns nothing older than what was committed when it began; and
\* one fault of the storage costs at most the last snapshot (LoadIsRecent).
THEOREM LoadsAreRecent == ASSUME MaxCommits < Half PROVE Spec => []LoadIsRecent
<1> DEFINE LInv == IInv /\ BoundInv /\ CopiesInv /\ RecentInv
<1>1. IInv /\ BoundInv => commits <= Half
  <2> SUFFICES ASSUME IInv, BoundInv PROVE commits <= Half
    OBVIOUS
  <2>1. Pending \subseteq Saving
    BY DEF Pending, Saving, Critical
  <2>2. Cardinality(Pending) \in Nat
    BY <2>1, FS_Subset, FS_CardinalityType DEF BoundInv
  <2>3. commits \in Nat /\ Limit \in Nat /\ Limit <= Half
    BY BoundAssumption, ModulusAssumption DEF IInv, TypeOK, Limit
  <2> QED BY <2>2, <2>3, ModulusAssumption DEF BoundInv
<1>2. Init => BoundInv /\ CopiesInv /\ RecentInv
  BY LoadsInit
<1>3. ASSUME IInv, IInv', BoundInv, CopiesInv, RecentInv, [Next]_vars
      PROVE  BoundInv' /\ CopiesInv' /\ RecentInv'
  <2>1. BoundInv'
    BY <1>3, BoundStep DEF IInv
  <2>2. CopiesInv'
    BY <1>1, <1>3, CopiesStep DEF IInv
  <2>3. RecentInv'
    BY <1>3, RecentStep
  <2> QED BY <2>1, <2>2, <2>3
<1>4. ASSUME IInv, BoundInv, CopiesInv, RecentInv PROVE LoadIsRecent
  <2> SUFFICES ASSUME platform = "posix", faults = 0, NEW t \in Thread, pc[t] = "load", BothRead(t)
               PROVE  SnapOf(seen[t], Select(seen[t])) >= floor[t]
    BY <1>4 DEF LoadIsRecent, RecentInv
  <2>1. PICK v \in [Slot -> Content] : v = seen[t]
    BY <1>4 DEF IInv, TypeOK
  <2>2. /\ 0 \in Slot /\ 1 \in Slot
        /\ \A s \in Slot : v[s] \in Copies(s)
    BY <2>1 DEF BothRead, Copies, Slot
  <2>3. \A s \in Slot : Whole(v[s]) /\ (s = 1 => v[s].kind # "legacy")
    BY <1>4, <2>2 DEF CopiesInv
  <2>4. commits <= Half /\ commits \in Nat /\ Half \in Nat
    BY <1>1, <1>4, ModulusAssumption DEF IInv, TypeOK
  <2>5. \A s \in Slot : v[s].snap <= Half
    BY <2>3, <2>4 DEF Whole, Content
  <2>6. Valid(v[0]) /\ Valid(v[1]) => v[0].snap # v[1].snap
    BY <1>4, <2>2 DEF CopiesInv
  <2>7. Spaced(v[0], v[1]) /\ Spaced(v[1], v[0])
    BY <1>4, <2>2 DEF CopiesInv
  <2>8. \A s \in Slot : SnapOf(v, Select(v)) >= v[s].snap
    BY <2>2, <2>3, <2>5, <2>6, <2>7, SelectsLatest DEF Whole
  <2>9. PICK s \in Slot : Known(t, s).snap >= floor[t]
    BY <1>4 DEF RecentInv
  <2>10. v[s].snap >= floor[t]
    BY <2>1, <2>9 DEF Known, BothRead
  <2>11. /\ v[s].snap \in Nat /\ floor[t] \in Nat
         /\ SnapOf(v, Select(v)) \in Int
    <3>1. Select(v) \in Slot \cup {NoSlot}
      BY SelectValid DEF Slot
    <3> QED BY <1>4, <3>1 DEF IInv, TypeOK, Content, SnapOf
  <2> QED BY <2>1, <2>8, <2>10, <2>11
<1>5. Spec => []LInv
  <2>1. LInv /\ IInv' /\ [Next]_vars => LInv'
    BY <1>3
  <2>2. Init /\ IInv => LInv
    BY <1>2
  <2> QED BY <2>1, <2>2, Inductive, PTL DEF Spec
<1>6. LInv => LoadIsRecent
  BY <1>4
<1> QED BY <1>5, <1>6, PTL
=============================================================================
