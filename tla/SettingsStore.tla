----------------------------- MODULE SettingsStore -----------------------------
(***************************************************************************)
(* The two-slot settings store of src/settings.c: saves alternate between  *)
(* the primary file (slot 0) and its ".bk" peer (slot 1) under an          *)
(* in-process mutex and a per-process file lock, loads read both slots     *)
(* without a lock, and a modular sequence number orders the two copies.    *)
(* Threads run saves and loads concurrently; processes crash at any step;  *)
(* the storage damages slots.                                              *)
(*                                                                         *)
(* A snapshot's payload is abstracted to the number of its commit (snap),  *)
(* which no operation reads: what the code compares is seq.                *)
(***************************************************************************)
EXTENDS Integers, FiniteSets

CONSTANTS Thread,     \* threads that save and load settings
          Process,    \* the application instances they belong to
          ProcOf,     \* the process of each thread
          Loader,     \* bound: the threads that load (any may, in the code)
          Modulus,    \* size of the sequence counter's range (2^64 in the code)
          FirstSeqs,  \* counters a store may hold at the start
          Platforms,  \* subset of {"posix", "windows"}
          MaxCommits, \* bound: snapshots committed
          MaxFaults,  \* bound: faults of the storage
          None        \* "no thread", "no process"

Half == Modulus \div 2

ASSUME ThreadAssumption == ProcOf \in [Thread -> Process] /\ Loader \subseteq Thread
ASSUME NoneAssumption == None \notin Thread /\ None \notin Process
ASSUME ModulusAssumption == /\ Modulus \in Nat
                            /\ Half \in Nat
                            /\ Half > 1
                            /\ Modulus = Half + Half
ASSUME FirstSeqsAssumption == FirstSeqs \subseteq 0..(Modulus - 1)
ASSUME PlatformAssumption == Platforms \subseteq {"posix", "windows"}
ASSUME BoundAssumption == MaxCommits \in Nat /\ MaxFaults \in Nat

VARIABLES disk,       \* what each slot's file holds
          access,     \* whether each slot's file can be read (io_error if not)
          platform,   \* how a file is replaced: atomically, or with a gap
          mutex,      \* store_mutex of each process: its holder
          fileLock,   \* the process that holds the lock on path.lock
          pc,         \* where each thread is
          seen,       \* the two slots as each thread read them
          commits,    \* history: number of the last snapshot committed
          floor,      \* history: commits when a thread began its load
          faults,     \* history: faults of the storage so far
          disturbed   \* history: a fault struck since the lock in force was taken

vars == <<disk, access, platform, mutex, fileLock, pc, seen, commits,
          floor, faults, disturbed>>
locks == <<mutex, fileLock>>
history == <<commits, floor, faults, disturbed>>

-----------------------------------------------------------------------------
(* Slots and the choice between them *)

Slot == {0, 1}
NoSlot == -1
Seqs == 0..(Modulus - 1)
Kinds == {"missing", "damaged", "legacy", "versioned", "unreadable", "unread"}
Content == [kind : Kinds, seq : Seqs, snap : Nat]

\* A slot without a usable snapshot.
Blank(kind) == [kind |-> kind, seq |-> 0, snap |-> 0]
Versioned(seq, snap) == [kind |-> "versioned", seq |-> seq, snap |-> snap]
Unread == [s \in Slot |-> Blank("unread")]

Valid(c) == c.kind \in {"legacy", "versioned"}

\* slots[1].sequence - slots[0].sequence in unsigned arithmetic, and its
\* successor. (Beside a definition, a wrong form of it that the properties of
\* this module are expected to reject; nothing else uses these.)
DistanceNoWrap(from, to) == IF to >= from THEN to - from ELSE 0
Distance(from, to) == IF to >= from THEN to - from ELSE to - from + Modulus
SuccSaturating(seq) == IF seq = Modulus - 1 THEN seq ELSE seq + 1
Succ(seq) == IF seq = Modulus - 1 THEN 0 ELSE seq + 1

SelectUnsigned(view) ==
    IF Valid(view[0]) /\ Valid(view[1])
    THEN IF view[1].seq > view[0].seq THEN 1 ELSE 0
    ELSE IF Valid(view[0]) THEN 0 ELSE IF Valid(view[1]) THEN 1 ELSE NoSlot

\* The slot that holds the newest valid snapshot, NoSlot when neither is valid
\* or the counters are exactly half a range apart.
Select(view) ==
    IF Valid(view[0]) /\ Valid(view[1])
    THEN IF view[0].kind = "legacy" THEN 1
         ELSE LET d == Distance(view[0].seq, view[1].seq)
              IN  IF d = Half THEN NoSlot
                  ELSE IF d # 0 /\ d < Half THEN 1 ELSE 0
    ELSE IF Valid(view[0]) THEN 0 ELSE IF Valid(view[1]) THEN 1 ELSE NoSlot

Empty(view) == \A s \in Slot : view[s].kind = "missing"

TargetAlwaysPrimary(view) == 0
\* The slot a save replaces: never the one it selected.
Target(view) == IF Select(view) = 0 THEN 1 ELSE 0
NextSeq(view) == IF Empty(view) THEN 0 ELSE Succ(view[Select(view)].seq)

MayWriteIfAnyValid(view) == Empty(view) \/ Select(view) # NoSlot
\* A save goes on only when it could read both slots and knows the newest.
MayWrite(view) == /\ \A s \in Slot : view[s].kind # "unreadable"
                  /\ Empty(view) \/ Select(view) # NoSlot

SnapOf(view, s) == IF s = NoSlot THEN 0 ELSE view[s].snap
\* The snapshot a load of the files as they are now would return (0: none).
Stored == SnapOf(disk, Select(disk))

-----------------------------------------------------------------------------
(* Initial states: stores that earlier runs of the program leave behind *)

InitialDisk(first) ==
    { [s \in Slot |-> Blank("missing")],
      [s \in Slot |-> IF s = 0 THEN [kind |-> "legacy", seq |-> 0, snap |-> 1]
                               ELSE Blank("missing")],
      [s \in Slot |-> IF s = 0 THEN Versioned(first, 1) ELSE Blank("missing")],
      [s \in Slot |-> IF s = 0 THEN Versioned(first, 1)
                               ELSE Versioned(Succ(first), 2)],
      [s \in Slot |-> IF s = 0 THEN Versioned(Succ(first), 2)
                               ELSE Versioned(first, 1)] }

Init == /\ \E first \in FirstSeqs : disk \in InitialDisk(first)
        /\ access = [s \in Slot |-> TRUE]
        /\ platform \in Platforms
        /\ mutex = [p \in Process |-> None]
        /\ fileLock = None
        /\ pc = [t \in Thread |-> "idle"]
        /\ seen = [t \in Thread |-> Unread]
        /\ commits = Stored
        /\ floor = [t \in Thread |-> 0]
        /\ faults = 0
        /\ disturbed = FALSE

-----------------------------------------------------------------------------
(* Saving *)

Goto(t, label) == pc' = [pc EXCEPT ![t] = label]

\* Between taking and dropping the file lock; from "close" the save returns TRUE,
\* from "refuse" FALSE.
Critical == {"read", "write", "gap", "protect", "close", "refuse"}
Saving == {t \in Thread : pc[t] \in {"lock"} \cup Critical}

StartSaveWithoutMutex(t) ==
    /\ pc[t] = "idle"
    /\ commits + Cardinality(Saving) < MaxCommits
    /\ mutex' = [mutex EXCEPT ![ProcOf[t]] = t]
    /\ Goto(t, "lock")
    /\ UNCHANGED <<disk, access, platform, fileLock, seen, history>>

\* g_mutex_trylock: a save that finds the mutex taken returns at once, without
\* a change.
StartSave(t) ==
    /\ pc[t] = "idle"
    /\ commits + Cardinality(Saving) < MaxCommits
    /\ mutex[ProcOf[t]] = None
    /\ mutex' = [mutex EXCEPT ![ProcOf[t]] = t]
    /\ Goto(t, "lock")
    /\ UNCHANGED <<disk, access, platform, fileLock, seen, history>>

LockFileLeaksMutex(t) ==
    /\ pc[t] = "lock"
    /\ \/ /\ fileLock \in {None, ProcOf[t]}
          /\ fileLock' = ProcOf[t]
          /\ Goto(t, "read")
          /\ seen' = [seen EXCEPT ![t] = Unread]
          /\ disturbed' = FALSE
       \/ /\ fileLock \notin {None, ProcOf[t]}
          /\ Goto(t, "idle")
          /\ UNCHANGED <<fileLock, seen, disturbed>>
    /\ UNCHANGED <<disk, access, platform, mutex, commits, floor, faults>>

\* F_SETLK without waiting. The lock belongs to the process: it never conflicts
\* with a lock of the same process.
LockFile(t) ==
    /\ pc[t] = "lock"
    /\ \/ /\ fileLock \in {None, ProcOf[t]}
          /\ fileLock' = ProcOf[t]
          /\ Goto(t, "read")
          /\ seen' = [seen EXCEPT ![t] = Unread]
          /\ disturbed' = FALSE
          /\ UNCHANGED mutex
       \/ /\ fileLock \notin {None, ProcOf[t]}
          /\ mutex' = [mutex EXCEPT ![ProcOf[t]] = None]
          /\ Goto(t, "idle")
          /\ UNCHANGED <<fileLock, seen, disturbed>>
    /\ UNCHANGED <<disk, access, platform, commits, floor, faults>>

\* The lock file cannot be opened or locked for another reason.
LockFails(t) ==
    /\ pc[t] = "lock"
    /\ mutex' = [mutex EXCEPT ![ProcOf[t]] = None]
    /\ Goto(t, "idle")
    /\ UNCHANGED <<disk, access, platform, fileLock, seen, history>>

\* What store_read_slot makes of a slot's file; only the primary slot may hold
\* settings of an older version, without a storage header.
ReadOf(s) == IF ~access[s] THEN Blank("unreadable")
             ELSE IF s = 1 /\ disk[s].kind = "legacy" THEN Blank("damaged")
             ELSE disk[s]

\* One slot is read whole. The two reads are elements of one initializer list,
\* whose order C leaves open.
ReadSlot(t, s) ==
    /\ pc[t] \in {"read", "load"}
    /\ seen[t][s].kind = "unread"
    /\ seen' = [seen EXCEPT ![t][s] = ReadOf(s)]
    /\ UNCHANGED <<disk, access, platform, locks, pc, history>>

BothRead(t) == \A s \in Slot : seen[t][s].kind # "unread"

Choose(t) ==
    /\ pc[t] = "read"
    /\ BothRead(t)
    /\ Goto(t, IF MayWrite(seen[t]) THEN "write" ELSE "refuse")
    /\ UNCHANGED <<disk, access, platform, locks, seen, history>>

\* Preparing the file fails: settings that cannot be serialised, the protective
\* chmod of the target, the temporary file (disk full, no permission).
WriteFails(t) ==
    /\ pc[t] \in {"write", "gap"}
    /\ Goto(t, "refuse")
    /\ UNCHANGED <<disk, access, platform, locks, seen, history>>

\* Where a rename may not replace a file, the target is removed first.
RemoveTarget(t) ==
    /\ pc[t] = "write"
    /\ platform = "windows"
    /\ disk' = [disk EXCEPT ![Target(seen[t])] = Blank("missing")]
    /\ Goto(t, "gap")
    /\ UNCHANGED <<access, platform, locks, seen, history>>

\* The temporary file, complete and flushed, takes the target's name.
Rename(t) ==
    LET s == Target(seen[t])
    IN  /\ pc[t] \in {"write", "gap"}
        /\ commits' = commits + 1
        /\ disk' = [disk EXCEPT ![s] = Versioned(NextSeq(seen[t]), commits')]
        /\ access' = [access EXCEPT ![s] = TRUE]
        /\ Goto(t, "protect")
        /\ UNCHANGED <<platform, locks, seen, floor, faults, disturbed>>

\* The last chmod. When it fails the save reports failure.
Protect(t) ==
    /\ pc[t] = "protect"
    /\ Goto(t, "close") \/ Goto(t, "refuse")
    /\ UNCHANGED <<disk, access, platform, locks, seen, history>>

\* The slots are forgotten; close(fd) drops the lock of the whole process ...
CloseLock(t) ==
    /\ pc[t] \in {"close", "refuse"}
    /\ fileLock' = IF fileLock = ProcOf[t] THEN None ELSE fileLock
    /\ seen' = [seen EXCEPT ![t] = Unread]
    /\ disturbed' = FALSE
    /\ Goto(t, "unlock")
    /\ UNCHANGED <<disk, access, platform, mutex, commits, floor, faults>>

\* ... and only then is the mutex released.
Unlock(t) ==
    /\ pc[t] = "unlock"
    /\ mutex' = [mutex EXCEPT ![ProcOf[t]] = None]
    /\ Goto(t, "idle")
    /\ UNCHANGED <<disk, access, platform, fileLock, seen, history>>

-----------------------------------------------------------------------------
(* Loading *)

StartLoad(t) ==
    /\ pc[t] = "idle"
    /\ Goto(t, "load")
    /\ seen' = [seen EXCEPT ![t] = Unread]
    /\ floor' = [floor EXCEPT ![t] = commits]
    /\ UNCHANGED <<disk, access, platform, locks, commits, faults,
                   disturbed>>

\* The load returns the selected slot's settings, or its error.
FinishLoad(t) ==
    /\ pc[t] = "load"
    /\ BothRead(t)
    /\ Goto(t, "idle")
    /\ seen' = [seen EXCEPT ![t] = Unread]
    /\ floor' = [floor EXCEPT ![t] = 0]
    /\ UNCHANGED <<disk, access, platform, locks, commits, faults,
                   disturbed>>

-----------------------------------------------------------------------------
(* The environment *)

\* A process dies at any point; the system drops its locks.
Crash(p) ==
    /\ \E t \in Thread : ProcOf[t] = p /\ pc[t] # "idle"
    /\ pc' = [t \in Thread |-> IF ProcOf[t] = p THEN "idle" ELSE pc[t]]
    /\ seen' = [t \in Thread |-> IF ProcOf[t] = p THEN Unread ELSE seen[t]]
    /\ floor' = [t \in Thread |-> IF ProcOf[t] = p THEN 0 ELSE floor[t]]
    /\ mutex' = [mutex EXCEPT ![p] = None]
    /\ fileLock' = IF fileLock = p THEN None ELSE fileLock
    /\ disturbed' = (disturbed /\ fileLock # p)
    /\ UNCHANGED <<disk, access, platform, commits, faults>>

Fault == /\ faults < MaxFaults
         /\ faults' = faults + 1
         /\ disturbed' = (fileLock # None)
         /\ UNCHANGED <<platform, locks, pc, seen, commits, floor>>

\* A slot is truncated, altered, or its file is lost.
Damage(s) == /\ Valid(disk[s])
             /\ \E kind \in {"damaged", "missing"} :
                    disk' = [disk EXCEPT ![s] = Blank(kind)]
             /\ UNCHANGED access
             /\ Fault

\* A slot cannot be read for a while (permissions, a failing medium).
Deny(s) == /\ access[s]
           /\ disk[s].kind # "missing"
           /\ access' = [access EXCEPT ![s] = FALSE]
           /\ UNCHANGED disk
           /\ Fault

Restore(s) == /\ ~access[s]
              /\ access' = [access EXCEPT ![s] = TRUE]
              /\ disturbed' = (fileLock # None)
              /\ UNCHANGED <<disk, platform, locks, pc, seen, commits,
                             floor, faults>>

SaveStep(t) == \/ LockFile(t) \/ LockFails(t) \/ \E s \in Slot : ReadSlot(t, s)
               \/ Choose(t) \/ WriteFails(t) \/ RemoveTarget(t) \/ Rename(t)
               \/ Protect(t) \/ CloseLock(t) \/ Unlock(t)

Next == \/ \E t \in Thread : StartSave(t) \/ SaveStep(t)
                             \/ FinishLoad(t)
        \/ \E t \in Loader : StartLoad(t)
        \/ \E p \in Process : Crash(p)
        \/ \E s \in Slot : Damage(s) \/ Deny(s) \/ Restore(s)

Spec == Init /\ [][Next]_vars

\* A thread that runs keeps running until its call returns: nothing in a save
\* or a load waits for another thread.
FairSpec == Spec /\ \A t \in Thread : WF_vars(SaveStep(t) \/ FinishLoad(t))
-----------------------------------------------------------------------------
(* Properties *)

\* Every variable has its type.
TypeOK == /\ disk \in [Slot -> Content]
          /\ access \in [Slot -> BOOLEAN]
          /\ platform \in Platforms
          /\ mutex \in [Process -> Thread \cup {None}]
          /\ fileLock \in Process \cup {None}
          /\ pc \in [Thread -> {"idle", "lock", "unlock", "load"} \cup Critical]
          /\ seen \in [Thread -> [Slot -> Content]]
          /\ commits \in Nat
          /\ floor \in [Thread -> Nat]
          /\ faults \in Nat /\ disturbed \in BOOLEAN

\* At most one thread of all processes is between taking and dropping the lock
\* of the store, although the file lock excludes only other processes and any
\* thread's close() drops its whole process's lock (settings.c, store_lock).
MutualExclusion ==
    \A t, u \in Thread : pc[t] \in Critical /\ pc[u] \in Critical => t = u

\* Of two valid copies the sequence numbers always tell which was committed
\* last, across the wrap-around of the counter, crashes and damaged slots: the
\* choice is never ambiguous ("cannot arise from adjacent saves").
NewestSelected ==
    (\A s \in Slot : Valid(disk[s])) =>
        /\ Select(disk) # NoSlot
        /\ \A s \in Slot : disk[s].snap <= Stored

\* Without a fault of the storage a load of the files returns the snapshot
\* committed last, wherever in their steps processes crashed.
CommittedSurvives == faults = 0 => Stored = commits

\* Where files are replaced atomically, a load that reads both slots while saves
\* replace them, without the lock, returns nothing older than what was committed
\* when it began; and one fault of the storage costs at most the last snapshot:
\* a load returns it or the one before.
LoadIsRecent ==
    platform = "posix" =>
        /\ faults = 0 => \A t \in Thread : pc[t] = "load" /\ BothRead(t) =>
                             SnapOf(seen[t], Select(seen[t])) >= floor[t]
        /\ faults <= 1 => Stored + 1 >= commits

\* Unless a fault struck since it took the lock, a save changes a file only in
\* an empty store, or next to a readable valid copy: never the copy a load
\* would return, never a file it could not read, never a store that holds only
\* invalid files ("files were preserved").
SaveSparesSelected ==
    [][ \A s \in Slot : disk'[s] # disk[s] /\ faults' = faults /\ ~disturbed =>
            /\ s # Select(disk)
            /\ access[s]
            /\ Empty(disk) \/ Select(disk) # NoSlot ]_vars

\* Neither lock of the store stays taken, whichever way saves end.
LocksFreed == /\ []<>(fileLock = None)
              /\ \A p \in Process : []<>(mutex[p] = None)

\* The claim of docs/settings-storage.md that a slot missing on one platform's
\* replacement does not prevent recovery from the other slot: a load of a store
\* that held a snapshot finds one.
LoadFindsStore ==
    \A t \in Thread : faults = 0 /\ pc[t] = "load" /\ BothRead(t) /\ floor[t] > 0
                       => Select(seen[t]) # NoSlot

\* The other valid copy, behind the one a load returns.
Fallback == IF \E s \in Slot : Valid(disk[s]) /\ s # Select(disk) /\ Stored > 0
            THEN SnapOf(disk, 1 - Select(disk)) ELSE 0

\* The store implements the register its documentation describes.
Register == INSTANCE SnapshotRegister WITH value <- Stored, fallback <- Fallback
ImplementsRegister == Register!Spec
=============================================================================
