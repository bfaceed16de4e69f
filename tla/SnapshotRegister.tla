--------------------------- MODULE SnapshotRegister ---------------------------
(***************************************************************************)
(* What the settings store promises (docs/settings-storage.md): a register *)
(* holding one complete snapshot, replaced atomically by a newer one, which *)
(* keeps a fallback copy for the day the storage damages the current one.  *)
(* Snapshots are numbered in the order they are committed; 0 is "nothing". *)
(***************************************************************************)
EXTENDS Naturals

VARIABLES value,     \* the snapshot a load returns, 0 when the store has none
          fallback,  \* the other complete copy, 0 when there is none
          commits    \* the number of the last snapshot committed

vars == <<value, fallback, commits>>

\* An empty store, a store with one copy, a store with two.
Init == /\ value \in 0..2
        /\ fallback = IF value = 2 THEN 1 ELSE 0
        /\ commits = value

\* A save replaces the value by a fresh snapshot and keeps the old value as
\* the fallback; only a damaged old value, already without a fallback behind
\* it, leaves no fallback.
Commit == /\ commits' = commits + 1
          /\ value' = commits'
          /\ \/ fallback' = value
             \/ fallback = 0 /\ fallback' = 0

\* The storage damages one copy: a load then returns the other one.
DamageValue == /\ value # 0
               /\ value' = fallback
               /\ fallback' = 0
               /\ UNCHANGED commits

\* The fallback goes: damaged, or removed to make room for a newer snapshot.
DropFallback == /\ fallback # 0
                /\ fallback' = 0
                /\ UNCHANGED <<value, commits>>

Next == Commit \/ DamageValue \/ DropFallback

Spec == Init /\ [][Next]_vars
=============================================================================
