--------------------------- MODULE SessionTabsProofs ---------------------------
(***************************************************************************)
(* Proofs about SessionTabs, for any number of tabs and connections.       *)
(***************************************************************************)
EXTENDS SessionTabs, FiniteSetTheorems, TLAPS

\* A connection has one number, given once.
IdInv == /\ \A r \in spawning : r.id <= connects
         /\ \A p \in procs : p.id <= connects
         /\ \A r, q \in spawning : r.id = q.id => r = q

\* A tab that is not open, freed or not made yet, has nothing.
AbsentInv == \A t \in Id \ tabs : recorder[t] = "finished" /\ pid[t] = 0 /\ log[t] = 0

\* A spawn under way is the only one of its tab, which waits for it, unless a second one
\* began there while another was under way.
SpawnInv ==
    /\ \A r \in spawning : r.tab \in doubled \/ (r.tab \in tabs /\ pending[r.tab])
    /\ \A r, q \in spawning : r.tab = q.tab /\ r.tab \notin doubled => r = q

Base == TypeOK /\ IdInv /\ AbsentInv /\ RecordingHasSession /\ LogsDistinct

-----------------------------------------------------------------------------
(* The operators the model is built from *)

\* Stopping recorders starts none, finishes none that ran, stops those it means.
LEMMA StopTapStops ==
    ASSUME NEW T, recorder \in [Id -> {"finished", "records", "stopping"}], StopTap(T)
    PROVE  /\ recorder' \in [Id -> {"finished", "records", "stopping"}]
           /\ \A t \in Id : recorder'[t] = "records" => t \notin T /\ recorder[t] = "records"
           /\ \A t \in Id : recorder[t] = "finished" => recorder'[t] = "finished"
BY DEF StopTap

\* Hanging up changes the state of processes, and nothing else of them.
LEMMA HangUpKeeps ==
    ASSUME NEW ids, procs \subseteq Process
    PROVE  /\ HangUp(ids) \subseteq Process
           /\ \A p \in HangUp(ids) : \E q \in procs : p.id = q.id
<1> SUFFICES ASSUME NEW q \in procs
             PROVE  LET p == IF q.id \in ids /\ q.state = "runs"
                             THEN [q EXCEPT !.state = "hung up"] ELSE q
                    IN p \in Process /\ p.id = q.id
    BY DEF HangUp
<1> QED BY DEF Process

\* There is a path for every tab: at most MaxTabs - 1 others are open.
LEMMA PathExists ==
    ASSUME TypeOK, NEW t \in Id, t \in tabs \/ made < MaxTabs
    PROVE  \E n \in Id : \A o \in tabs \ {t} : log[o] # n
<1> DEFINE Others == tabs \ {t}
<1>1. IsFiniteSet(Id) /\ Cardinality(Id) = MaxTabs
  <2>1. 1 \in Int /\ MaxTabs \in Int /\ 1 <= MaxTabs /\ MaxTabs - 1 + 1 = MaxTabs
        BY BoundAssumption
  <2> QED BY <2>1, FS_Interval DEF Id
<1>2. IsFiniteSet(Others) /\ Cardinality(Others) < MaxTabs
  <2>1. made \in Int /\ 0 <= made /\ made <= MaxTabs /\ tabs \subseteq 1..made
        BY BoundAssumption DEF TypeOK
  <2>2. tabs \subseteq Id
        BY <2>1, BoundAssumption DEF Id
  <2>3. PICK one \in Id : one \notin Others
    <3>1. CASE t \in tabs
          BY <3>1
    <3>2. CASE made < MaxTabs
      <4>1. MaxTabs \in Id /\ MaxTabs \notin tabs
            BY <3>2, <2>1, BoundAssumption DEF Id
      <4> QED BY <4>1
    <3> QED BY <3>1, <3>2
  <2>4. IsFiniteSet(Id \ {one}) /\ Cardinality(Id \ {one}) = MaxTabs - 1
        BY <1>1, <2>3, FS_RemoveElement
  <2>5. Others \subseteq Id \ {one}
        BY <2>2, <2>3
  <2>6. IsFiniteSet(Others) /\ Cardinality(Others) <= MaxTabs - 1
        BY <2>4, <2>5, FS_Subset
  <2>7. Cardinality(Others) \in Nat
        BY <2>6, FS_CardinalityType
  <2> QED BY <2>6, <2>7, BoundAssumption
<1>3. SUFFICES ASSUME \A n \in Id : \E o \in Others : log[o] = n
               PROVE  FALSE
      OBVIOUS
<1> DEFINE path == [o \in Others |-> IF log[o] \in Id THEN log[o] ELSE 1]
<1>4. path \in Surjection(Others, Id)
  <2>1. 1 \in Id
        BY BoundAssumption DEF Id
  <2> QED BY <2>1, <1>3, Zenon DEF Surjection, Range
<1>5. Cardinality(Id) <= Cardinality(Others)
      BY <1>2, <1>4, FS_Surjection
<1>6. Cardinality(Others) \in Nat
      BY <1>2, FS_CardinalityType
<1> QED BY <1>1, <1>2, <1>5, <1>6, BoundAssumption

\* What the provers need of the bounds and of the ranges they span.
LEMMA Bounds ==
    /\ MaxTabs \in Nat /\ MaxTabs >= 1 /\ MaxConnects \in Nat /\ MaxSpawns \in Nat
    /\ 0 \in 0..MaxConnects /\ 0 \in 0..MaxTabs
    /\ 1..MaxConnects \subseteq 0..MaxConnects /\ Id \subseteq 0..MaxTabs
    /\ 0 \notin Id /\ 0 \notin 1..MaxConnects
<1>1. MaxTabs \in Nat /\ MaxTabs >= 1 /\ MaxConnects \in Nat /\ MaxSpawns \in Nat
      BY BoundAssumption
<1> QED BY <1>1 DEF Id

\* The tabs are of the ones that were made.
LEMMA TabsAreIds == ASSUME Base PROVE tabs \subseteq Id
BY BoundAssumption DEF Base, TypeOK, Id

\* The dialogs there can be, and that one of a tab names a tab.
LEMMA DialogMembers ==
    /\ NoDialog \in Dialog
    /\ [kind |-> "window", tab |-> 0] \in Dialog
    /\ \A t \in Id : [kind |-> "tab", tab |-> t] \in Dialog
    /\ \A t \in Id : [kind |-> "recording", tab |-> t] \in Dialog
    /\ \A d \in Dialog : d.kind \in {"tab", "recording"} => d.tab \in Id
BY DEF Dialog, NoDialog

\* The window starts with its tabs, none of them connected.
LEMMA InitBase == Init => Base
<1> SUFFICES ASSUME Init PROVE Base
    OBVIOUS
<1>1. TypeOK
  <2>1. made \in 0..MaxTabs /\ 0 \in 0..MaxTabs /\ 0 \in 0..MaxConnects
        BY BoundAssumption DEF Init, Id
  <2> QED BY <2>1, DialogMembers DEF Init, TypeOK
<1>2. IdInv /\ AbsentInv /\ RecordingHasSession
      BY DEF Init, IdInv, AbsentInv, RecordingHasSession
<1>3. LogsDistinct
  <2>1. \A t \in tabs : t \in Id
        BY BoundAssumption DEF Init, Id
  <2>2. \A t \in tabs : log[t] = 0
        BY <2>1 DEF Init
  <2> QED BY <2>2 DEF LogsDistinct
<1> QED BY <1>1, <1>2, <1>3 DEF Base

-----------------------------------------------------------------------------
(* Every step keeps the invariant *)

\* Settings bear on nothing that is under way.
LEMMA SettingsKeep ==
    ASSUME Base, NEW t \in Id, NEW d \in Device,
           SelectDevice(t, d) \/ LoadProfile(t, d) \/ CaptureSettings(t)
    PROVE  Base'
<1> USE DEF session, system, ending, screen
<1>1. CASE SelectDevice(t, d)
  <2>1. TypeOK'
        BY <1>1 DEF Base, TypeOK, SelectDevice
  <2> QED BY <1>1, <2>1 DEF Base, SelectDevice, IdInv, AbsentInv, RecordingHasSession, LogsDistinct
<1>2. CASE LoadProfile(t, d)
  <2>1. TypeOK'
        BY <1>2 DEF Base, TypeOK, LoadProfile
  <2> QED BY <1>2, <2>1 DEF Base, LoadProfile, IdInv, AbsentInv, RecordingHasSession, LogsDistinct
<1>3. CASE CaptureSettings(t)
  <2>1. TypeOK'
        BY <1>3 DEF Base, TypeOK, CaptureSettings
  <2> QED BY <1>3, <2>1 DEF Base, CaptureSettings, IdInv, AbsentInv, RecordingHasSession, LogsDistinct
<1> QED BY <1>1, <1>2, <1>3

\* No step but the end of a spawn makes a process, and only a connection a spawn.
LEMMA IdsKeep ==
    ASSUME Base, spawning' \subseteq spawning, connects' = connects,
           \A p \in procs' : \E q \in procs : p.id = q.id
    PROVE  IdInv' /\ \A r \in spawning', p \in procs' : r.id # p.id
<1>1. \A r \in spawning, p \in procs : r.id # p.id
      BY DEF Base, TypeOK
<1>2. IdInv
      BY DEF Base
<1> QED BY <1>1, <1>2 DEF IdInv

\* A disconnect hangs the process up and leaves it to be reaped.
LEMMA DisconnectKeeps ==
    ASSUME Base, NEW t \in Id, Disconnect(t)
    PROVE  Base'
<1> USE DEF session, settings, system, ending, screen
<1>1. /\ procs' \subseteq Process
      /\ \A p \in procs' : \E q \in procs : p.id = q.id
      BY HangUpKeeps DEF Disconnect, Base, TypeOK
<1>2. /\ recorder' \in [Id -> {"finished", "records", "stopping"}]
      /\ \A o \in Id : recorder'[o] = "records" => recorder[o] = "records"
      /\ \A o \in Id : recorder[o] = "finished" => recorder'[o] = "finished"
      BY StopTapStops DEF Disconnect, Base, TypeOK
<1>3. UNCHANGED <<tabs, made, idle, settings, session, spawning, connects, doubled, ending,
                  screen>>
      BY DEF Disconnect
<1>4. IdInv' /\ \A r \in spawning', p \in procs' : r.id # p.id
      BY <1>1, <1>3, IdsKeep
<1>5. TypeOK'
      BY <1>1, <1>2, <1>3, <1>4 DEF Base, TypeOK
<1>6. AbsentInv' /\ RecordingHasSession' /\ LogsDistinct'
      BY <1>2, <1>3 DEF Base, AbsentInv, RecordingHasSession, LogsDistinct
<1> QED BY <1>4, <1>5, <1>6 DEF Base

\* What a connection that is begun does, in a tab with no process.
LEMMA SpawnKeeps ==
    ASSUME Base, NEW t \in Id, NEW d \in Device, pid[t] = 0, Spawn(t, d),
           t \in tabs' /\ (t \in tabs \/ made < MaxTabs),
           tabs' \subseteq tabs \cup {t}, tabs \subseteq tabs'
    PROVE  /\ pid' \in [Id -> 0..MaxConnects] /\ log' \in [Id -> 0..MaxTabs]
           /\ pending' \in [Id -> BOOLEAN]
           /\ recorder' \in [Id -> {"finished", "records", "stopping"}]
           /\ spawning' \subseteq Request /\ procs' \subseteq Process
           /\ connects' \in 0..MaxConnects /\ doubled' \subseteq Id
           /\ \A r \in spawning', p \in procs' : r.id # p.id
           /\ IdInv' /\ AbsentInv' /\ RecordingHasSession' /\ LogsDistinct'
<1> DEFINE new == [id |-> connects + 1, tab |-> t, device |-> d]
<1>1. /\ connects < MaxConnects
      /\ connects' = connects + 1
      /\ spawning' = spawning \cup {new}
      /\ pending' = [pending EXCEPT ![t] = TRUE]
      /\ pid' = pid /\ procs' = procs
      BY DEF Spawn
<1>2. PICK path \in {0, FreePath(t)} : log' = [log EXCEPT ![t] = path]
      BY DEF Spawn
<1>3. FreePath(t) \in Id /\ \A o \in tabs \ {t} : log[o] # FreePath(t)
      BY PathExists DEF Base, FreePath
<1>4. /\ recorder' \in [Id -> {"finished", "records", "stopping"}]
      /\ \A o \in Id : recorder'[o] = "records" => o # t /\ recorder[o] = "records"
      /\ \A o \in Id : recorder[o] = "finished" => recorder'[o] = "finished"
      BY StopTapStops DEF Spawn, Base, TypeOK
<1>5. connects \in Nat /\ connects' \in 0..MaxConnects /\ connects' \in 1..MaxConnects
      BY <1>1, BoundAssumption DEF Base, TypeOK
<1>6. new \in Request
      BY <1>1, <1>5 DEF Request
<1>7. \A r \in spawning : r.id < connects + 1 /\ r.id \in Nat
      BY <1>5 DEF Base, TypeOK, IdInv, Request
<1>8. \A p \in procs : p.id < connects + 1 /\ p.id \in Nat
  <2>1. procs \subseteq Process /\ \A p \in procs : p.id <= connects
        BY DEF Base, TypeOK, IdInv
  <2>2. \A p \in Process : p.id \in 1..MaxConnects
        BY DEF Process
  <2> QED BY <2>1, <2>2, <1>5
<1>9. \A r \in spawning', p \in procs' : r.id # p.id
      BY <1>1, <1>5, <1>8 DEF Base, TypeOK
<1>10. IdInv'
  <2>1. \A r \in spawning' : r.id <= connects'
        BY <1>1, <1>5, <1>7
  <2>2. \A p \in procs' : p.id <= connects'
        BY <1>1, <1>5, <1>8
  <2>3. ASSUME NEW r \in spawning', NEW q \in spawning', r.id = q.id
        PROVE  r = q
        BY <2>3, <1>1, <1>5, <1>7 DEF Base, IdInv
  <2> QED BY <2>1, <2>2, <2>3 DEF IdInv
<1>11. log' \in [Id -> 0..MaxTabs]
       BY <1>2, <1>3, BoundAssumption DEF Base, TypeOK, Id
<1>12. AbsentInv' /\ RecordingHasSession'
       BY <1>1, <1>2, <1>4 DEF Base, TypeOK, AbsentInv, RecordingHasSession
<1>13. LogsDistinct'
  <2>1. tabs \subseteq Id
        BY TabsAreIds
  <2>2. 0 \notin Id
        BY DEF Id
  <2>3. \A o \in Id \ {t} : log'[o] = log[o]
        BY <1>2 DEF Base, TypeOK
  <2>4. log'[t] = path
        BY <1>2 DEF Base, TypeOK
  <2>5. \A o \in tabs' : o # t => o \in tabs /\ log[o] # FreePath(t)
        BY <1>3
  <2>6. ASSUME NEW a \in tabs', NEW b \in tabs', a # b, log'[a] # 0
        PROVE  log'[a] # log'[b]
    <3>1. CASE a = t
          BY <3>1, <2>6, <2>1, <2>3, <2>4, <2>5, <1>2
    <3>2. CASE b = t
          BY <3>2, <2>6, <2>1, <2>3, <2>4, <2>5, <1>2
    <3>3. CASE a # t /\ b # t
          BY <3>3, <2>6, <2>1, <2>3, <2>5 DEF Base, LogsDistinct
    <3> QED BY <3>1, <3>2, <3>3
  <2> QED BY <2>6 DEF LogsDistinct
<1>14. doubled' \subseteq Id
       BY DEF Spawn, Base, TypeOK
<1> QED BY <1>1, <1>4, <1>5, <1>6, <1>9, <1>10, <1>11, <1>12, <1>13, <1>14 DEF Base, TypeOK

\* connect_tio: begun, refused for its options, or for its log directory.
LEMMA ConnectKeeps ==
    ASSUME Base, NEW t \in Id, Connect(t)
    PROVE  Base'
<1> USE DEF session, settings, system, ending, screen
<1>1. /\ t \in tabs /\ pid[t] = 0
      /\ tabs' = tabs /\ made' = made /\ idle' = idle /\ dropdown' = dropdown
      /\ closing' = closing /\ deferred' = deferred /\ dialog' = dialog
      /\ confirmed' = confirmed /\ saved' = saved /\ draining' = draining /\ window' = window
      /\ config' = [config EXCEPT ![t] = dropdown[t]]
      BY DEF Connect
<1>2. config' \in [Id -> Device] /\ dropdown[t] \in Device
      BY <1>1 DEF Base, TypeOK
<1>3. CASE Spawn(t, dropdown[t])
  <2>1. t \in tabs' /\ tabs' \subseteq tabs \cup {t} /\ tabs \subseteq tabs'
        BY <1>1
  <2>2. TypeOK'
        BY <1>1, <1>2, <1>3, <2>1, SpawnKeeps DEF Base, TypeOK
  <2> QED BY <1>1, <1>2, <1>3, <2>1, <2>2, SpawnKeeps DEF Base
<1>4. CASE UNCHANGED <<session, recorder, system>>
  <2>1. TypeOK'
        BY <1>1, <1>2, <1>4 DEF Base, TypeOK
  <2> QED BY <1>1, <1>4, <2>1 DEF Base, IdInv, AbsentInv, RecordingHasSession, LogsDistinct
<1>5. CASE log' = [log EXCEPT ![t] = 0] /\ UNCHANGED <<pid, pending, recorder, system>>
  <2>1. TypeOK'
    <3>1. log' \in [Id -> 0..MaxTabs]
          BY <1>5, BoundAssumption DEF Base, TypeOK
    <3> QED BY <1>1, <1>2, <1>5, <3>1 DEF Base, TypeOK
  <2>2. LogsDistinct'
    <3>1. tabs \subseteq Id
          BY TabsAreIds
    <3> QED BY <1>1, <1>5, <3>1 DEF Base, TypeOK, LogsDistinct
  <2>3. IdInv' /\ RecordingHasSession'
        BY <1>5 DEF Base, IdInv, RecordingHasSession
  <2>4. AbsentInv'
        BY <1>1, <1>5 DEF Base, TypeOK, AbsentInv
  <2> QED BY <2>1, <2>2, <2>3, <2>4 DEF Base
<1> QED BY <1>3, <1>4, <1>5 DEF Connect

\* on_spawn_finished with an error.
LEMMA SpawnFailedKeeps ==
    ASSUME Base, NEW r \in spawning, SpawnFailed(r)
    PROVE  Base'
<1> DEFINE t == r.tab
<1>1. /\ t \in tabs
      /\ spawning' = spawning \ {r} /\ procs' = procs
      /\ connects' = connects /\ doubled' = doubled
      /\ pending' = [pending EXCEPT ![t] = FALSE]
      /\ pid' = [pid EXCEPT ![t] = 0]
      /\ log' = [log EXCEPT ![t] = 0]
      /\ UNCHANGED <<tabs, made, idle, settings, ending, screen>>
      BY DEF SpawnFailed
<1>2. /\ recorder' \in [Id -> {"finished", "records", "stopping"}]
      /\ \A o \in Id : recorder'[o] = "records" => o # t /\ recorder[o] = "records"
      /\ \A o \in Id : recorder[o] = "finished" => recorder'[o] = "finished"
      BY StopTapStops DEF SpawnFailed, Base, TypeOK
<1>3. IdInv' /\ \A q \in spawning', p \in procs' : q.id # p.id
      BY <1>1, IdsKeep
<1>4. pid' \in [Id -> 0..MaxConnects] /\ log' \in [Id -> 0..MaxTabs]
  <2>1. pid \in [Id -> 0..MaxConnects] /\ log \in [Id -> 0..MaxTabs]
        BY DEF Base, TypeOK
  <2> QED BY <1>1, <2>1, Bounds
<1>5. TypeOK'
      BY <1>1, <1>2, <1>3, <1>4 DEF Base, TypeOK, settings, ending, screen
<1>6. AbsentInv' /\ RecordingHasSession'
      BY <1>1, <1>2 DEF Base, TypeOK, AbsentInv, RecordingHasSession
<1>7. LogsDistinct'
  <2>1. tabs \subseteq Id
        BY TabsAreIds
  <2> QED BY <1>1, <2>1 DEF Base, TypeOK, LogsDistinct
<1> QED BY <1>3, <1>5, <1>6, <1>7 DEF Base

\* on_spawn_finished with a process: its number was the spawn's and is no other's.
LEMMA SpawnSucceededKeeps ==
    ASSUME Base, NEW r \in spawning, SpawnSucceeded(r)
    PROVE  Base'
<1> DEFINE t == r.tab
           new == [id |-> r.id, tab |-> t, device |-> r.device,
                   state |-> IF closing[t] THEN "hung up" ELSE "runs"]
           hungUp == HangUp(OfTabs({t}))
<1>1. /\ t \in tabs
      /\ spawning' = spawning \ {r} /\ connects' = connects /\ doubled' = doubled
      /\ pending' = [pending EXCEPT ![t] = FALSE]
      /\ pid' = [pid EXCEPT ![t] = r.id]
      /\ procs' = hungUp \cup {new}
      /\ UNCHANGED <<tabs, made, idle, settings, log, recorder, ending, screen>>
      BY DEF SpawnSucceeded
<1>2. hungUp \subseteq Process /\ \A p \in hungUp : \E q \in procs : p.id = q.id
      BY HangUpKeeps DEF Base, TypeOK
<1>3. r.id \in 1..MaxConnects /\ t \in Id /\ r.device \in Device
      BY DEF Base, TypeOK, Request
<1>4. procs' \subseteq Process
  <2>1. new \in Process
        BY <1>3 DEF Process
  <2> QED BY <1>1, <1>2, <2>1
<1>5. \A q \in spawning', p \in procs' : q.id # p.id
  <2>1. \A q \in spawning' : q \in spawning /\ q.id # r.id
        BY <1>1 DEF Base, IdInv
  <2>2. \A q \in spawning, p \in procs : q.id # p.id
        BY DEF Base, TypeOK
  <2>3. new.id = r.id
        OBVIOUS
  <2> HIDE DEF new, hungUp
  <2> QED BY <1>1, <1>2, <2>1, <2>2, <2>3
<1>6. IdInv'
  <2>1. IdInv
        BY DEF Base
  <2>2. \A p \in procs' : p.id <= connects'
    <3>1. new.id = r.id
          OBVIOUS
    <3>2. /\ \A p \in procs : p.id <= connects
          /\ r.id <= connects
          BY <2>1 DEF IdInv
    <3> HIDE DEF new, hungUp
    <3> QED BY <1>1, <1>2, <3>1, <3>2
  <2> QED BY <1>1, <2>1, <2>2 DEF IdInv
<1>7. pid' \in [Id -> 0..MaxConnects] /\ r.id # 0
  <2>1. pid \in [Id -> 0..MaxConnects]
        BY DEF Base, TypeOK
  <2> QED BY <1>1, <1>3, <2>1, Bounds
<1>8. TypeOK'
      BY <1>1, <1>4, <1>5, <1>7 DEF Base, TypeOK, settings, ending, screen
<1>9. AbsentInv' /\ RecordingHasSession' /\ LogsDistinct'
      BY <1>1, <1>3, <1>7 DEF Base, TypeOK, AbsentInv, RecordingHasSession, LogsDistinct
<1> QED BY <1>6, <1>8, <1>9 DEF Base

\* A process that ends keeps its number until it is reaped.
LEMMA ExitKeeps ==
    ASSUME Base, NEW p \in procs, Exit(p)
    PROVE  Base'
<1>1. /\ procs' = (procs \ {p}) \cup {[p EXCEPT !.state = "exited"]}
      /\ UNCHANGED <<tabs, made, idle, settings, session, recorder, spawning, connects,
                     doubled, ending, screen>>
      BY DEF Exit
<1>2. [p EXCEPT !.state = "exited"] \in Process /\ [p EXCEPT !.state = "exited"].id = p.id
      BY DEF Base, TypeOK, Process
<1>3. procs' \subseteq Process /\ \A q \in procs' : \E o \in procs : q.id = o.id
      BY <1>1, <1>2 DEF Base, TypeOK
<1>4. IdInv' /\ \A r \in spawning', q \in procs' : r.id # q.id
      BY <1>1, <1>3, IdsKeep
<1>5. TypeOK'
      BY <1>1, <1>3, <1>4 DEF Base, TypeOK, settings, session, ending, screen
<1>6. AbsentInv' /\ RecordingHasSession' /\ LogsDistinct'
      BY <1>1 DEF Base, AbsentInv, RecordingHasSession, LogsDistinct, session
<1> QED BY <1>4, <1>5, <1>6 DEF Base

\* on_child_exited: the tab loses its process and, with it, its recording.
LEMMA ReapedKeeps ==
    ASSUME Base, NEW p \in procs, Reaped(p)
    PROVE  Base'
<1> DEFINE Its == {t \in tabs : pid[t] = p.id}
<1>1. /\ procs' = procs \ {p}
      /\ pid' = [t \in Id |-> IF t \in tabs /\ pid[t] = p.id THEN 0 ELSE pid[t]]
      /\ UNCHANGED <<tabs, made, idle, settings, pending, log, spawning, connects,
                     doubled, ending, screen>>
      BY DEF Reaped
<1>2. /\ recorder' \in [Id -> {"finished", "records", "stopping"}]
      /\ \A o \in Id : recorder'[o] = "records" => o \notin Its /\ recorder[o] = "records"
      /\ \A o \in Id : recorder[o] = "finished" => recorder'[o] = "finished"
      BY StopTapStops DEF Reaped, Base, TypeOK
<1>3. IdInv' /\ \A r \in spawning', q \in procs' : r.id # q.id
      BY <1>1, IdsKeep
<1>4. pid' \in [Id -> 0..MaxConnects]
  <2>1. pid \in [Id -> 0..MaxConnects]
        BY DEF Base, TypeOK
  <2> QED BY <1>1, <2>1, Bounds
<1>5. TypeOK'
      BY <1>1, <1>2, <1>3, <1>4 DEF Base, TypeOK, settings, ending, screen
<1>6. AbsentInv'
      BY <1>1, <1>2 DEF Base, AbsentInv
<1>7. RecordingHasSession'
      BY <1>1, <1>2 DEF Base, RecordingHasSession
<1>8. LogsDistinct'
      BY <1>1 DEF Base, LogsDistinct
<1> QED BY <1>3, <1>5, <1>6, <1>7, <1>8 DEF Base

\* A recording begins only where there is a process, and may end at any time.
LEMMA RecordingsKeep ==
    ASSUME Base, NEW t \in Id,
           ChooseRecording(t) \/ RecordingChosen \/ RecorderStops(t) \/ RecorderFinishes(t)
    PROVE  Base'
<1> USE DEF settings, session, system, ending
<1>1. CASE ChooseRecording(t)
  <2>1. dialog' \in Dialog /\ window' = "open"
        BY <1>1, DialogMembers DEF ChooseRecording, UserIn, User
  <2>2. TypeOK'
        BY <1>1, <2>1 DEF ChooseRecording, Base, TypeOK
  <2> QED BY <1>1, <2>2
          DEF ChooseRecording, Base, IdInv, AbsentInv, RecordingHasSession, LogsDistinct
<1>2. CASE RecordingChosen
  <2>1. PICK d \in Dialog : /\ dialog = d
                            /\ \/ /\ d.tab \in tabs /\ pid[d.tab] # 0
                                  /\ recorder' = [recorder EXCEPT ![d.tab] = "records"]
                               \/ recorder' = recorder
        BY <1>2 DEF RecordingChosen, Base, TypeOK
  <2>2. /\ window = "open" /\ dialog' = NoDialog
        /\ UNCHANGED <<tabs, made, idle, settings, session, system, ending, confirmed, saved,
                       draining, window>>
        BY <1>2 DEF RecordingChosen
  <2>3. TypeOK'
        BY <2>1, <2>2, DialogMembers DEF Base, TypeOK
  <2>4. AbsentInv' /\ RecordingHasSession'
        BY <2>1, <2>2, TabsAreIds DEF Base, TypeOK, AbsentInv, RecordingHasSession
  <2>5. IdInv' /\ LogsDistinct'
        BY <2>2 DEF Base, IdInv, LogsDistinct
  <2> QED BY <2>3, <2>4, <2>5 DEF Base
<1>3. CASE RecorderStops(t) \/ RecorderFinishes(t)
  <2>1. /\ recorder' \in [Id -> {"finished", "records", "stopping"}]
        /\ \A o \in Id : recorder'[o] = "records" => recorder[o] = "records"
        /\ \A o \in Id : recorder[o] = "finished" => recorder'[o] = "finished"
    <3>1. CASE RecorderStops(t)
          BY <3>1, StopTapStops DEF RecorderStops, Base, TypeOK
    <3>2. CASE RecorderFinishes(t)
          BY <3>2 DEF RecorderFinishes, Base, TypeOK
    <3> QED BY <1>3, <3>1, <3>2
  <2>2. UNCHANGED <<tabs, made, idle, settings, session, system, ending, screen>>
        BY <1>3 DEF RecorderStops, RecorderFinishes
  <2>3. TypeOK'
        BY <2>1, <2>2 DEF Base, TypeOK, screen
  <2> QED BY <2>1, <2>2, <2>3 DEF Base, IdInv, AbsentInv, RecordingHasSession, LogsDistinct
<1> QED BY <1>1, <1>2, <1>3

\* What freeing tabs does, when none of them records any more.
LEMMA FreeKeeps ==
    ASSUME Base, NEW T \in SUBSET Id, Free(T),
           recorder' \in [Id -> {"finished", "records", "stopping"}],
           \A t \in Id : recorder'[t] = "records" => recorder[t] = "records",
           \A t \in Id : recorder[t] = "finished" => recorder'[t] = "finished",
           \A t \in T : recorder'[t] = "finished",
           UNCHANGED <<spawning, connects>>
    PROVE  /\ tabs' \subseteq tabs
           /\ pid' \in [Id -> 0..MaxConnects] /\ log' \in [Id -> 0..MaxTabs]
           /\ deferred' \in [Id -> BOOLEAN] /\ procs' \subseteq Process
           /\ \A r \in spawning', p \in procs' : r.id # p.id
           /\ IdInv' /\ AbsentInv' /\ RecordingHasSession' /\ LogsDistinct'
<1>1. /\ tabs' = tabs \ T
      /\ procs' = HangUp(OfTabs(T))
      /\ pid' = [t \in Id |-> IF t \in T THEN 0 ELSE pid[t]]
      /\ log' = [t \in Id |-> IF t \in T THEN 0 ELSE log[t]]
      /\ deferred' = [t \in Id |-> deferred[t] /\ t \notin T]
      BY DEF Free
<1>2. procs' \subseteq Process /\ \A p \in procs' : \E q \in procs : p.id = q.id
      BY <1>1, HangUpKeeps DEF Base, TypeOK
<1>3. IdInv' /\ \A r \in spawning', p \in procs' : r.id # p.id
      BY <1>2, IdsKeep
<1>4. /\ pid \in [Id -> 0..MaxConnects] /\ log \in [Id -> 0..MaxTabs]
      /\ deferred \in [Id -> BOOLEAN]
      BY DEF Base, TypeOK
<1>5. pid' \in [Id -> 0..MaxConnects] /\ log' \in [Id -> 0..MaxTabs]
      BY <1>1, <1>4, Bounds
<1>6. deferred' \in [Id -> BOOLEAN]
      BY <1>1, <1>4
<1>7. AbsentInv'
      BY <1>1 DEF Base, AbsentInv
<1>8. RecordingHasSession'
      BY <1>1 DEF Base, RecordingHasSession
<1>9. LogsDistinct'
      BY <1>1, TabsAreIds DEF Base, LogsDistinct
<1> QED BY <1>1, <1>2, <1>3, <1>5, <1>6, <1>7, <1>8, <1>9

\* on_window_close_request: it asks, fails to save, waits, or frees every tab.
LEMMA CloseRequestKeeps ==
    ASSUME Base, NEW still \in BOOLEAN, window = "open", CloseRequest(still),
           idle' \subseteq Id \cup {TheWindow}
    PROVE  Base'
<1>1. UNCHANGED <<made, dropdown, spawning, connects, doubled>>
      BY DEF CloseRequest
<1>2. ASSUME TakeActive \/ config' = config
      PROVE  config' \in [Id -> Device]
      BY <1>2 DEF TakeActive, Base, TypeOK
<1>3. CASE AskToClose /\ draining' = still
  <2>1. dialog' \in Dialog
        BY <1>3, DialogMembers DEF AskToClose, Base, TypeOK
  <2>2. UNCHANGED <<tabs, config, session, procs, recorder, ending, confirmed, saved, window>>
        BY <1>3 DEF AskToClose
  <2>3. TypeOK'
        BY <1>1, <1>3, <2>1, <2>2 DEF Base, TypeOK, session, ending
  <2> QED BY <1>1, <2>2, <2>3
          DEF Base, IdInv, AbsentInv, RecordingHasSession, LogsDistinct, session
<1>4. CASE SaveFails /\ draining' = still
  <2>1. UNCHANGED <<tabs, session, procs, recorder, ending, dialog, saved, window>>
        BY <1>4 DEF SaveFails
  <2>2. config' \in [Id -> Device] /\ confirmed' = FALSE
        BY <1>2, <1>4 DEF SaveFails
  <2>3. TypeOK'
        BY <1>1, <1>4, <2>1, <2>2 DEF Base, TypeOK, session, ending
  <2> QED BY <1>1, <2>1, <2>3
          DEF Base, IdInv, AbsentInv, RecordingHasSession, LogsDistinct, session
<1>5. ASSUME StopAll
      PROVE  /\ config' \in [Id -> Device] /\ closing' \in [Id -> BOOLEAN]
             /\ saved' \in BOOLEAN /\ UNCHANGED <<pending, confirmed>>
             /\ recorder' \in [Id -> {"finished", "records", "stopping"}]
             /\ \A t \in Id : recorder'[t] = "records" => recorder[t] = "records"
             /\ \A t \in Id : recorder[t] = "finished" => recorder'[t] = "finished"
  <2>1. config' \in [Id -> Device]
        BY <1>2, <1>5 DEF StopAll
  <2>2. closing' \in [Id -> BOOLEAN] /\ saved' \in BOOLEAN /\ UNCHANGED <<pending, confirmed>>
        BY <1>5 DEF StopAll, Base, TypeOK
  <2> QED BY <1>5, <2>1, <2>2, StopTapStops DEF StopAll, Base, TypeOK
<1>6. CASE StopAll /\ draining' = TRUE /\ procs' = HangUp({pid[t] : t \in tabs})
                   /\ UNCHANGED <<tabs, pid, log, deferred, dialog, window>>
  <2>1. procs' \subseteq Process /\ \A p \in procs' : \E q \in procs : p.id = q.id
        BY <1>6, HangUpKeeps DEF Base, TypeOK
  <2>2. IdInv' /\ \A r \in spawning', p \in procs' : r.id # p.id
        BY <1>1, <2>1, IdsKeep
  <2>3. TypeOK'
        BY <1>1, <1>5, <1>6, <2>1, <2>2 DEF Base, TypeOK
  <2> QED BY <1>5, <1>6, <2>2, <2>3 DEF Base, AbsentInv, RecordingHasSession, LogsDistinct
<1>7. CASE StopAll /\ ~(\E t \in tabs : Unfinished(t)) /\ Free(tabs) /\ WindowGoes
  <2>1. \A t \in tabs : recorder'[t] = "finished"
        BY <1>7 DEF Unfinished
  <2>2. /\ tabs' \subseteq tabs
        /\ pid' \in [Id -> 0..MaxConnects] /\ log' \in [Id -> 0..MaxTabs]
        /\ deferred' \in [Id -> BOOLEAN] /\ procs' \subseteq Process
        /\ \A r \in spawning', p \in procs' : r.id # p.id
        /\ IdInv' /\ AbsentInv' /\ RecordingHasSession' /\ LogsDistinct'
        BY <1>1, <1>5, <1>7, <2>1, TabsAreIds, FreeKeeps
  <2>3. dialog' = NoDialog /\ dialog' \in Dialog /\ window' = "gone" /\ draining' = FALSE
        BY <1>7, DialogMembers DEF WindowGoes
  <2>4. TypeOK'
        BY <1>1, <1>5, <1>7, <2>2, <2>3 DEF Base, TypeOK
  <2> QED BY <2>2, <2>4 DEF Base
<1> QED BY <1>3, <1>4, <1>6, <1>7 DEF CloseRequest

\* The four ways to a close request.
LEMMA WindowKeeps ==
    ASSUME Base, CloseWindow \/ CloseWindowAnswered \/ IdleCloseWindow \/ DrainTick
    PROVE  Base'
<1> USE DEF settings, session, system, ending
<1>1. idle \subseteq Id \cup {TheWindow} /\ draining \in BOOLEAN
      BY DEF Base, TypeOK
<1>2. CASE CloseWindow
      BY <1>1, <1>2, CloseRequestKeeps DEF CloseWindow, User
<1>3. CASE CloseWindowAnswered
  <2>1. TypeOK'
    <3>1. dialog' \in Dialog /\ confirmed' \in BOOLEAN /\ idle' \subseteq Id \cup {TheWindow}
          BY <1>1, <1>3, DialogMembers DEF CloseWindowAnswered, Base, TypeOK
    <3> QED BY <1>3, <3>1 DEF CloseWindowAnswered, Base, TypeOK
  <2> QED BY <1>3, <2>1 DEF CloseWindowAnswered, Base, IdInv, AbsentInv, RecordingHasSession,
                            LogsDistinct
<1>4. CASE IdleCloseWindow
  <2>1. idle' \subseteq Id \cup {TheWindow}
        BY <1>1, <1>4 DEF IdleCloseWindow
  <2>2. CASE window = "open"
        BY <1>1, <1>4, <2>1, <2>2, CloseRequestKeeps DEF IdleCloseWindow
  <2>3. CASE window # "open"
    <3>1. UNCHANGED <<tabs, made, settings, session, recorder, system, ending, screen>>
          BY <1>4, <2>3 DEF IdleCloseWindow
    <3>2. TypeOK'
          BY <2>1, <3>1 DEF Base, TypeOK, screen
    <3> QED BY <3>1, <3>2 DEF Base, IdInv, AbsentInv, RecordingHasSession, LogsDistinct
  <2> QED BY <2>2, <2>3
<1>5. CASE DrainTick
      BY <1>1, <1>5, CloseRequestKeeps DEF DrainTick
<1> QED BY <1>2, <1>3, <1>4, <1>5

\* What a tab that is made brings with it.
LEMMA AddTabTypes ==
    ASSUME Base, NEW d \in Device, AddTab(d)
    PROVE  /\ made' = made + 1 /\ made' \in 0..MaxTabs /\ made' \in Id /\ made' \notin tabs
           /\ tabs' = tabs \cup {made'} /\ tabs' \subseteq 1..made'
           /\ dropdown' \in [Id -> Device] /\ config' \in [Id -> Device]
<1>1. /\ made < MaxTabs /\ made' = made + 1
      /\ tabs' = tabs \cup {made'}
      /\ dropdown' = [dropdown EXCEPT ![made'] = d]
      /\ config' = [config EXCEPT ![made'] = d]
      BY DEF AddTab
<1>2. made \in 0..MaxTabs /\ tabs \subseteq 1..made
      BY DEF Base, TypeOK
<1>3. made' \in 0..MaxTabs /\ made' \in Id
      BY <1>1, <1>2, Bounds DEF Id
<1>4. made' \notin tabs /\ tabs' \subseteq 1..made'
      BY <1>1, <1>2, Bounds
<1>5. dropdown' \in [Id -> Device] /\ config' \in [Id -> Device]
      BY <1>1 DEF Base, TypeOK
<1> QED BY <1>1, <1>3, <1>4, <1>5

\* A new tab is one that had nothing, and brings no session.
LEMMA NewTabKeeps == ASSUME Base, NewTab PROVE Base'
<1>1. PICK d \in Device : AddTab(d)
      BY DEF NewTab
<1>2. UNCHANGED <<idle, session, recorder, system, ending, screen>>
      BY DEF NewTab
<1>3. TypeOK'
      BY <1>1, <1>2, AddTabTypes DEF Base, TypeOK, session, system, ending, screen
<1>4. LogsDistinct'
  <2>1. log[made'] = 0
        BY <1>1, AddTabTypes DEF Base, AbsentInv
  <2>2. log' = log
        BY <1>2 DEF session
  <2> QED BY <1>1, <2>1, <2>2, AddTabTypes DEF Base, LogsDistinct
<1>5. IdInv' /\ AbsentInv' /\ RecordingHasSession'
      BY <1>1, <1>2, AddTabTypes
      DEF Base, IdInv, AbsentInv, RecordingHasSession, session, system
<1> QED BY <1>3, <1>4, <1>5 DEF Base

\* A second launch makes a tab and may connect it in the same step.
LEMMA LaunchKeeps == ASSUME Base, NEW d \in Device, Launch(d) PROVE Base'
<1>1. AddTab(d) /\ CommandLine(made', d) /\ UNCHANGED <<idle, ending, screen>>
      BY DEF Launch
<1> DEFINE t == made'
<1>2. t \in Id /\ t \notin tabs /\ tabs' = tabs \cup {t} /\ made < MaxTabs
      BY <1>1, AddTabTypes DEF AddTab
<1>3. pid[t] = 0 /\ log[t] = 0
      BY <1>2 DEF Base, AbsentInv
<1>4. CASE Spawn(t, d)
  <2>1. /\ pid' \in [Id -> 0..MaxConnects] /\ log' \in [Id -> 0..MaxTabs]
        /\ pending' \in [Id -> BOOLEAN]
        /\ recorder' \in [Id -> {"finished", "records", "stopping"}]
        /\ spawning' \subseteq Request /\ procs' \subseteq Process
        /\ connects' \in 0..MaxConnects /\ doubled' \subseteq Id
        /\ \A r \in spawning', p \in procs' : r.id # p.id
        /\ IdInv' /\ AbsentInv' /\ RecordingHasSession' /\ LogsDistinct'
        BY <1>2, <1>3, <1>4, SpawnKeeps
  <2>2. TypeOK'
        BY <1>1, <2>1, AddTabTypes DEF Base, TypeOK, ending, screen
  <2> QED BY <2>1, <2>2 DEF Base
<1>5. CASE UNCHANGED <<session, recorder, system>>
  <2>1. TypeOK'
        BY <1>1, <1>5, AddTabTypes DEF Base, TypeOK, session, system, ending, screen
  <2>2. LogsDistinct'
    <3>1. log' = log
          BY <1>5 DEF session
    <3> QED BY <1>2, <1>3, <3>1 DEF Base, LogsDistinct
  <2>3. IdInv' /\ AbsentInv' /\ RecordingHasSession'
        BY <1>2, <1>5 DEF Base, IdInv, AbsentInv, RecordingHasSession, session, system
  <2> QED BY <2>1, <2>2, <2>3 DEF Base
<1> QED BY <1>1, <1>4, <1>5 DEF CommandLine

\* tio_app_finish_close_tab: deferred, or the tab is freed, the last with its window.
LEMMA FinishCloseKeeps ==
    ASSUME Base, NEW t \in Id, FinishClose(t), idle' \subseteq Id \cup {TheWindow}
    PROVE  Base'
<1>1. UNCHANGED <<made, settings, pending, spawning, connects, doubled>>
      BY DEF FinishClose
<1>2. closing' \in [Id -> BOOLEAN]
      BY DEF FinishClose, Base, TypeOK
<1>3. /\ recorder' \in [Id -> {"finished", "records", "stopping"}]
      /\ \A o \in Id : recorder'[o] = "records" => recorder[o] = "records"
      /\ \A o \in Id : recorder[o] = "finished" => recorder'[o] = "finished"
      BY StopTapStops DEF FinishClose, Base, TypeOK
<1>4. CASE /\ deferred' = [deferred EXCEPT ![t] = TRUE]
           /\ UNCHANGED <<tabs, pid, log, procs, screen>>
  <2>1. TypeOK'
    <3>1. deferred' \in [Id -> BOOLEAN]
          BY <1>4 DEF Base, TypeOK
    <3> QED BY <1>1, <1>2, <1>3, <1>4, <3>1 DEF Base, TypeOK, settings, screen
  <2> QED BY <1>1, <1>3, <1>4, <2>1 DEF Base, IdInv, AbsentInv, RecordingHasSession, LogsDistinct
<1>5. CASE /\ ~Unfinished(t) /\ Free({t})
           /\ \/ UNCHANGED screen
              \/ confirmed' = FALSE /\ UNCHANGED <<dialog, saved, draining, window>>
              \/ saved' = TRUE /\ WindowGoes /\ UNCHANGED confirmed
  <2>1. /\ tabs' \subseteq tabs
        /\ pid' \in [Id -> 0..MaxConnects] /\ log' \in [Id -> 0..MaxTabs]
        /\ deferred' \in [Id -> BOOLEAN] /\ procs' \subseteq Process
        /\ \A r \in spawning', p \in procs' : r.id # p.id
        /\ IdInv' /\ AbsentInv' /\ RecordingHasSession' /\ LogsDistinct'
        BY <1>1, <1>3, <1>5, FreeKeeps DEF Unfinished
  <2>2. /\ dialog' \in Dialog /\ window' \in {"open", "gone"}
        /\ {confirmed', saved', draining'} \subseteq BOOLEAN
        /\ window' = "gone" => dialog' = NoDialog
    <3>1. /\ dialog \in Dialog /\ window \in {"open", "gone"}
          /\ {confirmed, saved, draining} \subseteq BOOLEAN
          /\ window = "gone" => dialog = NoDialog
          BY DEF Base, TypeOK
    <3> QED BY <1>5, <3>1, DialogMembers DEF WindowGoes, screen
  <2>3. TypeOK'
        BY <1>1, <1>2, <1>3, <2>1, <2>2 DEF Base, TypeOK, settings
  <2> QED BY <2>1, <2>3 DEF Base
<1> QED BY <1>4, <1>5 DEF FinishClose

\* The ways to it: the button, the answered dialog, the idle function and the timer.
LEMMA CloseTabKeeps ==
    ASSUME Base, NEW t \in Id,
           CloseTab(t) \/ CloseTabAnswered \/ IdleCloseTab(t) \/ DeferredTick(t)
    PROVE  Base'
<1> USE DEF settings, session, system, ending
<1>1. idle \subseteq Id \cup {TheWindow}
      BY DEF Base, TypeOK
<1>2. CASE CloseTab(t)
  <2>1. CASE FinishClose(t)
        BY <1>1, <1>2, <2>1, FinishCloseKeeps DEF CloseTab
  <2>2. CASE /\ dialog' = [kind |-> "tab", tab |-> t]
             /\ UNCHANGED <<tabs, made, settings, session, recorder, system, ending,
                            confirmed, saved, draining, window>>
    <3>1. dialog' \in Dialog /\ window' = "open" /\ idle' = idle
          BY <1>2, <2>2, DialogMembers DEF CloseTab, User
    <3>2. TypeOK'
          BY <2>2, <3>1 DEF Base, TypeOK
    <3> QED BY <2>2, <3>2 DEF Base, IdInv, AbsentInv, RecordingHasSession, LogsDistinct
  <2> QED BY <1>2, <2>1, <2>2 DEF CloseTab
<1>3. CASE CloseTabAnswered
  <2>1. /\ dialog' = NoDialog
        /\ UNCHANGED <<tabs, made, settings, session, recorder, spawning, connects, doubled,
                       ending, confirmed, saved, draining, window>>
        BY <1>3 DEF CloseTabAnswered
  <2>2. /\ procs' \subseteq Process /\ \A p \in procs' : \E q \in procs : p.id = q.id
        /\ idle' \subseteq Id \cup {TheWindow}
    <3>1. procs \subseteq Process /\ (dialog.kind = "tab" => dialog.tab \in Id)
          BY DialogMembers DEF Base, TypeOK
    <3> QED BY <1>1, <1>3, <3>1, HangUpKeeps DEF CloseTabAnswered
  <2>3. IdInv' /\ \A r \in spawning', p \in procs' : r.id # p.id
        BY <2>1, <2>2, IdsKeep
  <2>4. TypeOK'
        BY <2>1, <2>2, <2>3, DialogMembers DEF Base, TypeOK
  <2> QED BY <2>1, <2>3, <2>4 DEF Base, AbsentInv, RecordingHasSession, LogsDistinct
<1>4. CASE IdleCloseTab(t)
  <2>1. idle' \subseteq Id \cup {TheWindow}
        BY <1>1, <1>4 DEF IdleCloseTab
  <2>2. CASE FinishClose(t)
        BY <2>1, <2>2, FinishCloseKeeps
  <2>3. CASE UNCHANGED <<tabs, made, settings, session, recorder, system, ending, screen>>
    <3>1. TypeOK'
          BY <2>1, <2>3 DEF Base, TypeOK, screen
    <3> QED BY <2>3, <3>1 DEF Base, IdInv, AbsentInv, RecordingHasSession, LogsDistinct
  <2> QED BY <1>4, <2>2, <2>3 DEF IdleCloseTab
<1>5. CASE DeferredTick(t)
      BY <1>1, <1>5, FinishCloseKeeps DEF DeferredTick
<1> QED BY <1>2, <1>3, <1>4, <1>5

\* So every step of the program keeps the invariant.
LEMMA NextBase == Base /\ [Next]_vars => Base'
<1> SUFFICES ASSUME Base, [Next]_vars PROVE Base'
    OBVIOUS
<1>1. PICK one \in Id : TRUE
      BY BoundAssumption DEF Id
<1>2. CASE UNCHANGED vars
  <2>1. TypeOK'
        BY <1>2 DEF vars, settings, session, system, ending, screen, Base, TypeOK
  <2> QED BY <1>2, <2>1 DEF vars, settings, session, system, Base, IdInv, AbsentInv,
                            RecordingHasSession, LogsDistinct
<1>3. CASE \E t \in Id, d \in Device :
               SelectDevice(t, d) \/ LoadProfile(t, d) \/ CaptureSettings(t)
      BY <1>3, SettingsKeep
<1>4. CASE \E t \in Id : Connect(t) \/ Disconnect(t)
      BY <1>4, ConnectKeeps, DisconnectKeeps
<1>5. CASE \E t \in Id : ChooseRecording(t) \/ RecorderStops(t) \/ RecorderFinishes(t)
      BY <1>5, RecordingsKeep
<1>6. CASE \E t \in Id : CloseTab(t) \/ IdleCloseTab(t) \/ DeferredTick(t)
      BY <1>6, CloseTabKeeps
<1>7. CASE SpawnFinished
      BY <1>7, SpawnFailedKeeps, SpawnSucceededKeeps DEF SpawnFinished
<1>8. CASE \E p \in procs : Exit(p)
      BY <1>8, ExitKeeps
<1>9. CASE ChildExited
      BY <1>9, ReapedKeeps DEF ChildExited
<1>10. CASE RecordingChosen
      BY <1>1, <1>10, RecordingsKeep
<1>11. CASE NewTab
      BY <1>11, NewTabKeeps
<1>12. CASE \E d \in Device : Launch(d)
      BY <1>12, LaunchKeeps
<1>13. CASE CloseWindow \/ CloseWindowAnswered \/ IdleCloseWindow \/ DrainTick
      BY <1>13, WindowKeeps
<1>14. CASE CloseTabAnswered
      BY <1>1, <1>14, CloseTabKeeps
<1>15. PICK d \in Device : TRUE
      BY BoundAssumption
<1> QED BY <1>2, <1>3, <1>4, <1>5, <1>6, <1>7, <1>8, <1>9, <1>10, <1>11, <1>12, <1>13,
           <1>14, <1>15 DEF Next

-----------------------------------------------------------------------------
(* The spawns under way keep their tabs *)

\* A step that begins and ends no spawn may free the tabs that wait for none.
LEMMA SpawnsKeep ==
    ASSUME SpawnInv, UNCHANGED <<spawning, pending, doubled>>, \A t \in tabs \ tabs' : ~pending[t]
    PROVE  SpawnInv'
BY DEF SpawnInv

\* A tab may begin a spawn, its second one included.
LEMMA SpawnBegins ==
    ASSUME Base, SpawnInv, NEW t \in Id, NEW d \in Device, Spawn(t, d),
           t \in tabs', tabs \subseteq tabs'
    PROVE  SpawnInv'
<1> DEFINE new == [id |-> connects', tab |-> t, device |-> d]
           Its == {r \in spawning : r.tab = t}
<1>1. /\ spawning' = spawning \cup {new}
      /\ pending' = [pending EXCEPT ![t] = TRUE]
      /\ doubled' = IF Its # {} THEN doubled \cup {t} ELSE doubled
      BY DEF Spawn
<1>2. pending \in [Id -> BOOLEAN] /\ \A r \in spawning : r.tab \in Id
      BY DEF Base, TypeOK, Request
<1>3. new.tab = t
      OBVIOUS
<1> HIDE DEF new
<1>4. \A r \in spawning' : r.tab \in doubled' \/ (r.tab \in tabs' /\ pending'[r.tab])
      BY <1>1, <1>2, <1>3 DEF SpawnInv
<1>5. \A r, q \in spawning' : r.tab = q.tab /\ r.tab \notin doubled' => r = q
      BY <1>1, <1>3 DEF SpawnInv
<1> QED BY <1>4, <1>5 DEF SpawnInv

\* The callback of a spawn was the only one its tab waited for, or two were under way.
LEMMA SpawnEnds ==
    ASSUME Base, SpawnInv, SpawnFinished
    PROVE  SpawnInv'
<1>1. PICK r \in spawning : /\ spawning' = spawning \ {r}
                            /\ pending' = [pending EXCEPT ![r.tab] = FALSE]
                            /\ tabs' = tabs /\ doubled' = doubled
      BY DEF SpawnFinished, SpawnFailed, SpawnSucceeded
<1>2. pending \in [Id -> BOOLEAN] /\ \A q \in spawning : q.tab \in Id
      BY DEF Base, TypeOK, Request
<1>3. \A q \in spawning' : q.tab \in doubled' \/ (q.tab \in tabs' /\ pending'[q.tab])
      BY <1>1, <1>2 DEF SpawnInv
<1> QED BY <1>1, <1>3 DEF SpawnInv

\* A close request frees no tab that waits for a spawn.
LEMMA CloseRequestSpawns ==
    ASSUME NEW still, CloseRequest(still)
    PROVE  UNCHANGED <<spawning, pending, doubled>> /\ \A t \in tabs \ tabs' : ~pending[t]
BY DEF CloseRequest, AskToClose, SaveFails, StopAll, Unfinished, session, Free

\* Nor does the end of a tab's close.
LEMMA FinishCloseSpawns ==
    ASSUME NEW t \in Id, FinishClose(t)
    PROVE  UNCHANGED <<spawning, pending, doubled>> /\ \A o \in tabs \ tabs' : ~pending[o]
BY DEF FinishClose, Unfinished, Free

\* Every step leaves each spawn its tab.
LEMMA NextSpawn == Base /\ SpawnInv /\ [Next]_vars => SpawnInv'
<1> SUFFICES ASSUME Base, SpawnInv, [Next]_vars PROVE SpawnInv'
    OBVIOUS
<1> DEFINE Keeps == /\ UNCHANGED <<spawning, pending, doubled>>
                    /\ \A t \in tabs \ tabs' : ~pending[t]
<1> USE DEF session, system
<1>1. ASSUME NEW t \in Id, Connect(t)
      PROVE  SpawnInv'
  <2>1. CASE Spawn(t, dropdown[t])
    <3>1. t \in tabs' /\ tabs \subseteq tabs' /\ dropdown[t] \in Device
          BY <1>1 DEF Connect, Base, TypeOK
    <3> QED BY <2>1, <3>1, SpawnBegins
  <2>2. CASE Keeps
        BY <2>2, SpawnsKeep
  <2> QED BY <1>1, <2>1, <2>2 DEF Connect
<1>2. ASSUME NEW d \in Device, Launch(d)
      PROVE  SpawnInv'
  <2>1. made' \in Id /\ tabs' = tabs \cup {made'} /\ CommandLine(made', d)
        BY <1>2, AddTabTypes DEF Launch
  <2>2. CASE Spawn(made', d)
        BY <2>1, <2>2, SpawnBegins
  <2>3. CASE Keeps
        BY <2>3, SpawnsKeep
  <2> QED BY <2>1, <2>2, <2>3 DEF CommandLine
<1>3. CASE SpawnFinished
      BY <1>3, SpawnEnds
<1>4. ASSUME NEW t \in Id, NEW d \in Device,
             SelectDevice(t, d) \/ LoadProfile(t, d) \/ CaptureSettings(t) \/ Disconnect(t)
      PROVE  Keeps
      BY <1>4 DEF SelectDevice, LoadProfile, CaptureSettings, Disconnect
<1>5. ASSUME NEW t \in Id,
             \/ ChooseRecording(t) \/ RecorderStops(t) \/ RecorderFinishes(t)
             \/ RecordingChosen
      PROVE  Keeps
      BY <1>5 DEF ChooseRecording, RecorderStops, RecorderFinishes, RecordingChosen
<1>6. ASSUME (\E p \in procs : Exit(p)) \/ ChildExited
      PROVE  Keeps
      BY <1>6 DEF Exit, ChildExited, Reaped
<1>7. ASSUME NEW t \in Id, CloseTab(t) \/ IdleCloseTab(t) \/ DeferredTick(t)
      PROVE  Keeps
      BY <1>7, FinishCloseSpawns DEF CloseTab, IdleCloseTab, DeferredTick
<1>8. ASSUME CloseTabAnswered \/ CloseWindowAnswered
      PROVE  Keeps
      BY <1>8 DEF CloseTabAnswered, CloseWindowAnswered
<1>9. ASSUME CloseWindow \/ IdleCloseWindow \/ DrainTick
      PROVE  Keeps
      BY <1>9, CloseRequestSpawns DEF CloseWindow, IdleCloseWindow, DrainTick
<1>10. ASSUME NewTab
       PROVE  Keeps
       BY <1>10 DEF NewTab, AddTab
<1>11. ASSUME UNCHANGED vars
       PROVE  Keeps
       BY <1>11 DEF vars
<1>12. PICK t \in Id, d \in Device : TRUE
       BY BoundAssumption DEF Id
<1>13. CASE Keeps
       BY <1>13, SpawnsKeep
<1> HIDE DEF Keeps
<1> QED BY <1>1, <1>2, <1>3, <1>4, <1>5, <1>6, <1>7, <1>8, <1>9, <1>10, <1>11, <1>12, <1>13
        DEF Next

\* No spawn is under way at first.
LEMMA InitSpawn == Init => SpawnInv
BY DEF Init, SpawnInv

-----------------------------------------------------------------------------

\* The invariant holds for ever.
LEMMA BaseHolds == Spec => []Base
<1>1. Init => Base
      BY InitBase
<1>2. Base /\ [Next]_vars => Base'
      BY NextBase
<1> QED BY <1>1, <1>2, PTL DEF Spec

\* The state of the window, of its tabs and of what is under way for them has its
\* types, a number is given to one process, and no dialog outlives the window.
THEOREM TypeCorrect == Spec => []TypeOK
<1>1. Base => TypeOK
      BY DEF Base
<1> QED BY <1>1, BaseHolds, PTL

\* Nothing is recorded for a tab without a process, whichever way the process ends
\* and whenever the user chooses the file of the recording.
THEOREM RecordingsHaveSessions == Spec => []RecordingHasSession
<1>1. Base => RecordingHasSession
      BY DEF Base
<1> QED BY <1>1, BaseHolds, PTL

\* No two open tabs ever write the same log file: at most MaxTabs - 1 others are
\* open, so that a free path exists, and a path is only given up by its own tab.
THEOREM LogsStayDistinct == Spec => []LogsDistinct
<1>1. Base => LogsDistinct
      BY DEF Base
<1> QED BY <1>1, BaseHolds, PTL

\* Neither the tab of a spawn under way is freed, unless a second one began in it while
\* another was under way, nor one whose recording is not written to the end.
THEOREM TabsFreedWhenDone == Spec => []FreedWhenDone
<1>1. Init => SpawnInv
      BY InitSpawn
<1>2. Base /\ SpawnInv /\ [Next]_vars => SpawnInv'
      BY NextSpawn
<1>3. Base /\ SpawnInv => FreedWhenDone
      BY DEF Base, AbsentInv, SpawnInv, FreedWhenDone
<1> QED BY <1>1, <1>2, <1>3, BaseHolds, PTL DEF Spec
=============================================================================
