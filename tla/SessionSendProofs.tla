---------------------------- MODULE SessionSendProofs ----------------------------
(***************************************************************************)
(* Proofs about SessionSend, for any number of sessions, spawns and taps,  *)
(* any sequence and any delay. What holds a tap in memory, what a sequence *)
(* still waits for and who may talk are told apart; most steps touch one   *)
(* of them.                                                                *)
(***************************************************************************)
EXTENDS SessionSend, TLAPS

TapRecord == [attached : BOOLEAN, reading : BOOLEAN, stale : BOOLEAN,
              sending : {"none", "user", "runner"}, failed : BOOLEAN, refs : Nat]
RunnerRecord == [state : {"none", "active", "failed", "done"}, paused : BOOLEAN,
                 loop : BOOLEAN, finishing : BOOLEAN, awaiting : BOOLEAN,
                 step : 0..Steps, left : 0..Rest, stale : BOOLEAN]
TransferRecord == [phase : {"none", "connecting", "running"}, cancelled : BOOLEAN,
                   timer : BOOLEAN]

\* The processes and the flags.
ProcessInv ==
    /\ pid \in 0..MaxSessions /\ socket \in 0..MaxSessions /\ made \in 0..MaxSessions
    /\ spawning \subseteq Session /\ alive \subseteq Session /\ listening \subseteq Session
    /\ device \in BOOLEAN /\ observed \in BOOLEAN /\ watch \in BOOLEAN

FileInv ==
    /\ transfer \in TransferRecord
    /\ line \in BOOLEAN /\ transferTimer \in BOOLEAN /\ input \in BOOLEAN
    /\ dialog \in BOOLEAN /\ modbus \in BOOLEAN

\* A tap's references are what holds it; the session's tap is attached.
Held(t) == (IF t.attached THEN 1 ELSE 0) + (IF t.reading THEN 1 ELSE 0)
           + (IF t.sending # "none" THEN 1 ELSE 0)
TapInv ==
    /\ raw \in 0..MaxTaps /\ timer \in BOOLEAN /\ timers \in Nat
    /\ timer => timers > 0
    /\ tap \in [Tap -> TapRecord]
    /\ \A t \in Tap : tap[t].refs = Held(tap[t]) /\ tap[t].stale = FALSE
    /\ raw # 0 => tap[raw].attached

\* A sequence knows its last step, is of this connection, and has waited for the
\* rest of its delay before its next step; while a step is written, it is awaited.
RunnerInv ==
    /\ runner \in RunnerRecord /\ quick \in [on : BOOLEAN, stale : {FALSE}]
    /\ quiet \in 0..Rest
    /\ runner.stale = FALSE
    /\ runner.step = Steps => runner.finishing
    /\ RunnerActive /\ runner.step # 0 /\ ~runner.awaiting => quiet + runner.left >= Rest
    /\ RunnerActive /\ runner.step # 0 /\ raw # 0 /\ ~runner.awaiting =>
           tap[raw].sending # "runner"

IInv == ProcessInv /\ FileInv /\ TapInv /\ RunnerInv /\ OneTalker

LEMMA Bounds == /\ Steps \in Nat /\ Rest \in Nat /\ MaxSessions \in Nat /\ MaxTaps \in Nat
                /\ 0 < Steps /\ 0 < Rest /\ 0 < MaxSessions /\ 0 < MaxTaps
BY BoundAssumption

-----------------------------------------------------------------------------
(* Taps *)

\* Nobody holds what is not a tap.
LEMMA NoTapHeld == NoTap \in TapRecord /\ NoTap.refs = Held(NoTap) /\ ~NoTap.stale
BY DEF NoTap, TapRecord, Held

\* Whoever lets go of a tap gives its own reference back, and the last one frees it.
LEMMA ReleaseCounts ==
    ASSUME NEW t \in TapRecord, NEW u \in TapRecord, NEW n \in 1..2,
           u.refs = Held(u) + n, u.stale = FALSE
    PROVE  /\ Release(u, n) \in TapRecord /\ Release(u, n).refs = Held(Release(u, n))
           /\ Release(u, n).stale = FALSE
           /\ Release(u, n).sending # "none" => Release(u, n).sending = u.sending
           /\ u.attached => Release(u, n).attached
<1>1. Held(u) \in Nat /\ u.refs \in Nat
      BY DEF TapRecord, Held
<1>2. CASE u.refs <= n
  <2>1. Release(u, n) = NoTap
        BY <1>2 DEF Release
  <2>2. ~u.attached
        BY <1>1, <1>2 DEF Held, TapRecord
  <2> QED BY <2>1, <2>2, NoTapHeld DEF NoTap
<1>3. CASE ~(u.refs <= n)
  <2>1. Release(u, n) = [u EXCEPT !.refs = u.refs - n]
        BY <1>3 DEF Release
  <2>2. u.refs - n = Held(u) /\ u.refs - n \in Nat
        BY <1>1
  <2> DEFINE r == [u EXCEPT !.refs = u.refs - n]
  <2>3. /\ r \in TapRecord /\ r.refs = u.refs - n /\ r.attached = u.attached
        /\ r.reading = u.reading /\ r.sending = u.sending /\ r.stale = u.stale
        BY <2>2 DEF TapRecord
  <2> HIDE DEF r
  <2>4. Held(r) = Held(u)
        BY <2>3 DEF Held
  <2> QED BY <2>1, <2>2, <2>3, <2>4 DEF r
<1> QED BY <1>2, <1>3

\* What stays of the taps when one of them becomes another that counts its holders.
LEMMA TapsKeep ==
    ASSUME TapInv, NEW t \in Tap, NEW u \in TapRecord, u.refs = Held(u), u.stale = FALSE,
           tap' = [tap EXCEPT ![t] = u],
           raw' \in 0..MaxTaps, raw' # 0 => tap'[raw'].attached,
           UNCHANGED <<timer, timers>>
    PROVE  TapInv'
BY DEF TapInv

\* A payload is written: one more holds the tap of the session.
LEMMA WriteKeeps ==
    ASSUME TapInv, raw # 0, tap[raw].sending = "none", NEW by \in {"user", "runner"},
           Write(by, FALSE), UNCHANGED link
    PROVE  /\ TapInv' /\ tap'[raw].sending = by
           /\ \A t \in Tap : t # raw => tap'[t] = tap[t]
<1> DEFINE u == Payload(tap[raw], by, FALSE)
<1>1. raw \in Tap /\ tap[raw] \in TapRecord /\ tap[raw].refs = Held(tap[raw])
      /\ tap[raw].attached /\ UNCHANGED <<raw, timer, timers>>
      BY Bounds DEF TapInv, Tap, link
<1>2. tap' = [tap EXCEPT ![raw] = u]
      BY DEF Write
<1>3. /\ u \in TapRecord /\ u.refs = tap[raw].refs + 1 /\ u.attached = tap[raw].attached
      /\ u.reading = tap[raw].reading /\ u.sending = by /\ u.stale = FALSE
  <2>1. PICK r \in TapRecord : r = tap[raw]
        BY <1>1
  <2>2. u = [r EXCEPT !.sending = by, !.stale = FALSE, !.refs = r.refs + 1]
        BY <2>1 DEF Payload
  <2>3. r.refs + 1 \in Nat
        BY DEF TapRecord
  <2> HIDE DEF u
  <2> QED BY <2>1, <2>2, <2>3 DEF TapRecord
<1> HIDE DEF u
<1>4. u.refs = Held(u)
      BY <1>1, <1>3 DEF Held, TapRecord
<1>5. tap'[raw] = u /\ \A t \in Tap : t # raw => tap'[t] = tap[t]
      BY <1>1, <1>2 DEF TapInv
<1>6. raw' \in 0..MaxTaps /\ (raw' # 0 => tap'[raw'].attached)
      BY <1>1, <1>3, <1>5 DEF TapInv
<1>7. TapInv'
      BY <1>1, <1>2, <1>3, <1>4, <1>6, TapsKeep
<1> QED BY <1>3, <1>5, <1>7

\* The session of the tap ends.
LEMMA StopKeeps ==
    ASSUME TapInv, RawTapStop
    PROVE  TapInv' /\ raw' = 0
<1>1. raw' = 0 /\ tap' = Detach /\ DropTimer
      BY DEF RawTapStop
<1>2. timer' = FALSE /\ timers' \in Nat
      BY <1>1 DEF DropTimer, TapInv
<1>3. /\ tap' \in [Tap -> TapRecord]
      /\ \A t \in Tap : tap'[t].refs = Held(tap'[t]) /\ tap'[t].stale = FALSE
  <2>1. CASE raw = 0
        BY <1>1, <2>1 DEF Detach, TapInv
  <2>2. CASE raw # 0
    <3> DEFINE u == [tap[raw] EXCEPT !.attached = FALSE]
    <3>1. /\ raw \in Tap /\ tap[raw] \in TapRecord /\ tap[raw].refs = Held(tap[raw])
          /\ tap[raw].attached /\ tap[raw].stale = FALSE
          BY <2>2, Bounds DEF TapInv, Tap
    <3>2. /\ u \in TapRecord /\ u.refs = tap[raw].refs /\ u.attached = FALSE
          /\ u.reading = tap[raw].reading /\ u.sending = tap[raw].sending /\ u.stale = FALSE
          BY <3>1 DEF TapRecord
    <3>3. tap' = [tap EXCEPT ![raw] = Release(u, 1)]
          BY <1>1, <2>2, <3>1 DEF Detach, TapInv
    <3> HIDE DEF u
    <3>4. u.refs = Held(u) + 1 /\ 1 \in 1..2
          BY <3>1, <3>2 DEF Held, TapRecord
    <3>5. /\ Release(u, 1) \in TapRecord /\ Release(u, 1).refs = Held(Release(u, 1))
          /\ Release(u, 1).stale = FALSE
          BY <3>2, <3>4, ReleaseCounts
    <3> QED BY <3>1, <3>3, <3>5 DEF TapInv
  <2> QED BY <2>1, <2>2
<1>4. raw' \in 0..MaxTaps
      BY <1>1, Bounds
<1>5. timer' \in BOOLEAN /\ ~timer'
      BY <1>2
<1> QED BY <1>1, <1>2, <1>3, <1>4, <1>5 DEF TapInv

\* A session gets a tap that nobody held.
LEMMA AttachKeeps ==
    ASSUME TapInv, AttachTap, \E t \in Tap : tap[t].refs = 0, timers' \in Nat,
           timer' \in BOOLEAN, timer' => timers' > 0
    PROVE  TapInv' /\ raw' # 0 /\ tap'[raw'].sending = "none"
<1> DEFINE u == [NoTap EXCEPT !.attached = TRUE, !.reading = TRUE, !.refs = 2]
<1>1. PICK f \in Tap : f = FreeTap
      BY DEF FreeTap
<1>2. raw' = f /\ tap' = [tap EXCEPT ![f] = u]
      BY <1>1 DEF AttachTap
<1>3. /\ u \in TapRecord /\ u.attached = TRUE /\ u.reading = TRUE /\ u.sending = "none"
      /\ u.refs = 2 /\ u.stale = FALSE
      BY DEF NoTap, TapRecord
<1> HIDE DEF u
<1>4. u.refs = Held(u)
      BY <1>3 DEF Held
<1>5. f \in 0..MaxTaps /\ f # 0
      BY Bounds DEF Tap
<1> QED BY <1>2, <1>3, <1>4, <1>5 DEF TapInv

\* A read lets go of its tap, of the session's reference too if that is still held.
LEMMA ReadEndsKeeps ==
    ASSUME IInv, NEW t \in Tap, ReadEnds(t)
    PROVE  /\ TapInv'
           /\ raw' = 0 \/ (raw' = raw /\ (raw # 0 => tap'[raw] = tap[raw]))
<1>2. TapInv /\ tap[t] \in TapRecord /\ tap[t].refs = Held(tap[t]) /\ tap[t].stale = FALSE
      BY DEF IInv, TapInv
<1> PICK r \in TapRecord : r = tap[t]
    BY <1>2
<1> DEFINE u == [r EXCEPT !.attached = FALSE, !.reading = FALSE]
           n == IF r.attached THEN 2 ELSE 1
<1>1. /\ tap[t].reading /\ raw' = (IF tap[t].attached THEN 0 ELSE raw)
      /\ tap' = [tap EXCEPT ![t] = Release(u, n)]
      /\ UNCHANGED <<timer, timers>>
      BY DEF ReadEnds, ReadReleases
<1>3. /\ u \in TapRecord /\ u.refs = r.refs /\ u.attached = FALSE /\ u.reading = FALSE
      /\ u.sending = r.sending /\ u.stale = r.stale
      BY DEF TapRecord
<1>10. n \in 1..2 /\ r.stale = FALSE /\ u.stale = FALSE
      BY <1>2, <1>3
<1>4. u.refs = Held(u) + n
      BY <1>1, <1>2, <1>3 DEF Held, TapRecord
<1> HIDE DEF u, n
<1>5. /\ Release(u, n) \in TapRecord /\ Release(u, n).refs = Held(Release(u, n))
      /\ Release(u, n).stale = FALSE
      BY <1>3, <1>10, <1>4, ReleaseCounts
<1>6. raw' = 0 \/ (raw' = raw /\ (raw # 0 => t # raw))
      BY <1>1, <1>2 DEF TapInv
<1>7. raw # 0 => raw \in Tap
      BY <1>2, Bounds DEF TapInv, Tap
<1>8. raw' = 0 \/ (raw' = raw /\ (raw # 0 => tap'[raw] = tap[raw]))
      BY <1>1, <1>2, <1>6, <1>7 DEF TapInv
<1>9. raw' \in 0..MaxTaps /\ (raw' # 0 => tap'[raw'].attached)
      BY <1>2, <1>8, Bounds DEF TapInv
<1> QED BY <1>1, <1>2, <1>5, <1>8, <1>9, TapsKeep

\* So does a write that ended.
LEMMA WrittenKeeps ==
    ASSUME TapInv, NEW t \in Tap, PayloadWritten(t)
    PROVE  /\ TapInv' /\ raw' = raw /\ tap'[t].sending = "none"
           /\ \A x \in Tap : x # t => tap'[x] = tap[x]
<1>1. PICK failed \in BOOLEAN :
          tap' = [tap EXCEPT ![t] = Release([@ EXCEPT !.sending = "none", !.stale = FALSE,
                                                      !.failed = failed], 1)]
      BY DEF PayloadWritten
<1>2. tap[t].sending # "none" /\ UNCHANGED <<raw, timer, timers>>
      BY DEF PayloadWritten, link
<1> DEFINE u == [tap[t] EXCEPT !.sending = "none", !.stale = FALSE, !.failed = failed]
<1>3. tap[t] \in TapRecord /\ tap[t].refs = Held(tap[t]) /\ tap[t].stale = FALSE
      BY DEF TapInv
<1>4. /\ u \in TapRecord /\ u.refs = tap[t].refs /\ u.attached = tap[t].attached
      /\ u.reading = tap[t].reading /\ u.sending = "none" /\ u.stale = FALSE
      BY <1>3 DEF TapRecord
<1>5. tap' = [tap EXCEPT ![t] = Release(u, 1)]
      BY <1>1
<1> HIDE DEF u
<1>6. u.refs = Held(u) + 1 /\ 1 \in 1..2
      BY <1>2, <1>3, <1>4 DEF Held, TapRecord
<1>7. /\ Release(u, 1) \in TapRecord /\ Release(u, 1).refs = Held(Release(u, 1))
      /\ Release(u, 1).stale = FALSE /\ Release(u, 1).sending = "none"
      /\ u.attached => Release(u, 1).attached
      BY <1>4, <1>6, ReleaseCounts
<1>8. tap[t].attached => Release(u, 1).attached
      BY <1>4, <1>7
<1>9. tap'[t] = Release(u, 1) /\ \A x \in Tap : x # t => tap'[x] = tap[x]
      BY <1>5 DEF TapInv
<1>10. raw # 0 => raw \in Tap
       BY Bounds DEF TapInv, Tap
<1>11. raw' \in 0..MaxTaps /\ (raw' # 0 => tap'[raw'].attached)
       BY <1>2, <1>8, <1>9, <1>10 DEF TapInv
<1>12. TapInv'
       BY <1>2, <1>5, <1>7, <1>11, TapsKeep
<1> QED BY <1>2, <1>7, <1>9, <1>12

-----------------------------------------------------------------------------
(* Steps that send nothing *)

\* Nothing is written, begun or asked for; a sequence or a quick command may be gone.
Calm ==
    /\ \/ runner' = runner
       \/ runner' \in RunnerRecord /\ runner'.state # "active" /\ runner'.step # Steps
          /\ runner'.stale = FALSE
    /\ \/ quick' = quick
       \/ quick' \in [on : {FALSE}, stale : {FALSE}]
    /\ quiet' = quiet
    /\ raw' # 0 /\ tap'[raw'].sending # "none" =>
           raw # 0 /\ tap'[raw'].sending = tap[raw].sending
    /\ TransferActive' => TransferActive /\ input' = input
    /\ line' => line
    /\ modbus' => modbus

LEMMA CalmKeeps == ASSUME IInv, Calm PROVE RunnerInv' /\ OneTalker'
<1> USE DEF Calm
<1>1. raw' # 0 /\ tap'[raw'].sending = "runner" => raw # 0 /\ tap[raw].sending = "runner"
      OBVIOUS
<1>2. Sending' => Sending
      BY DEF Sending
<1>5. (TransferActive' \/ modbus') => (TransferActive \/ modbus)
      OBVIOUS
<1>6. (TransferActive' \/ modbus') => ~Sending'
      BY <1>2, <1>5 DEF IInv, OneTalker
<1>7. TransferActive' => (~input' /\ ~line')
      BY DEF IInv, OneTalker
<1>8. quick'.on => quick.on
      OBVIOUS
<1>3. CASE runner' = runner
  <2>1. RunnerInv'
        BY <1>1, <1>3 DEF IInv, RunnerInv, RunnerActive
  <2>2. RunnerActive' => RunnerActive
        BY <1>3 DEF RunnerActive
  <2>3. modbus' => (~RunnerActive' /\ ~quick'.on /\ ~line')
        BY <1>8, <2>2 DEF IInv, OneTalker
  <2>4. OneTalker'
        BY <1>6, <1>7, <2>3 DEF OneTalker
  <2> QED BY <2>1, <2>4
<1>4. CASE /\ runner' \in RunnerRecord /\ runner'.state # "active" /\ runner'.step # Steps
           /\ runner'.stale = FALSE
  <2>1. RunnerInv'
        BY <1>4 DEF IInv, RunnerInv, RunnerActive
  <2>2. ~RunnerActive'
        BY <1>4 DEF RunnerActive
  <2>3. modbus' => (~RunnerActive' /\ ~quick'.on /\ ~line')
        BY <1>8, <2>2 DEF IInv, OneTalker
  <2>4. OneTalker'
        BY <1>6, <1>7, <2>3 DEF OneTalker
  <2> QED BY <2>1, <2>4
<1> QED BY <1>3, <1>4

\* A transfer that is cancelled is still the same transfer.
LEMMA CancelCalm ==
    ASSUME FileInv, NEW keep \in BOOLEAN, CancelTransfer(keep)
    PROVE  transfer' \in TransferRecord /\ transfer'.phase = transfer.phase
<1>1. transfer \in TransferRecord
      BY DEF FileInv
<1>2. CASE TransferActive
  <2>1. transfer' = [transfer EXCEPT !.cancelled = TRUE, !.timer = keep /\ transfer.timer]
        BY <1>2 DEF CancelTransfer
  <2>2. (keep /\ transfer.timer) \in BOOLEAN
        OBVIOUS
  <2> QED BY <1>1, <2>1, <2>2 DEF TransferRecord
<1>3. CASE ~TransferActive
      BY <1>1, <1>3 DEF CancelTransfer
<1> QED BY <1>2, <1>3

\* A connection that is lost leaves no sequence and no quick command.
LEMMA LoseCalm ==
    ASSUME Lose
    PROVE  /\ runner' \in RunnerRecord /\ runner'.state = "none" /\ runner'.step # Steps
           /\ runner'.stale = FALSE /\ quick' \in [on : {FALSE}, stale : {FALSE}]
<1>1. runner' = [NoRunner EXCEPT !.stale = FALSE] /\ quick' = [NoQuick EXCEPT !.stale = FALSE]
      BY DEF Lose, RunnerLeft, QuickLeft
<1>2. 0 \in 0..Steps /\ 0 \in 0..Rest /\ 0 # Steps
      BY Bounds
<1>3. runner' \in RunnerRecord /\ runner'.state = "none" /\ runner'.step = 0
      /\ runner'.stale = FALSE
      BY <1>1, <1>2 DEF NoRunner, RunnerRecord
<1>4. quick' \in [on : {FALSE}, stale : {FALSE}]
      BY <1>1 DEF NoQuick
<1> QED BY <1>2, <1>3, <1>4

\* Whether tio has the device is looked at.
LEMMA ObserveCalm ==
    ASSUME IInv, NEW now \in BOOLEAN, Observe(now)
    PROVE  /\ observed' \in BOOLEAN
           /\ transfer' \in TransferRecord /\ transfer'.phase = transfer.phase
           /\ \/ UNCHANGED <<runner, quick>>
              \/ /\ runner' \in RunnerRecord /\ runner'.state # "active"
                 /\ runner'.step # Steps /\ runner'.stale = FALSE
                 /\ quick' \in [on : {FALSE}, stale : {FALSE}]
<1>1. observed' = now
      BY DEF Observe
<1>2. CASE observed /\ ~now
  <2>1. CancelTransfer(TRUE) /\ Lose /\ FileInv
        BY <1>2 DEF Observe, IInv
  <2> QED BY <1>1, <2>1, CancelCalm, LoseCalm
<1>3. CASE ~(observed /\ ~now)
  <2>1. UNCHANGED <<transfer, quick, runner>>
        BY <1>3 DEF Observe
  <2> QED BY <1>1, <2>1 DEF IInv, FileInv
<1> QED BY <1>2, <1>3

\* A session or a device that ends takes with it what was to be sent.
LEMMA StoppedCalm ==
    ASSUME IInv, RawTapStop, UNCHANGED <<transferTimer, input, dialog, modbus, quiet>>
    PROVE  TapInv' /\ FileInv' /\ Calm
<1>1. TapInv' /\ raw' = 0
      BY StopKeeps DEF IInv
<1>2. CancelTransfer(TRUE) /\ Lose /\ line' = FALSE /\ FileInv
      BY DEF RawTapStop, IInv
<1>3. transfer' \in TransferRecord /\ transfer'.phase = transfer.phase
      BY <1>2, CancelCalm
<1>4. FileInv'
      BY <1>2, <1>3 DEF FileInv
<1>5. TransferActive' => (TransferActive /\ input' = input)
      BY <1>3 DEF TransferActive
<1> QED BY <1>1, <1>2, <1>4, <1>5, LoseCalm DEF Calm

LEMMA CalmStep == ASSUME IInv, Calm, ProcessInv', FileInv', TapInv' PROVE IInv'
BY CalmKeeps DEF IInv

-----------------------------------------------------------------------------
(* Every step *)

LEMMA InitIInv == Init => IInv
<1> SUFFICES ASSUME Init PROVE IInv
    OBVIOUS
<1>0. 0 \in 0..MaxSessions /\ 0 \in 0..MaxTaps
      BY Bounds
<1>1. ProcessInv
      BY <1>0 DEF Init, ProcessInv
<1>2. FileInv
      BY DEF Init, FileInv, NoTransfer, TransferRecord
<1>3. TapInv
  <2>1. tap = [t \in Tap |-> NoTap]
        BY DEF Init
  <2>2. tap \in [Tap -> TapRecord] /\ \A t \in Tap : tap[t].refs = Held(tap[t]) /\ tap[t].stale = FALSE
        BY <2>1, NoTapHeld DEF NoTap
  <2>3. timer = FALSE /\ timers \in Nat /\ raw = 0
        BY DEF Init
  <2> QED BY <1>0, <2>2, <2>3 DEF TapInv
<1>4. RunnerInv
  <2>1. 0 \in 0..Steps /\ 0 \in 0..Rest /\ 0 # Steps /\ Rest \in 0..Rest
        BY Bounds
  <2> QED BY <2>1 DEF Init, RunnerInv, NoRunner, NoQuick, RunnerRecord, RunnerActive
<1>5. OneTalker
      BY DEF Init, OneTalker, TransferActive, NoTransfer
<1> QED BY <1>1, <1>2, <1>3, <1>4, <1>5 DEF IInv

\* What a session does.
LEMMA SessionsKeep ==
    ASSUME IInv,
           \/ ConnectTio \/ DisconnectTio \/ ChildExited
           \/ \E s \in Session : SpawnFailed(s)
    PROVE  IInv'
<1>1. RawTapStop /\ UNCHANGED <<transferTimer, input, dialog, modbus, quiet>>
      BY DEF ConnectTio, DisconnectTio, ChildExited, SpawnFailed
<1>2. TapInv' /\ FileInv' /\ Calm
      BY <1>1, StoppedCalm
<1>3. ProcessInv
      BY DEF IInv
<1>4. CASE ConnectTio
  <2>1. made + 1 \in Session /\ made + 1 \in 0..MaxSessions /\ 0 \in 0..MaxSessions
        BY <1>3, <1>4, Bounds DEF ProcessInv, ConnectTio, Session
  <2>2. ProcessInv'
        BY <1>3, <1>4, <2>1 DEF ProcessInv, ConnectTio
  <2> QED BY <1>2, <2>2, CalmStep
<1>5. CASE DisconnectTio \/ ChildExited \/ \E s \in Session : SpawnFailed(s)
  <2>1. pid' \in 0..MaxSessions /\ socket' \in 0..MaxSessions
        BY <1>3, <1>5, Bounds DEF ProcessInv, DisconnectTio, ChildExited, SpawnFailed
  <2>2. UNCHANGED <<made, alive, listening, device>> /\ spawning' \subseteq spawning
        BY <1>5 DEF DisconnectTio, ChildExited, SpawnFailed
  <2>3. observed' \in BOOLEAN /\ watch' \in BOOLEAN
        BY <1>3, <1>5 DEF ProcessInv, DisconnectTio, ChildExited, SpawnFailed
  <2>4. ProcessInv'
        BY <1>3, <2>1, <2>2, <2>3 DEF ProcessInv
  <2> QED BY <1>2, <2>4, CalmStep
<1> QED BY <1>4, <1>5

LEMMA SpawnSucceededKeeps ==
    ASSUME IInv, NEW s \in Session, SpawnSucceeded(s)
    PROVE  IInv'
<1>1. device' \in BOOLEAN /\ Observe(device')
      BY DEF SpawnSucceeded
<1>2. /\ observed' \in BOOLEAN
      /\ transfer' \in TransferRecord /\ transfer'.phase = transfer.phase
      /\ \/ UNCHANGED <<runner, quick>>
         \/ /\ runner' \in RunnerRecord /\ runner'.state # "active"
            /\ runner'.step # Steps /\ runner'.stale = FALSE
            /\ quick' \in [on : {FALSE}, stale : {FALSE}]
      BY <1>1, ObserveCalm
<1>3. ProcessInv'
  <2>1. s \in 0..MaxSessions
        BY Bounds DEF Session
  <2>2. ProcessInv /\ pid' = s /\ alive' = {s} /\ spawning' \subseteq spawning
        /\ UNCHANGED <<socket, made, listening>> /\ watch' = TRUE
        BY DEF IInv, SpawnSucceeded
  <2> QED BY <1>1, <1>2, <2>1, <2>2 DEF ProcessInv
<1>4. FileInv'
      BY <1>2 DEF IInv, FileInv, SpawnSucceeded
<1>5. TapInv' /\ (raw' # 0 /\ tap'[raw'].sending # "none" =>
                     raw # 0 /\ tap'[raw'].sending = tap[raw].sending)
  <2>0. TapInv
        BY DEF IInv
  <2>1. CASE UNCHANGED <<link, tap>>
        BY <2>0, <2>1 DEF TapInv, link
  <2>2. CASE CanAttach /\ AttachTap /\ UNCHANGED <<timer, timers>>
    <3>1. timers' \in Nat /\ timer' \in BOOLEAN /\ (timer' => timers' > 0)
          BY <2>0, <2>2 DEF TapInv
    <3> QED BY <2>0, <2>2, <3>1, AttachKeeps DEF CanAttach
  <2>3. CASE timer' = TRUE /\ timers' = timers + 1 /\ UNCHANGED <<raw, tap>>
    <3>1. timers' \in Nat /\ timers' > 0
          BY <2>0, <2>3 DEF TapInv
    <3> QED BY <2>0, <2>3, <3>1 DEF TapInv
  <2> QED BY <2>1, <2>2, <2>3 DEF SpawnSucceeded
<1>6. quiet' = quiet /\ line' = line /\ modbus' = modbus /\ input' = input
      BY DEF SpawnSucceeded
<1>7. TransferActive' => (TransferActive /\ input' = input)
      BY <1>2, <1>6 DEF TransferActive
<1>8. Calm
      BY <1>2, <1>5, <1>6, <1>7 DEF Calm
<1> QED BY <1>3, <1>4, <1>5, <1>8, CalmStep

LEMMA SessionTickKeeps ==
    ASSUME IInv, SessionTick
    PROVE  IInv'
<1>1. ProcessInv /\ TapInv /\ Observe(Connected) /\ UNCHANGED <<process, watch, link, tap>>
      BY DEF SessionTick, IInv
<1>2. Connected \in BOOLEAN
      BY <1>1 DEF Connected, ProcessInv
<1>3. /\ observed' \in BOOLEAN
      /\ transfer' \in TransferRecord /\ transfer'.phase = transfer.phase
      /\ \/ UNCHANGED <<runner, quick>>
         \/ /\ runner' \in RunnerRecord /\ runner'.state # "active"
            /\ runner'.step # Steps /\ runner'.stale = FALSE
            /\ quick' \in [on : {FALSE}, stale : {FALSE}]
      BY <1>1, <1>2, ObserveCalm
<1>4. ProcessInv' /\ TapInv'
      BY <1>1, <1>3 DEF ProcessInv, TapInv, process, link
<1>5. FileInv'
      BY <1>3 DEF IInv, FileInv, SessionTick
<1>6. quiet' = quiet /\ line' = line /\ modbus' = modbus /\ input' = input
      /\ raw' = raw /\ tap' = tap
      BY <1>1 DEF SessionTick, link
<1>7. TransferActive' => (TransferActive /\ input' = input)
      BY <1>3, <1>6 DEF TransferActive
<1>8. Calm
      BY <1>3, <1>6, <1>7 DEF Calm
<1> QED BY <1>4, <1>5, <1>8, CalmStep

\* What a tap, its timer and tio do.
LEMMA LinksKeep ==
    ASSUME IInv,
           \/ TryConnect \/ DeviceChanges \/ TioExits
           \/ \E s \in Session : TioListens(s)
           \/ \E t \in Tap : ReadEnds(t)
    PROVE  IInv'
<1>1. UNCHANGED <<observed, watch, sources, file, quiet>>
      BY DEF TryConnect, DeviceChanges, TioExits, TioListens, ReadEnds
<1>2. ProcessInv /\ TapInv /\ FileInv
      BY DEF IInv
<1>3. FileInv'
      BY <1>1, <1>2 DEF FileInv, sources, file
<1>4. ProcessInv'
  <2>1. CASE TryConnect \/ \E t \in Tap : ReadEnds(t)
        BY <1>1, <1>2, <2>1 DEF ProcessInv, TryConnect, ReadEnds, process
  <2>2. CASE DeviceChanges
        BY <1>1, <1>2, <2>2 DEF ProcessInv, DeviceChanges
  <2>3. CASE TioExits
        BY <1>1, <1>2, <2>3 DEF ProcessInv, TioExits
  <2>4. CASE \E s \in Session : TioListens(s)
        BY <1>1, <1>2, <2>4 DEF ProcessInv, TioListens
  <2> QED BY <2>1, <2>2, <2>3, <2>4
<1>5. TapInv' /\ (raw' # 0 /\ tap'[raw'].sending # "none" =>
                     raw # 0 /\ tap'[raw'].sending = tap[raw].sending)
  <2>1. CASE UNCHANGED <<link, tap>>
        BY <1>2, <2>1 DEF TapInv, link
  <2>2. CASE TryConnect
    <3>1. timers' \in Nat /\ timer' \in BOOLEAN /\ (timer' => timers' > 0)
      <4>1. timers' = timers - 1 /\ timers > 0 /\ timers \in Nat /\ timer' = FALSE
            BY <1>2, <2>2 DEF TapInv, TryConnect
      <4>2. timers' \in Nat
            BY <4>1
      <4> QED BY <4>1, <4>2
    <3>2. CASE CanAttach /\ AttachTap
          BY <1>2, <3>1, <3>2, AttachKeeps DEF CanAttach
    <3>3. CASE UNCHANGED <<raw, tap>>
          BY <1>2, <3>1, <3>3 DEF TapInv
    <3> QED BY <2>2, <3>2, <3>3 DEF TryConnect
  <2>3. CASE \E t \in Tap : ReadEnds(t)
    <3>1. PICK t \in Tap : ReadEnds(t)
          BY <2>3
    <3>2. TapInv' /\ (raw' = 0 \/ (raw' = raw /\ (raw # 0 => tap'[raw] = tap[raw])))
          BY <3>1, ReadEndsKeeps
    <3> QED BY <3>2
  <2> QED BY <2>1, <2>2, <2>3 DEF DeviceChanges, TioExits, TioListens
<1>6. Calm
      BY <1>1, <1>5 DEF Calm, sources, file, TransferActive
<1> QED BY <1>3, <1>4, <1>5, <1>6, CalmStep

\* A write that ended: time is counted from now if it was a step of the sequence.
LEMMA PayloadWrittenKeeps ==
    ASSUME IInv, NEW t \in Tap, PayloadWritten(t)
    PROVE  IInv'
<1>1. ProcessInv /\ FileInv /\ TapInv /\ RunnerInv /\ OneTalker
      BY DEF IInv
<1>2. /\ TapInv' /\ raw' = raw /\ tap'[t].sending = "none"
      /\ \A x \in Tap : x # t => tap'[x] = tap[x]
      BY <1>1, WrittenKeeps
<1>3. /\ UNCHANGED <<process, observed, watch, sources, file>>
      /\ quiet' = IF tap[t].sending = "runner" /\ t = raw THEN 0 ELSE quiet
      BY DEF PayloadWritten
<1>4. ProcessInv' /\ FileInv'
      BY <1>1, <1>3 DEF ProcessInv, FileInv, process, sources, file
<1>5. raw # 0 => raw \in Tap
      BY <1>1, Bounds DEF TapInv, Tap
<1>6. raw # 0 => (tap'[raw].sending = "none" \/ tap'[raw] = tap[raw])
      BY <1>2, <1>5
<1>7. RunnerInv'
  <2>1. quiet' \in 0..Rest /\ UNCHANGED <<runner, quick>>
        BY <1>1, <1>3, Bounds DEF RunnerInv, sources
  <2>2. (RunnerActive /\ runner.step # 0 /\ ~runner.awaiting) => quiet' = quiet
    <3> SUFFICES ASSUME RunnerActive, runner.step # 0, ~runner.awaiting PROVE quiet' = quiet
        OBVIOUS
    <3>1. ~(raw # 0 /\ tap[raw].sending = "runner")
          BY <1>1 DEF RunnerInv
    <3>2. t # 0
          BY Bounds DEF Tap
    <3> QED BY <1>3, <3>1, <3>2
  <2> QED BY <1>1, <1>2, <1>6, <2>1, <2>2 DEF RunnerInv, RunnerActive
<1>8. OneTalker'
  <2>1. Sending' => Sending
        BY <1>2, <1>6 DEF Sending
  <2> QED BY <1>1, <1>3, <2>1 DEF OneTalker, sources, file, TransferActive, RunnerActive
<1> QED BY <1>2, <1>4, <1>7, <1>8 DEF IInv

\* A payload of the user goes out, at once or when it is due.
LEMMA QuickKeeps ==
    ASSUME IInv, QuickSend \/ QuickSchedule \/ QuickDue
    PROVE  IInv'
<1>1. ProcessInv /\ FileInv /\ TapInv /\ RunnerInv /\ OneTalker
      BY DEF IInv
<1>2. UNCHANGED <<process, observed, watch, link, runner, line, file, quiet>>
      BY DEF QuickSend, QuickSchedule, QuickDue, sources
<1>3. ProcessInv' /\ FileInv'
      BY <1>1, <1>2 DEF ProcessInv, FileInv, process, file
<1>4. quick' \in [on : BOOLEAN, stale : {FALSE}]
  <2>1. quick \in [on : BOOLEAN, stale : {FALSE}]
        BY <1>1 DEF RunnerInv
  <2>2. NoQuick \in [on : BOOLEAN, stale : {FALSE}]
        /\ [NoQuick EXCEPT !.on = TRUE] \in [on : BOOLEAN, stale : {FALSE}]
        BY DEF NoQuick
  <2> QED BY <2>1, <2>2 DEF QuickSend, QuickSchedule, QuickDue, sources
<1>5. raw' = raw /\ runner' = runner /\ quiet' = quiet /\ line' = line
      /\ transfer' = transfer /\ modbus' = modbus /\ input' = input
      BY <1>2 DEF link, file
<1>6. CASE UNCHANGED tap
  <2>1. TapInv'
        BY <1>1, <1>2, <1>6 DEF TapInv, link
  <2>2. RunnerInv'
        BY <1>1, <1>4, <1>5, <1>6 DEF RunnerInv, RunnerActive
  <2>3. quick'.on => quick.on \/ ~modbus
        BY <1>4 DEF QuickSend, QuickSchedule, QuickDue, NoQuick, User
  <2>4. OneTalker'
        BY <1>1, <1>5, <1>6, <2>3 DEF OneTalker, Sending, TransferActive, RunnerActive
  <2> QED BY <1>3, <2>1, <2>2, <2>4 DEF IInv
<1>7. CASE Ready /\ Write("user", FALSE) /\ ~modbus
  <2>1. /\ TapInv' /\ tap'[raw].sending = "user"
    <3>1. raw # 0 /\ tap[raw].sending = "none"
          BY <1>7 DEF Ready, Sending
    <3> QED BY <1>1, <1>2, <1>7, <3>1, WriteKeeps
  <2>2. RunnerInv'
        BY <1>1, <1>4, <1>5, <2>1 DEF RunnerInv, RunnerActive
  <2>3. OneTalker'
        BY <1>1, <1>5, <1>7 DEF OneTalker, TransferActive, Ready
  <2> QED BY <1>3, <2>1, <2>2, <2>3 DEF IInv
<1>8. quick.stale = FALSE
      BY <1>1 DEF RunnerInv
<1>9. CASE QuickSend
      BY <1>7, <1>9 DEF QuickSend, User
<1>10. CASE QuickSchedule
      BY <1>6, <1>10 DEF QuickSchedule
<1>11. CASE QuickDue
  <2>1. ~modbus
        BY <1>1, <1>11 DEF OneTalker, QuickDue
  <2> QED BY <1>6, <1>7, <1>8, <1>11, <2>1 DEF QuickDue
<1> QED BY <1>9, <1>10, <1>11

\* A sequence that starts, rests, ends or fails.
LEMMA RunnerKeeps ==
    ASSUME IInv,
           \/ RunSequence \/ StopSequence \/ PauseSequence \/ SequenceUiTick \/ Pass
           \/ RunnerFails \/ RunnerRests \/ RunnerEnds
    PROVE  IInv'
<1>1. ProcessInv /\ FileInv /\ TapInv /\ RunnerInv /\ OneTalker
      BY DEF IInv
<1>2. UNCHANGED <<process, observed, watch, link, tap, quick, line, file>>
      BY DEF RunSequence, StopSequence, PauseSequence, SequenceUiTick, Pass, RunnerFails,
             RunnerRests, RunnerEnds
<1>3. ProcessInv' /\ FileInv' /\ TapInv'
      BY <1>1, <1>2 DEF ProcessInv, FileInv, TapInv, process, file, link
<1>4. 0 \in 0..Steps /\ 0 \in 0..Rest /\ 0 # Steps /\ Rest \in 0..Rest /\ Rest \in Nat
      BY Bounds
<1>5. raw' = raw /\ tap' = tap /\ quick' = quick /\ line' = line
      /\ transfer' = transfer /\ modbus' = modbus /\ input' = input
      BY <1>2 DEF link, file
<1>6. runner \in RunnerRecord /\ quiet \in 0..Rest /\ runner.left \in 0..Rest
      BY <1>1 DEF RunnerInv, RunnerRecord
<1>7. RunnerInv' /\ (RunnerActive' => RunnerActive \/ ~modbus)
  <2>1. CASE RunSequence
    <3>1. PICK loop \in BOOLEAN : runner' = [NoRunner EXCEPT !.state = "active", !.loop = loop]
          BY <2>1 DEF RunSequence
    <3>2. runner' \in RunnerRecord /\ runner'.step = 0 /\ runner'.stale = FALSE
          BY <1>4, <3>1 DEF NoRunner, RunnerRecord
    <3>3. quiet' = Rest /\ ~modbus
          BY <2>1 DEF RunSequence, User
    <3> QED BY <1>1, <1>4, <1>5, <3>2, <3>3 DEF RunnerInv
  <2>2. CASE StopSequence \/ SequenceUiTick
    <3>1. runner' = NoRunner /\ quiet' = quiet
          BY <2>2 DEF StopSequence, SequenceUiTick
    <3>2. runner' \in RunnerRecord /\ runner'.step = 0 /\ runner'.stale = FALSE
          /\ runner'.state = "none"
          BY <1>4, <3>1 DEF NoRunner, RunnerRecord
    <3> QED BY <1>1, <1>4, <1>5, <3>1, <3>2 DEF RunnerInv, RunnerActive
  <2>3. CASE PauseSequence
    <3>1. runner' = [runner EXCEPT !.paused = ~runner.paused] /\ quiet' = quiet /\ RunnerActive
          BY <2>3 DEF PauseSequence
    <3>2. /\ runner' \in RunnerRecord /\ runner'.step = runner.step
          /\ runner'.stale = runner.stale /\ runner'.state = runner.state
          /\ runner'.left = runner.left /\ runner'.awaiting = runner.awaiting
          /\ runner'.finishing = runner.finishing
          BY <1>6, <3>1 DEF RunnerRecord
    <3> QED BY <1>1, <1>4, <1>5, <3>1, <3>2 DEF RunnerInv, RunnerActive
  <2>4. CASE Pass
    <3>0. PICK l \in 0..Rest : l = (IF runner.left > 0 THEN runner.left - 1 ELSE 0)
          BY <1>4, <1>6
    <3>1. runner' = [runner EXCEPT !.left = l] /\ RunnerActive
          /\ quiet' = (IF quiet < Rest THEN quiet + 1 ELSE Rest)
          BY <2>4, <3>0 DEF Pass
    <3>2. /\ runner' \in RunnerRecord /\ runner'.step = runner.step
          /\ runner'.stale = runner.stale /\ runner'.state = runner.state
          /\ runner'.left = l /\ runner'.awaiting = runner.awaiting
          /\ runner'.finishing = runner.finishing
          BY <1>6, <3>1 DEF RunnerRecord
    <3>3. quiet' \in 0..Rest
          BY <1>4, <1>6, <3>1
    <3>4. quiet + runner.left >= Rest => quiet' + l >= Rest
          BY <1>4, <1>6, <3>0, <3>1
    <3> QED BY <1>1, <1>5, <3>1, <3>2, <3>3, <3>4 DEF RunnerInv, RunnerActive
  <2>5. CASE RunnerFails \/ RunnerEnds
    <3>1. PICK state \in {"failed", "done"} : runner' = [runner EXCEPT !.state = state]
          BY <2>5 DEF RunnerFails, RunnerEnds
    <3>2. quiet' = quiet
          BY <2>5 DEF RunnerFails, RunnerEnds
    <3>3. /\ runner' \in RunnerRecord /\ runner'.step = runner.step
          /\ runner'.stale = runner.stale /\ runner'.state = state
          /\ runner'.finishing = runner.finishing
          BY <1>6, <3>1 DEF RunnerRecord
    <3> QED BY <1>1, <1>5, <3>2, <3>3 DEF RunnerInv, RunnerActive
  <2>6. CASE RunnerRests
    <3>1. runner' = [runner EXCEPT !.awaiting = FALSE, !.left = Rest] /\ quiet' = quiet
          /\ RunnerActive /\ ~Sending
          BY <2>6 DEF RunnerRests, RunnerDue
    <3>2. /\ runner' \in RunnerRecord /\ runner'.step = runner.step
          /\ runner'.stale = runner.stale /\ runner'.left = Rest
          /\ runner'.finishing = runner.finishing
          BY <1>4, <1>6, <3>1 DEF RunnerRecord
    <3>3. quiet' + Rest >= Rest
          BY <1>4, <1>6, <3>1
    <3>4. raw' # 0 => tap'[raw'].sending # "runner"
          BY <1>5, <3>1 DEF Sending
    <3> QED BY <1>1, <1>5, <3>1, <3>2, <3>3, <3>4 DEF RunnerInv, RunnerActive
  <2> QED BY <2>1, <2>2, <2>3, <2>4, <2>5, <2>6
<1>8. OneTalker'
      BY <1>1, <1>5, <1>7 DEF OneTalker, Sending, TransferActive
<1> QED BY <1>3, <1>7, <1>8 DEF IInv

\* A step of the sequence goes out.
LEMMA RunnerSendsKeeps ==
    ASSUME IInv, RunnerSends
    PROVE  IInv'
<1>1. ProcessInv /\ FileInv /\ TapInv /\ RunnerInv /\ OneTalker
      BY DEF IInv
<1>2. UNCHANGED <<process, observed, watch, link, quick, line, file, quiet>>
      /\ RunnerActive /\ Ready
      BY DEF RunnerSends, RunnerDue
<1>3. ProcessInv' /\ FileInv'
      BY <1>1, <1>2 DEF ProcessInv, FileInv, process, file
<1>4. raw' = raw /\ quiet' = quiet /\ line' = line /\ quick' = quick
      /\ transfer' = transfer /\ modbus' = modbus /\ input' = input
      BY <1>2 DEF link, file
<1>5. TapInv'
  <2>1. raw # 0 /\ tap[raw].sending = "none" /\ Write("runner", FALSE)
        BY <1>1, <1>2 DEF Ready, Sending, RunnerSends, RunnerInv
  <2> QED BY <1>1, <1>2, <2>1, WriteKeeps
<1>6. PICK step \in 1..Steps : runner' = StepSent(step)
  <2>1. runner \in RunnerRecord /\ (runner.step = Steps => runner.finishing)
        BY <1>1 DEF RunnerInv
  <2>2. runner.step \in 0..Steps
        BY <2>1 DEF RunnerRecord
  <2>3. (IF runner.finishing THEN 1 ELSE runner.step + 1) \in 1..Steps
        BY <2>1, <2>2, Bounds
  <2> QED BY <2>3 DEF RunnerSends
<1>7. /\ runner' \in RunnerRecord /\ runner'.stale = FALSE /\ runner'.awaiting
      /\ runner'.step = Steps => runner'.finishing
  <2>1. runner \in RunnerRecord /\ runner.stale = FALSE /\ step \in 0..Steps
        BY <1>1 DEF RunnerInv
  <2>2. (step = Steps) \in BOOLEAN
        OBVIOUS
  <2> QED BY <1>6, <2>1, <2>2 DEF StepSent, RunnerRecord
<1>8. RunnerInv'
      BY <1>1, <1>4, <1>7 DEF RunnerInv
<1>9. ~modbus /\ ~TransferActive
      BY <1>1, <1>2 DEF OneTalker, Ready
<1>10. OneTalker'
       BY <1>4, <1>9 DEF OneTalker, TransferActive
<1> QED BY <1>3, <1>5, <1>8, <1>10 DEF IInv

\* A line command, a Modbus window, a file transfer.
LEMMA ClientsKeep ==
    ASSUME IInv,
           \/ LineControl \/ LinePrompt \/ OpenModbus \/ CloseModbus
           \/ ChooseFile \/ FileSelected \/ TransferCancelled \/ TransferTimeout
           \/ TransferConnected \/ TransferExited \/ TransferTick
    PROVE  IInv'
<1>1. ProcessInv /\ FileInv /\ TapInv /\ RunnerInv /\ OneTalker
      BY DEF IInv
<1>2. UNCHANGED <<process, observed, watch, link, tap, quick, runner, quiet>>
      BY DEF LineControl, LinePrompt, OpenModbus, CloseModbus, ChooseFile, FileSelected,
             TransferCancelled, TransferTimeout, TransferConnected, TransferExited,
             TransferTick, sources
<1>3. ProcessInv' /\ TapInv' /\ RunnerInv'
      BY <1>1, <1>2 DEF ProcessInv, TapInv, RunnerInv, RunnerActive, process, link
<1>4. (RunnerActive' <=> RunnerActive) /\ (Sending' <=> Sending) /\ quick' = quick
      BY <1>2 DEF RunnerActive, Sending, link
<1>5. CASE LineControl \/ LinePrompt \/ OpenModbus \/ CloseModbus \/ ChooseFile
  <2>1. FileInv'
        BY <1>1, <1>5 DEF FileInv, LineControl, LinePrompt, OpenModbus, CloseModbus,
                          ChooseFile, sources, file
  <2>2. TransferActive' <=> TransferActive
        BY <1>5 DEF LineControl, LinePrompt, OpenModbus, CloseModbus, ChooseFile,
                    TransferActive, file
  <2>3. OneTalker'
        BY <1>1, <1>4, <1>5, <2>2 DEF OneTalker, LineControl, LinePrompt, OpenModbus,
               CloseModbus, ChooseFile, User, Exclusive, sources, file
  <2> QED BY <1>3, <2>1, <2>3 DEF IInv
<1>6. CASE FileSelected
  <2>1. FileInv'
    <3>1. NoTransfer \in TransferRecord
          /\ [phase |-> "connecting", cancelled |-> FALSE, timer |-> TRUE] \in TransferRecord
          BY DEF NoTransfer, TransferRecord
    <3>2. transfer' \in TransferRecord
          BY <1>1, <1>6, <3>1 DEF FileInv, FileSelected
    <3>3. transferTimer' \in BOOLEAN /\ input' \in BOOLEAN
          BY <1>1, <1>6 DEF FileInv, FileSelected
    <3>4. line' \in BOOLEAN /\ dialog' \in BOOLEAN /\ modbus' \in BOOLEAN
          BY <1>1, <1>6 DEF FileInv, FileSelected, sources
    <3> QED BY <3>2, <3>3, <3>4 DEF FileInv
  <2>2. UNCHANGED <<line, modbus>>
        BY <1>6 DEF FileSelected, sources
  <2>3. OneTalker'
    <3>1. CASE UNCHANGED <<transfer, transferTimer, input>>
          BY <1>1, <1>4, <2>2, <3>1 DEF OneTalker, TransferActive
    <3>2. CASE MayTransfer /\ (input' = FALSE \/ transfer' = NoTransfer)
          BY <1>1, <1>4, <2>2, <3>2 DEF OneTalker, TransferActive, NoTransfer, MayTransfer,
                                        Exclusive
    <3> QED BY <1>6, <3>1, <3>2 DEF FileSelected
  <2> QED BY <1>3, <2>1, <2>3 DEF IInv
<1>7. CASE TransferCancelled \/ TransferTimeout
  <2>1. PICK keep \in BOOLEAN : CancelTransfer(keep)
        BY <1>7 DEF TransferCancelled, TransferTimeout
  <2>2. transfer' \in TransferRecord /\ transfer'.phase = transfer.phase
        BY <1>1, <2>1, CancelCalm
  <2>3. UNCHANGED <<line, transferTimer, input, dialog, modbus>>
        BY <1>7 DEF TransferCancelled, TransferTimeout, sources
  <2>4. FileInv'
        BY <1>1, <2>2, <2>3 DEF FileInv
  <2>5. OneTalker'
        BY <1>1, <1>4, <2>2, <2>3 DEF OneTalker, TransferActive
  <2> QED BY <1>3, <2>4, <2>5 DEF IInv
<1>8. CASE TransferConnected \/ TransferExited \/ TransferTick
  <2>1. UNCHANGED <<line, dialog, modbus>> /\ (TransferActive => input' = input)
        BY <1>8 DEF TransferConnected, TransferExited, TransferTick, sources
  <2>2. transfer' \in TransferRecord /\ (TransferActive' => TransferActive)
    <3>1. transfer \in TransferRecord /\ NoTransfer \in TransferRecord
          /\ NoTransfer.phase = "none"
          BY <1>1 DEF FileInv, NoTransfer, TransferRecord
    <3>2. [transfer EXCEPT !.phase = "running"] \in TransferRecord
          BY <3>1 DEF TransferRecord
    <3>3. CASE TransferConnected
      <4>1. TransferActive
            BY <3>3 DEF TransferConnected, TransferActive
      <4>2. transfer' \in {NoTransfer, [transfer EXCEPT !.phase = "running"]}
            BY <3>3 DEF TransferConnected, Ended
      <4> QED BY <3>1, <3>2, <4>1, <4>2
    <3>4. CASE TransferExited
          BY <3>1, <3>4 DEF TransferExited, Ended, TransferActive
    <3>5. CASE TransferTick
          BY <3>1, <3>5 DEF TransferTick, TransferActive
    <3> QED BY <1>8, <3>3, <3>4, <3>5
  <2>3. FileInv'
        BY <1>1, <1>8, <2>1, <2>2 DEF FileInv, TransferConnected, TransferExited, TransferTick
  <2>4. OneTalker'
        BY <1>1, <1>4, <2>1, <2>2 DEF OneTalker
  <2> QED BY <1>3, <2>3, <2>4 DEF IInv
<1> QED BY <1>5, <1>6, <1>7, <1>8

LEMMA NextIInv == IInv /\ [Next]_vars => IInv'
<1> SUFFICES ASSUME IInv, [Next]_vars PROVE IInv'
    OBVIOUS
<1>1. CASE \/ ConnectTio \/ DisconnectTio \/ ChildExited
           \/ \E s \in Session : SpawnFailed(s)
      BY <1>1, SessionsKeep
<1>2. CASE \E s \in Session : SpawnSucceeded(s)
      BY <1>2, SpawnSucceededKeeps
<1>3. CASE SessionTick
      BY <1>3, SessionTickKeeps
<1>4. CASE \/ TryConnect \/ DeviceChanges \/ TioExits
           \/ \E s \in Session : TioListens(s)
           \/ \E t \in Tap : ReadEnds(t)
      BY <1>4, LinksKeep
<1>5. CASE \E t \in Tap : PayloadWritten(t)
      BY <1>5, PayloadWrittenKeeps
<1>6. CASE QuickSend \/ QuickSchedule \/ QuickDue
      BY <1>6, QuickKeeps
<1>7. CASE \/ RunSequence \/ StopSequence \/ PauseSequence \/ SequenceUiTick \/ Pass
           \/ RunnerFails \/ RunnerRests \/ RunnerEnds
      BY <1>7, RunnerKeeps
<1>8. CASE RunnerSends
      BY <1>8, RunnerSendsKeeps
<1>9. CASE \/ LineControl \/ LinePrompt \/ OpenModbus \/ CloseModbus
           \/ ChooseFile \/ FileSelected \/ TransferCancelled \/ TransferTimeout
           \/ TransferConnected \/ TransferExited \/ TransferTick
      BY <1>9, ClientsKeep
<1>10. CASE UNCHANGED vars
  <2>1. ProcessInv'
        BY <1>10 DEF IInv, ProcessInv, vars, process
  <2>2. FileInv'
        BY <1>10 DEF IInv, FileInv, vars, sources, file
  <2>3. TapInv'
        BY <1>10 DEF IInv, TapInv, vars, link
  <2>4. RunnerInv'
        BY <1>10 DEF IInv, RunnerInv, RunnerActive, vars, sources, link
  <2>5. OneTalker'
        BY <1>10 DEF IInv, OneTalker, Sending, TransferActive, RunnerActive, vars, sources,
                     link, file
  <2> QED BY <2>1, <2>2, <2>3, <2>4, <2>5 DEF IInv
<1> QED BY <1>1, <1>2, <1>3, <1>4, <1>5, <1>6, <1>7, <1>8, <1>9, <1>10 DEF Next

LEMMA IInvHolds == Spec => []IInv
BY InitIInv, NextIInv, PTL DEF Spec

-----------------------------------------------------------------------------
(* What follows *)

\* In every state that can be reached, a tap of the session is in memory exactly
\* as long as the session, its read or a write uses it, in whatever order the end
\* of the stream, a disconnect, a write under way and a new connection come.
THEOREM TapsAreHeld == Spec => []TapRefs
<1>1. IInv => TapRefs
  <2> SUFFICES ASSUME IInv PROVE TapRefs
      OBVIOUS
  <2>1. ProcessInv /\ FileInv /\ TapInv /\ RunnerInv
        BY DEF IInv
  <2>2. \A t \in Tap : tap[t] \in TapRecord /\ tap[t].refs = Held(tap[t])
        BY <2>1 DEF TapInv
  <2>3. \A t \in Tap : tap[t].refs \in 0..3
        BY <2>2 DEF Held
  <2>4. tap \in [Tap -> [attached : BOOLEAN, reading : BOOLEAN, stale : BOOLEAN,
                         sending : {"none", "user", "runner"}, failed : BOOLEAN,
                         refs : 0..3]]
        BY <2>1, <2>2, <2>3 DEF TapInv, TapRecord
  <2>5. /\ {pid, socket, made} \subseteq 0..MaxSessions
        /\ spawning \subseteq Session /\ alive \subseteq Session /\ listening \subseteq Session
        BY <2>1 DEF ProcessInv
  <2>6. {device, observed, watch, timer, line, transferTimer, input, dialog,
         modbus} \subseteq BOOLEAN
        BY <2>1 DEF ProcessInv, FileInv, TapInv
  <2>7. raw \in 0..MaxTaps /\ timers \in Nat /\ quiet \in 0..Rest
        BY <2>1 DEF TapInv, RunnerInv
  <2>8. quick \in [on : BOOLEAN, stale : BOOLEAN]
        BY <2>1 DEF RunnerInv
  <2>9. runner \in RunnerRecord /\ transfer \in TransferRecord
        BY <2>1 DEF RunnerInv, FileInv
  <2>10. TypeOK
        BY <2>4, <2>5, <2>6, <2>7, <2>8, <2>9 DEF TypeOK, RunnerRecord, TransferRecord
  <2> QED BY <2>2, <2>10 DEF TapRefs, Held
<1> QED BY <1>1, IInvHolds, PTL

\* Nothing that was asked for before a connection was lost is written after it.
THEOREM NothingIsStale == Spec => []NeverAfterLoss
<1>1. IInv => NeverAfterLoss
      BY DEF IInv, TapInv, NeverAfterLoss
<1> QED BY <1>1, IInvHolds, PTL

\* A file transfer and a Modbus window have the connection to themselves.
THEOREM OneTalksAtATime == Spec => []OneTalker
<1>1. IInv => OneTalker
      BY DEF IInv
<1> QED BY <1>1, IInvHolds, PTL

\* Giving a tap back begins no write.
LEMMA ReleaseWritesNothing ==
    ASSUME NEW u \in TapRecord, NEW n \in 1..2, Release(u, n).sending = "runner"
    PROVE  u.sending = "runner"
BY DEF Release, NoTap, TapRecord

\* Only a sequence that sends begins a write of a sequence.
LEMMA OthersSendNoStep ==
    ASSUME TapInv,
           \/ UNCHANGED tap
           \/ RawTapStop
           \/ AttachTap /\ CanAttach
           \/ \E t \in Tap : ReadEnds(t) \/ PayloadWritten(t)
           \/ \E stale \in BOOLEAN : Write("user", stale) /\ raw # 0
    PROVE  \A t \in Tap : tap'[t].sending = "runner" => tap[t].sending = "runner"
<1>1. tap \in [Tap -> TapRecord] /\ (raw # 0 => raw \in Tap)
      BY Bounds DEF TapInv, Tap
<1>2. CASE UNCHANGED tap
      BY <1>2
<1>3. CASE RawTapStop
  <2>1. CASE raw = 0
        BY <1>3, <2>1 DEF RawTapStop, Detach
  <2>2. CASE raw # 0
    <3>1. PICK r \in TapRecord : r = tap[raw]
          BY <1>1, <2>2
    <3> DEFINE u == [r EXCEPT !.attached = FALSE]
    <3>2. tap' = [tap EXCEPT ![raw] = Release(u, 1)]
          BY <1>1, <1>3, <2>2, <3>1 DEF RawTapStop, Detach
    <3>3. u \in TapRecord /\ u.sending = r.sending
          BY DEF TapRecord
    <3>5. 1 \in 1..2
          OBVIOUS
    <3> HIDE DEF u
    <3>4. Release(u, 1).sending = "runner" => u.sending = "runner"
          BY <3>3, <3>5, ReleaseWritesNothing
    <3> QED BY <1>1, <2>2, <3>1, <3>2, <3>3, <3>4
  <2> QED BY <2>1, <2>2
<1>4. CASE AttachTap /\ CanAttach
  <2>1. PICK f \in Tap : f = FreeTap
        BY <1>4 DEF FreeTap, CanAttach
  <2> QED BY <1>1, <1>4, <2>1 DEF AttachTap, NoTap
<1>5. CASE \E t \in Tap : ReadEnds(t)
  <2>1. PICK t \in Tap : ReadEnds(t)
        BY <1>5
  <2>2. PICK r \in TapRecord : r = tap[t]
        BY <1>1
  <2> DEFINE u == [r EXCEPT !.attached = FALSE, !.reading = FALSE]
             n == IF r.attached THEN 2 ELSE 1
  <2>3. tap' = [tap EXCEPT ![t] = Release(u, n)]
        BY <2>1, <2>2 DEF ReadEnds, ReadReleases
  <2>4. u \in TapRecord /\ u.sending = r.sending
        BY DEF TapRecord
  <2>5. n \in 1..2
        OBVIOUS
  <2> HIDE DEF u, n
  <2>6. Release(u, n).sending = "runner" => u.sending = "runner"
        BY <2>4, <2>5, ReleaseWritesNothing
  <2> QED BY <1>1, <2>2, <2>3, <2>4, <2>6
<1>6. CASE \E t \in Tap : PayloadWritten(t)
  <2>1. PICK t \in Tap : PayloadWritten(t)
        BY <1>6
  <2>2. tap'[t].sending = "none" /\ \A x \in Tap : x # t => tap'[x] = tap[x]
        BY <2>1, WrittenKeeps
  <2> QED BY <2>2
<1>7. CASE \E stale \in BOOLEAN : Write("user", stale) /\ raw # 0
  <2>1. PICK stale \in BOOLEAN : Write("user", stale)
        BY <1>7
  <2>2. PICK r \in TapRecord : r = tap[raw]
        BY <1>1, <1>7
  <2> DEFINE u == Payload(r, "user", stale)
  <2>3. tap' = [tap EXCEPT ![raw] = u]
        BY <2>1, <2>2 DEF Write
  <2>4. u.sending = "user"
        BY DEF Payload, TapRecord
  <2> HIDE DEF u
  <2> QED BY <1>1, <1>7, <2>3, <2>4
<1> QED BY <1>2, <1>3, <1>4, <1>5, <1>6, <1>7

\* Between two steps of a sequence its delay passes, counted from when the step
\* before was written, and none goes out while the sequence is paused.
THEOREM StepsKeepTheirDistance == Spec => SequencePaced
<1> DEFINE Paced == \A t \in Tap : /\ tap[t].sending # "runner" /\ tap'[t].sending = "runner"
                                   /\ runner.step # 0
                        => quiet = Rest /\ ~runner.paused
<1>1. IInv /\ [Next]_vars => [Paced]_vars
  <2> SUFFICES ASSUME IInv, Next PROVE Paced
      OBVIOUS
  <2>1. TapInv /\ RunnerInv
        BY DEF IInv
  <2>2. CASE RunnerSends
    <3>1. RunnerActive /\ ~runner.paused /\ runner.left = 0 /\ ~runner.awaiting
          BY <2>2 DEF RunnerSends, RunnerDue
    <3>2. runner.step # 0 => quiet + runner.left >= Rest
          BY <2>1, <3>1 DEF RunnerInv
    <3>3. quiet \in 0..Rest /\ Rest \in Nat
          BY <2>1, Bounds DEF RunnerInv
    <3>4. runner.step # 0 => quiet = Rest
          BY <3>1, <3>2, <3>3
    <3> QED BY <3>1, <3>4
  <2>3. CASE ~RunnerSends
    <3>1. \/ UNCHANGED tap
          \/ RawTapStop
          \/ AttachTap /\ CanAttach
          \/ \E t \in Tap : ReadEnds(t) \/ PayloadWritten(t)
          \/ \E stale \in BOOLEAN : Write("user", stale) /\ raw # 0
      <4>1. CASE \/ ConnectTio \/ DisconnectTio \/ ChildExited
                 \/ \E s \in Session : SpawnFailed(s)
            BY <4>1 DEF ConnectTio, DisconnectTio, ChildExited, SpawnFailed
      <4>2. CASE TryConnect \/ \E s \in Session : SpawnSucceeded(s)
            BY <4>2 DEF TryConnect, SpawnSucceeded
      <4>3. CASE SessionTick \/ DeviceChanges \/ TioExits \/ \E s \in Session : TioListens(s)
            BY <4>3 DEF SessionTick, DeviceChanges, TioExits, TioListens
      <4>4. CASE \E t \in Tap : ReadEnds(t) \/ PayloadWritten(t)
            BY <4>4
      <4>5. CASE QuickSend \/ QuickDue \/ QuickSchedule
            BY <2>1, <4>5 DEF QuickSend, QuickDue, QuickSchedule, Ready, RunnerInv
      <4>6. CASE \/ RunSequence \/ StopSequence \/ PauseSequence \/ SequenceUiTick \/ Pass
                 \/ RunnerFails \/ RunnerRests \/ RunnerEnds
            BY <4>6 DEF RunSequence, StopSequence, PauseSequence, SequenceUiTick, Pass,
                        RunnerFails, RunnerRests, RunnerEnds
      <4>7. CASE \/ LineControl \/ LinePrompt \/ OpenModbus \/ CloseModbus
                 \/ ChooseFile \/ FileSelected \/ TransferCancelled \/ TransferTimeout
                 \/ TransferConnected \/ TransferExited \/ TransferTick
            BY <4>7 DEF LineControl, LinePrompt, OpenModbus, CloseModbus, ChooseFile,
                        FileSelected, TransferCancelled, TransferTimeout,
                        TransferConnected, TransferExited, TransferTick
      <4> QED BY <2>3, <4>1, <4>2, <4>3, <4>4, <4>5, <4>6, <4>7 DEF Next
    <3>2. \A t \in Tap : tap'[t].sending = "runner" => tap[t].sending = "runner"
          BY <2>1, <3>1, OthersSendNoStep
    <3> QED BY <3>2
  <2> QED BY <2>2, <2>3
<1> QED BY <1>1, IInvHolds, PTL DEF Spec, SequencePaced
=============================================================================
