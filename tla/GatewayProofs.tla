------------------------------ MODULE GatewayProofs ------------------------------
(***************************************************************************)
(* Proofs about Gateway, for any pages and any sizes of buffer and answer. *)
(* The invariant has three threads: the operation lock keeps one request   *)
(* on its way to the agent, so that the pipe is empty when a lease ends;   *)
(* the buffer is the stretch of the stream that nobody acknowledged; and a *)
(* poll that is held is the only one, and speaks for the lease it holds.   *)
(***************************************************************************)
EXTENDS Gateway, SequenceTheorems, TLAPS

Ops == {"none", "claim", "release", "open", "close", "expire", "overflow"}
Steps == {"none", "call", "sent", "served", "ok", "stopping", "failed"}
EventRecord == [seq : Nat, of : Nat]
PageRecord == [lease : Nat \cup {-1}, cursor : Nat, got : Seq(EventRecord)]
Post == [client : Client, lease : Nat, after : Nat, held : Nat \cup {-1}]

Typed ==
    /\ owner \in Client \cup {None} /\ operation \in Actor \cup {None}
    /\ idle \in BOOLEAN /\ polling \in BOOLEAN /\ needsClose \in BOOLEAN
    /\ crashed \in BOOLEAN /\ dead \in BOOLEAN /\ strayed \in BOOLEAN
    /\ lease \in Nat /\ session \in Nat /\ emitted \in Nat /\ taken \in Nat
    /\ sequence \in Nat /\ acknowledged \in Nat /\ delivered \in Nat
    /\ fault \in {"none", "overflow", "agent"}
    /\ events \in Seq(EventRecord)
    /\ pipe \in Seq(Nat \cup {Reply})
    /\ job \in [Actor -> [op : Ops, step : Steps]]
    /\ page \in [Client -> PageRecord]
    /\ posts \in SUBSET Post

\* Who holds the lock is alone with an operation, which is a page's own or the
\* supervisor's, and the owner it found stays.
LockInv ==
    /\ \A a \in Actor : job[a] # Idle =>
           /\ operation = a /\ job[a].op # "none" /\ job[a].step # "none"
    /\ \A a \in Actor : job[a].op \in {"open", "close", "release"} => owner = a
    /\ \A a \in Actor : job[a].op \in {"expire", "overflow"} => owner # None
    /\ \A a \in Actor : job[a].op = "claim" =>
           /\ a \in Client /\ owner \in {None, a}
           /\ owner = None => job[a].step = "ok"
    /\ needsClose => owner # None

\* A session, and what the agent wrote, are of the lease in force; a reply is only
\* on the pipe while somebody waits for it or the agent is being stopped. When a
\* close returned, or failed and the agent was stopped, the pipe is empty.
AgentInv ==
    /\ session # 0 => session = lease /\ owner # None /\ ~crashed
    /\ \A i \in DOMAIN pipe : pipe[i] \in {Reply, lease}
    /\ owner = None => session = 0 /\ pipe = <<>>
    /\ \A i \in DOMAIN pipe : pipe[i] = Reply =>
           \E a \in Actor : job[a].step \in {"served", "stopping"}
    /\ \A a \in Actor :
           /\ job[a].step = "served" =>
                  \A i, j \in DOMAIN pipe : pipe[i] = Reply /\ pipe[j] = Reply => i = j
           /\ job[a].step = "served" /\ job[a].op # "open" =>
                  session = 0 /\ \A i \in DOMAIN pipe : pipe[i] = Reply => i = Len(pipe)
           /\ job[a].step = "ok" /\ job[a].op # "open" => session = 0 /\ pipe = <<>>
           /\ job[a].step = "failed" => dead /\ pipe = <<>>
           /\ job[a].step = "stopping" => dead
    /\ dead => crashed /\ (pipe = <<>> \/ \E a \in Actor : job[a].step = "stopping")

\* The buffer is the stretch of the lease's stream after what was acknowledged.
BufferInv ==
    /\ \A i \in DOMAIN events : events[i].seq = acknowledged + i /\ events[i].of = lease
    /\ sequence = acknowledged + Len(events)
    /\ acknowledged <= delivered /\ delivered <= sequence
    /\ Len(events) <= EventCount
    /\ fault = "none" => taken = sequence

\* What a page knows: the start of the stream of its lease.
PageInv ==
    \A c \in Client :
        /\ page[c].lease <= lease
        /\ page[c].lease = lease => owner = c
        /\ owner = c => page[c].lease \in {-1, lease}
        /\ job[c].op = "claim" => page[c].lease = -1
        /\ page[c].cursor = Len(page[c].got)
        /\ \A i \in DOMAIN page[c].got :
               page[c].got[i].seq = i /\ page[c].got[i].of = page[c].lease
        /\ page[c].lease = lease /\ ~strayed => acknowledged <= page[c].cursor

\* A live poll has its page's cursor and is its page's only one; a poll held in
\* this lease is the only one, from the owner, and the buffer starts at its cursor.
PostInv ==
    /\ \A p \in posts :
           /\ p.lease <= lease /\ p.held <= lease
           /\ Live(p) => p.after = page[p.client].cursor
           /\ p.held = lease => owner = p.client /\ polling /\ p.after = acknowledged
    /\ \A p, q \in posts : p.client = q.client /\ Live(p) /\ Live(q) => p = q
    /\ \A p, q \in posts : p.held = lease /\ q.held = lease => p = q

IInv == Typed /\ LockInv /\ AgentInv /\ BufferInv /\ PageInv /\ PostInv

-----------------------------------------------------------------------------
(* What the provers need of the constants and of the lock *)

LEMMA Distinct == /\ None \notin Actor /\ Supervisor \notin Client /\ None \notin Client
                  /\ Client \subseteq Actor /\ Supervisor \in Actor
                  /\ None # Supervisor
BY ActorAssumption DEF Actor

LEMMA Bounds == EventCount \in Nat /\ Batch \in Nat /\ 0 < EventCount /\ 0 < Batch
BY BoundAssumption

\* Who has an operation is alone with it.
LEMMA Alone ==
    ASSUME IInv, NEW a \in Actor, job[a] # Idle
    PROVE  \A b \in Actor : b # a => job[b] = Idle
BY DEF IInv, LockInv

LEMMA NobodyWorks ==
    ASSUME IInv, operation = None
    PROVE  \A a \in Actor : job[a] = Idle
BY Distinct DEF IInv, LockInv

\* A page that knows nothing is a page.
LEMMA NoPageTyped == NoPage \in PageRecord
BY DEF NoPage, PageRecord

LEMMA InitIInv == Init => IInv
<1> SUFFICES ASSUME Init PROVE IInv
    OBVIOUS
<1> USE Distinct, Bounds DEF Init, Idle, NoPage, Live, Reply
<1>1. Typed
  <2>1. job \in [Actor -> [op : Ops, step : Steps]]
        BY DEF Ops, Steps
  <2>2. page \in [Client -> PageRecord]
        BY NoPageTyped
  <2>3. posts \in SUBSET Post
        OBVIOUS
  <2>4. /\ idle \in BOOLEAN /\ polling \in BOOLEAN /\ needsClose \in BOOLEAN
        /\ crashed \in BOOLEAN /\ dead \in BOOLEAN /\ strayed \in BOOLEAN
        OBVIOUS
  <2>5. events \in Seq(EventRecord) /\ pipe \in Seq(Nat \cup {Reply})
        OBVIOUS
  <2> QED BY <2>1, <2>2, <2>3, <2>4, <2>5 DEF Typed
<1>2. LockInv
      BY DEF LockInv
<1>3. AgentInv
      BY DEF AgentInv
<1>4. BufferInv
      BY DEF BufferInv
<1>5. PageInv
      BY DEF PageInv
<1>6. PostInv
      BY DEF PostInv
<1> QED BY <1>1, <1>2, <1>3, <1>4, <1>5, <1>6 DEF IInv

-----------------------------------------------------------------------------
(* Operations begin *)

\* The lock is taken for an operation that waits for the agent, or for a claim of
\* what nobody owns.
LEMMA TakeKeeps ==
    ASSUME IInv, NEW a \in Actor, NEW op \in Ops \ {"none"}, NEW step \in {"call", "ok"},
           operation = None, Take(a, Job(op, step)),
           op \in {"open", "close", "release"} => owner = a,
           op \in {"expire", "overflow"} => owner # None,
           op = "claim" => a \in Client /\ owner \in {None, a} /\ (owner = None => step = "ok"),
           step = "ok" => op = "claim" /\ owner = None,
           UNCHANGED <<owner, lease, agent>>, needsClose' => needsClose
    PROVE  /\ LockInv' /\ AgentInv'
           /\ job' \in [Actor -> [op : Ops, step : Steps]] /\ operation' = a
           /\ \A b \in Actor : job'[b].op \in {"none", op}
           /\ \A b \in Actor : job'[b].op # "none" => b = a
<1>1. \A b \in Actor : job[b] = Idle
      BY NobodyWorks
<1>2. /\ job' \in [Actor -> [op : Ops, step : Steps]] /\ operation' = a
      /\ job'[a].op = op /\ job'[a].step = step
      /\ \A b \in Actor : b # a => job'[b] = Idle
      BY <1>1 DEF Take, Job, IInv, Typed, Ops, Steps
<1>3. LockInv'
      BY <1>2, Distinct DEF LockInv, IInv, Idle, Ops
<1>4. AgentInv'
      BY <1>1, <1>2 DEF AgentInv, IInv, Idle, agent
<1> QED BY <1>2, <1>3, <1>4 DEF Idle

LEMMA ClaimKeeps == ASSUME IInv, NEW c \in Client, Claim(c) PROVE IInv'
<1>1. /\ operation = None /\ ~Open(c) /\ owner \in {None, c}
      /\ Take(c, Job("claim", IF owner = c THEN "call" ELSE "ok"))
      /\ UNCHANGED <<control, stream, agent, browser>>
      BY DEF Claim
<1>2. /\ LockInv' /\ AgentInv' /\ job' \in [Actor -> [op : Ops, step : Steps]]
      /\ operation' = c /\ \A b \in Actor : job'[b].op # "none" => b = c
  <2> DEFINE step == IF owner = c THEN "call" ELSE "ok"
  <2>1. c \in Actor /\ "claim" \in Ops \ {"none"} /\ step \in {"call", "ok"}
        BY Distinct DEF Ops
  <2>2. step = "ok" => owner = None
        BY <1>1
  <2>3. owner = None => step = "ok"
        BY Distinct
  <2>4. UNCHANGED <<owner, lease, agent>> /\ needsClose' = needsClose
        BY <1>1 DEF control, stream
  <2>5. Take(c, Job("claim", step))
        BY <1>1
  <2> HIDE DEF step
  <2> QED BY <1>1, <2>1, <2>2, <2>3, <2>4, <2>5, TakeKeeps
<1>3. Typed'
      BY <1>1, <1>2, Distinct DEF IInv, Typed, control, stream, agent, browser
<1>4. BufferInv'
      BY <1>1 DEF IInv, BufferInv, control, stream
<1>5. PageInv'
      BY <1>1, <1>2, Distinct DEF IInv, PageInv, control, stream, browser, Open
<1>6. PostInv'
      BY <1>1 DEF IInv, PostInv, control, stream, browser, Live
<1> QED BY <1>2, <1>3, <1>4, <1>5, <1>6 DEF IInv

\* A page forgets its lease, or does not, and polls may be answered.
LEMMA PageClosed ==
    ASSUME IInv, NEW c \in Client, page' \in {page, [page EXCEPT ![c] = NoPage]},
           UNCHANGED <<lease, owner, strayed, acknowledged, polling>>, posts' \subseteq posts,
           \A b \in Client : job'[b].op = "claim" => job[b].op = "claim"
    PROVE  page' \in [Client -> PageRecord] /\ PageInv' /\ PostInv'
<1>1. page' \in [Client -> PageRecord]
      BY NoPageTyped DEF IInv, Typed
<1>2. \A b \in Client : page'[b] = page[b] \/ page'[b] = NoPage
      BY DEF IInv, Typed
<1>3. NoPage.lease = -1 /\ NoPage.cursor = 0 /\ NoPage.got = <<>>
      BY DEF NoPage
<1>4. lease \in Nat
      BY DEF IInv, Typed
<1>5. PageInv'
      BY <1>2, <1>3, <1>4 DEF IInv, PageInv
<1>6. PostInv'
  <2>1. \A p \in posts : p \in Post
        BY DEF IInv, Typed
  <2>2. \A p \in posts : Live(p)' => Live(p) /\ page'[p.client] = page[p.client]
        BY <1>2, <1>3, <2>1 DEF Live, Post
  <2> QED BY <2>2 DEF IInv, PostInv
<1> QED BY <1>1, <1>5, <1>6

LEMMA ReleaseKeeps == ASSUME IInv, NEW c \in Client, Release(c) PROVE IInv'
<1>1. /\ operation = None /\ owner = c /\ idle' = FALSE /\ Take(c, Job("release", "call"))
      /\ page' \in {page, [page EXCEPT ![c] = NoPage]}
      /\ UNCHANGED <<owner, lease, stream, agent, posts, strayed>>
      BY DEF Release
<1>2. /\ LockInv' /\ AgentInv' /\ job' \in [Actor -> [op : Ops, step : Steps]]
      /\ operation' = c /\ \A b \in Actor : job'[b].op # "claim"
  <2>1. c \in Actor /\ "release" \in Ops \ {"none"} /\ "call" \in {"call", "ok"}
        BY Distinct DEF Ops
  <2>2. UNCHANGED <<owner, lease, agent>> /\ needsClose' = needsClose
        BY <1>1 DEF stream
  <2> QED BY <1>1, <2>1, <2>2, TakeKeeps
<1>3. page' \in [Client -> PageRecord] /\ PageInv' /\ PostInv'
      BY <1>1, <1>2, Distinct, PageClosed DEF stream
<1>4. Typed'
      BY <1>1, <1>2, <1>3, Distinct DEF IInv, Typed, stream, agent
<1>5. BufferInv'
      BY <1>1 DEF IInv, BufferInv, stream
<1> QED BY <1>2, <1>3, <1>4, <1>5 DEF IInv

LEMMA RequestKeeps ==
    ASSUME IInv, NEW c \in Client, NEW op \in {"open", "close"}, Request(c, op) PROVE IInv'
<1>1. /\ operation = None /\ owner = c /\ idle' = FALSE
      /\ UNCHANGED <<owner, lease, stream, agent, browser>>
      BY DEF Request
<1>2. LockInv' /\ AgentInv' /\ job' \in [Actor -> [op : Ops, step : Steps]]
      /\ operation' \in Actor \cup {None}
      /\ \A b \in Actor : job'[b].op # "claim"
  <2>1. CASE UNCHANGED work
    <3>1. \A b \in Actor : job[b] = Idle
          BY <1>1, NobodyWorks
    <3> QED BY <1>1, <2>1, <3>1 DEF IInv, Typed, LockInv, AgentInv, stream, agent, work, Idle
  <2>2. CASE Take(c, Job(op, "call"))
    <3>1. c \in Actor /\ op \in Ops \ {"none"} /\ "call" \in {"call", "ok"} /\ op # "claim"
          /\ op \notin {"expire", "overflow"}
          BY Distinct DEF Ops
    <3>2. UNCHANGED <<owner, lease, agent>> /\ needsClose' = needsClose
          BY <1>1 DEF stream
    <3> QED BY <1>1, <2>2, <3>1, <3>2, TakeKeeps
  <2> QED BY <2>1, <2>2 DEF Request
<1>3. Typed'
      BY <1>1, <1>2 DEF IInv, Typed, stream, agent, browser
<1>4. BufferInv'
      BY <1>1 DEF IInv, BufferInv, stream
<1>5. PageInv'
      BY <1>1, <1>2, Distinct DEF IInv, PageInv, stream, browser
<1>6. PostInv'
      BY <1>1 DEF IInv, PostInv, stream, browser, Live
<1> QED BY <1>2, <1>3, <1>4, <1>5, <1>6 DEF IInv

LEMMA SuperviseKeeps == ASSUME IInv, Supervise PROVE IInv'
<1> DEFINE op == IF owner # None /\ idle THEN "expire" ELSE "overflow"
<1>1. /\ operation = None /\ (needsClose \/ (owner # None /\ idle))
      /\ needsClose' = FALSE /\ Take(Supervisor, Job(op, "call"))
      /\ UNCHANGED <<control, events, sequence, acknowledged, delivered, polling,
                     fault, taken, agent, browser>>
      BY DEF Supervise
<1>2. /\ LockInv' /\ AgentInv' /\ job' \in [Actor -> [op : Ops, step : Steps]]
      /\ operation' = Supervisor /\ \A b \in Actor : job'[b].op # "claim"
  <2>1. /\ Supervisor \in Actor /\ op \in Ops \ {"none"} /\ "call" \in {"call", "ok"}
        /\ op \in {"expire", "overflow"}
        BY Distinct DEF Ops
  <2>2. UNCHANGED <<owner, lease, agent>> /\ (needsClose' => needsClose)
        BY <1>1 DEF control
  <2>3. owner # None
        BY <1>1 DEF IInv, LockInv
  <2>4. /\ op \in {"open", "close", "release"} => owner = Supervisor
        /\ op # "claim" /\ "call" # "ok"
        BY <2>1
  <2>5. Take(Supervisor, Job(op, "call")) /\ operation = None
        BY <1>1
  <2> HIDE DEF op
  <2>6. /\ LockInv' /\ AgentInv' /\ job' \in [Actor -> [op : Ops, step : Steps]]
        /\ operation' = Supervisor /\ \A b \in Actor : job'[b].op \in {"none", op}
        BY <2>1, <2>2, <2>3, <2>4, <2>5, TakeKeeps
  <2> QED BY <2>4, <2>6
<1>3. needsClose' \in BOOLEAN
      BY <1>1
<1> HIDE DEF op
<1>4. Typed'
      BY <1>1, <1>2, <1>3, Distinct DEF IInv, Typed, control, agent, browser
<1>5. BufferInv'
      BY <1>1 DEF IInv, BufferInv, control
<1>6. PageInv'
      BY <1>1, <1>2, Distinct DEF IInv, PageInv, control, browser
<1>7. PostInv'
      BY <1>1 DEF IInv, PostInv, control, browser, Live
<1> QED BY <1>2, <1>4, <1>5, <1>6, <1>7 DEF IInv

-----------------------------------------------------------------------------
(* Calls of the agent *)

\* A step of an operation: nobody else has one, and it stays the same operation.
LEMMA Moved ==
    ASSUME IInv, NEW a \in Actor, job[a].step # "none", NEW step \in Steps \ {"none"},
           job' = [job EXCEPT ![a].step = step]
    PROVE  /\ job' \in [Actor -> [op : Ops, step : Steps]]
           /\ job'[a].op = job[a].op /\ job'[a].step = step /\ job[a].op \in Ops \ {"none"}
           /\ \A b \in Actor : b # a => job'[b] = Idle /\ job[b] = Idle
           /\ \A b \in Actor : job'[b].op = job[b].op
           /\ operation = a
<1>1. job[a] # Idle
      BY DEF Idle
<1>2. \A b \in Actor : b # a => job[b] = Idle
      BY <1>1, Alone
<1>3. /\ job' \in [Actor -> [op : Ops, step : Steps]]
      /\ job'[a].op = job[a].op /\ job'[a].step = step
      /\ \A b \in Actor : b # a => job'[b] = job[b]
      BY DEF IInv, Typed, Ops, Steps
<1>4. job[a].op \in Ops \ {"none"} /\ operation = a
      BY <1>1 DEF IInv, Typed, LockInv
<1> QED BY <1>2, <1>3, <1>4

\* What such a step leaves alone.
LEMMA MovedKeeps ==
    ASSUME IInv, NEW a \in Actor, job[a].step # "none", NEW step \in Steps \ {"none"},
           job' = [job EXCEPT ![a].step = step],
           job[a].op = "claim" /\ owner = None => step = "ok",
           UNCHANGED <<control, operation, browser, events, sequence, acknowledged,
                       delivered, polling, needsClose, taken>>,
           fault' \in {fault, "agent"}
    PROVE  LockInv' /\ BufferInv' /\ PageInv' /\ PostInv'
<1> USE Moved DEF IInv, control, browser
<1>1. LockInv'
      BY DEF LockInv, Idle
<1>2. BufferInv'
      BY DEF BufferInv
<1>3. PageInv'
      BY Distinct DEF PageInv
<1>4. PostInv'
      BY DEF PostInv, Live
<1> QED BY <1>1, <1>2, <1>3, <1>4

LEMMA CallKeeps == ASSUME IInv, NEW a \in Actor, Call(a) PROVE IInv'
<1> DEFINE step == IF dead THEN "failed" ELSE "sent"
<1>1. /\ job[a].step = "call" /\ job' = [job EXCEPT ![a].step = step]
      /\ UNCHANGED <<control, stream, operation, agent, browser>>
      BY DEF Call
<1>2. step \in Steps \ {"none"} /\ (step = "failed" => dead) /\ step \in {"failed", "sent"}
      BY DEF Steps
<1>3. ~(job[a].op = "claim" /\ owner = None)
      BY <1>1 DEF IInv, LockInv
<1>4. \A b \in Actor : b # a => job[b] = Idle
      BY <1>1, Alone DEF Idle
<1> HIDE DEF step
<1>5. LockInv' /\ BufferInv' /\ PageInv' /\ PostInv'
      BY <1>1, <1>2, <1>3, MovedKeeps DEF stream
<1>6. Typed'
      BY <1>1, <1>2, Moved DEF IInv, Typed, control, stream, agent, browser
<1>7. AgentInv'
  <2>1. \A b \in Actor : job[b].step \notin {"served", "stopping"}
        BY <1>1, <1>4 DEF Idle
  <2> QED BY <1>1, <1>2, <1>4, <2>1, Moved DEF IInv, AgentInv, Idle, control, agent
<1> QED BY <1>5, <1>6, <1>7 DEF IInv

LEMMA StoppedKeeps == ASSUME IInv, NEW a \in Actor, Stopped(a) PROVE IInv'
<1>1. /\ job[a].step = "stopping" /\ pipe = <<>> /\ job' = [job EXCEPT ![a].step = "failed"]
      /\ UNCHANGED <<control, stream, operation, agent, browser>>
      BY DEF Stopped
<1>2. "failed" \in Steps \ {"none"}
      BY DEF Steps
<1>3. ~(job[a].op = "claim" /\ owner = None)
      BY <1>1 DEF IInv, LockInv
<1>5. LockInv' /\ BufferInv' /\ PageInv' /\ PostInv'
      BY <1>1, <1>2, <1>3, MovedKeeps DEF stream
<1>6. Typed'
      BY <1>1, <1>2, Moved DEF IInv, Typed, control, stream, agent, browser
<1>7. AgentInv'
      BY <1>1, <1>2, Moved DEF IInv, AgentInv, Idle, control, agent
<1> QED BY <1>5, <1>6, <1>7 DEF IInv

LEMMA CallFailsKeeps == ASSUME IInv, NEW a \in Actor, CallFails(a) PROVE IInv'
<1>1. /\ job[a].step \in {"sent", "served"} /\ AgentLost
      /\ crashed' = TRUE /\ session' = 0 /\ job' = [job EXCEPT ![a].step = "stopping"]
      /\ UNCHANGED <<control, operation, pipe, emitted, browser>>
      BY DEF CallFails
<1>2. "stopping" \in Steps \ {"none"}
      BY DEF Steps
<1>3. ~(job[a].op = "claim" /\ owner = None)
      BY <1>1 DEF IInv, LockInv
<1>4. /\ dead' = TRUE /\ fault' \in {fault, "agent"}
      /\ UNCHANGED <<events, sequence, acknowledged, delivered, polling, needsClose, taken>>
      BY <1>1 DEF AgentLost
<1>5. LockInv' /\ BufferInv' /\ PageInv' /\ PostInv'
      BY <1>1, <1>2, <1>3, <1>4, MovedKeeps
<1>6. Typed'
  <2>1. crashed' \in BOOLEAN /\ dead' \in BOOLEAN /\ session' \in Nat
        BY <1>1, <1>4
  <2>2. fault' \in {"none", "overflow", "agent"}
        BY <1>4 DEF IInv, Typed
  <2> QED BY <1>1, <1>2, <1>4, <2>1, <2>2, Moved DEF IInv, Typed, control, browser
<1>7. AgentInv'
  <2>0. job[a].step # "none"
        BY <1>1
  <2>1. job'[a].step = "stopping" /\ \A b \in Actor : b # a => job'[b].step = "none"
    <3>1. job'[a].step = "stopping" /\ \A b \in Actor : b # a => job'[b] = Idle
          BY <1>1, <1>2, <2>0, Moved
    <3> QED BY <3>1 DEF Idle
  <2>2. dead' /\ crashed' /\ session' = 0 /\ pipe' = pipe /\ owner' = owner /\ lease' = lease
        BY <1>1, <1>4 DEF control
  <2> QED BY <2>1, <2>2 DEF IInv, AgentInv
<1> QED BY <1>5, <1>6, <1>7 DEF IInv

-----------------------------------------------------------------------------
(* The agent and the reader *)

\* What is written comes after what was on the pipe.
LEMMA Written ==
    ASSUME IInv, NEW lines \in Seq(Nat \cup {Reply}), Output(lines)
    PROVE  /\ pipe' \in Seq(Nat \cup {Reply}) /\ Len(pipe') = Len(pipe) + Len(lines)
           /\ Len(pipe) \in Nat /\ Len(lines) \in Nat
           /\ \A i \in DOMAIN pipe' :
                  \/ i \in DOMAIN pipe /\ pipe'[i] = pipe[i]
                  \/ i - Len(pipe) \in DOMAIN lines /\ pipe'[i] = lines[i - Len(pipe)]
BY DEF IInv, Typed, Output

\* The agent changes nothing that the gateway and the pages hold.
LEMMA AgentAlone ==
    ASSUME IInv, UNCHANGED <<control, stream, operation, browser>>,
           \A b \in Actor : job'[b].op = job[b].op, LockInv'
    PROVE  BufferInv' /\ PageInv' /\ PostInv'
<1> USE DEF IInv, control, stream, browser
<1>1. BufferInv'
      BY DEF BufferInv
<1>2. PageInv'
      BY Distinct DEF PageInv
<1>3. PostInv'
      BY DEF PostInv, Live
<1> QED BY <1>1, <1>2, <1>3

LEMMA ServeKeeps == ASSUME IInv, NEW a \in Actor, Serve(a) PROVE IInv'
<1> DEFINE lines == IF job[a].op = "open" THEN <<Reply>> ELSE Append(Closing, Reply)
<1>1. /\ job[a].step = "sent" /\ ~crashed /\ job' = [job EXCEPT ![a].step = "served"]
      /\ UNCHANGED <<control, stream, operation, crashed, dead, browser>>
      /\ Output(lines) /\ emitted' \in Nat
      /\ IF job[a].op = "open"
         THEN session' \in (IF session = 0 THEN {0, lease} ELSE {session})
         ELSE session' = 0
  <2>1. Len(Closing) \in Nat
        BY DEF Closing
  <2> QED BY <2>1 DEF Serve, IInv, Typed
<1>2. /\ lines \in Seq(Nat \cup {Reply}) /\ Len(lines) \in Nat
      /\ \A k \in DOMAIN lines : lines[k] \in {Reply, lease} /\ (lines[k] = Reply => k = Len(lines))
  <2>1. lease \in Nat /\ (session # 0 => session = lease)
        BY DEF IInv, Typed, AgentInv
  <2>2. lines = <<Reply>> \/ (session # 0 /\ lines = Append(<<session>>, Reply))
    <3>1. CASE session = 0
          BY <3>1 DEF Closing
    <3>2. CASE session # 0
          BY <3>2 DEF Closing
    <3> QED BY <3>1, <3>2
  <2> HIDE DEF lines
  <2>3. CASE lines = <<Reply>>
    <3>1. Len(lines) = 1 /\ DOMAIN lines = 1..1 /\ lines[1] = Reply
          BY <2>3
    <3>2. lines \in Seq(Nat \cup {Reply})
          BY <2>3
    <3> QED BY <3>1, <3>2
  <2>4. CASE session # 0 /\ lines = Append(<<session>>, Reply)
    <3>1. Len(lines) = 2 /\ DOMAIN lines = 1..2 /\ lines[1] = session /\ lines[2] = Reply
          BY <2>4
    <3>2. lines \in Seq(Nat \cup {Reply})
          BY <2>1, <2>4
    <3>3. session = lease /\ session # Reply
          BY <2>1, <2>4 DEF Reply
    <3> QED BY <3>1, <3>2, <3>3
  <2> QED BY <2>2, <2>3, <2>4
<1> HIDE DEF lines
<1>3. job[a].step # "none" /\ "served" \in Steps \ {"none"}
      BY <1>1 DEF Steps
<1>4. /\ job' \in [Actor -> [op : Ops, step : Steps]]
      /\ job'[a].op = job[a].op /\ job'[a].step = "served"
      /\ \A b \in Actor : b # a => job'[b] = Idle /\ job[b] = Idle
      /\ \A b \in Actor : job'[b].op = job[b].op
      BY <1>1, <1>3, Moved
<1>5. LockInv' /\ BufferInv' /\ PageInv' /\ PostInv'
  <2>1. ~(job[a].op = "claim" /\ owner = None)
        BY <1>1 DEF IInv, LockInv
  <2> QED BY <1>1, <1>3, <2>1, MovedKeeps DEF stream
<1>6. Typed'
  <2>1. pipe' \in Seq(Nat \cup {Reply})
        BY <1>1, <1>2, Written
  <2>2. session' \in Nat
        BY <1>1 DEF IInv, Typed
  <2> QED BY <1>1, <1>4, <2>1, <2>2 DEF IInv, Typed, control, stream, browser
<1>7. AgentInv'
  <2>1. \A b \in Actor : job[b].step \notin {"served", "stopping"}
        BY <1>1, <1>4 DEF Idle
  <2>2. \A i \in DOMAIN pipe : pipe[i] # Reply /\ pipe[i] = lease
        BY <2>1 DEF IInv, AgentInv
  <2>3. \A i \in DOMAIN pipe' : pipe'[i] \in {Reply, lease} /\ (pipe'[i] = Reply => i = Len(pipe'))
    <3> TAKE i \in DOMAIN pipe'
    <3>1. CASE i \in DOMAIN pipe /\ pipe'[i] = pipe[i]
          BY <2>2, <3>1
    <3>2. CASE i - Len(pipe) \in DOMAIN lines /\ pipe'[i] = lines[i - Len(pipe)]
      <4>1. i \in Nat /\ Len(pipe) \in Nat /\ Len(pipe') = Len(pipe) + Len(lines)
            BY <1>1, <1>2, Written
      <4> QED BY <1>2, <3>2, <4>1
    <3> QED BY <1>1, <1>2, <3>1, <3>2, Written
  <2>4. ~dead /\ owner # None
    <3>1. job[a].op # "none"
          BY <1>1 DEF IInv, LockInv, Idle
    <3>2. job[a].op \in Ops
          BY DEF IInv, Typed
    <3> QED BY <1>1, <3>1, <3>2, Distinct DEF IInv, LockInv, AgentInv, Ops
  <2>5. session' # 0 => session' = lease /\ job[a].op = "open"
        BY <1>1 DEF IInv, AgentInv
  <2>6. \A b \in Actor : b # a => job'[b].step = "none"
        BY <1>4 DEF Idle
  <2>7. \A i, j \in DOMAIN pipe' : pipe'[i] = Reply /\ pipe'[j] = Reply => i = j
        BY <2>3
  <2> QED BY <1>1, <1>4, <2>3, <2>4, <2>5, <2>6, <2>7 DEF AgentInv, control
<1> QED BY <1>5, <1>6, <1>7 DEF IInv

LEMMA AgentEmitsKeeps == ASSUME IInv, AgentEmits PROVE IInv'
<1>1. /\ session # 0 /\ Output(<<session>>) /\ session' \in {session, 0}
      /\ emitted' = emitted + 1
      /\ UNCHANGED <<control, stream, work, crashed, dead, browser>>
      BY DEF AgentEmits
<1>2. /\ session = lease /\ owner # None /\ ~crashed /\ ~dead /\ lease \in Nat
      /\ <<session>> \in Seq(Nat \cup {Reply}) /\ lease # Reply
      BY <1>1 DEF IInv, Typed, AgentInv, Reply
<1>3. LockInv'
      BY <1>1 DEF IInv, LockInv, control, stream, work
<1>4. BufferInv' /\ PageInv' /\ PostInv'
      BY <1>1, <1>3, AgentAlone DEF work
<1>5. /\ pipe' \in Seq(Nat \cup {Reply}) /\ Len(pipe') = Len(pipe) + 1
      /\ \A i \in DOMAIN pipe' :
             \/ i \in DOMAIN pipe /\ pipe'[i] = pipe[i]
             \/ pipe'[i] = lease
  <2> DEFINE lines == <<session>>
  <2>1. lines \in Seq(Nat \cup {Reply}) /\ Len(lines) = 1 /\ DOMAIN lines = 1..1
        /\ lines[1] = lease /\ Output(lines)
        BY <1>1, <1>2
  <2> HIDE DEF lines
  <2>2. /\ pipe' \in Seq(Nat \cup {Reply}) /\ Len(pipe') = Len(pipe) + 1 /\ Len(pipe) \in Nat
        /\ \A i \in DOMAIN pipe' :
               \/ i \in DOMAIN pipe /\ pipe'[i] = pipe[i]
               \/ i - Len(pipe) \in DOMAIN lines /\ pipe'[i] = lines[i - Len(pipe)]
        BY <2>1, Written
  <2>3. \A k \in DOMAIN lines : lines[k] = lease
        BY <2>1
  <2> QED BY <2>2, <2>3
<1>6. Typed'
  <2>1. session' \in Nat /\ emitted' \in Nat
        BY <1>1 DEF IInv, Typed
  <2> QED BY <1>1, <1>5, <2>1 DEF IInv, Typed, control, stream, work, browser
<1>7. AgentInv'
  <2>1. \A b \in Actor : /\ job[b].step = "served" => job[b].op = "open"
                         /\ job[b].step = "ok" => job[b].op = "open"
                         /\ job[b].step # "failed" /\ job[b].step # "stopping"
        BY <1>1, <1>2 DEF IInv, AgentInv
  <2> QED BY <1>1, <1>2, <1>5, <2>1 DEF IInv, AgentInv, control, work
<1> QED BY <1>3, <1>4, <1>6, <1>7 DEF IInv

LEMMA AgentCrashesKeeps == ASSUME IInv, AgentCrashes PROVE IInv'
<1>1. /\ crashed' = TRUE /\ session' = 0
      /\ UNCHANGED <<control, stream, work, pipe, dead, emitted, browser>>
      BY DEF AgentCrashes
<1>3. LockInv'
      BY <1>1 DEF IInv, LockInv, control, stream, work
<1>4. BufferInv' /\ PageInv' /\ PostInv'
      BY <1>1, <1>3, AgentAlone DEF work
<1>5. Typed'
  <2>1. crashed' \in BOOLEAN /\ session' \in Nat
        BY <1>1
  <2> QED BY <1>1, <2>1 DEF IInv, Typed, control, stream, work, browser
<1>6. AgentInv'
      BY <1>1 DEF IInv, AgentInv, control, work
<1> QED BY <1>3, <1>4, <1>5, <1>6 DEF IInv

LEMMA ReadEndKeeps == ASSUME IInv, ReadEnd PROVE IInv'
<1>1. /\ crashed /\ pipe = <<>> /\ dead' = TRUE /\ fault' \in {fault, "agent"}
      /\ UNCHANGED <<events, sequence, acknowledged, delivered, polling, needsClose, taken>>
      /\ UNCHANGED <<control, work, session, pipe, crashed, emitted, browser>>
      BY DEF ReadEnd, AgentLost
<1>2. LockInv'
      BY <1>1 DEF IInv, LockInv, control, work
<1>3. BufferInv'
      BY <1>1 DEF IInv, BufferInv, control
<1>4. PageInv'
      BY <1>1, Distinct DEF IInv, PageInv, control, browser, work
<1>5. PostInv'
      BY <1>1 DEF IInv, PostInv, Live, control, browser
<1>6. Typed'
  <2>1. dead' \in BOOLEAN /\ fault' \in {"none", "overflow", "agent"}
        BY <1>1 DEF IInv, Typed
  <2> QED BY <1>1, <2>1 DEF IInv, Typed, control, work, browser
<1>7. AgentInv'
      BY <1>1 DEF IInv, AgentInv, control, work
<1> QED BY <1>2, <1>3, <1>4, <1>5, <1>6, <1>7 DEF IInv

LEMMA LeaseTimesOutKeeps == ASSUME IInv, LeaseTimesOut PROVE IInv'
<1>1. idle' \in BOOLEAN /\ UNCHANGED <<owner, lease, stream, agent, browser, work>>
      BY DEF LeaseTimesOut
<1>2. Typed'
      BY <1>1 DEF IInv, Typed, stream, agent, browser, work
<1>3. LockInv'
      BY <1>1 DEF IInv, LockInv, stream, work
<1>4. AgentInv'
      BY <1>1 DEF IInv, AgentInv, agent, work
<1>5. BufferInv'
      BY <1>1 DEF IInv, BufferInv, stream
<1>6. PageInv'
      BY <1>1, Distinct DEF IInv, PageInv, stream, browser, work
<1>7. PostInv'
      BY <1>1 DEF IInv, PostInv, Live, stream, browser
<1> QED BY <1>2, <1>3, <1>4, <1>5, <1>6, <1>7 DEF IInv

\* An event is buffered after those that are, or the lease has a fault.
LEMMA BufferKeeps ==
    ASSUME IInv, Buffer(lease), lease' = lease
    PROVE  /\ BufferInv' /\ events' \in Seq(EventRecord) /\ fault' \in {"none", "overflow", "agent"}
           /\ sequence' \in Nat /\ taken' \in Nat /\ needsClose' \in BOOLEAN
           /\ needsClose' => needsClose \/ owner # None
           /\ UNCHANGED <<acknowledged, delivered, polling>>
<1>1. /\ sequence \in Nat /\ taken \in Nat /\ acknowledged \in Nat /\ lease \in Nat
      /\ delivered \in Nat /\ events \in Seq(EventRecord) /\ Len(events) \in Nat
      /\ sequence = acknowledged + Len(events) /\ Len(events) <= EventCount
      /\ acknowledged <= delivered /\ delivered <= sequence
      BY DEF IInv, Typed, BufferInv
<1>2. UNCHANGED <<acknowledged, delivered, polling>> /\ taken' = taken + (IF owner = None THEN 0 ELSE 1)
      BY DEF Buffer
<1>3. CASE owner = None \/ fault # "none"
  <2>1. UNCHANGED <<events, sequence, fault, needsClose>>
        BY <1>3 DEF Buffer
  <2>2. fault = "none" => taken' = sequence
        BY <1>2, <1>3 DEF IInv, Typed, BufferInv
  <2>3. BufferInv'
        BY <1>2, <2>1, <2>2 DEF IInv, BufferInv
  <2> QED BY <1>1, <1>2, <2>1, <2>3 DEF IInv, Typed
<1>4. CASE ~(owner = None \/ fault # "none") /\ Len(events) >= EventCount
  <2>1. fault' = "overflow" /\ needsClose' = TRUE /\ UNCHANGED <<events, sequence>>
        BY <1>4 DEF Buffer
  <2>2. BufferInv'
        BY <1>2, <2>1 DEF IInv, BufferInv
  <2>3. needsClose' \in BOOLEAN
        BY <2>1
  <2> QED BY <1>1, <1>2, <1>4, <2>1, <2>2, <2>3
<1>5. CASE ~(owner = None \/ fault # "none") /\ ~(Len(events) >= EventCount)
  <2> DEFINE e == [seq |-> sequence + 1, of |-> lease]
  <2>1. /\ sequence' = sequence + 1 /\ events' = Append(events, e)
        /\ UNCHANGED <<fault, needsClose>>
        BY <1>5 DEF Buffer
  <2>2. e \in EventRecord /\ e.seq = sequence + 1 /\ e.of = lease
        BY <1>1 DEF EventRecord
  <2> HIDE DEF e
  <2>3. /\ events' \in Seq(EventRecord) /\ Len(events') = Len(events) + 1
        /\ \A i \in 1..Len(events) : events'[i] = events[i]
        /\ events'[Len(events) + 1] = e
        BY <1>1, <2>1, <2>2
  <2>4. ASSUME NEW i \in DOMAIN events'
        PROVE  events'[i].seq = acknowledged + i /\ events'[i].of = lease
    <3>1. CASE i \in 1..Len(events)
          BY <1>1, <2>3, <3>1 DEF IInv, BufferInv
    <3>2. CASE i = Len(events) + 1
          BY <1>1, <2>2, <2>3, <3>2
    <3> QED BY <1>1, <2>3, <3>1, <3>2
  <2>5. /\ sequence' = acknowledged' + Len(events') /\ acknowledged' <= delivered'
        /\ delivered' <= sequence' /\ Len(events') <= EventCount
        BY <1>1, <1>2, <1>5, <2>1, <2>3, Bounds
  <2>6. taken' = sequence'
        BY <1>1, <1>2, <1>5, <2>1 DEF IInv, BufferInv
  <2>7. BufferInv'
        BY <1>2, <2>4, <2>5, <2>6 DEF BufferInv
  <2>8. needsClose' \in BOOLEAN /\ fault' \in {"none", "overflow", "agent"}
        BY <2>1 DEF IInv, Typed
  <2> QED BY <1>1, <1>2, <2>1, <2>3, <2>7, <2>8
<1> QED BY <1>3, <1>4, <1>5

\* What is behind the first line of the pipe.
LEMMA PipeTail ==
    ASSUME IInv, pipe # <<>>, pipe' = Tail(pipe)
    PROVE  /\ pipe' \in Seq(Nat \cup {Reply}) /\ Len(pipe) \in Nat /\ Len(pipe) > 0
           /\ Len(pipe') = Len(pipe) - 1 /\ 1 \in DOMAIN pipe /\ Head(pipe) = pipe[1]
           /\ \A i \in DOMAIN pipe' : i + 1 \in DOMAIN pipe /\ pipe'[i] = pipe[i + 1] /\ i + 1 # 1
BY DEF IInv, Typed

LEMMA ReadKeeps == ASSUME IInv, Read PROVE IInv'
<1>1. /\ pipe # <<>> /\ pipe' = Tail(pipe)
      /\ UNCHANGED <<control, operation, session, crashed, dead, emitted, browser>>
      BY DEF Read
<1>2. /\ pipe' \in Seq(Nat \cup {Reply}) /\ Len(pipe) \in Nat /\ Len(pipe) > 0
      /\ Len(pipe') = Len(pipe) - 1 /\ 1 \in DOMAIN pipe /\ Head(pipe) = pipe[1]
      /\ \A i \in DOMAIN pipe' : i + 1 \in DOMAIN pipe /\ pipe'[i] = pipe[i + 1] /\ i + 1 # 1
      BY <1>1, PipeTail
<1>3. \A i \in DOMAIN pipe' : pipe'[i] \in {Reply, lease}
      BY <1>2 DEF IInv, AgentInv
<1>4. owner # None
      BY <1>1 DEF IInv, AgentInv
<1>5. \A b \in Actor : /\ job[b].step = "ok" => job[b].op = "open"
                       /\ job[b].step # "failed"
      BY <1>1 DEF IInv, AgentInv
<1>6. CASE Head(pipe) = Reply
  <2>1. PICK a \in Actor : job[a].step \in {"served", "stopping"}
        BY <1>2, <1>6 DEF IInv, AgentInv
  <2>2. \A b \in Actor : b # a => job[b] = Idle
        BY <2>1, Alone DEF Idle
  <2>3. /\ job' = [b \in Actor |-> IF job[b].step = "served"
                                   THEN [job[b] EXCEPT !.step = "ok"] ELSE job[b]]
        /\ UNCHANGED stream
        BY <1>6 DEF Read
  <2>4. CASE job[a].step = "served"
    <3>1. job' = [job EXCEPT ![a].step = "ok"]
      <4>1. job \in [Actor -> [op : Ops, step : Steps]]
            BY DEF IInv, Typed
      <4>2. \A b \in Actor : b # a => job[b].step # "served"
            BY <2>2 DEF Idle
      <4> QED BY <2>3, <2>4, <4>1, <4>2
    <3>2. job[a].step # "none" /\ "ok" \in Steps \ {"none"}
          BY <2>4 DEF Steps
    <3>3. /\ job' \in [Actor -> [op : Ops, step : Steps]]
          /\ job'[a].op = job[a].op /\ job'[a].step = "ok"
          /\ \A b \in Actor : b # a => job'[b] = Idle /\ job[b] = Idle
          BY <3>1, <3>2, Moved
    <3>4. LockInv' /\ BufferInv' /\ PageInv' /\ PostInv'
          BY <1>1, <2>3, <3>1, <3>2, MovedKeeps DEF stream
    <3>5. Typed'
          BY <1>1, <1>2, <2>3, <3>3 DEF IInv, Typed, control, stream, browser
    <3>6. \A i \in DOMAIN pipe' : pipe'[i] # Reply
          BY <1>2, <1>6, <2>4 DEF IInv, AgentInv
    <3>7. job[a].op # "open" => session = 0 /\ Len(pipe) = 1
          BY <1>2, <1>6, <2>4 DEF IInv, AgentInv
    <3>8. job[a].op # "open" => pipe' = <<>>
          BY <1>2, <3>7
    <3>9. ~dead
          BY <1>1, <2>2, <2>4 DEF IInv, AgentInv, Idle
    <3>10. \A b \in Actor : b # a => job'[b].step = "none"
           BY <3>3 DEF Idle
    <3>11. AgentInv'
           BY <1>1, <1>3, <1>4, <3>3, <3>6, <3>7, <3>8, <3>9, <3>10 DEF IInv, AgentInv, control
    <3> QED BY <3>4, <3>5, <3>11 DEF IInv
  <2>5. CASE job[a].step = "stopping"
    <3>1. \A b \in Actor : job[b].step # "served"
          BY <2>2, <2>5 DEF Idle
    <3>2. job' = job
      <4>1. job \in [Actor -> [op : Ops, step : Steps]]
            BY DEF IInv, Typed
      <4> QED BY <2>3, <3>1, <4>1
    <3>3. LockInv'
          BY <1>1, <2>3, <3>2 DEF IInv, LockInv, control, stream
    <3>4. BufferInv' /\ PageInv' /\ PostInv'
          BY <1>1, <2>3, <3>2, <3>3, AgentAlone
    <3>5. Typed'
          BY <1>1, <1>2, <2>3, <3>2 DEF IInv, Typed, control, stream, browser
    <3>6. dead /\ crashed /\ session = 0
          BY <2>5 DEF IInv, AgentInv
    <3>7. AgentInv'
          BY <1>1, <1>3, <1>4, <1>5, <2>1, <2>2, <2>5, <3>1, <3>2, <3>6
             DEF AgentInv, control
    <3> QED BY <3>3, <3>4, <3>5, <3>7 DEF IInv
  <2> QED BY <2>1, <2>4, <2>5
<1>7. CASE Head(pipe) # Reply
  <2>1. Head(pipe) = lease /\ job' = job /\ lease' = lease
        BY <1>1, <1>2, <1>7 DEF Read, IInv, AgentInv, control
  <2>2. Buffer(lease)
        BY <1>7, <2>1 DEF Read
  <2>3. /\ BufferInv' /\ events' \in Seq(EventRecord) /\ fault' \in {"none", "overflow", "agent"}
        /\ sequence' \in Nat /\ taken' \in Nat /\ needsClose' \in BOOLEAN
        /\ UNCHANGED <<acknowledged, delivered, polling>>
        BY <2>1, <2>2, BufferKeeps
  <2>4. LockInv'
        BY <1>1, <1>4, <2>1 DEF IInv, LockInv, control
  <2>5. PageInv'
        BY <1>1, <2>1, <2>3, Distinct DEF IInv, PageInv, control, browser
  <2>6. PostInv'
        BY <1>1, <2>3 DEF IInv, PostInv, Live, control, browser
  <2>7. Typed'
        BY <1>1, <1>2, <2>1, <2>3 DEF IInv, Typed, control, browser
  <2>8. AgentInv'
    <3>1. \A i, j \in DOMAIN pipe' : i + 1 = j + 1 => i = j
          BY <1>2
    <3>2. \A i \in DOMAIN pipe' : i + 1 = Len(pipe) => i = Len(pipe')
          BY <1>2
    <3>3. owner' = owner /\ lease' = lease /\ session' = session /\ dead' = dead /\ crashed' = crashed
          BY <1>1 DEF control
    <3> QED BY <1>1, <1>2, <1>3, <1>4, <1>5, <2>1, <3>1, <3>2, <3>3 DEF IInv, AgentInv
  <2> QED BY <2>3, <2>4, <2>5, <2>6, <2>7, <2>8 DEF IInv
<1> QED BY <1>6, <1>7

-----------------------------------------------------------------------------
(* Polls *)

LEMMA GiveUpKeeps == ASSUME IInv, NEW c \in Client, GiveUp(c) PROVE IInv'
<1>1. /\ page' \in {page, [page EXCEPT ![c] = NoPage]} /\ posts' \subseteq posts
      /\ UNCHANGED <<control, stream, agent, posts, strayed, work>>
      BY DEF GiveUp
<1>2. page' \in [Client -> PageRecord] /\ PageInv' /\ PostInv'
      BY <1>1, PageClosed DEF control, stream, work
<1>3. Typed'
      BY <1>1, <1>2 DEF IInv, Typed, control, stream, agent, work
<1>4. LockInv'
      BY <1>1 DEF IInv, LockInv, control, stream, work
<1>5. AgentInv'
      BY <1>1 DEF IInv, AgentInv, control, agent, work
<1>6. BufferInv'
      BY <1>1 DEF IInv, BufferInv, control, stream
<1> QED BY <1>2, <1>3, <1>4, <1>5, <1>6 DEF IInv

LEMMA SendPollKeeps == ASSUME IInv, NEW c \in Client, SendPoll(c) PROVE IInv'
<1> DEFINE new == [client |-> c, lease |-> page[c].lease, after |-> page[c].cursor, held |-> -1]
<1>1. /\ page[c].lease # -1 /\ ~ \E p \in posts : p.client = c /\ Live(p)
      /\ posts' = posts \cup {new}
      /\ UNCHANGED <<control, stream, agent, page, strayed, work>>
      BY DEF SendPoll, Open
<1>2. page[c] \in PageRecord /\ page[c].lease <= lease /\ lease \in Nat
      BY DEF IInv, Typed, PageInv
<1>3. /\ new \in Post /\ new.client = c /\ new.lease = page[c].lease
      /\ new.after = page[c].cursor /\ new.held = -1
      BY <1>1, <1>2 DEF Post, PageRecord
<1> HIDE DEF new
<1>4. Typed'
      BY <1>1, <1>3 DEF IInv, Typed, control, stream, agent, work
<1>5. LockInv'
      BY <1>1 DEF IInv, LockInv, control, stream, work
<1>6. AgentInv'
      BY <1>1 DEF IInv, AgentInv, control, agent, work
<1>7. BufferInv'
      BY <1>1 DEF IInv, BufferInv, control, stream
<1>8. PageInv'
      BY <1>1, Distinct DEF IInv, PageInv, control, stream, work
<1>9. PostInv'
      BY <1>1, <1>2, <1>3 DEF IInv, PostInv, Live, control, stream
<1> QED BY <1>4, <1>5, <1>6, <1>7, <1>8, <1>9 DEF IInv

\* A poll that is refused changes only what its page and the timer hold.
LEMMA RefuseKeeps ==
    ASSUME IInv, NEW p \in posts, Refuse(p), idle' \in BOOLEAN,
           UNCHANGED <<owner, lease, stream, strayed, agent, work>>
    PROVE  IInv'
<1>1. p \in Post
      BY DEF IInv, Typed
<1>2. p.client \in Client /\ page' \in {page, [page EXCEPT ![p.client] = NoPage]}
      /\ posts' \subseteq posts
      BY <1>1 DEF Refuse, Post
<1>3. page' \in [Client -> PageRecord] /\ PageInv' /\ PostInv'
      BY <1>2, PageClosed DEF stream, work
<1>4. Typed'
      BY <1>2, <1>3 DEF IInv, Typed, stream, agent, work
<1>5. LockInv'
      BY DEF IInv, LockInv, stream, work
<1>6. AgentInv'
      BY DEF IInv, AgentInv, agent, work
<1>7. BufferInv'
      BY DEF IInv, BufferInv, stream
<1> QED BY <1>3, <1>4, <1>5, <1>6, <1>7 DEF IInv

\* What is left of a sequence when its first elements are gone.
LEMMA Rest ==
    ASSUME NEW S, NEW s \in Seq(S), NEW k \in 0..Len(s)
    PROVE  LET t == SubSeq(s, k + 1, Len(s))
           IN  /\ t \in Seq(S) /\ Len(t) = Len(s) - k
               /\ \A i \in 1..(Len(s) - k) : t[i] = s[k + i] /\ k + i \in 1..Len(s)
<1> DEFINE t == SubSeq(s, k + 1, Len(s))
<1>1. Len(s) \in Nat /\ k \in Nat /\ k <= Len(s)
      OBVIOUS
<1>2. /\ t \in Seq(S)
      /\ Len(t) = IF k + 1 <= Len(s) THEN Len(s) - (k + 1) + 1 ELSE 0
      /\ \A i \in 1..(Len(s) - (k + 1) + 1) : t[i] = s[(k + 1) + i - 1]
  <2>1. k + 1 \in Int /\ Len(s) \in Int /\ \A i \in (k + 1)..Len(s) : s[i] \in S
        BY <1>1
  <2>2. PICK m, n : m = k + 1 /\ n = Len(s)
        OBVIOUS
  <2>3. /\ SubSeq(s, m, n) \in Seq(S)
        /\ Len(SubSeq(s, m, n)) = IF m <= n THEN n - m + 1 ELSE 0
        /\ \A i \in 1..(n - m + 1) : SubSeq(s, m, n)[i] = s[m + i - 1]
    <3>1. m \in Int /\ n \in Int
          BY <2>1, <2>2
    <3>2. \A i \in m..n : s[i] \in S
          BY <2>1, <2>2
    <3> QED BY <3>1, <3>2, SubSeqProperties
  <2>4. SubSeq(s, m, n) = t
        BY <2>2
  <2> HIDE DEF t
  <2> QED BY <2>2, <2>3, <2>4, Zenon
<1> HIDE DEF t
<1>3. Len(t) = Len(s) - k
      BY <1>1, <1>2
<1>4. \A i \in 1..(Len(s) - k) : (k + 1) + i - 1 = k + i /\ i \in 1..(Len(s) - (k + 1) + 1)
      BY <1>1
<1>5. \A i \in 1..(Len(s) - k) : t[i] = s[k + i] /\ k + i \in 1..Len(s)
      BY <1>1, <1>2, <1>4
<1> QED BY <1>2, <1>3, <1>5 DEF t

\* The loop pops what the cursor acknowledges, and no more.
LEMMA PoppedIs ==
    ASSUME IInv, NEW after \in acknowledged..delivered
    PROVE  Popped(after) = after - acknowledged /\ Popped(after) \in 0..Len(events)
<1> DEFINE P(k) == /\ \A i \in 1..k : events[i].seq <= after
                   /\ k = Len(events) \/ events[k + 1].seq > after
           n == after - acknowledged
<1>1. /\ acknowledged \in Nat /\ delivered \in Nat /\ Len(events) \in Nat
      /\ delivered <= acknowledged + Len(events)
      /\ \A i \in 1..Len(events) : events[i].seq = acknowledged + i
      BY DEF IInv, Typed, BufferInv
<1>2. after \in Nat /\ n \in 0..Len(events)
      BY <1>1
<1>3. P(n)
  <2>1. \A i \in 1..n : events[i].seq <= after
        BY <1>1, <1>2
  <2>2. n = Len(events) \/ events[n + 1].seq > after
        BY <1>1, <1>2
  <2> QED BY <2>1, <2>2
<1>4. ASSUME NEW k \in 0..Len(events), P(k) PROVE k = n
  <2>1. ~(k < n)
    <3> SUFFICES ASSUME k < n PROVE FALSE
        OBVIOUS
    <3>1. events[k + 1].seq > after /\ k + 1 \in 1..Len(events)
          BY <1>1, <1>2, <1>4
    <3> QED BY <1>1, <1>2, <3>1
  <2>2. ~(k > n)
    <3> SUFFICES ASSUME k > n PROVE FALSE
        OBVIOUS
    <3>1. events[k].seq <= after /\ k \in 1..Len(events)
          BY <1>1, <1>2, <1>4
    <3> QED BY <1>1, <1>2, <3>1
  <2> QED BY <1>2, <2>1, <2>2
<1>5. Popped(after) = CHOOSE k \in 0..Len(events) : P(k)
      BY DEF Popped
<1> HIDE DEF P, n
<1>6. Popped(after) = n
      BY <1>2, <1>3, <1>4, <1>5
<1> QED BY <1>2, <1>6 DEF n

LEMMA HoldPollKeeps == ASSUME IInv, NEW p \in posts, HoldPoll(p) PROVE IInv'
<1>1. /\ p.held = -1
      /\ UNCHANGED <<owner, lease, sequence, delivered, fault, needsClose, taken, agent, work>>
      BY DEF HoldPoll
<1>2. p \in Post /\ p.client \in Client /\ p.after \in Nat /\ p.lease \in Nat
      BY DEF IInv, Typed, Post
<1>3. CASE ~(owner = p.client /\ Acceptable(p))
  <2>1. /\ Refuse(p) /\ idle' = (idle /\ owner # p.client)
        /\ UNCHANGED <<acknowledged, polling, events, strayed>>
        BY <1>3 DEF HoldPoll
  <2>2. idle' \in BOOLEAN
        BY <2>1
  <2> QED BY <1>1, <2>1, <2>2, RefuseKeeps DEF stream
<1>4. CASE owner = p.client /\ Acceptable(p)
  <2>0. PICK held, k : held = [p EXCEPT !.held = lease] /\ k = Popped(p.after)
        OBVIOUS
  <2>1. /\ idle' = FALSE /\ acknowledged' = p.after /\ polling' = TRUE
        /\ events' = SubSeq(events, k + 1, Len(events))
        /\ posts' = (posts \ {p}) \cup {held}
        /\ strayed' = (strayed \/ p.lease # lease)
        /\ page' = page
        BY <1>4, <2>0 DEF HoldPoll
  <2>2. ~polling /\ p.after \in acknowledged..delivered
        BY <1>4 DEF Acceptable
  <2>3. lease \in Nat /\ acknowledged \in Nat /\ delivered \in Nat /\ sequence \in Nat
        /\ events \in Seq(EventRecord) /\ Len(events) \in Nat
        BY DEF IInv, Typed
  <2>4. /\ k = p.after - acknowledged /\ k \in 0..Len(events) /\ k \in Nat
        /\ p.after = acknowledged + k
    <3>1. k = p.after - acknowledged /\ k \in 0..Len(events)
          BY <2>0, <2>2, PoppedIs
    <3> QED BY <1>2, <2>3, <3>1
  <2>5. /\ held \in Post /\ held.client = p.client /\ held.lease = p.lease
        /\ held.after = p.after /\ held.held = lease
        BY <1>2, <2>0, <2>3 DEF Post
  <2>6. /\ events' \in Seq(EventRecord) /\ Len(events') = Len(events) - k
        /\ \A i \in 1..(Len(events) - k) : events'[i] = events[k + i] /\ k + i \in 1..Len(events)
        BY <2>1, <2>3, <2>4, Rest
  <2>7. BufferInv'
    <3>1. ASSUME NEW i \in DOMAIN events'
          PROVE  events'[i].seq = acknowledged' + i /\ events'[i].of = lease'
      <4>1. i \in 1..(Len(events) - k) /\ i \in Nat
            BY <2>6
      <4>2. events'[i].seq = acknowledged + (k + i) /\ events'[i].of = lease
            BY <2>6, <4>1 DEF IInv, BufferInv
      <4>3. acknowledged' + i = acknowledged + (k + i)
            BY <2>1, <2>3, <2>4, <4>1
      <4> QED BY <1>1, <4>2, <4>3
    <3>2. /\ sequence' = acknowledged' + Len(events') /\ acknowledged' <= delivered'
          /\ delivered' <= sequence' /\ Len(events') <= EventCount
      <4>1. /\ acknowledged' = acknowledged + k /\ acknowledged' <= delivered /\ k \in Nat
            BY <1>2, <2>1, <2>2, <2>3, <2>4
      <4>2. /\ sequence = acknowledged + Len(events) /\ delivered <= sequence
            /\ Len(events) <= EventCount /\ sequence' = sequence /\ delivered' = delivered
            BY <1>1 DEF IInv, BufferInv
      <4>3. Len(events') = Len(events) - k /\ Len(events) \in Nat /\ k <= Len(events)
        <5>1. k <= Len(events)
              BY <2>3, <2>4
        <5> QED BY <2>3, <2>6, <5>1
      <4>4. sequence' = acknowledged' + Len(events')
            BY <2>3, <4>1, <4>2, <4>3
      <4> QED BY <4>1, <4>2, <4>3, <4>4, Bounds
    <3> QED BY <1>1, <3>1, <3>2 DEF IInv, BufferInv
  <2>8. Typed'
    <3>1. idle' \in BOOLEAN /\ polling' \in BOOLEAN /\ strayed' \in BOOLEAN
          BY <2>1
    <3>2. acknowledged' \in Nat /\ posts' \in SUBSET Post
          BY <1>2, <2>1, <2>5 DEF IInv, Typed
    <3> QED BY <1>1, <2>1, <2>6, <3>1, <3>2 DEF IInv, Typed, agent, work
  <2>9. LockInv'
        BY <1>1 DEF IInv, LockInv, work
  <2>10. AgentInv'
        BY <1>1 DEF IInv, AgentInv, agent, work
  <2>11. PageInv'
    <3>1. ASSUME NEW c \in Client, page[c].lease = lease, ~strayed'
          PROVE  p.after <= page[c].cursor
      <4>1. c = p.client /\ p.lease = lease
            BY <1>4, <2>1, <3>1 DEF IInv, PageInv
      <4>2. p.after = page[c].cursor
            BY <3>1, <4>1 DEF IInv, PostInv, Live
      <4> QED BY <1>2, <4>2
    <3> QED BY <1>1, <2>1, <3>1, Distinct DEF IInv, PageInv, work
  <2>12. PostInv'
    <3>1. \A q \in posts : q.held # lease
          BY <2>2 DEF IInv, PostInv
    <3>2. Live(held)' <=> Live(p)
          BY <2>1, <2>5 DEF Live
    <3>3. \A q \in posts : Live(q)' <=> Live(q)
          BY <2>1 DEF Live
    <3>4. p.lease <= lease /\ lease <= lease
          BY <2>3 DEF IInv, PostInv
    <3>5. ASSUME NEW q \in posts'
          PROVE  /\ q.lease <= lease /\ q.held <= lease
                 /\ Live(q)' => q.after = page[q.client].cursor
                 /\ q.held = lease => owner = q.client /\ q.after = acknowledged'
      <4>1. CASE q = held
            BY <1>4, <2>1, <2>5, <3>2, <3>4, <4>1 DEF IInv, PostInv
      <4>2. CASE q \in posts
            BY <3>1, <3>3, <4>2 DEF IInv, PostInv
      <4> QED BY <2>1, <4>1, <4>2
    <3>6. ASSUME NEW q \in posts', NEW r \in posts', q.client = r.client, Live(q)', Live(r)'
          PROVE  q = r
          BY <2>1, <2>5, <3>2, <3>3, <3>6 DEF IInv, PostInv
    <3>7. \A q, r \in posts' : q.held = lease /\ r.held = lease => q = r
          BY <2>1, <3>1
    <3> QED BY <1>1, <2>1, <3>5, <3>6, <3>7 DEF PostInv
  <2> QED BY <2>7, <2>8, <2>9, <2>10, <2>11, <2>12 DEF IInv
<1> QED BY <1>3, <1>4

\* The answer is the beginning of the buffer.
LEMMA AnswerIs ==
    ASSUME IInv
    PROVE  /\ Answer \in Seq(EventRecord) /\ Len(Answer) \in Nat /\ Len(Answer) <= Len(events)
           /\ \A i \in 1..Len(Answer) :
                  Answer[i].seq = acknowledged + i /\ Answer[i].of = lease
           /\ Answer # <<>> => Len(Answer) > 0
           /\ Answer # <<>> => Last(Answer).seq = acknowledged + Len(Answer)
<1> DEFINE n == IF Len(events) < Batch THEN Len(events) ELSE Batch
<1>1. events \in Seq(EventRecord) /\ Len(events) \in Nat
      BY DEF IInv, Typed
<1>2. n \in 0..Len(events)
      BY <1>1, Bounds
<1>3. Answer = SubSeq(events, 1, n)
      BY DEF Answer
<1> HIDE DEF n
<1>4. Answer \in Seq(EventRecord) /\ Len(Answer) = n
      BY <1>1, <1>2, <1>3
<1>5. \A i \in 1..n : Answer[i] = events[i]
      BY <1>1, <1>2, <1>3
<1>6. \A i \in 1..n : Answer[i].seq = acknowledged + i /\ Answer[i].of = lease
      BY <1>1, <1>2, <1>5 DEF IInv, BufferInv
<1>7. Answer # <<>> => Len(Answer) \in 1..n /\ Len(Answer) > 0
      BY <1>2, <1>4
<1>8. Answer # <<>> => Last(Answer).seq = acknowledged + Len(Answer)
      BY <1>6, <1>7 DEF Last
<1> QED BY <1>1, <1>2, <1>4, <1>6, <1>7, <1>8

LEMMA AnswerPollKeeps == ASSUME IInv, NEW p \in posts, AnswerPoll(p) PROVE IInv'
<1>1. /\ p.held # -1
      /\ UNCHANGED <<owner, lease, events, sequence, acknowledged, fault, needsClose, taken,
                     strayed, agent, work>>
      BY DEF AnswerPoll
<1>2. p \in Post /\ p.client \in Client
      BY DEF IInv, Typed, Post
<1>3. CASE p.held # lease
  <2>1. Refuse(p) /\ UNCHANGED <<idle, delivered, polling>>
        BY <1>3 DEF AnswerPoll
  <2>2. idle' \in BOOLEAN
        BY <2>1 DEF IInv, Typed
  <2> QED BY <1>1, <2>1, <2>2, RefuseKeeps DEF stream
<1>4. CASE p.held = lease
  <2>1. PICK answer : answer = Answer
        OBVIOUS
  <2>2. /\ idle' = FALSE /\ polling' = FALSE /\ posts' = posts \ {p}
        /\ delivered' = IF answer = <<>> THEN delivered ELSE Last(answer).seq
        /\ \/ /\ Live(p) /\ answer # <<>>
              /\ page' = [page EXCEPT ![p.client].got = @ \o answer,
                                      ![p.client].cursor = Last(answer).seq]
           \/ UNCHANGED page
        BY <1>4, <2>1 DEF AnswerPoll
  <2>3. /\ answer \in Seq(EventRecord) /\ Len(answer) \in Nat /\ Len(answer) <= Len(events)
        /\ \A i \in 1..Len(answer) : answer[i].seq = acknowledged + i /\ answer[i].of = lease
        /\ answer # <<>> => Len(answer) > 0
        /\ answer # <<>> => Last(answer).seq = acknowledged + Len(answer)
        BY <2>1, AnswerIs
  <2>4. acknowledged \in Nat /\ delivered \in Nat /\ sequence \in Nat /\ Len(events) \in Nat
        BY DEF IInv, Typed
  <2>5. BufferInv' /\ delivered' \in Nat
    <3>1. /\ sequence = acknowledged + Len(events)
          /\ acknowledged <= delivered /\ delivered <= sequence
          BY DEF IInv, BufferInv
    <3>2. delivered' \in Nat /\ acknowledged <= delivered' /\ delivered' <= sequence
      <4>1. CASE answer = <<>>
            BY <2>2, <2>4, <3>1, <4>1
      <4>2. CASE answer # <<>>
            BY <2>2, <2>3, <2>4, <3>1, <4>2
      <4> QED BY <4>1, <4>2
    <3> QED BY <1>1, <3>2 DEF IInv, BufferInv
  <2>6. LockInv'
        BY <1>1 DEF IInv, LockInv, work
  <2>7. AgentInv'
        BY <1>1 DEF IInv, AgentInv, agent, work
  <2>8. page' \in [Client -> PageRecord] => Typed'
    <3>1. idle' \in BOOLEAN /\ polling' \in BOOLEAN /\ posts' \in SUBSET Post
          BY <2>2 DEF IInv, Typed
    <3> QED BY <1>1, <2>5, <3>1 DEF IInv, Typed, agent, work
  <2>9. \A q \in posts' : q \in posts /\ q # p /\ q.held # lease
        BY <1>4, <2>2 DEF IInv, PostInv
  <2>10. CASE UNCHANGED page
    <3>1. PageInv'
          BY <1>1, <2>10, Distinct DEF IInv, PageInv, work
    <3>2. PostInv'
          BY <1>1, <2>9, <2>10 DEF IInv, PostInv, Live
    <3>3. page' \in [Client -> PageRecord]
          BY <2>10 DEF IInv, Typed
    <3> QED BY <2>5, <2>6, <2>7, <2>8, <3>1, <3>2, <3>3 DEF IInv
  <2>11. CASE /\ Live(p) /\ answer # <<>>
              /\ page' = [page EXCEPT ![p.client].got = @ \o answer,
                                      ![p.client].cursor = Last(answer).seq]
    <3>1. PICK c \in Client : c = p.client
          BY <1>2
    <3>2. PICK got, n : got = page[c].got /\ n = Len(got)
          OBVIOUS
    <3>3. /\ page[c] \in PageRecord /\ page[c].lease = lease /\ got \in Seq(EventRecord)
          /\ n \in Nat /\ page[c].cursor = n /\ n = acknowledged
      <4>1. page[c] \in PageRecord
            BY DEF IInv, Typed
      <4>2. owner = c /\ p.after = acknowledged /\ p.after = page[c].cursor
            BY <1>4, <2>11, <3>1 DEF IInv, PostInv
      <4>3. page[c].lease \in {-1, lease} /\ page[c].lease = p.lease /\ p.lease \in Nat
            BY <1>2, <2>11, <3>1, <4>2 DEF IInv, PageInv, Live, Post
      <4>4. page[c].cursor = n
            BY <3>2 DEF IInv, PageInv
      <4> QED BY <3>2, <4>1, <4>2, <4>3, <4>4 DEF PageRecord
    <3> DEFINE joined == got \o answer
    <3>4. /\ page' = [page EXCEPT ![c] = page'[c]]
          /\ page'[c].lease = lease /\ page'[c].got = joined
          /\ page'[c].cursor = Last(answer).seq
          /\ \A b \in Client : b # c => page'[b] = page[b]
          BY <2>11, <3>1, <3>2, <3>3 DEF IInv, Typed, PageRecord
    <3>5. /\ joined \in Seq(EventRecord) /\ Len(joined) = n + Len(answer)
           /\ \A i \in 1..(n + Len(answer)) :
                  joined[i] = IF i <= n THEN got[i] ELSE answer[i - n]
      <4>1. got \in Seq(EventRecord) /\ answer \in Seq(EventRecord)
            BY <2>3, <3>3
      <4>2. /\ joined \in Seq(EventRecord) /\ Len(joined) = Len(got) + Len(answer)
            /\ \A i \in 1..(Len(got) + Len(answer)) :
                   joined[i] = IF i <= Len(got) THEN got[i] ELSE answer[i - Len(got)]
            BY <4>1, ConcatProperties
      <4> QED BY <3>2, <4>2
    <3> HIDE DEF joined
    <3>6. /\ page'[c].got \in Seq(EventRecord) /\ page'[c].cursor = n + Len(answer)
          /\ Len(page'[c].got) = n + Len(answer)
          BY <2>3, <2>11, <3>3, <3>4, <3>5
    <3>7. page' \in [Client -> PageRecord]
      <4>1. page'[c] \in PageRecord
        <5>1. n + Len(answer) \in Nat
              BY <2>3, <3>3
        <5>2. page'[c] = [page[c] EXCEPT !.got = page'[c].got, !.cursor = page'[c].cursor]
              BY <2>11, <3>1, <3>2, <3>3, <3>4 DEF IInv, Typed, PageRecord
        <5> QED BY <3>3, <3>6, <5>1, <5>2 DEF PageRecord
      <4> QED BY <3>4, <4>1 DEF IInv, Typed
    <3>8. \A i \in DOMAIN page'[c].got :
              page'[c].got[i].seq = i /\ page'[c].got[i].of = lease
      <4>1. SUFFICES ASSUME NEW i \in 1..(n + Len(answer))
                     PROVE  joined[i].seq = i /\ joined[i].of = lease
            BY <3>4, <3>6
      <4>2. CASE i \in 1..n
        <5>1. joined[i] = got[i]
              BY <2>3, <3>3, <3>5, <4>2
        <5> QED BY <3>2, <3>3, <4>2, <5>1 DEF IInv, PageInv
      <4>3. CASE i \notin 1..n
        <5>1. i \in (n + 1)..(n + Len(answer)) /\ i - n \in 1..Len(answer)
              BY <2>3, <3>3, <4>3
        <5>2. joined[i] = answer[i - n]
              BY <2>3, <3>3, <3>5, <5>1
        <5>3. acknowledged + (i - n) = i
              BY <2>4, <3>3
        <5> QED BY <2>3, <5>1, <5>2, <5>3
      <4> QED BY <4>2, <4>3
    <3>9. PageInv'
      <4>1. acknowledged <= n + Len(answer)
            BY <2>3, <2>4, <3>3
      <4>2. owner = c /\ lease <= lease
            BY <3>3 DEF IInv, Typed, PageInv
      <4>3. job' = job
            BY <1>1 DEF work
      <4>4. job[c].op # "claim"
            BY <3>3 DEF IInv, Typed, PageInv
      <4>5. ASSUME NEW b \in Client, b # c
            PROVE  /\ page'[b].lease <= lease
                   /\ page'[b].lease = lease => owner = b
                   /\ owner = b => page'[b].lease \in {-1, lease}
                   /\ job'[b].op = "claim" => page'[b].lease = -1
                   /\ page'[b].cursor = Len(page'[b].got)
                   /\ \A i \in DOMAIN page'[b].got :
                          page'[b].got[i].seq = i /\ page'[b].got[i].of = page'[b].lease
                   /\ page'[b].lease = lease /\ ~strayed => acknowledged <= page'[b].cursor
            BY <3>4, <4>3, <4>5 DEF IInv, PageInv
      <4>6. /\ page'[c].lease <= lease
            /\ page'[c].lease = lease => owner = c
            /\ owner = c => page'[c].lease \in {-1, lease}
            /\ job'[c].op = "claim" => page'[c].lease = -1
            /\ page'[c].cursor = Len(page'[c].got)
            /\ \A i \in DOMAIN page'[c].got :
                   page'[c].got[i].seq = i /\ page'[c].got[i].of = page'[c].lease
            /\ page'[c].lease = lease /\ ~strayed => acknowledged <= page'[c].cursor
            BY <3>4, <3>6, <3>8, <4>1, <4>2, <4>3, <4>4
      <4> QED BY <1>1, <4>5, <4>6 DEF PageInv
    <3>10. PostInv'
      <4>1. \A q \in posts' : Live(q)' => Live(q) /\ q.client # c
        <5> SUFFICES ASSUME NEW q \in posts', Live(q)' PROVE Live(q) /\ q.client # c
            OBVIOUS
        <5>1. q.client \in Client
              BY <2>9 DEF IInv, Typed, Post
        <5>2. Live(q)
              BY <3>3, <3>4, <5>1 DEF Live
        <5> QED BY <2>9, <2>11, <3>1, <5>2 DEF IInv, PostInv
      <4>2. \A q \in posts' : Live(q)' => page'[q.client] = page[q.client]
            BY <2>9, <3>4, <4>1 DEF IInv, Typed, Post
      <4> QED BY <1>1, <2>9, <4>1, <4>2 DEF IInv, PostInv
    <3> QED BY <2>5, <2>6, <2>7, <2>8, <3>7, <3>9, <3>10 DEF IInv
  <2> QED BY <2>2, <2>10, <2>11
<1> QED BY <1>3, <1>4

-----------------------------------------------------------------------------
(* Operations end *)

\* When an operation that ends a lease is over, so is every session opened in it,
\* and nothing of one is on its way.
LEMMA NothingOnItsWay ==
    ASSUME IInv, NEW a \in Actor, job[a].step \in {"ok", "failed"}, Resets(job[a])
    PROVE  session = 0 /\ pipe = <<>> /\ (job[a].op = "claim" => a \in Client)
BY DEF IInv, LockInv, AgentInv, Resets

LEMMA FinishKeeps == ASSUME IInv, NEW a \in Actor, Finish(a) PROVE IInv'
<1>1. /\ job[a].step \in {"ok", "failed"} /\ operation' = None
      /\ job' = [job EXCEPT ![a] = Idle]
      /\ UNCHANGED <<agent, posts>>
      BY DEF Finish
<1>2. /\ job' \in [Actor -> [op : Ops, step : Steps]] /\ \A b \in Actor : job'[b] = Idle
  <2>1. \A b \in Actor : b # a => job[b] = Idle
        BY <1>1, Alone DEF Idle
  <2>2. Idle \in [op : Ops, step : Steps]
        BY DEF Idle, Ops, Steps
  <2> QED BY <1>1, <2>1, <2>2 DEF IInv, Typed
<1>3. \A b \in Actor : job'[b].op = "none" /\ job'[b].step = "none"
      BY <1>2 DEF Idle
<1>4. job[a].step # "stopping" /\ \A b \in Actor : b # a => job[b].step = "none"
  <2>1. \A b \in Actor : b # a => job[b] = Idle
        BY <1>1, Alone DEF Idle
  <2> QED BY <1>1, <2>1 DEF Idle
<1>5. CASE ~Resets(job[a])
  <2>1. UNCHANGED <<control, stream, strayed, page>>
        BY <1>1, <1>5 DEF Finish, Resets
  <2>2. Typed'
        BY <1>1, <1>2, <2>1 DEF IInv, Typed, control, stream, agent
  <2>3. LockInv'
        BY <1>2, <1>3, <2>1 DEF IInv, LockInv, control, stream
  <2>4. AgentInv'
    <3>1. \A i \in DOMAIN pipe : pipe[i] # Reply
          BY <1>1, <1>4 DEF IInv, AgentInv
    <3>2. dead => pipe = <<>>
          BY <1>4 DEF IInv, AgentInv
    <3> QED BY <1>1, <1>3, <2>1, <3>1, <3>2 DEF IInv, AgentInv, control, agent
  <2>5. BufferInv'
        BY <2>1 DEF IInv, BufferInv, control, stream
  <2>6. PageInv'
        BY <1>3, <2>1, Distinct DEF IInv, PageInv, control, stream
  <2>7. PostInv'
        BY <1>1, <2>1 DEF IInv, PostInv, Live, control, stream
  <2> QED BY <2>2, <2>3, <2>4, <2>5, <2>6, <2>7 DEF IInv
<1>6. CASE Resets(job[a])
  <2>1. /\ session = 0 /\ pipe = <<>> /\ (job[a].op = "claim" => a \in Client)
        BY <1>1, <1>6, NothingOnItsWay
  <2>2. /\ lease' = lease + 1 /\ events' = <<>> /\ sequence' = 0 /\ acknowledged' = 0
        /\ delivered' = 0 /\ taken' = 0 /\ fault' = "none" /\ strayed' = FALSE
        /\ owner' = IF job[a].op = "claim" THEN a ELSE None
        /\ lease \in Nat
        BY <1>6 DEF Finish, Reset, IInv, Typed
  <2>3. /\ needsClose' = FALSE /\ polling' = FALSE /\ idle' = FALSE
        BY <1>6 DEF Finish, Reset
  <2> DEFINE fresh == [NoPage EXCEPT !.lease = lease + 1]
  <2>4. \/ /\ job[a].op = "claim"
           /\ page' = [page EXCEPT ![a] = fresh]
        \/ page' = page
        BY <2>2 DEF Finish
  <2>5. /\ fresh \in PageRecord /\ fresh.lease = lease + 1 /\ fresh.cursor = 0
        /\ fresh.got = <<>>
    <3>1. fresh = [lease |-> lease + 1, cursor |-> 0, got |-> <<>>]
          BY DEF NoPage
    <3>2. <<>> \in Seq(EventRecord)
          OBVIOUS
    <3> HIDE DEF fresh
    <3> QED BY <2>2, <3>1, <3>2 DEF PageRecord
  <2> HIDE DEF fresh
  <2>6. /\ page' \in [Client -> PageRecord]
        /\ \A c \in Client : \/ page'[c] = page[c]
                             \/ c = a /\ job[a].op = "claim" /\ page'[c] = fresh
        BY <2>1, <2>4, <2>5 DEF IInv, Typed
  <2>7. Typed'
    <3>1. /\ needsClose' \in BOOLEAN /\ polling' \in BOOLEAN /\ idle' \in BOOLEAN
          /\ strayed' \in BOOLEAN
          BY <2>2, <2>3
    <3>2. /\ lease' \in Nat /\ sequence' \in Nat /\ acknowledged' \in Nat
          /\ delivered' \in Nat /\ taken' \in Nat /\ events' \in Seq(EventRecord)
          /\ fault' \in {"none", "overflow", "agent"}
          BY <2>2
    <3>3. owner' \in Client \cup {None} /\ operation' \in Actor \cup {None}
          BY <1>1, <2>1, <2>2
    <3> QED BY <1>1, <1>2, <2>6, <3>1, <3>2, <3>3 DEF IInv, Typed, agent
  <2>8. LockInv'
        BY <1>2, <1>3, <2>3 DEF LockInv
  <2>9. AgentInv'
        BY <1>1, <1>3, <2>1 DEF IInv, AgentInv, agent
  <2>10. BufferInv'
        BY <2>2, Bounds DEF BufferInv
  <2>11. PageInv'
    <3> SUFFICES ASSUME NEW c \in Client
                 PROVE  /\ page'[c].lease <= lease'
                        /\ page'[c].lease = lease' => owner' = c
                        /\ owner' = c => page'[c].lease \in {-1, lease'}
                        /\ job'[c].op = "claim" => page'[c].lease = -1
                        /\ page'[c].cursor = Len(page'[c].got)
                        /\ \A i \in DOMAIN page'[c].got :
                               /\ page'[c].got[i].seq = i
                               /\ page'[c].got[i].of = page'[c].lease
                        /\ page'[c].lease = lease' /\ ~strayed' =>
                               acknowledged' <= page'[c].cursor
        BY DEF PageInv
    <3>1. CASE c = a /\ job[a].op = "claim" /\ page'[c] = fresh
          BY <1>3, <2>2, <2>5, <3>1, Distinct
    <3>2. CASE page'[c] = page[c]
      <4>1. page[c].lease \in Nat \cup {-1} /\ page[c].lease <= lease
            BY DEF IInv, Typed, PageInv, PageRecord
      <4>2. page[c].lease # lease + 1 /\ page[c].lease <= lease + 1
            BY <2>2, <4>1
      <4>3. owner' = c => page[c].lease = -1
            BY <2>2, Distinct DEF IInv, PageInv
      <4> QED BY <1>3, <2>2, <3>2, <4>2, <4>3, Distinct DEF IInv, PageInv
    <3> QED BY <2>6, <3>1, <3>2
  <2>12. PostInv'
    <3>1. \A p \in posts : /\ p.client \in Client /\ p.lease \in Nat /\ p.held \in Nat \cup {-1}
                           /\ p.lease <= lease /\ p.held <= lease
          BY DEF IInv, Typed, PostInv, Post
    <3>2. \A p \in posts : /\ p.lease <= lease' /\ p.held <= lease'
                           /\ p.lease # lease' /\ p.held # lease'
          BY <2>2, <3>1
    <3>3. \A p \in posts : Live(p)' => Live(p) /\ page'[p.client] = page[p.client]
          BY <2>2, <2>5, <2>6, <3>1, <3>2 DEF Live
    <3> QED BY <1>1, <3>2, <3>3 DEF IInv, PostInv
  <2> QED BY <2>7, <2>8, <2>9, <2>10, <2>11, <2>12 DEF IInv
<1> QED BY <1>5, <1>6

-----------------------------------------------------------------------------
(* The theorems *)

LEMMA NextIInv == ASSUME IInv, [Next]_vars PROVE IInv'
<1>1. ASSUME NEW c \in Client, Claim(c) \/ Release(c) PROVE IInv'
      BY <1>1, ClaimKeeps, ReleaseKeeps
<1>2. ASSUME NEW c \in Client, NEW op \in {"open", "close"}, Request(c, op) PROVE IInv'
      BY <1>2, RequestKeeps
<1>3. ASSUME NEW c \in Client, SendPoll(c) \/ GiveUp(c) PROVE IInv'
      BY <1>3, SendPollKeeps, GiveUpKeeps
<1>4. ASSUME NEW p \in posts, HoldPoll(p) \/ AnswerPoll(p) PROVE IInv'
      BY <1>4, HoldPollKeeps, AnswerPollKeeps
<1>5. ASSUME NEW a \in Actor, Operate(a) PROVE IInv'
      BY <1>5, CallKeeps, ServeKeeps, CallFailsKeeps, StoppedKeeps, FinishKeeps DEF Operate
<1>6. ASSUME Supervise \/ LeaseTimesOut PROVE IInv'
      BY <1>6, SuperviseKeeps, LeaseTimesOutKeeps
<1>7. ASSUME AgentEmits \/ AgentCrashes \/ Read \/ ReadEnd PROVE IInv'
      BY <1>7, AgentEmitsKeeps, AgentCrashesKeeps, ReadKeeps, ReadEndKeeps
<1>8. ASSUME UNCHANGED vars PROVE IInv'
  <2> USE <1>8 DEF vars, control, stream, agent, browser, work, IInv
  <2>1. Typed'
        BY DEF Typed
  <2>2. LockInv' /\ AgentInv' /\ BufferInv'
        BY DEF LockInv, AgentInv, BufferInv
  <2>3. PageInv' /\ PostInv'
        BY DEF PageInv, PostInv, Live
  <2> QED BY <2>1, <2>2, <2>3
<1>9. Next \/ UNCHANGED vars
      OBVIOUS
<1> QED BY <1>1, <1>2, <1>3, <1>4, <1>5, <1>6, <1>7, <1>8, <1>9 DEF Next

LEMMA IInvHolds == Spec => []IInv
BY InitIInv, NextIInv, PTL DEF Spec

\* No page ever sees an event of a session that another lease opened, for any number
\* of pages, leases and buffered events: the pipe is empty when a lease ends, and a
\* poll held across its end is refused.
THEOREM LeasesStayIsolated == Spec => []LeaseIsolation
<1>1. IInv => LeaseIsolation
      BY DEF IInv, BufferInv, PageInv, LeaseIsolation
<1> QED BY <1>1, IInvHolds, PTL

\* An open session is the owner's of the lease in force, whoever crashed, timed out
\* or lost an answer before.
THEOREM SessionsHaveOwners == Spec => []SessionHasOwner
<1>1. IInv => SessionHasOwner
  <2> SUFFICES ASSUME IInv PROVE SessionHasOwner
      OBVIOUS
  <2>1. \A c \in Client : job[c].op \in {"open", "close", "release"} => owner = c
        BY Distinct DEF IInv, LockInv
  <2> QED BY <2>1 DEF IInv, AgentInv, SessionHasOwner
<1> QED BY <1>1, IInvHolds, PTL

\* The types of the specification, from those of the proofs.
LEMMA TypesFollow == ASSUME IInv PROVE TypeOK
<1> USE DEF IInv
<1>1. /\ owner \in Client \cup {None} /\ operation \in Actor \cup {None}
      /\ {idle, polling, needsClose, crashed, dead} \subseteq BOOLEAN
      /\ {lease, session, emitted, taken} \subseteq Nat
      /\ fault \in {"none", "overflow", "agent"}
      BY DEF Typed
<1>2. /\ 0 <= acknowledged /\ acknowledged <= delivered /\ delivered <= sequence
      /\ Len(events) <= EventCount
      BY DEF Typed, BufferInv
<1>3. \A i \in DOMAIN events : events[i].seq \in 1..sequence
      BY DEF Typed, BufferInv
<1>4. \A a \in Actor : job[a] = Idle \/
           /\ job[a].op \in {"claim", "release", "open", "close", "expire", "overflow"}
           /\ job[a].step \in {"call", "sent", "served", "ok", "stopping", "failed"}
      BY DEF Typed, LockInv, Ops, Steps
<1> QED BY <1>1, <1>2, <1>3, <1>4 DEF TypeOK

\* What a page received is its lease's stream from the start, once and without gaps,
\* and what is neither received nor buffered has become a fault, for a buffer and
\* answers of any size and whatever answers were lost.
THEOREM StreamsAreWhole == Spec => []StreamIsWhole
<1>1. ASSUME IInv PROVE StreamIsWhole
  <2>1. TypeOK
        BY <1>1, TypesFollow
  <2>2. \A c \in Client : \A i \in DOMAIN page[c].got : page[c].got[i].seq = i
        BY <1>1 DEF IInv, PageInv
  <2>3. ASSUME NEW c \in Client, page[c].lease = lease, fault = "none", ~strayed,
               NEW n \in (page[c].cursor + 1)..taken
        PROVE  \E i \in DOMAIN events : events[i].seq = n
    <3>1. /\ acknowledged <= page[c].cursor /\ taken = acknowledged + Len(events)
          /\ \A i \in DOMAIN events : events[i].seq = acknowledged + i
          BY <1>1, <2>3 DEF IInv, PageInv, BufferInv
    <3>2. /\ acknowledged \in Nat /\ Len(events) \in Nat /\ DOMAIN events = 1..Len(events)
          /\ page[c] \in PageRecord
          BY <1>1 DEF IInv, Typed
    <3>3. page[c].cursor \in Nat
          BY <3>2 DEF PageRecord
    <3>4. n - acknowledged \in 1..Len(events) /\ acknowledged + (n - acknowledged) = n
          BY <3>1, <3>2, <3>3
    <3> QED BY <3>1, <3>2, <3>4
  <2> QED BY <2>1, <2>2, <2>3 DEF StreamIsWhole
<1> QED BY <1>1, IInvHolds, PTL
=============================================================================
