--------------------------------- MODULE Gateway ---------------------------------
(***************************************************************************)
(* The remote gateway of remote/gateway.py: browsers claim, use and        *)
(* release one serial agent through HTTP requests, each on a thread of its *)
(* own; a supervisor thread closes what is abandoned or overflowed; a      *)
(* reader thread takes the agent's events and replies.                     *)
(*                                                                         *)
(* The agent (src/serial_agent.c) is abstracted to the session it has open *)
(* and the pipe it writes to: a close puts the events of the session on    *)
(* the pipe before the reply. An event carries the lease in which its      *)
(* session was opened. Under the operation lock an agent call is alone.    *)
(* The idle timeout is over at any moment, or not yet.                     *)
(***************************************************************************)
EXTENDS Integers, Sequences, SequencesExt, FiniteSets

CONSTANTS Client,     \* browser pages, each with its own identifier
          Supervisor, \* the supervisor thread
          None,
          EventCount, \* EVENT_COUNT: events buffered
          Batch,      \* the most events of a poll's answer
          MaxLeases,  \* bound: leases when a page claims
          MaxEvents,  \* bound: events when the agent emits or opens
          MaxPosts    \* bound: polls under way

ASSUME ActorAssumption == /\ Supervisor \notin Client
                          /\ None \notin Client \cup {Supervisor}
ASSUME BoundAssumption == /\ {EventCount, Batch} \subseteq Nat \ {0}
                          /\ {MaxLeases, MaxEvents, MaxPosts} \subseteq Nat

VARIABLES
    \* Gateway, under `condition`
    owner, lease, idle, events, sequence, acknowledged, delivered, polling,
    fault, needsClose,
    operation, \* who holds the operation lock
    job,       \* what each thread does under it: an operation and its step
    \* Agent
    session,   \* the lease in which the open session was opened, 0 for none
    pipe,      \* its output, as the reader finds it
    crashed,   \* the process ended
    dead,      \* the gateway knows (Agent.dead)
    \* Browsers
    page,      \* what each page knows: its lease, event cursor and events
    posts,     \* polls under way
    emitted,   \* history: events the agent put out
    taken,     \* history: events the reader took while this lease had an owner
    strayed    \* history: a poll sent under an earlier lease was let in by this one

control == <<owner, lease, idle>>
stream == <<events, sequence, acknowledged, delivered, polling, fault, needsClose,
            taken>>
agent == <<session, pipe, crashed, dead, emitted>>
browser == <<page, posts, strayed>>
work == <<operation, job>>
vars == <<control, stream, agent, browser, work>>

Actor == Client \cup {Supervisor}
Idle == [op |-> "none", step |-> "none"]
Job(op, step) == [op |-> op, step |-> step]
NoPage == [lease |-> -1, cursor |-> 0, got |-> <<>>]
Open(c) == page[c].lease # -1

Init == /\ owner = None /\ lease = 0 /\ idle = FALSE
        /\ events = <<>> /\ sequence = 0 /\ acknowledged = 0 /\ delivered = 0
        /\ polling = FALSE /\ fault = "none" /\ needsClose = FALSE /\ taken = 0
        /\ operation = None /\ job = [a \in Actor |-> Idle]
        /\ session = 0 /\ pipe = <<>> /\ crashed = FALSE /\ dead = FALSE /\ emitted = 0
        /\ page = [c \in Client |-> NoPage] /\ posts = {} /\ strayed = FALSE

-----------------------------------------------------------------------------
(* The gateway's own methods *)

\* _reset(), without the owner.
Reset == /\ lease' = lease + 1
         /\ polling' = FALSE
         /\ events' = <<>>
         /\ sequence' = 0 /\ acknowledged' = 0 /\ delivered' = 0
         /\ fault' = "none" /\ needsClose' = FALSE /\ taken' = 0
         /\ idle' = FALSE

\* (Beside a definition, wrong forms of it that the properties of this module are
\* expected to reject; nothing else uses these.)
BufferSilently(of) ==
    /\ taken' = taken + (IF owner = None THEN 0 ELSE 1)
    /\ IF owner = None \/ fault # "none" \/ Len(events) >= EventCount
       THEN UNCHANGED <<events, sequence>>
       ELSE /\ sequence' = sequence + 1
            /\ events' = Append(events, [seq |-> sequence', of |-> of])
    /\ UNCHANGED <<acknowledged, delivered, polling, fault, needsClose>>
\* event(): an event is buffered for the owner, unless there is none or the
\* lease has a fault already; when the buffer is full the session is to be closed.
Buffer(of) ==
    /\ taken' = taken + (IF owner = None THEN 0 ELSE 1)
    /\ IF owner = None \/ fault # "none"
       THEN UNCHANGED <<events, sequence, fault, needsClose>>
       ELSE IF Len(events) >= EventCount
       THEN /\ fault' = "overflow" /\ needsClose' = TRUE
            /\ UNCHANGED <<events, sequence>>
       ELSE /\ sequence' = sequence + 1
            /\ events' = Append(events, [seq |-> sequence', of |-> of])
            /\ UNCHANGED <<fault, needsClose>>
    /\ UNCHANGED <<acknowledged, delivered, polling>>

\* _failed(): the first time, the owner is told.
AgentLost == /\ dead' = TRUE
             /\ fault' = IF ~dead /\ owner # None /\ fault = "none" THEN "agent" ELSE fault
             /\ UNCHANGED <<events, sequence, acknowledged, delivered, polling,
                            needsClose, taken>>

-----------------------------------------------------------------------------
(* The agent process and the reader thread *)

Output(lines) == pipe' = pipe \o lines
\* The event a session ends with, if there is one.
Closing == IF session = 0 THEN <<>> ELSE <<session>>
Reply == -1

\* A request reaches the agent: open starts a session unless there is one, close
\* finishes it and puts out all its events, then the reply.
Serve(a) ==
    /\ job[a].step = "sent" /\ ~crashed
    /\ job' = [job EXCEPT ![a].step = "served"]
    /\ IF job[a].op = "open"
       THEN /\ session' \in (IF session = 0 THEN {0, lease} ELSE {session})
            /\ Output(<<Reply>>) /\ UNCHANGED emitted
       ELSE /\ session' = 0
            /\ Output(Append(Closing, Reply))
            /\ emitted' = emitted + Len(Closing)
    /\ UNCHANGED <<control, stream, operation, crashed, dead, browser>>

\* The session reports something: data, a status, or (it is over) its end.
AgentEmits == /\ session # 0 /\ emitted < MaxEvents
              /\ Output(<<session>>)
              /\ session' \in {session, 0}
              /\ emitted' = emitted + 1
              /\ UNCHANGED <<control, stream, work, crashed, dead, browser>>

AgentCrashes == /\ ~crashed
                /\ crashed' = TRUE
                /\ session' = 0
                /\ UNCHANGED <<control, stream, work, pipe, dead, emitted, browser>>

\* The reader takes a line; a reply wakes the thread that waits for it.
Read == /\ pipe # <<>>
        /\ pipe' = Tail(pipe)
        /\ IF Head(pipe) = Reply
           THEN /\ job' = [a \in Actor |-> IF job[a].step = "served"
                                           THEN [job[a] EXCEPT !.step = "ok"] ELSE job[a]]
                /\ UNCHANGED stream
           ELSE Buffer(Head(pipe)) /\ UNCHANGED job
        /\ UNCHANGED <<control, operation, session, crashed, dead, emitted, browser>>

\* It finds the end of the pipe.
ReadEnd == /\ crashed /\ pipe = <<>> /\ ~dead
           /\ AgentLost
           /\ UNCHANGED <<control, work, session, pipe, crashed, emitted, browser>>

-----------------------------------------------------------------------------
(* Operations of the pages and of the supervisor, under the operation lock *)

Take(a, j) == /\ operation' = a
              /\ job' = [job EXCEPT ![a] = j]

\* A page that has no control claims it. If it owns the agent all the same (an
\* earlier release did not get through), its session is closed first.
ClaimWithoutClose(c) ==
    /\ operation = None /\ job[c] = Idle /\ ~Open(c)
    /\ owner \in {None, c} /\ lease < MaxLeases
    /\ Take(c, Job("claim", "ok"))
    /\ UNCHANGED <<control, stream, agent, browser>>
Claim(c) == /\ operation = None /\ job[c] = Idle /\ ~Open(c)
            /\ owner \in {None, c} /\ lease < MaxLeases
            /\ Take(c, Job("claim", IF owner = c THEN "call" ELSE "ok"))
            /\ UNCHANGED <<control, stream, agent, browser>>

\* A page releases control and forgets it, or a release it sent earlier arrives.
Release(c) == /\ operation = None /\ job[c] = Idle
              /\ owner = c
              /\ idle' = FALSE
              /\ Take(c, Job("release", "call"))
              /\ page' \in {page, [page EXCEPT ![c] = NoPage]}
              /\ UNCHANGED <<owner, lease, stream, agent, posts, strayed>>

\* A request of the owner; with a fault only a close is passed on (or a list of
\* devices, which changes nothing).
Request(c, op) == /\ operation = None /\ job[c] = Idle
                  /\ owner = c
                  /\ idle' = FALSE
                  /\ IF op = "open" /\ fault # "none"
                     THEN UNCHANGED work
                     ELSE emitted < MaxEvents /\ Take(c, Job(op, "call"))
                  /\ UNCHANGED <<owner, lease, stream, agent, browser>>

SuperviseUnlocked ==
    /\ job[Supervisor] = Idle
    /\ needsClose \/ (owner # None /\ idle)
    /\ needsClose' = FALSE
    /\ operation' = operation
    /\ job' = [job EXCEPT ![Supervisor] =
                   Job(IF owner # None /\ idle THEN "expire" ELSE "overflow", "call")]
    /\ UNCHANGED <<control, events, sequence, acknowledged, delivered, polling, fault,
                   taken, agent, browser>>
SuperviseOnlyExpiry ==
    /\ operation = None
    /\ owner # None /\ idle
    /\ needsClose' = FALSE
    /\ Take(Supervisor, Job("expire", "call"))
    /\ UNCHANGED <<control, events, sequence, acknowledged, delivered, polling, fault,
                   taken, agent, browser>>
SuperviseOnlyOverflow ==
    /\ operation = None
    /\ needsClose
    /\ needsClose' = FALSE
    /\ Take(Supervisor, Job("overflow", "call"))
    /\ UNCHANGED <<control, events, sequence, acknowledged, delivered, polling, fault,
                   taken, agent, browser>>
\* The supervisor closes the session of a lease that expired or overflowed.
Supervise == /\ operation = None
             /\ needsClose \/ (owner # None /\ idle)
             /\ needsClose' = FALSE
             /\ Take(Supervisor, Job(IF owner # None /\ idle THEN "expire" ELSE "overflow",
                                     "call"))
             /\ UNCHANGED <<control, events, sequence, acknowledged, delivered, polling,
                            fault, taken, agent, browser>>

\* Agent.call(): refused if the agent is known to be dead, else written to it.
Call(a) == /\ job[a].step = "call"
           /\ \A b \in Actor : job[b].step \notin {"sent", "served", "stopping"}
           /\ job' = [job EXCEPT ![a].step = IF dead THEN "failed" ELSE "sent"]
           /\ UNCHANGED <<control, stream, operation, agent, browser>>

\* No reply in time, or the agent was lost meanwhile: it is stopped ...
CallFails(a) == /\ job[a].step \in {"sent", "served"}
                /\ AgentLost
                /\ crashed' = TRUE /\ session' = 0
                /\ job' = [job EXCEPT ![a].step = "stopping"]
                /\ UNCHANGED <<control, operation, pipe, emitted, browser>>

\* ... and the reader joined, which has read what the agent had put out.
Stopped(a) == /\ job[a].step = "stopping"
              /\ pipe = <<>>
              /\ job' = [job EXCEPT ![a].step = "failed"]
              /\ UNCHANGED <<control, stream, operation, agent, browser>>

\* What an operation does after its call, and the end of the lock. Only a claim
\* whose close failed leaves the lease as it was; the page of a claim that
\* succeeds starts over, unless the answer does not reach it.
Resets(j) == j.op \in {"release", "expire"} \/ (j.op = "claim" /\ j.step = "ok")
Finish(a) ==
    /\ job[a].step \in {"ok", "failed"}
    /\ operation' = None
    /\ job' = [job EXCEPT ![a] = Idle]
    /\ IF Resets(job[a])
       THEN Reset /\ strayed' = FALSE /\ owner' = IF job[a].op = "claim" THEN a ELSE None
       ELSE UNCHANGED <<control, stream, strayed>>
    /\ \/ /\ job[a].op = "claim" /\ job[a].step = "ok"
          /\ page' = [page EXCEPT ![a] = [NoPage EXCEPT !.lease = lease']]
       \/ UNCHANGED page
    /\ UNCHANGED <<agent, posts>>

\* The idle timeout of the lease passes.
LeaseTimesOut == /\ owner # None /\ ~idle
                 /\ idle' = TRUE
                 /\ UNCHANGED <<owner, lease, stream, agent, browser, work>>
-----------------------------------------------------------------------------
(* Event polls *)

Live(p) == page[p.client].lease = p.lease
\* A page asks for the events after its cursor, one poll at a time.
SendPoll(c) == /\ Open(c) /\ ~ \E p \in posts : p.client = c /\ Live(p)
               /\ Cardinality(posts) < MaxPosts
               /\ posts' = posts \cup {[client |-> c, lease |-> page[c].lease,
                                        after |-> page[c].cursor, held |-> -1]}
               /\ UNCHANGED <<control, stream, agent, page, strayed, work>>

\* A page is closed, or gives up; its poll goes on.
GiveUp(c) == /\ Open(c)
             /\ page' = [page EXCEPT ![c] = NoPage]
             /\ UNCHANGED <<control, stream, agent, posts, strayed, work>>

\* The poll is answered with an error: the page gives up control.
Refuse(p) == /\ posts' = posts \ {p}
             /\ page' = IF Live(p) THEN [page EXCEPT ![p.client] = NoPage] ELSE page

Acceptable(p) == ~polling /\ p.after \in acknowledged..delivered
\* What the loop of _poll pops: events from the front, up to the cursor.
Popped(cursor) == CHOOSE k \in 0..Len(events) :
                      /\ \A i \in 1..k : events[i].seq <= cursor
                      /\ k = Len(events) \/ events[k + 1].seq > cursor

HoldPollWithoutAck(p) ==
    /\ p \in posts /\ p.held = -1
    /\ IF owner = p.client /\ ~polling /\ p.after \in acknowledged..delivered
       THEN /\ idle' = FALSE
            /\ acknowledged' = p.after
            /\ polling' = TRUE
            /\ posts' = (posts \ {p}) \cup {[p EXCEPT !.held = lease]}
            /\ strayed' = (strayed \/ p.lease # lease)
            /\ UNCHANGED <<page, events>>
       ELSE /\ Refuse(p)
            /\ idle' = (idle /\ owner # p.client)
            /\ UNCHANGED <<acknowledged, polling, events, strayed>>
    /\ UNCHANGED <<owner, lease, sequence, delivered, fault, needsClose, taken, agent, work>>

\* _poll() up to its wait: the events up to the cursor are acknowledged.
HoldPoll(p) ==
    /\ p \in posts /\ p.held = -1
    /\ IF owner = p.client /\ Acceptable(p)
       THEN /\ idle' = FALSE
            /\ acknowledged' = p.after
            /\ events' = SubSeq(events, Popped(p.after) + 1, Len(events))
            /\ polling' = TRUE
            /\ posts' = (posts \ {p}) \cup {[p EXCEPT !.held = lease]}
            /\ strayed' = (strayed \/ p.lease # lease)
            /\ UNCHANGED page
       ELSE /\ Refuse(p)
            /\ idle' = (idle /\ owner # p.client)
            /\ UNCHANGED <<acknowledged, polling, events, strayed>>
    /\ UNCHANGED <<owner, lease, sequence, delivered, fault, needsClose, taken, agent, work>>

Answer == SubSeq(events, 1, IF Len(events) < Batch THEN Len(events) ELSE Batch)

AnswerAcrossLeases(p) ==
    /\ p \in posts /\ p.held # -1
    /\ idle' = FALSE
    /\ polling' = FALSE
    /\ delivered' = IF Answer = <<>> THEN delivered ELSE Last(Answer).seq
    /\ posts' = posts \ {p}
    /\ IF Live(p)
       THEN page' = [page EXCEPT ![p.client].got = @ \o Answer,
                                 ![p.client].cursor = delivered']
       ELSE UNCHANGED page
    /\ UNCHANGED <<owner, lease, events, sequence, acknowledged, fault, needsClose, taken,
                   strayed, agent, work>>

\* _poll() after its wait (for events, a fault, the end of the lease, or long
\* enough): the next batch, which the page applies unless the answer is lost.
AnswerPoll(p) ==
    /\ p \in posts /\ p.held # -1
    /\ IF p.held # lease
       THEN Refuse(p) /\ UNCHANGED <<idle, delivered, polling>>
       ELSE /\ idle' = FALSE
            /\ polling' = FALSE
            /\ delivered' = IF Answer = <<>> THEN delivered ELSE Last(Answer).seq
            /\ posts' = posts \ {p}
            /\ \/ /\ Live(p) /\ Answer # <<>>
                  /\ page' = [page EXCEPT ![p.client].got = @ \o Answer,
                                          ![p.client].cursor = Last(Answer).seq]
               \/ UNCHANGED page
    /\ UNCHANGED <<owner, lease, events, sequence, acknowledged, fault, needsClose, taken,
                   strayed, agent, work>>
-----------------------------------------------------------------------------

Operate(a) == Call(a) \/ Serve(a) \/ CallFails(a) \/ Stopped(a) \/ Finish(a)

Next == \/ \E c \in Client : \/ Claim(c) \/ Release(c)
                             \/ \E op \in {"open", "close"} : Request(c, op)
                             \/ SendPoll(c) \/ GiveUp(c)
        \/ \E p \in posts : HoldPoll(p) \/ AnswerPoll(p)
        \/ \E a \in Actor : Operate(a)
        \/ Supervise \/ LeaseTimesOut
        \/ AgentEmits \/ AgentCrashes \/ Read \/ ReadEnd

Spec == Init /\ [][Next]_vars

\* The gateway's threads keep running: the supervisor, which waits for the lock a
\* tenth of a second twice a second, does not miss every moment in which it is
\* free; the reader reads; a call returns or times out. Nothing makes a page act.
FairSpec == /\ Spec
            /\ SF_vars(Supervise)
            /\ WF_vars(Read \/ ReadEnd)
            /\ \A a \in Actor : WF_vars(Operate(a))
-----------------------------------------------------------------------------
(* Properties *)

\* Every variable has its type, the cursors their order and the buffer its bound.
TypeOK ==
    /\ owner \in Client \cup {None} /\ operation \in Actor \cup {None}
    /\ {idle, polling, needsClose, crashed, dead} \subseteq BOOLEAN
    /\ {lease, session, emitted, taken} \subseteq Nat
    /\ fault \in {"none", "overflow", "agent"}
    /\ 0 <= acknowledged /\ acknowledged <= delivered /\ delivered <= sequence
    /\ Len(events) <= EventCount
    /\ \A i \in DOMAIN events : events[i].seq \in 1..sequence
    /\ \A a \in Actor : job[a] = Idle \/
           /\ job[a].op \in {"claim", "release", "open", "close", "expire", "overflow"}
           /\ job[a].step \in {"call", "sent", "served", "ok", "stopping", "failed"}

\* A page never sees, and the buffer never holds, an event of a session that was
\* opened under another lease: closing puts out a session's last events before
\* the reply, and a poll held over the end of its lease is refused.
LeaseIsolation ==
    /\ \A i \in DOMAIN events : events[i].of = lease
    /\ \A c \in Client : \A i \in DOMAIN page[c].got : page[c].got[i].of = page[c].lease

\* What a page received is the stream from its start, once and without gaps, also
\* when answers were lost and the page asked again. Without a fault, every event
\* since the claim was received by the page or is still in the buffer: nothing is
\* lost without the "explicit data-loss error" (unless a late poll acknowledges in
\* its place: AcknowledgedWereReceived).
StreamIsWhole ==
    /\ TypeOK
    /\ \A c \in Client : \A i \in DOMAIN page[c].got : page[c].got[i].seq = i
    /\ \A c \in Client : page[c].lease = lease /\ fault = "none" /\ ~strayed =>
          \A n \in (page[c].cursor + 1)..taken : \E i \in DOMAIN events : events[i].seq = n

\* The claim of docs/remote-serial.md that taking control again from the same page
\* starts afresh: in the new lease, only what the page received in it counts as
\* acknowledged and leaves the buffer.
AcknowledgedWereReceived ==
    \A c \in Client : page[c].lease = lease => acknowledged <= page[c].cursor

\* An open session belongs to the lease in force and its owner: no page takes
\* over, and none leaves behind, a session that it did not open; and a page
\* operates the agent only while it owns the lease.
SessionHasOwner ==
    /\ session # 0 => session = lease /\ owner # None
    /\ \A c \in Client : job[c].op \in {"open", "close", "release"} => owner = c

\* A lease that nobody refreshes ends, also when the agent hangs: the next page is
\* not locked out. A session whose events overflowed the buffer is closed, although
\* its page goes on with its requests.
SupervisorActs == /\ []<>~idle
                  /\ []<>(fault = "overflow" => session = 0)
=============================================================================
