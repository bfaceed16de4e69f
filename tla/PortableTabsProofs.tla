---------------------------- MODULE PortableTabsProofs ----------------------------
(***************************************************************************)
(* Proofs about PortableTabs, for any number of tabs and ports and any     *)
(* length of the event queue. Most steps are of one tab: what its record   *)
(* promises (Sound) is kept by each operation the code has on a tab, and   *)
(* each is, without the tools, one of the Windows program or nothing.      *)
(***************************************************************************)
EXTENDS PortableTabs, SequenceTheorems, TLAPS

Event == {"up", "down", "rx", "done"}
Send == [by : {"user", "quick", "runner", "bridge"}, since : Mark]
TabRecord == [page : {None, "open", "closing"},
              capture : {None, "recording", "stopping", "finished"},
              serial : Path \cup {None}, keeps : BOOLEAN,
              port : {"closed", "open", "lost", "over"},
              events : Seq(Event), out : SUBSET Send,
              connected : BOOLEAN, log : BOOLEAN, missed : BOOLEAN,
              quick : Mark \cup {None}, runner : Mark \cup {None},
              transfer : {None, "active", "cancelled", "ended"},
              bridge : {None, "waiting", "linked", "eof"},
              deadline : {"unset", "set", "passed"}, modbus : BOOLEAN]

\* Who has the port alone finds nothing of others that is or will be sent; what
\* waits was asked for since the disconnect that the tab was told of; nothing that
\* was received is missing in the log.
Alone(s) == s.bridge # None => Quiet(s) /\ \A x \in s.out : x.by = "bridge"
Asked(s) == /\ s.quick # "told" /\ s.runner # "told"
            /\ \A x \in s.out : x.by # "bridge" => x.since # "told"
Sound(s) == s \in TabRecord /\ Alone(s) /\ Asked(s) /\ s.missed = FALSE

TabInv == /\ tab \in [Tab -> TabRecord]
          /\ \A t \in Tab : Sound(tab[t])
\* Of a tab that does not exist nothing is left.
PageInv == /\ \A t \in Tab : tab[t].page = None => tab[t] = NewTab(None)
           /\ app \in {"running", "closing", "gone"}
IInv == TabInv /\ PageInv

\* What an operation of the tools leaves of a tab as it was.
Keeps(s, u) == /\ u.page = s.page /\ u.capture = s.capture
               /\ WithoutTools(u) = WithoutTools(s)

\* A tab of the Windows program
WindowsRecord == [page : {None, "open", "closing"}, serial : Path \cup {None},
                  keeps : BOOLEAN, port : {"closed", "open", "lost", "over"},
                  events : Seq(Event), connected : BOOLEAN, log : BOOLEAN, missed : BOOLEAN]

LEMMA WithoutToolsTyped == \A s \in TabRecord : WithoutTools(s) \in WindowsRecord
BY DEF WithoutTools, WindowsRecord, TabRecord

LEMMA SameRecord ==
    ASSUME NEW v \in WindowsRecord, NEW w \in WindowsRecord,
           v.page = w.page, v.serial = w.serial, v.keeps = w.keeps, v.port = w.port,
           v.events = w.events, v.connected = w.connected, v.log = w.log, v.missed = w.missed
    PROVE  v = w
BY DEF WindowsRecord

-----------------------------------------------------------------------------
(* A new tab, and what is cancelled, sent or aged *)

LEMMA NewTabSound ==
    ASSUME NEW page \in {None, "open", "closing"}
    PROVE  /\ NewTab(page) \in TabRecord /\ Sound(NewTab(page))
           /\ NewTab(page).page = page /\ NewTab(page).capture = None
<1>1. NewTab(page) \in TabRecord
      BY DEF NewTab, TabRecord, None
<1>2. Alone(NewTab(page)) /\ Asked(NewTab(page)) /\ NewTab(page).missed = FALSE
      BY DEF NewTab, Alone, Asked, None
<1> QED BY <1>1, <1>2 DEF Sound, NewTab

LEMMA CancelSendsSound ==
    ASSUME NEW s, Sound(s)
    PROVE  /\ Sound(CancelSends(s)) /\ Keeps(s, CancelSends(s))
           /\ CancelSends(s).quick = None /\ CancelSends(s).runner = None
           /\ CancelSends(s).events = s.events /\ CancelSends(s).serial = s.serial
<1> DEFINE u == CancelSends(s)
<1>1. s \in TabRecord
      BY DEF Sound
<1>2. /\ u \in TabRecord /\ u.quick = None /\ u.runner = None
      /\ u.page = s.page /\ u.capture = s.capture /\ u.serial = s.serial /\ u.keeps = s.keeps
      /\ u.port = s.port /\ u.events = s.events /\ u.out = s.out /\ u.connected = s.connected
      /\ u.log = s.log /\ u.missed = s.missed /\ u.bridge = s.bridge
      BY <1>1 DEF CancelSends, TabRecord, None
<1> HIDE DEF u
<1>3. Sound(u)
      BY <1>2 DEF Sound, Alone, Asked, Quiet, Running, None
<1> QED BY <1>2, <1>3 DEF Keeps, WithoutTools, u

LEMMA CancelSound ==
    ASSUME NEW s, Sound(s)
    PROVE  /\ Sound(Cancel(s)) /\ Keeps(s, Cancel(s)) /\ Cancel(s).events = s.events
           /\ Cancel(s).serial = s.serial /\ Cancel(s).bridge = s.bridge
<1>1. s \in TabRecord
      BY DEF Sound
<1>2. CASE Active(s)
  <2> DEFINE u == [s EXCEPT !.transfer = "cancelled"]
  <2>1. /\ u \in TabRecord /\ u.quick = s.quick /\ u.runner = s.runner
        /\ u.page = s.page /\ u.capture = s.capture /\ u.serial = s.serial /\ u.keeps = s.keeps
        /\ u.port = s.port /\ u.events = s.events /\ u.out = s.out /\ u.connected = s.connected
        /\ u.log = s.log /\ u.missed = s.missed /\ u.bridge = s.bridge
        BY <1>1 DEF TabRecord
  <2>2. Cancel(s) = u
        BY <1>2 DEF Cancel
  <2> HIDE DEF u
  <2>3. Sound(u)
        BY <2>1 DEF Sound, Alone, Asked, Quiet, Running
  <2> QED BY <2>1, <2>2, <2>3 DEF Keeps, WithoutTools
<1>3. CASE ~Active(s)
      BY <1>3 DEF Cancel, Keeps
<1> QED BY <1>2, <1>3

\* What waits grows older; after a disconnect that was told, nothing does.
LEMMA AgeSound ==
    ASSUME NEW s, Sound(s), NEW from \in Mark, NEW to \in Mark,
           to = "told" => s.quick = None /\ s.runner = None
    PROVE  /\ Sound(Age(s, from, to)) /\ Keeps(s, Age(s, from, to))
           /\ Age(s, from, to).events = s.events /\ Age(s, from, to).serial = s.serial
           /\ Age(s, from, to).bridge = s.bridge
<1> DEFINE u == Age(s, from, to)
<1>1. s \in TabRecord
      BY DEF Sound
<1>2. None \notin Mark
      BY DEF None, Mark
<1>3. /\ Aged(s.quick, from, to) \in Mark \cup {None}
      /\ Aged(s.runner, from, to) \in Mark \cup {None}
      /\ Aged(s.quick, from, to) = None <=> s.quick = None
      /\ Aged(s.runner, from, to) = None <=> s.runner = None
      BY <1>1, <1>2 DEF Aged, TabRecord
<1>4. Aged(s.quick, from, to) # "told" /\ Aged(s.runner, from, to) # "told"
      BY <1>2 DEF Aged, Sound, Asked, Mark
<1>5. /\ u \in TabRecord /\ u.quick = Aged(s.quick, from, to)
      /\ u.runner = Aged(s.runner, from, to)
      /\ u.page = s.page /\ u.capture = s.capture /\ u.serial = s.serial /\ u.keeps = s.keeps
      /\ u.port = s.port /\ u.events = s.events /\ u.out = s.out /\ u.connected = s.connected
      /\ u.log = s.log /\ u.missed = s.missed /\ u.bridge = s.bridge
      BY <1>1, <1>3 DEF Age, TabRecord
<1> HIDE DEF u
<1>6. Sound(u)
      BY <1>3, <1>4, <1>5 DEF Sound, Alone, Asked, Quiet, Running
<1> QED BY <1>5, <1>6 DEF Keeps, WithoutTools, u

\* A send is queued by whom the port is free for, or by the bridge.
LEMMA SentSound ==
    ASSUME NEW s, Sound(s), NEW by \in {"user", "quick", "runner", "bridge"}, NEW since \in Mark,
           s.bridge # None => by = "bridge", since # "told"
    PROVE  Sound(Sent(s, by, since)) /\ Keeps(s, Sent(s, by, since))
<1>1. s \in TabRecord
      BY DEF Sound
<1>2. CASE s.port = "open"
  <2> DEFINE x == [by |-> by, since |-> since]
             u == [s EXCEPT !.out = s.out \cup {x}]
  <2>1. x \in Send
        BY DEF Send
  <2>2. s.out \in SUBSET Send
        BY <1>1 DEF TabRecord
  <2>3. s.out \cup {x} \in SUBSET Send
        BY <2>1, <2>2
  <2>4. /\ u \in TabRecord /\ u.quick = s.quick /\ u.runner = s.runner
        /\ u.page = s.page /\ u.capture = s.capture /\ u.serial = s.serial /\ u.keeps = s.keeps
        /\ u.port = s.port /\ u.events = s.events /\ u.connected = s.connected
        /\ u.log = s.log /\ u.missed = s.missed /\ u.bridge = s.bridge
        /\ u.out = s.out \cup {x}
        BY <1>1, <2>3 DEF TabRecord
  <2>5. Sent(s, by, since) = u
        BY <1>2 DEF Sent
  <2>6. x.by = by /\ x.since = since
        OBVIOUS
  <2> HIDE DEF u, x
  <2>7. Sound(u)
        BY <2>4, <2>6 DEF Sound, Alone, Asked, Quiet, Running
  <2> QED BY <2>4, <2>5, <2>7 DEF Keeps, WithoutTools
<1>3. CASE s.port # "open"
      BY <1>3 DEF Sent, Keeps
<1> QED BY <1>2, <1>3

-----------------------------------------------------------------------------
(* Events *)

LEMMA StatusIsBoolean ==
    ASSUME NEW taken, NEW before \in BOOLEAN
    PROVE  /\ StatusAfter(taken, before) \in BOOLEAN
           /\ Windows!StatusAfter(taken, before) = StatusAfter(taken, before)
<1>1. StatusAfter(taken, before) \in BOOLEAN
      BY DEF StatusAfter
<1>2. Windows!StatusAfter(taken, before) = StatusAfter(taken, before)
      BY DEF StatusAfter, Windows!StatusAfter, Max, Windows!Max
<1> QED BY <1>1, <1>2

\* What stays of a queue when its first k events are taken
LEMMA RestOfEvents ==
    ASSUME NEW events \in Seq(Event), NEW k \in 0..Len(events)
    PROVE  /\ SubSeq(events, k + 1, Len(events)) \in Seq(Event)
           /\ k = Len(events) => SubSeq(events, k + 1, Len(events)) = <<>>
<1>1. SubSeq(events, k + 1, Len(events)) \in Seq(Event)
      BY SubSeqProperties
<1>2. ASSUME k = Len(events) PROVE SubSeq(events, k + 1, Len(events)) = <<>>
      BY <1>2, SubSeqProperties, EmptySeq
<1> QED BY <1>1, <1>2

LEMMA DeliverSound ==
    ASSUME NEW s, Sound(s), NEW k \in 0..Len(s.events)
    PROVE  /\ Sound(Deliver(s, k))
           /\ Deliver(s, k).page = s.page /\ Deliver(s, k).capture = s.capture
           /\ WithoutTools(Deliver(s, k)) = Windows!Deliver(WithoutTools(s), k)
           /\ k = Len(s.events) => Deliver(s, k).events = <<>>
           /\ Deliver(s, k).serial = s.serial
<1> DEFINE taken == SubSeq(s.events, 1, k)
           events == SubSeq(s.events, k + 1, Len(s.events))
           connected == StatusAfter(taken, s.connected)
           rest == [s EXCEPT !.events = events, !.connected = connected]
<1>1. s \in TabRecord /\ s.events \in Seq(Event) /\ s.connected \in BOOLEAN
      BY DEF Sound, TabRecord
<1>2. events \in Seq(Event) /\ (k = Len(s.events) => events = <<>>)
      BY <1>1, RestOfEvents
<1>3. connected \in BOOLEAN /\ Windows!StatusAfter(taken, s.connected) = connected
      BY <1>1, StatusIsBoolean
<1>4. Deliver(s, k) = IF Contains(taken, "down") THEN Age(CancelSends(rest), "lost", "told")
                      ELSE rest
      BY DEF Deliver
<1>5. WithoutTools(s).events = s.events /\ WithoutTools(s).connected = s.connected
      BY DEF WithoutTools
<1>6. Windows!Deliver(WithoutTools(s), k)
          = [WithoutTools(s) EXCEPT !.events = events, !.connected = connected]
      BY <1>3, <1>5 DEF Windows!Deliver
<1> HIDE DEF taken, events, connected
<1>7. /\ rest \in TabRecord /\ rest.quick = s.quick /\ rest.runner = s.runner
      /\ rest.page = s.page /\ rest.capture = s.capture /\ rest.serial = s.serial
      /\ rest.keeps = s.keeps /\ rest.port = s.port /\ rest.events = events
      /\ rest.connected = connected /\ rest.out = s.out
      /\ rest.log = s.log /\ rest.missed = s.missed /\ rest.bridge = s.bridge
      BY <1>1, <1>2, <1>3 DEF TabRecord
<1> HIDE DEF rest
<1>8. Sound(rest)
      BY <1>7 DEF Sound, Alone, Asked, Quiet, Running
<1> DEFINE seen == [page |-> s.page, serial |-> s.serial, keeps |-> s.keeps, port |-> s.port,
                    events |-> events, connected |-> connected, log |-> s.log,
                    missed |-> s.missed]
<1>9. WithoutTools(rest) = [WithoutTools(s) EXCEPT !.events = events, !.connected = connected]
  <2>1. WithoutTools(rest) = seen
        BY <1>7 DEF WithoutTools
  <2>2. PICK w \in WindowsRecord : w = WithoutTools(s)
        BY <1>1, WithoutToolsTyped
  <2>3. [w EXCEPT !.events = events, !.connected = connected] = seen
    <3>1. /\ w.page = s.page /\ w.serial = s.serial /\ w.keeps = s.keeps /\ w.port = s.port
          /\ w.log = s.log /\ w.missed = s.missed
          BY <1>1, <2>2 DEF WithoutTools, TabRecord
    <3> DEFINE x == [w EXCEPT !.events = events, !.connected = connected]
    <3>2. /\ x \in WindowsRecord /\ x.page = w.page /\ x.serial = w.serial
          /\ x.keeps = w.keeps /\ x.port = w.port /\ x.log = w.log /\ x.missed = w.missed
          /\ x.events = events /\ x.connected = connected
          BY <1>2, <1>3 DEF WindowsRecord
    <3>3. seen \in WindowsRecord
          BY <1>1, <1>2, <1>3 DEF WindowsRecord, TabRecord
    <3> HIDE DEF x
    <3>4. x = seen
          BY <3>1, <3>2, <3>3, SameRecord
    <3> QED BY <3>4 DEF x
  <2> QED BY <2>1, <2>2, <2>3
<1>10. CASE ~Contains(taken, "down")
       BY <1>2, <1>4, <1>6, <1>7, <1>8, <1>9, <1>10
<1>11. CASE Contains(taken, "down")
  <2> DEFINE c == CancelSends(rest)
  <2>1. Sound(c) /\ Keeps(rest, c) /\ c.quick = None /\ c.runner = None
        /\ c.events = rest.events /\ c.serial = rest.serial
        BY <1>8, CancelSendsSound
  <2> HIDE DEF c
  <2>2. "lost" \in Mark /\ "told" \in Mark
        BY DEF Mark
  <2>3. Sound(Age(c, "lost", "told")) /\ Keeps(c, Age(c, "lost", "told"))
        /\ Age(c, "lost", "told").events = c.events /\ Age(c, "lost", "told").serial = c.serial
        BY <2>1, <2>2, AgeSound
  <2>4. Deliver(s, k) = Age(c, "lost", "told")
        BY <1>4, <1>11 DEF c
  <2> QED BY <1>2, <1>6, <1>7, <1>9, <2>1, <2>3, <2>4 DEF Keeps
<1> QED BY <1>10, <1>11

-----------------------------------------------------------------------------
(* The end of a session *)

LEMMA StoppedSound ==
    ASSUME NEW s, Sound(s), NEW capture \in {None, "recording", "stopping", "finished"}
    PROVE  /\ Sound(Stopped(s, capture))
           /\ Stopped(s, capture) = [NewTab(s.page) EXCEPT !.capture = capture]
           /\ Stopped(s, capture).page = s.page /\ Stopped(s, capture).capture = capture
           /\ WithoutTools(Stopped(s, capture)) = WithoutTools(NewTab(s.page))
<1> DEFINE free == [CancelSends(s) EXCEPT !.modbus = FALSE, !.transfer = None, !.bridge = None]
           ended == IF s.serial = None THEN free ELSE Discard(Drain(free))
           u == [NewTab(s.page) EXCEPT !.capture = capture]
<1>1. s \in TabRecord /\ s.page \in {None, "open", "closing"}
      BY DEF Sound, TabRecord
<1>2. Stopped(s, capture) = [NewTab(s.page) EXCEPT !.missed = ended.missed, !.capture = capture]
      BY DEF Stopped
<1>3. Sound(free)
  <2>1. PICK c \in TabRecord : c = CancelSends(s) /\ Sound(c)
        BY CancelSendsSound DEF Sound
  <2>2. free = [c EXCEPT !.modbus = FALSE, !.transfer = None, !.bridge = None]
        BY <2>1
  <2> HIDE DEF free
  <2>3. /\ free \in TabRecord /\ free.quick = c.quick /\ free.runner = c.runner
        /\ free.out = c.out /\ free.missed = c.missed /\ free.bridge = None
        BY <2>2 DEF TabRecord, None
  <2> QED BY <2>1, <2>3 DEF Sound, Alone, Asked
<1> HIDE DEF free
<1>4. Discard(Drain(free)).missed = FALSE
  <2>1. free.events \in Seq(Event) /\ Len(free.events) \in 0..Len(free.events)
        BY <1>3 DEF Sound, TabRecord
  <2>2. Sound(Drain(free)) /\ Drain(free).events = <<>>
        BY <1>3, <2>1, DeliverSound DEF Drain
  <2>3. ~Contains(<<>>, "rx")
        BY DEF Contains
  <2>4. PICK d \in TabRecord : d = Drain(free) /\ d.missed = FALSE /\ d.events = <<>>
        BY <2>2 DEF Sound
  <2>5. Discard(d) = [d EXCEPT !.missed = FALSE, !.events = <<>>]
        BY <2>3, <2>4 DEF Discard
  <2>6. Discard(d).missed = FALSE
        BY <2>5 DEF TabRecord
  <2> QED BY <2>4, <2>6
<1>5. ended.missed = FALSE
      BY <1>3, <1>4 DEF Sound
<1> HIDE DEF ended
<1>6. Stopped(s, capture) = u
  <2>1. PICK n \in TabRecord : n = NewTab(s.page) /\ n.missed = FALSE
        BY <1>1, NewTabSound DEF Sound
  <2>2. [n EXCEPT !.missed = FALSE, !.capture = capture] = [n EXCEPT !.capture = capture]
        BY <2>1 DEF TabRecord
  <2> QED BY <1>2, <1>5, <2>1, <2>2
<1>7. NewTab(s.page) \in TabRecord
      BY <1>1, NewTabSound
<1>8. /\ u \in TabRecord /\ u.page = s.page /\ u.capture = capture /\ u.serial = None
      /\ u.keeps = FALSE /\ u.port = "closed" /\ u.events = <<>> /\ u.out = {}
      /\ u.connected = FALSE /\ u.log = FALSE /\ u.missed = FALSE /\ u.quick = None
      /\ u.runner = None /\ u.bridge = None
      BY <1>7 DEF NewTab, TabRecord
<1> HIDE DEF u
<1>9. Sound(u)
      BY <1>8 DEF Sound, Alone, Asked, None
<1>10. WithoutTools(u) = WithoutTools(NewTab(s.page))
       BY <1>8 DEF WithoutTools, NewTab
<1> QED BY <1>6, <1>8, <1>9, <1>10 DEF u

\* What is recorded while a session ends, is written to its end.
LEMMA StopTabSound ==
    ASSUME NEW s, Sound(s)
    PROVE  /\ Sound(StopTab(s)) /\ StopTab(s).page = s.page
           /\ WithoutTools(StopTab(s)) = WithoutTools(NewTab(s.page))
           /\ Recording(StopTab(s)) <=> Recording(s)
           /\ s = NewTab(None) => StopTab(s) = NewTab(None)
<1> DEFINE capture == IF s.capture = "recording" THEN "stopping" ELSE s.capture
<1>1. s.capture \in {None, "recording", "stopping", "finished"}
      BY DEF Sound, TabRecord
<1>2. capture \in {None, "recording", "stopping", "finished"}
      BY <1>1
<1>3. StopTab(s) = Stopped(s, capture)
      BY DEF StopTab
<1>4. (capture \in {"recording", "stopping"}) <=> (s.capture \in {"recording", "stopping"})
      BY <1>1
<1>5. s = NewTab(None) => capture = None
      BY NewTabSound DEF None
<1> HIDE DEF capture
<1>6. /\ Sound(Stopped(s, capture))
      /\ Stopped(s, capture) = [NewTab(s.page) EXCEPT !.capture = capture]
      /\ Stopped(s, capture).page = s.page /\ Stopped(s, capture).capture = capture
      /\ WithoutTools(Stopped(s, capture)) = WithoutTools(NewTab(s.page))
      BY <1>2, StoppedSound
<1>7. s = NewTab(None) => StopTab(s) = NewTab(None)
  <2> SUFFICES ASSUME s = NewTab(None) PROVE StopTab(s) = NewTab(None)
      OBVIOUS
  <2>1. s.page = None
        BY DEF NewTab
  <2> QED BY <1>3, <1>5, <1>6, <2>1 DEF NewTab
<1> QED BY <1>3, <1>4, <1>6, <1>7 DEF Recording

-----------------------------------------------------------------------------
(* The bridge *)

\* The bridge of a tab changes, or goes; so may its transfer and its deadline.
LEMMA BridgeSound ==
    ASSUME NEW s, Sound(s), NEW u \in TabRecord, Keeps(s, u),
           u.quick = s.quick, u.runner = s.runner, u.out = s.out,
           u.bridge # None => s.bridge # None
    PROVE  Sound(u)
<1>1. s \in TabRecord /\ s.missed = FALSE
      BY DEF Sound
<1>2. u.missed = s.missed
  <2>1. WithoutTools(u).missed = u.missed /\ WithoutTools(s).missed = s.missed
        BY DEF WithoutTools
  <2> QED BY <2>1 DEF Keeps
<1> QED BY <1>1, <1>2 DEF Sound, Alone, Asked, Quiet, Running

LEMMA BridgeTickSound ==
    ASSUME NEW s, Sound(s), NEW b \in BridgeTick(s)
    PROVE  /\ Sound(b.s) /\ Keeps(s, b.s) /\ b.s.modbus = s.modbus
           /\ b.s.connected = s.connected
<1>1. s \in TabRecord
      BY DEF Sound
<1>2. b.s = s \/ (s.bridge \in {"linked", "eof"} /\ b.s = [s EXCEPT !.bridge = "eof"])
      \/ (s.bridge = "linked" /\ b.s = Sent(s, "bridge", "this"))
      BY DEF BridgeTick
<1>3. CASE b.s = s
      BY <1>3 DEF Keeps
<1>4. CASE s.bridge \in {"linked", "eof"} /\ b.s = [s EXCEPT !.bridge = "eof"]
  <2> DEFINE u == [s EXCEPT !.bridge = "eof"]
  <2>1. /\ u \in TabRecord /\ u.quick = s.quick /\ u.runner = s.runner
        /\ u.page = s.page /\ u.capture = s.capture /\ u.serial = s.serial /\ u.keeps = s.keeps
        /\ u.port = s.port /\ u.events = s.events /\ u.out = s.out /\ u.connected = s.connected
        /\ u.log = s.log /\ u.missed = s.missed /\ u.modbus = s.modbus
        BY <1>1 DEF TabRecord
  <2>2. b.s = u /\ s.bridge # None
        BY <1>4 DEF None
  <2> HIDE DEF u
  <2>3. Keeps(s, u)
        BY <2>1 DEF Keeps, WithoutTools
  <2> QED BY <2>1, <2>2, <2>3, BridgeSound
<1>5. CASE s.bridge = "linked" /\ b.s = Sent(s, "bridge", "this")
  <2>1. "this" \in Mark
        BY DEF Mark
  <2>2. Sound(Sent(s, "bridge", "this")) /\ Keeps(s, Sent(s, "bridge", "this"))
        BY <2>1, SentSound
  <2>3. /\ Sent(s, "bridge", "this").modbus = s.modbus
        /\ Sent(s, "bridge", "this").connected = s.connected
        BY <1>1 DEF Sent, TabRecord
  <2> QED BY <1>5, <2>2, <2>3
<1> QED BY <1>2, <1>3, <1>4, <1>5

\* [s EXCEPT !.bridge = None] and the like: the bridge goes.
LEMMA UnbridgedSound ==
    ASSUME NEW s, Sound(s), NEW modbus \in BOOLEAN
    PROVE  LET u == [s EXCEPT !.modbus = modbus, !.bridge = None]
           IN Sound(u) /\ Keeps(s, u)
<1> DEFINE u == [s EXCEPT !.modbus = modbus, !.bridge = None]
<1>1. s \in TabRecord
      BY DEF Sound
<1>2. /\ u \in TabRecord /\ u.quick = s.quick /\ u.runner = s.runner
      /\ u.page = s.page /\ u.capture = s.capture /\ u.serial = s.serial /\ u.keeps = s.keeps
      /\ u.port = s.port /\ u.events = s.events /\ u.out = s.out /\ u.connected = s.connected
      /\ u.log = s.log /\ u.missed = s.missed /\ u.bridge = None
  <2>1. PICK bridge \in {None, "waiting", "linked", "eof"} : bridge = None
        OBVIOUS
  <2> QED BY <1>1, <2>1 DEF TabRecord
<1> HIDE DEF u
<1>3. Keeps(s, u)
      BY <1>2 DEF Keeps, WithoutTools
<1>4. Sound(u)
      BY <1>2, <1>3, BridgeSound
<1> QED BY <1>3, <1>4 DEF u

LEMMA ReleasedSound ==
    ASSUME NEW s, Sound(s)
    PROVE  Sound(Released(s)) /\ Keeps(s, Released(s))
<1>1. s \in TabRecord
      BY DEF Sound
<1>2. CASE Active(s) \/ s.bridge = None
      BY <1>2 DEF Released, Keeps
<1>3. CASE ~(Active(s) \/ s.bridge = None)
  <2>1. PICK deadline \in {"unset", "set", "passed"} :
            deadline = IF s.deadline = "unset" THEN "set" ELSE s.deadline
        BY <1>1 DEF TabRecord
  <2>2. PICK bridge \in {None, "waiting", "linked", "eof"} :
            bridge = IF Drained(s) \/ ~s.connected \/ s.deadline = "passed"
                     THEN None ELSE s.bridge
        BY <1>1 DEF TabRecord
  <2> DEFINE u == [s EXCEPT !.deadline = deadline, !.bridge = bridge]
  <2>3. Released(s) = u
        BY <1>3, <2>1, <2>2 DEF Released
  <2>4. /\ u \in TabRecord /\ u.quick = s.quick /\ u.runner = s.runner
        /\ u.page = s.page /\ u.capture = s.capture /\ u.serial = s.serial /\ u.keeps = s.keeps
        /\ u.port = s.port /\ u.events = s.events /\ u.out = s.out /\ u.connected = s.connected
        /\ u.log = s.log /\ u.missed = s.missed
    <3>1. u \in TabRecord
          BY <1>1 DEF TabRecord
    <3>2. u.quick = s.quick /\ u.runner = s.runner /\ u.out = s.out
          BY <1>1 DEF TabRecord
    <3>3. u.page = s.page /\ u.capture = s.capture /\ u.serial = s.serial
          BY <1>1 DEF TabRecord
    <3>4. u.port = s.port /\ u.events = s.events
          BY <1>1 DEF TabRecord
    <3>5. u.keeps = s.keeps /\ u.connected = s.connected
          BY <1>1 DEF TabRecord
    <3>6. u.log = s.log /\ u.missed = s.missed
          BY <1>1 DEF TabRecord
    <3> QED BY <3>1, <3>2, <3>3, <3>4, <3>5, <3>6
  <2> HIDE DEF u
  <2>5. Keeps(s, u)
        BY <2>4 DEF Keeps, WithoutTools
  <2>6. s.bridge # None
        BY <1>3
  <2> QED BY <2>3, <2>4, <2>5, <2>6, BridgeSound
<1> QED BY <1>2, <1>3

LEMMA TransferUpdateSound ==
    ASSUME NEW s, Sound(s), NEW u \in TransferUpdate(s)
    PROVE  Sound(u) /\ Keeps(s, u)
<1> DEFINE closed == [s EXCEPT !.modbus = FALSE, !.bridge = None]
           told == IF s.connected THEN s ELSE Cancel(s)
<1>1. Sound(closed) /\ Keeps(s, closed)
      BY UnbridgedSound
<1>2. Sound(told) /\ Keeps(s, told)
      BY CancelSound DEF Keeps
<1>3. \/ u = closed
      \/ \E b \in BridgeTick(s) : u = b.s
      \/ u = [s EXCEPT !.bridge = None]
      \/ \E b \in BridgeTick(told) : u = Released(IF b.ok THEN b.s ELSE Cancel(b.s))
      BY DEF TransferUpdate
<1> HIDE DEF closed, told
<1>4. CASE u = closed
      BY <1>1, <1>4
<1>5. CASE \E b \in BridgeTick(s) : u = b.s
      BY <1>5, BridgeTickSound
<1>6. CASE u = [s EXCEPT !.bridge = None]
  <2>1. PICK modbus \in BOOLEAN : modbus = s.modbus
        BY DEF Sound, TabRecord
  <2>2. [s EXCEPT !.bridge = None] = [s EXCEPT !.modbus = modbus, !.bridge = None]
        BY <2>1 DEF Sound, TabRecord
  <2> QED BY <1>6, <2>2, UnbridgedSound
<1>7. CASE \E b \in BridgeTick(told) : u = Released(IF b.ok THEN b.s ELSE Cancel(b.s))
  <2>1. PICK b \in BridgeTick(told) : u = Released(IF b.ok THEN b.s ELSE Cancel(b.s))
        BY <1>7
  <2>2. Sound(b.s) /\ Keeps(told, b.s)
        BY <1>2, BridgeTickSound
  <2>3. Sound(Cancel(b.s)) /\ Keeps(b.s, Cancel(b.s))
        BY <2>2, CancelSound
  <2>4. PICK v : v = (IF b.ok THEN b.s ELSE Cancel(b.s)) /\ Sound(v) /\ Keeps(told, v)
        BY <2>2, <2>3 DEF Keeps
  <2>5. Sound(Released(v)) /\ Keeps(v, Released(v))
        BY <2>4, ReleasedSound
  <2> QED BY <1>2, <2>1, <2>4, <2>5 DEF Keeps
<1> QED BY <1>3, <1>4, <1>5, <1>6, <1>7

-----------------------------------------------------------------------------
(* The worker *)

SeenMoved(w, port, event) == [w EXCEPT !.port = port, !.events = Append(w.events, event)]

LEMMA MovedSound ==
    ASSUME NEW s, Sound(s), NEW port \in {"closed", "open", "lost", "over"}, NEW event \in Event
    PROVE  /\ Sound(Moved(s, port, event))
           /\ Moved(s, port, event).page = s.page /\ Moved(s, port, event).capture = s.capture
           /\ WithoutTools(Moved(s, port, event)) = SeenMoved(WithoutTools(s), port, event)
<1> DEFINE aged == IF s.port = "open" /\ port # "open" THEN Age(s, "this", "lost") ELSE s
<1>1. Sound(aged) /\ Keeps(s, aged) /\ aged.events = s.events /\ aged.bridge = s.bridge
  <2>1. "this" \in Mark /\ "lost" \in Mark /\ "lost" # "told"
        BY DEF Mark
  <2> QED BY <2>1, AgeSound DEF Keeps
<1>2. PICK a \in TabRecord : a = aged
      BY <1>1 DEF Sound
<1>3. PICK events \in Seq(Event) : events = Append(a.events, event)
  <2>1. a.events \in Seq(Event)
        BY DEF TabRecord
  <2> QED BY <2>1, AppendProperties
<1>4. PICK out \in SUBSET Send : out = IF port = "open" THEN a.out ELSE {}
      BY DEF TabRecord
<1> DEFINE u == [a EXCEPT !.port = port, !.events = events, !.out = out]
<1>5. Moved(s, port, event) = u
      BY <1>2, <1>3, <1>4 DEF Moved
<1> HIDE DEF aged
<1>6. /\ u \in TabRecord /\ u.quick = a.quick /\ u.runner = a.runner
      /\ u.page = a.page /\ u.capture = a.capture /\ u.serial = a.serial /\ u.keeps = a.keeps
      /\ u.port = port /\ u.events = events /\ u.out = out /\ u.connected = a.connected
      /\ u.log = a.log /\ u.missed = a.missed /\ u.bridge = a.bridge
      BY DEF TabRecord
<1> HIDE DEF u
<1>7. Sound(u)
      BY <1>1, <1>2, <1>4, <1>6 DEF Sound, Alone, Asked, Quiet, Running
<1>8. WithoutTools(u) = [WithoutTools(a) EXCEPT !.port = port, !.events = events]
  <2>1. PICK w \in WindowsRecord : w = WithoutTools(a)
        BY WithoutToolsTyped
  <2>2. /\ w.page = a.page /\ w.serial = a.serial /\ w.keeps = a.keeps
        /\ w.connected = a.connected /\ w.log = a.log /\ w.missed = a.missed
        BY <2>1 DEF WithoutTools, TabRecord
  <2> DEFINE x == [w EXCEPT !.port = port, !.events = events]
  <2>3. /\ x \in WindowsRecord /\ x.page = w.page /\ x.serial = w.serial
        /\ x.keeps = w.keeps /\ x.port = port /\ x.log = w.log /\ x.missed = w.missed
        /\ x.events = events /\ x.connected = w.connected
        BY DEF WindowsRecord
  <2> DEFINE v == WithoutTools(u)
  <2>4. /\ v \in WindowsRecord /\ v.page = u.page /\ v.serial = u.serial
        /\ v.keeps = u.keeps /\ v.port = u.port /\ v.log = u.log /\ v.missed = u.missed
        /\ v.events = u.events /\ v.connected = u.connected
    <3>1. v \in WindowsRecord
          BY <1>6, WithoutToolsTyped
    <3> QED BY <3>1 DEF WithoutTools
  <2> HIDE DEF x, v
  <2>5. v = x
        BY <1>6, <2>2, <2>3, <2>4, SameRecord
  <2> QED BY <2>1, <2>5 DEF x, v
<1>9. u.page = s.page /\ u.capture = s.capture /\ WithoutTools(a) = WithoutTools(s)
      BY <1>1, <1>2, <1>6 DEF Keeps
<1>10. WithoutTools(a).events = a.events
       BY DEF WithoutTools
<1>11. WithoutTools(u) = SeenMoved(WithoutTools(a), port, event)
       BY <1>3, <1>8, <1>10 DEF SeenMoved
<1> QED BY <1>5, <1>7, <1>9, <1>11

-----------------------------------------------------------------------------
(* Steps of one tab *)

\* What the Windows program has of this state.
WTab == [t \in Tab |-> WithoutTools(IF app = "running" THEN tab[t] ELSE NewTab(None))]
WApp == IF app = "running" THEN app ELSE "gone"
WDialog == IF dialog.kind \in {"close", "quit"} THEN dialog ELSE NoDialog

\* No recording is freed while it has writes to do.
Kept == \A t \in Tab : Recording(tab[t]) => tab'[t].capture # None
\* A step of the Windows program, or one it does not have
Like == \/ \E t \in Tab : "closing" \in {tab[t].page, tab'[t].page}
        \/ ImportSettings
        \/ Windows!Next
        \/ UNCHANGED <<WTab, WApp, WDialog>>

LEMMA TabStep ==
    ASSUME IInv, NEW t \in Tab, NEW s, Sound(s), s.page # None,
           tab' = [tab EXCEPT ![t] = s], UNCHANGED app,
           Recording(tab[t]) => s.capture # None
    PROVE  IInv' /\ Kept
<1>1. s \in TabRecord
      BY DEF Sound
<1>2. tab \in [Tab -> TabRecord] /\ tab'[t] = s /\ \A u \in Tab : u # t => tab'[u] = tab[u]
      BY DEF IInv, TabInv
<1>3. TabInv'
  <2>1. tab' \in [Tab -> TabRecord]
        BY <1>1, <1>2
  <2>2. ASSUME NEW u \in Tab PROVE Sound(tab'[u])
    <3>1. Sound(tab[u])
          BY DEF IInv, TabInv
    <3> QED BY <1>2, <3>1
  <2> QED BY <2>1, <2>2 DEF TabInv, Sound, Alone, Asked, Quiet, Running
<1>4. PageInv'
      BY <1>2 DEF IInv, PageInv
<1>5. Kept
  <2>1. ASSUME NEW u \in Tab, Recording(tab[u]) PROVE tab'[u].capture # None
    <3>1. CASE u = t
          BY <1>2, <2>1, <3>1
    <3>2. CASE u # t
          BY <1>2, <2>1, <3>2 DEF Recording, None
    <3> QED BY <3>1, <3>2
  <2> QED BY <2>1 DEF Kept
<1> QED BY <1>3, <1>4, <1>5 DEF IInv

\* A step of the tools is none of the Windows program.
LEMMA ToolStep ==
    ASSUME IInv, NEW t \in Tab, NEW s \in TabRecord, Alone(s), Asked(s), tab[t].page # None,
           WithoutTools(s) = WithoutTools(tab[t]),
           tab' = [tab EXCEPT ![t] = s], UNCHANGED <<app, WDialog>>,
           Recording(tab[t]) => s.capture # None
    PROVE  IInv' /\ Kept /\ Like
<1>1. tab \in [Tab -> TabRecord] /\ Sound(tab[t]) /\ tab'[t] = s
      /\ \A u \in Tab : u # t => tab'[u] = tab[u]
      BY DEF IInv, TabInv
<1>2. s.page = tab[t].page /\ s.missed = tab[t].missed
  <2>1. /\ WithoutTools(s).page = s.page /\ WithoutTools(tab[t]).page = tab[t].page
        /\ WithoutTools(s).missed = s.missed /\ WithoutTools(tab[t]).missed = tab[t].missed
        BY DEF WithoutTools
  <2> QED BY <2>1
<1>3. Sound(s)
      BY <1>1, <1>2 DEF Sound
<1>4. IInv' /\ Kept
      BY <1>2, <1>3, TabStep
<1>5. \A u \in Tab : WithoutTools(tab'[u]) = WithoutTools(tab[u])
      BY <1>1
<1>6. WTab' = WTab
      BY <1>5 DEF WTab
<1> QED BY <1>4, <1>6 DEF Like, WApp

LEMMA TabOf ==
    ASSUME IInv, NEW t \in Tab
    PROVE  /\ tab[t] \in TabRecord /\ Sound(tab[t]) /\ Alone(tab[t]) /\ Asked(tab[t])
           /\ tab[t].page = None => tab[t] = NewTab(None)
           /\ tab[t].page \in {None, "open", "closing"}
BY DEF IInv, TabInv, PageInv, TabRecord, Sound

\* A tab that does not exist has nothing that moves.
LEMMA BlankTab ==
    ASSUME IInv, NEW t \in Tab, tab[t].page = None
    PROVE  /\ tab[t].serial = None /\ tab[t].port = "closed" /\ tab[t].out = {}
           /\ tab[t].connected = FALSE /\ tab[t].quick = None /\ tab[t].runner = None
           /\ tab[t].transfer = None /\ tab[t].bridge = None /\ tab[t].deadline = "unset"
           /\ tab[t].modbus = FALSE /\ tab[t].capture = None
<1>1. tab[t] = NewTab(None)
      BY TabOf
<1> QED BY <1>1 DEF NewTab

\* The fields that the Windows program has are the same.
Frame(s, u) ==
    /\ u.page = s.page /\ u.serial = s.serial /\ u.keeps = s.keeps /\ u.port = s.port
    /\ u.events = s.events /\ u.connected = s.connected /\ u.log = s.log
    /\ u.missed = s.missed

LEMMA FrameSeen == ASSUME NEW s, NEW u, Frame(s, u) PROVE WithoutTools(u) = WithoutTools(s)
BY DEF WithoutTools, Frame

\* A dialog, a deadline, a recording or the program of a transfer
LEMMA AsideKeeps ==
    ASSUME IInv, NEW t \in Tab,
           \/ DeadlinePasses(t) \/ TransferEnds(t) \/ CaptureFinishes(t) \/ CloseModbus(t)
           \/ CancelTransfer(t) \/ StopCapture(t) \/ CaptureSelected(t)
    PROVE  IInv' /\ Kept /\ Like
<1>1. PICK s \in TabRecord : s = tab[t] /\ Alone(s) /\ Asked(s)
      BY TabOf
<1> DEFINE Aside(u) ==
        /\ u \in TabRecord /\ Frame(s, u)
        /\ u.out = s.out /\ u.quick = s.quick /\ u.runner = s.runner /\ u.bridge = s.bridge
        /\ Recording(s) => u.capture # None
<1>2. \E u : Aside(u) /\ tab' = [tab EXCEPT ![t] = u]
  <2>1. CASE DeadlinePasses(t)
    <3>1. tab' = [tab EXCEPT ![t] = [s EXCEPT !.deadline = "passed"]]
          BY <1>1, <2>1 DEF DeadlinePasses
    <3>2. Aside([s EXCEPT !.deadline = "passed"])
          BY DEF TabRecord, Frame, Recording, None
    <3> QED BY <3>1, <3>2
  <2>2. CASE TransferEnds(t)
    <3>1. tab' = [tab EXCEPT ![t] = [s EXCEPT !.transfer = "ended"]]
          BY <1>1, <2>2 DEF TransferEnds
    <3>2. Aside([s EXCEPT !.transfer = "ended"])
          BY DEF TabRecord, Frame, Recording, None
    <3> QED BY <3>1, <3>2
  <2>3. CASE CaptureFinishes(t)
    <3>1. tab' = [tab EXCEPT ![t] = [s EXCEPT !.capture = "finished"]]
          BY <1>1, <2>3 DEF CaptureFinishes
    <3>2. Aside([s EXCEPT !.capture = "finished"])
          BY DEF TabRecord, Frame, Recording, None
    <3> QED BY <3>1, <3>2
  <2>4. CASE CloseModbus(t)
    <3>1. tab' = [tab EXCEPT ![t] = [s EXCEPT !.modbus = FALSE]]
          BY <1>1, <2>4 DEF CloseModbus, Become
    <3>2. Aside([s EXCEPT !.modbus = FALSE])
          BY DEF TabRecord, Frame, Recording, None
    <3> QED BY <3>1, <3>2
  <2>5. CASE CancelTransfer(t)
    <3>1. tab' = [tab EXCEPT ![t] = [s EXCEPT !.transfer = "cancelled"]]
          BY <1>1, <2>5 DEF CancelTransfer, Become, Cancel, Active
    <3>2. Aside([s EXCEPT !.transfer = "cancelled"])
          BY DEF TabRecord, Frame, Recording, None
    <3> QED BY <3>1, <3>2
  <2>6. CASE StopCapture(t)
    <3>1. tab' = [tab EXCEPT ![t] = [s EXCEPT !.capture = "stopping"]]
          BY <1>1, <2>6 DEF StopCapture, Become
    <3>2. Aside([s EXCEPT !.capture = "stopping"])
          BY DEF TabRecord, Frame, Recording, None
    <3> QED BY <3>1, <3>2
  <2>7. CASE CaptureSelected(t)
    <3>1. tab' = [tab EXCEPT ![t] = [s EXCEPT !.capture = "recording"]]
          BY <1>1, <2>7 DEF CaptureSelected
    <3>2. Aside([s EXCEPT !.capture = "recording"])
          BY DEF TabRecord, Frame, Recording, None
    <3> QED BY <3>1, <3>2
  <2> QED BY <2>1, <2>2, <2>3, <2>4, <2>5, <2>6, <2>7
<1>3. PICK u : Aside(u) /\ tab' = [tab EXCEPT ![t] = u]
      BY <1>2
<1>4. Alone(u) /\ Asked(u)
      BY <1>1, <1>3 DEF Alone, Asked, Quiet, Running
<1>5. WithoutTools(u) = WithoutTools(s)
      BY <1>3, FrameSeen
<1>6. UNCHANGED app /\ UNCHANGED WDialog
      BY DEF DeadlinePasses, TransferEnds, CaptureFinishes, CloseModbus, CancelTransfer,
             StopCapture, CaptureSelected, Become, Answered, WDialog, NoDialog, None
<1>7. s.page # None
      BY <1>1, BlankTab DEF DeadlinePasses, TransferEnds, CaptureFinishes, CloseModbus,
             CancelTransfer, StopCapture, CaptureSelected, Tools, User, Active, None
<1> QED BY <1>1, <1>3, <1>4, <1>5, <1>6, <1>7, ToolStep

\* What is sent, and who waits to send
LEMMA SendsKeep ==
    ASSUME IInv, NEW t \in Tab,
           \/ Written(t) \/ SendBytes(t) \/ QuickClicked(t) \/ QuickDue(t) \/ RunSequence(t)
           \/ StopSequence(t) \/ RunnerEnds(t) \/ RunnerSends(t)
    PROVE  IInv' /\ Kept /\ Like
<1>1. PICK s \in TabRecord : s = tab[t] /\ Sound(s) /\ Alone(s) /\ Asked(s)
      BY TabOf
<1>2. UNCHANGED <<app, dialog>>
      BY DEF Written, SendBytes, QuickClicked, QuickDue, RunSequence, StopSequence,
             RunnerEnds, RunnerSends, Become
<1>3. s.page # None
      BY <1>1, BlankTab DEF Written, SendBytes, QuickClicked, QuickDue, RunSequence,
             StopSequence, RunnerEnds, RunnerSends, Tools, User, Running, None
<1> DEFINE Good(u) == /\ u \in TabRecord /\ Alone(u) /\ Asked(u)
                      /\ WithoutTools(u) = WithoutTools(s) /\ u.capture = s.capture
<1>4. "this" \in Mark /\ "told" # "this" /\ "this" # None
      BY DEF Mark, None
<1>5. ASSUME NEW by \in {"user", "quick", "runner", "bridge"}, NEW since \in Mark,
             s.bridge # None => by = "bridge", since # "told"
      PROVE  Good(Sent(s, by, since))
  <2>1. Sound(Sent(s, by, since)) /\ Keeps(s, Sent(s, by, since))
        BY <1>1, <1>5, SentSound
  <2> QED BY <2>1 DEF Sound, Keeps
\* What waits is given up, or waits from now on.
<1>6. /\ Good([s EXCEPT !.quick = None]) /\ Good([s EXCEPT !.runner = None])
      /\ s.bridge = None => Good([s EXCEPT !.quick = "this"]) /\ Good([s EXCEPT !.runner = "this"])
  <2>1. ASSUME NEW u \in TabRecord, Frame(s, u), u.capture = s.capture, u.bridge = s.bridge,
               u.out = s.out,
               \/ u.quick \in {s.quick, None} /\ u.runner \in {s.runner, None}
               \/ /\ s.bridge = None
                  /\ u.quick \in {s.quick, "this"} /\ u.runner \in {s.runner, "this"}
        PROVE  Good(u)
    <3>1. WithoutTools(u) = WithoutTools(s)
          BY <2>1, FrameSeen
    <3>2. Alone(u) /\ Asked(u)
          BY <1>1, <1>4, <2>1 DEF Alone, Asked, Quiet, Running, None
    <3> QED BY <2>1, <3>1, <3>2
  <2>2. Good([s EXCEPT !.quick = None])
    <3>1. PICK u : u = [s EXCEPT !.quick = None]
          OBVIOUS
    <3>2. /\ u \in TabRecord /\ Frame(s, u) /\ u.capture = s.capture /\ u.bridge = s.bridge
          /\ u.out = s.out /\ u.quick = None /\ u.runner = s.runner
          BY <3>1 DEF TabRecord, Frame
    <3> QED BY <2>1, <3>1, <3>2
  <2>3. Good([s EXCEPT !.runner = None])
    <3>1. PICK u : u = [s EXCEPT !.runner = None]
          OBVIOUS
    <3>2. /\ u \in TabRecord /\ Frame(s, u) /\ u.capture = s.capture /\ u.bridge = s.bridge
          /\ u.out = s.out /\ u.quick = s.quick /\ u.runner = None
          BY <3>1 DEF TabRecord, Frame
    <3> QED BY <2>1, <3>1, <3>2
  <2>4. ASSUME s.bridge = None PROVE Good([s EXCEPT !.quick = "this"])
    <3>1. PICK u : u = [s EXCEPT !.quick = "this"]
          OBVIOUS
    <3>2. /\ u \in TabRecord /\ Frame(s, u) /\ u.capture = s.capture /\ u.bridge = s.bridge
          /\ u.out = s.out /\ u.quick = "this" /\ u.runner = s.runner
          BY <1>4, <3>1 DEF TabRecord, Frame
    <3> QED BY <2>1, <2>4, <3>1, <3>2
  <2>5. ASSUME s.bridge = None PROVE Good([s EXCEPT !.runner = "this"])
    <3>1. PICK u : u = [s EXCEPT !.runner = "this"]
          OBVIOUS
    <3>2. /\ u \in TabRecord /\ Frame(s, u) /\ u.capture = s.capture /\ u.bridge = s.bridge
          /\ u.out = s.out /\ u.quick = s.quick /\ u.runner = "this"
          BY <1>4, <3>1 DEF TabRecord, Frame
    <3> QED BY <2>1, <2>5, <3>1, <3>2
  <2> QED BY <2>2, <2>3, <2>4, <2>5
<1>7. \E u : Good(u) /\ tab' = [tab EXCEPT ![t] = u]
  <2>1. CASE Written(t)
    <3>1. PICK u : u = [s EXCEPT !.out = {}]
          OBVIOUS
    <3>2. /\ u \in TabRecord /\ Frame(s, u) /\ u.capture = s.capture /\ u.bridge = s.bridge
          /\ u.out = {} /\ u.quick = s.quick /\ u.runner = s.runner
          BY <3>1 DEF TabRecord, Frame
    <3>3. Good(u)
      <4>1. Alone(u) /\ Asked(u)
            BY <1>1, <3>2 DEF Alone, Asked, Quiet, Running
      <4> QED BY <3>2, <4>1, FrameSeen
    <3> QED BY <1>1, <2>1, <3>1, <3>3 DEF Written
  <2>2. CASE SendBytes(t)
        BY <1>1, <1>4, <1>5, <2>2 DEF SendBytes, Become
  <2>3. CASE QuickClicked(t)
        BY <1>1, <1>4, <1>5, <1>6, <2>3 DEF QuickClicked, Become
  <2>4. CASE QuickDue(t)
    <3>1. s.quick # None /\ s.bridge = None /\ s.quick \in Mark /\ s.quick # "told"
          BY <1>1, <2>4 DEF QuickDue, Alone, Asked, Quiet, TabRecord
    <3>2. PICK v : v = Sent(s, "quick", s.quick) /\ Good(v) /\ v.bridge = s.bridge
      <4>1. Good(Sent(s, "quick", s.quick))
            BY <1>5, <3>1
      <4>2. Sent(s, "quick", s.quick).bridge = s.bridge
            BY DEF Sent, TabRecord
      <4> QED BY <4>1, <4>2
    <3>3. PICK u : u = [v EXCEPT !.quick = None]
          OBVIOUS
    <3>4. /\ u \in TabRecord /\ Frame(v, u) /\ u.capture = v.capture /\ u.bridge = v.bridge
          /\ u.out = v.out /\ u.quick = None /\ u.runner = v.runner
          BY <3>2, <3>3 DEF TabRecord, Frame
    <3>5. WithoutTools(u) = WithoutTools(v)
          BY <3>4, FrameSeen
    <3>6. Alone(u) /\ Asked(u)
          BY <3>1, <3>2, <3>4 DEF Alone, Asked, Quiet, Running, None
    <3>7. tab' = [tab EXCEPT ![t] = u]
          BY <1>1, <2>4, <3>2, <3>3 DEF QuickDue, Become
    <3> QED BY <3>2, <3>4, <3>5, <3>6, <3>7
  <2>5. CASE RunSequence(t)
        BY <1>1, <1>6, <2>5 DEF RunSequence, Become
  <2>6. CASE StopSequence(t) \/ RunnerEnds(t)
        BY <1>1, <1>6, <2>6 DEF StopSequence, RunnerEnds, Become
  <2>7. CASE RunnerSends(t)
    <3>1. s.runner \in Mark /\ s.runner # "told" /\ s.bridge = None
          BY <1>1, <2>7 DEF RunnerSends, Running, Asked, TabRecord
    <3>2. Good(Sent(s, "runner", s.runner))
          BY <1>5, <3>1
    <3> QED BY <1>1, <2>7, <3>2 DEF RunnerSends, Become
  <2> QED BY <2>1, <2>2, <2>3, <2>4, <2>5, <2>6, <2>7
<1>8. PICK u : Good(u) /\ tab' = [tab EXCEPT ![t] = u]
      BY <1>7
<1>9. UNCHANGED WDialog /\ (Recording(s) => u.capture # None)
      BY <1>2, <1>8 DEF WDialog, Recording, None
<1> QED BY <1>1, <1>2, <1>3, <1>8, <1>9, ToolStep

\* Who has the port alone from now on, or has it no longer
LEMMA BridgesKeep ==
    ASSUME IInv, NEW t \in Tab,
           \/ ClientLinks(t) \/ OpenModbus(t) \/ TransferSelected(t)
    PROVE  IInv' /\ Kept /\ Like
<1>1. PICK s \in TabRecord : s = tab[t] /\ Alone(s) /\ Asked(s)
      BY TabOf
<1>2. UNCHANGED app /\ UNCHANGED WDialog
      BY DEF ClientLinks, OpenModbus, TransferSelected, Become, Answered, WDialog, NoDialog, None
<1>3. s.page # None
      BY <1>1, BlankTab DEF ClientLinks, OpenModbus, TransferSelected, StartTransfer,
             FailTransfer, MayBridge, None
<1> DEFINE Good(u) ==
        /\ u \in TabRecord /\ Frame(s, u) /\ u.capture = s.capture
        /\ u.quick = s.quick /\ u.runner = s.runner /\ u.out = s.out
        /\ u.bridge # None => s.bridge # None \/ MayBridge(s)
<1>4. \E u : Good(u) /\ tab' = [tab EXCEPT ![t] = u]
  <2>1. CASE ClientLinks(t)
    <3>1. PICK u : u = [s EXCEPT !.bridge = "linked"]
          OBVIOUS
    <3>2. s.bridge # None
          BY <1>1, <2>1 DEF ClientLinks, None
    <3>3. Good(u)
          BY <3>1, <3>2 DEF TabRecord, Frame
    <3> QED BY <1>1, <2>1, <3>1, <3>3 DEF ClientLinks
  <2>2. CASE OpenModbus(t)
    <3>1. PICK b : b = Bridged(s)
          OBVIOUS
    <3>2. b \in TabRecord /\ Frame(s, b) /\ b.capture = s.capture
          /\ b.quick = s.quick /\ b.runner = s.runner /\ b.out = s.out
          BY <3>1 DEF Bridged, TabRecord, Frame
    <3>3. PICK u : u = [b EXCEPT !.modbus = TRUE, !.deadline = s.deadline]
          OBVIOUS
    <3>4. u \in TabRecord /\ Frame(b, u) /\ u.capture = b.capture
          /\ u.quick = b.quick /\ u.runner = b.runner /\ u.out = b.out
          BY <3>2, <3>3 DEF TabRecord, Frame
    <3>5. MayBridge(s)
          BY <1>1, <2>2 DEF OpenModbus
    <3>6. Good(u)
          BY <3>2, <3>4, <3>5 DEF Frame
    <3> QED BY <1>1, <2>2, <3>1, <3>3, <3>6 DEF OpenModbus, Become
  <2>3. CASE TransferSelected(t) /\ StartTransfer(t)
    <3>1. PICK b : b = Bridged(s)
          OBVIOUS
    <3>2. b \in TabRecord /\ Frame(s, b) /\ b.capture = s.capture
          /\ b.quick = s.quick /\ b.runner = s.runner /\ b.out = s.out
          BY <3>1 DEF Bridged, TabRecord, Frame
    <3>3. PICK u : u = [b EXCEPT !.transfer = "active"]
          OBVIOUS
    <3>4. u \in TabRecord /\ Frame(b, u) /\ u.capture = b.capture
          /\ u.quick = b.quick /\ u.runner = b.runner /\ u.out = b.out
          BY <3>2, <3>3 DEF TabRecord, Frame
    <3>5. MayBridge(s) /\ tab' = [tab EXCEPT ![t] = u]
          BY <1>1, <2>3, <3>1, <3>3 DEF StartTransfer
    <3>6. Good(u)
          BY <3>2, <3>4, <3>5 DEF Frame
    <3> QED BY <3>5, <3>6
  <2>4. CASE TransferSelected(t) /\ FailTransfer(t)
    <3>1. PICK u : u = [s EXCEPT !.transfer = None, !.bridge = None, !.deadline = "unset"]
          OBVIOUS
    <3>2. u \in TabRecord
          BY <3>1 DEF TabRecord
    <3>3. Frame(s, u) /\ u.capture = s.capture /\ u.quick = s.quick /\ u.runner = s.runner
          /\ u.out = s.out /\ u.bridge = None
          BY <3>1 DEF TabRecord, Frame
    <3>4. Good(u)
          BY <3>2, <3>3
    <3> QED BY <1>1, <2>4, <3>1, <3>4 DEF FailTransfer
  <2> QED BY <2>1, <2>2, <2>3, <2>4 DEF TransferSelected
<1>5. PICK u : Good(u) /\ tab' = [tab EXCEPT ![t] = u]
      BY <1>4
<1>6. WithoutTools(u) = WithoutTools(s)
      BY <1>5, FrameSeen
<1>7. Alone(u) /\ Asked(u)
      BY <1>1, <1>5 DEF Alone, Asked, Quiet, Running, MayBridge, Idle
<1>8. Recording(s) => u.capture # None
      BY <1>5 DEF Recording, None
<1> QED BY <1>1, <1>2, <1>3, <1>5, <1>6, <1>7, <1>8, ToolStep

-----------------------------------------------------------------------------
(* Steps of the Windows program *)

LEMMA WindowsState ==
    /\ \A t, s : Windows!Become(t, s) <=> /\ WTab' = [WTab EXCEPT ![t] = s]
                                          /\ UNCHANGED <<WApp, WDialog>>
    /\ \A t : Windows!User(t) <=> /\ WApp = "running" /\ WDialog = NoDialog
                                  /\ WTab[t].page = "open"
    /\ Windows!vars = <<WTab, WApp, WDialog>>
    /\ \A page : Windows!NewTab(page) = WithoutTools(NewTab(page))
<1>1. \A t, s : Windows!Become(t, s) <=> /\ WTab' = [WTab EXCEPT ![t] = s]
                                         /\ UNCHANGED <<WApp, WDialog>>
      BY DEF Windows!Become, WTab, WApp, WDialog
<1>2. \A t : Windows!User(t) <=> /\ WApp = "running" /\ WDialog = NoDialog
                                 /\ WTab[t].page = "open"
      BY DEF Windows!User, WTab, WApp, WDialog, Windows!NoDialog, NoDialog, Windows!None, None
<1>3. Windows!vars = <<WTab, WApp, WDialog>>
      BY DEF Windows!vars, WTab, WApp, WDialog
<1>4. \A page : Windows!NewTab(page) = WithoutTools(NewTab(page))
      BY DEF Windows!NewTab, WithoutTools, NewTab, Windows!None, None
<1> QED BY <1>1, <1>2, <1>3, <1>4

\* While it runs, a tab is what the Windows program has of it, and a step of the
\* tab is one of it there.
LEMMA WTabStep ==
    ASSUME IInv, app = "running"
    PROVE  /\ \A t \in Tab : WTab[t] = WithoutTools(tab[t])
           /\ \A t \in Tab : \A s : tab' = [tab EXCEPT ![t] = s] /\ UNCHANGED app
                  => WTab' = [WTab EXCEPT ![t] = WithoutTools(s)]
<1>1. \A t \in Tab : WTab[t] = WithoutTools(tab[t])
      BY DEF WTab
<1>2. ASSUME NEW t \in Tab, NEW s, tab' = [tab EXCEPT ![t] = s], UNCHANGED app
      PROVE  WTab' = [WTab EXCEPT ![t] = WithoutTools(s)]
  <2>1. tab'[t] = s /\ \A u \in Tab : u # t => tab'[u] = tab[u]
        BY <1>2 DEF IInv, TabInv
  <2>2. WTab' = [u \in Tab |-> WithoutTools(tab'[u])]
        BY <1>2 DEF WTab
  <2>3. WTab = [u \in Tab |-> WithoutTools(tab[u])]
        BY DEF WTab
  <2> QED BY <2>1, <2>2, <2>3
<1> QED BY <1>1, <1>2

\* When it does not run any more, nothing of a tab is seen.
LEMMA GoneStep ==
    ASSUME app # "running", app' # "running"
    PROVE  UNCHANGED <<WTab, WApp>>
BY DEF WTab, WApp

LEMMA WindowsNext ==
    /\ \A t \in Tab : \/ Windows!Tick(t) \/ Windows!PortOpens(t) \/ Windows!PortOpenFails(t)
                      \/ Windows!PortFails(t) \/ Windows!GivesUp(t) \/ Windows!Receives(t)
                      \/ Windows!Disconnect(t) \/ Windows!CloseTab(t) \/ Windows!CloseTabDone(t)
                      \/ Windows!AddTab(t) \/ \E path \in Path : Windows!Connect(t, path)
          => Like
    /\ Windows!DialogGivenUp \/ Windows!CloseRequested \/ Windows!QuitDone => Like
BY DEF Windows!Next, Like

\* The worker
LEMMA WorkerSteps ==
    ASSUME IInv, NEW t \in Tab, NEW ports, NEW port \in {"closed", "open", "lost", "over"},
           NEW event \in Event, Worker(t, ports, port, event)
    PROVE  /\ IInv' /\ Kept
           /\ app = "running" => Windows!Worker(t, ports, port, event)
           /\ app # "running" => Like
<1>1. PICK s \in TabRecord : s = tab[t] /\ Sound(s)
      BY TabOf
<1>2. PICK u : u = Moved(s, port, event)
      OBVIOUS
<1>3. tab' = [tab EXCEPT ![t] = u] /\ UNCHANGED <<app, dialog>>
      BY <1>1, <1>2 DEF Worker
<1>4. /\ Sound(u) /\ u.page = s.page /\ u.capture = s.capture
      /\ WithoutTools(u) = SeenMoved(WithoutTools(s), port, event)
      BY <1>1, <1>2, MovedSound
<1>5. s.page # None /\ (Recording(s) => u.capture # None)
      BY <1>1, <1>4, BlankTab DEF Worker, Recording, None
<1>6. IInv' /\ Kept
      BY <1>1, <1>3, <1>4, <1>5, TabStep
<1>7. ASSUME app = "running" PROVE Windows!Worker(t, ports, port, event)
  <2>1. PICK w : w = WTab[t]
        OBVIOUS
  <2>2. w = WithoutTools(s) /\ WTab' = [WTab EXCEPT ![t] = WithoutTools(u)]
        BY <1>1, <1>3, <1>7, <2>1, WTabStep
  <2>3. w.serial = s.serial /\ w.port = s.port /\ w.events = s.events
        BY <2>2 DEF WithoutTools
  <2>4. s.serial # None /\ s.port \in ports /\ Len(s.events) < MaxEvents
        BY <1>1 DEF Worker
  <2>5. Windows!Become(t, [w EXCEPT !.port = port, !.events = Append(w.events, event)])
        BY <1>3, <1>4, <2>2, <2>3, WindowsState DEF WApp, WDialog, SeenMoved
  <2>6. Windows!Worker(t, ports, port, event) <=>
            /\ WTab[t].serial # None /\ WTab[t].port \in ports
            /\ Len(WTab[t].events) < MaxEvents
            /\ Windows!Become(t, [WTab[t] EXCEPT !.port = port, !.events = Append(@, event)])
        BY DEF Windows!Worker, WTab, Windows!None, None
  <2> QED BY <2>1, <2>3, <2>4, <2>5, <2>6
<1>8. ASSUME app # "running" PROVE Like
      BY <1>3, <1>8, GoneStep DEF Like, WDialog
<1> QED BY <1>6, <1>7, <1>8

LEMMA WorkerKeeps ==
    ASSUME IInv, NEW t \in Tab,
           PortOpens(t) \/ PortOpenFails(t) \/ PortFails(t) \/ GivesUp(t) \/ Receives(t)
    PROVE  IInv' /\ Kept /\ Like
<1>1. "up" \in Event /\ "down" \in Event /\ "done" \in Event /\ "rx" \in Event
      BY DEF Event
<1>2. app = "running" => Windows!Retries(t) = Retries(t)
  <2>1. app = "running" => WTab[t].keeps = tab[t].keeps
    <3>1. app = "running" => WTab[t] = WithoutTools(tab[t])
          BY WTabStep
    <3>2. WithoutTools(tab[t]).keeps = tab[t].keeps
          BY DEF WithoutTools
    <3> QED BY <3>1, <3>2
  <2>2. Windows!Retries(t) = {"closed"} \cup (IF WTab[t].keeps THEN {"lost"} ELSE {})
        BY DEF Windows!Retries, WTab
  <2> QED BY <2>1, <2>2 DEF Retries
<1>3. CASE PortOpens(t)
  <2>1. Worker(t, Retries(t), "open", "up")
        BY <1>3 DEF PortOpens
  <2>2. /\ IInv' /\ Kept /\ (app # "running" => Like)
        /\ app = "running" => Windows!Worker(t, Retries(t), "open", "up")
        BY <1>1, <2>1, WorkerSteps
  <2>3. app = "running" => Windows!PortOpens(t)
        BY <1>2, <2>2 DEF Windows!PortOpens
  <2> QED BY <2>2, <2>3, WindowsNext
<1>4. CASE PortOpenFails(t)
  <2>1. Worker(t, Retries(t), "lost", "down")
        BY <1>4 DEF PortOpenFails
  <2>2. /\ IInv' /\ Kept /\ (app # "running" => Like)
        /\ app = "running" => Windows!Worker(t, Retries(t), "lost", "down")
        BY <1>1, <2>1, WorkerSteps
  <2>3. app = "running" => Windows!PortOpenFails(t)
        BY <1>2, <2>2 DEF Windows!PortOpenFails
  <2> QED BY <2>2, <2>3, WindowsNext
<1>5. CASE PortFails(t)
  <2>1. Worker(t, {"open"}, "lost", "down")
        BY <1>5 DEF PortFails
  <2>2. /\ IInv' /\ Kept /\ (app # "running" => Like)
        /\ app = "running" => Windows!Worker(t, {"open"}, "lost", "down")
        BY <1>1, <2>1, WorkerSteps
  <2>3. app = "running" => Windows!PortFails(t)
        BY <2>2 DEF Windows!PortFails
  <2> QED BY <2>2, <2>3, WindowsNext
<1>6. CASE GivesUp(t)
  <2>1. Worker(t, {"lost"}, "over", "done")
        BY <1>6 DEF GivesUp
  <2>2. /\ IInv' /\ Kept /\ (app # "running" => Like)
        /\ app = "running" => Windows!Worker(t, {"lost"}, "over", "done")
        BY <1>1, <2>1, WorkerSteps
  <2>3. app = "running" => Windows!GivesUp(t)
        BY <2>2 DEF Windows!GivesUp
  <2> QED BY <2>2, <2>3, WindowsNext
<1>7. CASE Receives(t)
  <2>1. Worker(t, {"open"}, "open", "rx")
        BY <1>7 DEF Receives
  <2>2. /\ IInv' /\ Kept /\ (app # "running" => Like)
        /\ app = "running" => Windows!Worker(t, {"open"}, "open", "rx")
        BY <1>1, <2>1, WorkerSteps
  <2>3. app = "running" => Windows!Receives(t)
        BY <2>2 DEF Windows!Receives
  <2> QED BY <2>2, <2>3, WindowsNext
<1> QED BY <1>3, <1>4, <1>5, <1>6, <1>7

\* A session that ends has logged everything, in both programs.
LEMMA WindowsStop ==
    ASSUME NEW w \in WindowsRecord, w.missed = FALSE
    PROVE  Windows!StopTab(w) = WithoutTools(NewTab(w.page))
<1>1. PICK d : d = Windows!Deliver(w, Len(w.events))
      OBVIOUS
<1>2. d.events = <<>> /\ d.missed = FALSE /\ d.log = w.log /\ d \in WindowsRecord
  <2>1. w.events \in Seq(Event) /\ Len(w.events) \in 0..Len(w.events) /\ w.connected \in BOOLEAN
        BY DEF WindowsRecord
  <2>2. PICK events \in Seq(Event) :
            events = SubSeq(w.events, Len(w.events) + 1, Len(w.events)) /\ events = <<>>
        BY <2>1, RestOfEvents
  <2>3. PICK connected \in BOOLEAN :
            connected = Windows!StatusAfter(SubSeq(w.events, 1, Len(w.events)), w.connected)
        BY <2>1, StatusIsBoolean
  <2>4. d = [w EXCEPT !.events = events, !.connected = connected]
        BY <1>1, <2>2, <2>3 DEF Windows!Deliver
  <2> QED BY <2>2, <2>4 DEF WindowsRecord
<1>3. PICK e : e = Windows!Discard(d)
      OBVIOUS
<1>4. e.missed = FALSE
  <2>1. ~Contains(<<>>, "rx")
        BY DEF Contains
  <2>2. e = [d EXCEPT !.missed = FALSE]
        BY <1>2, <1>3, <2>1 DEF Windows!Discard, Windows!Contains, Contains
  <2> QED BY <1>2, <2>2 DEF WindowsRecord
<1>5. Windows!StopTab(w) = [WithoutTools(NewTab(w.page)) EXCEPT !.missed = e.missed]
      BY <1>1, <1>3, WindowsState DEF Windows!StopTab
<1>6. w.page \in {None, "open", "closing"}
      BY DEF WindowsRecord
<1>7. PICK n \in WindowsRecord : n = WithoutTools(NewTab(w.page)) /\ n.missed = FALSE
      BY <1>6, NewTabSound, WithoutToolsTyped DEF WithoutTools, NewTab
<1>8. [n EXCEPT !.missed = FALSE] = n
      BY <1>7 DEF WindowsRecord
<1> QED BY <1>4, <1>5, <1>7, <1>8

\* A tab that is stopped is stopped there too.
LEMMA StopSeen ==
    ASSUME NEW s, Sound(s)
    PROVE  /\ WithoutTools(StopTab(s)) = Windows!StopTab(WithoutTools(s))
           /\ Sound(StopTab(s)) /\ StopTab(s).page = s.page
           /\ Recording(s) => StopTab(s).capture # None
<1>1. s \in TabRecord /\ s.missed = FALSE
      BY DEF Sound
<1>2. PICK w \in WindowsRecord : w = WithoutTools(s)
      BY <1>1, WithoutToolsTyped
<1>3. w.missed = FALSE /\ w.page = s.page
      BY <1>1, <1>2 DEF WithoutTools
<1>4. Windows!StopTab(w) = WithoutTools(NewTab(w.page))
      BY <1>3, WindowsStop
<1>5. /\ WithoutTools(StopTab(s)) = WithoutTools(NewTab(s.page))
      /\ Sound(StopTab(s)) /\ StopTab(s).page = s.page
      /\ Recording(StopTab(s)) <=> Recording(s)
      BY StopTabSound
<1>6. Recording(s) => StopTab(s).capture # None
      BY <1>5 DEF Recording, None
<1> QED BY <1>2, <1>3, <1>4, <1>5, <1>6

\* The timer of a tab: the bridge and its client, then some events
LEMMA TickKeeps ==
    ASSUME IInv, NEW t \in Tab, Tick(t)
    PROVE  IInv' /\ Kept /\ Like
<1>1. PICK s \in TabRecord : s = tab[t] /\ Sound(s)
      BY TabOf
<1>2. /\ tab[t].page # None /\ UNCHANGED <<app, dialog>>
      /\ \E u \in TransferUpdate(tab[t]), full \in BOOLEAN, logFails \in BOOLEAN :
             \E k \in Batch(u) :
                 LET taken == SubSeq(u.events, 1, k)
                     rx == Contains(taken, "rx")
                     fed == IF full /\ rx /\ u.bridge # None THEN Cancel(Deliver(u, k))
                            ELSE Deliver(u, k)
                 IN tab' = [tab EXCEPT ![t] =
                        CASE u.serial = None -> u
                          [] u.serial # None /\ (Ended(u, taken) \/ (logFails /\ rx /\ u.log)) ->
                                 StopTab(fed)
                          [] OTHER -> fed]
      BY DEF Tick
<1>3. PICK u \in TransferUpdate(s), full \in BOOLEAN, logFails \in BOOLEAN :
          \E k \in Batch(u) :
              LET taken == SubSeq(u.events, 1, k)
                  rx == Contains(taken, "rx")
                  fed == IF full /\ rx /\ u.bridge # None THEN Cancel(Deliver(u, k))
                         ELSE Deliver(u, k)
              IN tab' = [tab EXCEPT ![t] =
                     CASE u.serial = None -> u
                       [] u.serial # None /\ (Ended(u, taken) \/ (logFails /\ rx /\ u.log)) ->
                              StopTab(fed)
                       [] OTHER -> fed]
      BY <1>1, <1>2
<1>4. PICK k \in Batch(u) :
          LET taken == SubSeq(u.events, 1, k)
              rx == Contains(taken, "rx")
              fed == IF full /\ rx /\ u.bridge # None THEN Cancel(Deliver(u, k))
                     ELSE Deliver(u, k)
          IN tab' = [tab EXCEPT ![t] =
                 CASE u.serial = None -> u
                   [] u.serial # None /\ (Ended(u, taken) \/ (logFails /\ rx /\ u.log)) ->
                          StopTab(fed)
                   [] OTHER -> fed]
      BY <1>3
<1> DEFINE taken == SubSeq(u.events, 1, k)
           rx == Contains(taken, "rx")
           fed == IF full /\ rx /\ u.bridge # None THEN Cancel(Deliver(u, k)) ELSE Deliver(u, k)
           stops == Ended(u, taken) \/ (logFails /\ rx /\ u.log)
           w == WithoutTools(s)
<1>5. Sound(u) /\ Keeps(s, u)
      BY <1>1, TransferUpdateSound
<1>6. /\ u.page = s.page /\ u.capture = s.capture /\ WithoutTools(u) = w
      /\ u.serial = w.serial /\ u.events = w.events /\ u.log = w.log /\ u.keeps = w.keeps
  <2>1. /\ WithoutTools(u).serial = u.serial /\ WithoutTools(u).events = u.events
        /\ WithoutTools(u).log = u.log /\ WithoutTools(u).keeps = u.keeps
        BY DEF WithoutTools
  <2> QED BY <1>5, <2>1 DEF Keeps
<1>7. k \in 0..Len(u.events)
  <2>1. u.events \in Seq(Event)
        BY <1>5 DEF Sound, TabRecord
  <2> QED BY <2>1 DEF Batch
<1>8. /\ Sound(fed) /\ fed.page = s.page /\ fed.capture = s.capture
      /\ WithoutTools(fed) = Windows!Deliver(w, k)
  <2>1. /\ Sound(Deliver(u, k)) /\ Deliver(u, k).page = u.page
        /\ Deliver(u, k).capture = u.capture
        /\ WithoutTools(Deliver(u, k)) = Windows!Deliver(WithoutTools(u), k)
        BY <1>5, <1>7, DeliverSound
  <2>2. Sound(Cancel(Deliver(u, k))) /\ Keeps(Deliver(u, k), Cancel(Deliver(u, k)))
        BY <2>1, CancelSound
  <2> QED BY <1>6, <2>1, <2>2 DEF Keeps
<1>9. tab' = [tab EXCEPT ![t] = IF u.serial = None THEN u
                                ELSE IF stops THEN StopTab(fed) ELSE fed]
      BY <1>4
<1>10. s.page # None
       BY <1>1, <1>2
<1>11. /\ WithoutTools(StopTab(fed)) = Windows!StopTab(Windows!Deliver(w, k))
       /\ Sound(StopTab(fed)) /\ StopTab(fed).page = s.page
       /\ Recording(s) => StopTab(fed).capture # None
  <2>1. Recording(fed) <=> Recording(s)
        BY <1>8 DEF Recording
  <2> QED BY <1>8, <2>1, StopSeen
<1>12. \A c : Recording(s) /\ c = s.capture => c # None
       BY DEF Recording, None
<1> HIDE DEF fed, stops
<1>13. PICK n : n = IF u.serial = None THEN u ELSE IF stops THEN StopTab(fed) ELSE fed
       OBVIOUS
<1>14. Sound(n) /\ n.page # None /\ (Recording(s) => n.capture # None)
       BY <1>5, <1>6, <1>8, <1>10, <1>11, <1>12, <1>13
<1>15. IInv' /\ Kept
       BY <1>1, <1>2, <1>9, <1>13, <1>14, TabStep
<1>16. CASE app # "running"
       BY <1>2, <1>15, <1>16, GoneStep DEF Like, WDialog
<1>17. CASE app = "running"
  <2>1. WTab[t] = w /\ WTab' = [WTab EXCEPT ![t] = WithoutTools(n)] /\ UNCHANGED <<WApp, WDialog>>
        BY <1>1, <1>2, <1>9, <1>13, <1>17, WTabStep DEF WApp, WDialog
  <2>2. CASE u.serial = None
    <3>1. WithoutTools(n) = w
          BY <1>6, <1>13, <2>2
    <3>2. UNCHANGED WTab
          BY <2>1, <3>1 DEF WTab
    <3> QED BY <1>15, <2>1, <3>2 DEF Like
  <2>3. CASE u.serial # None
    <3>1. Windows!Become(t, WithoutTools(n))
          BY <2>1, WindowsState
    <3>2. PICK e \in BOOLEAN : e = logFails
          OBVIOUS
    <3>3. stops <=> Windows!Ended(w, SubSeq(w.events, 1, k))
                    \/ (e /\ w.log /\ Windows!Contains(SubSeq(w.events, 1, k), "rx"))
          BY <1>6, <3>2 DEF stops, Ended, Windows!Ended, Contains, Windows!Contains
    <3>4. k \in Windows!Batch(w)
          BY <1>6 DEF Batch, Windows!Batch
    <3>5. WithoutTools(n) =
              IF Windows!Ended(w, SubSeq(w.events, 1, k))
                 \/ (e /\ w.log /\ Windows!Contains(SubSeq(w.events, 1, k), "rx"))
              THEN Windows!StopTab(Windows!Deliver(w, k)) ELSE Windows!Deliver(w, k)
          BY <1>8, <1>11, <1>13, <2>3, <3>3
    <3>6. Windows!Tick(t) <=>
              /\ WTab[t].serial # None
              /\ \E j \in Windows!Batch(WTab[t]), f \in BOOLEAN :
                     Windows!Become(t,
                         IF Windows!Ended(WTab[t], SubSeq(WTab[t].events, 1, j))
                            \/ (f /\ WTab[t].log
                                /\ Windows!Contains(SubSeq(WTab[t].events, 1, j), "rx"))
                         THEN Windows!StopTab(Windows!Deliver(WTab[t], j))
                         ELSE Windows!Deliver(WTab[t], j))
          BY DEF Windows!Tick, WTab, Windows!None, None
    <3> HIDE DEF w
    <3>7. Windows!Become(t,
              IF Windows!Ended(w, SubSeq(w.events, 1, k))
                 \/ (e /\ w.log /\ Windows!Contains(SubSeq(w.events, 1, k), "rx"))
              THEN Windows!StopTab(Windows!Deliver(w, k)) ELSE Windows!Deliver(w, k))
          BY <3>1, <3>5
    <3>8. w.serial # None
          BY <1>6, <2>3
    <3>9. Windows!Tick(t)
          BY <2>1, <3>4, <3>6, <3>7, <3>8
    <3> QED BY <1>15, <3>9, WindowsNext
  <2> QED BY <2>2, <2>3
<1> QED BY <1>16, <1>17

-----------------------------------------------------------------------------
(* Sessions, tabs and the window *)

\* Connecting and disconnecting
LEMMA ConnectKeeps ==
    ASSUME IInv, NEW t \in Tab, NEW path \in Path, Connect(t, path)
    PROVE  IInv' /\ Kept /\ Like
<1>1. PICK s \in TabRecord : s = tab[t] /\ Sound(s)
      BY TabOf
<1>2. PICK keeps \in BOOLEAN, log \in BOOLEAN :
          /\ tab' = [tab EXCEPT ![t] = [s EXCEPT !.serial = path, !.keeps = keeps, !.log = log]]
          /\ UNCHANGED <<app, dialog>>
      BY <1>1, TabAssumption DEF Connect, Become
<1>3. /\ app = "running" /\ dialog = NoDialog /\ s.page = "open" /\ s.serial = None
      /\ \A other \in Tab \ {t} : tab[other].serial # path
      BY <1>1 DEF Connect, Tools, User
<1>4. PICK u : u = [s EXCEPT !.serial = path, !.keeps = keeps, !.log = log]
      OBVIOUS
<1>5. /\ u \in TabRecord /\ u.serial = path /\ u.keeps = keeps /\ u.log = log
      /\ u.page = s.page /\ u.port = s.port /\ u.events = s.events
      /\ u.connected = s.connected /\ u.missed = s.missed
      BY <1>4 DEF TabRecord
<1>6. /\ u.capture = s.capture /\ u.out = s.out /\ u.quick = s.quick
      /\ u.runner = s.runner /\ u.bridge = s.bridge
      BY <1>4 DEF TabRecord
<1>7. Sound(u)
      BY <1>1, <1>5, <1>6 DEF Sound, Alone, Asked, Quiet, Running
<1>8. u.page # None /\ (Recording(s) => u.capture # None)
      BY <1>3, <1>5, <1>6 DEF Recording, None
<1>9. IInv' /\ Kept
      BY <1>1, <1>2, <1>4, <1>7, <1>8, TabStep
<1>10. PICK w \in WindowsRecord : w = WithoutTools(s)
       BY WithoutToolsTyped
<1>11. WithoutTools(u) = [w EXCEPT !.serial = path, !.keeps = keeps, !.log = log]
  <2>1. PICK x : x = [w EXCEPT !.serial = path, !.keeps = keeps, !.log = log]
        OBVIOUS
  <2>2. /\ x \in WindowsRecord /\ x.page = w.page /\ x.serial = path
        /\ x.keeps = keeps /\ x.port = w.port /\ x.log = log /\ x.missed = w.missed
        /\ x.events = w.events /\ x.connected = w.connected
        BY <2>1 DEF WindowsRecord
  <2>3. PICK v \in WindowsRecord : v = WithoutTools(u)
        BY <1>5, WithoutToolsTyped
  <2>4. /\ v.page = u.page /\ v.serial = u.serial /\ v.keeps = u.keeps /\ v.port = u.port
        /\ v.log = u.log /\ v.missed = u.missed /\ v.events = u.events
        /\ v.connected = u.connected
        BY <2>3 DEF WithoutTools
  <2>5. /\ w.page = s.page /\ w.port = s.port /\ w.missed = s.missed
        /\ w.events = s.events /\ w.connected = s.connected
        BY <1>10 DEF WithoutTools
  <2>6. v = x
        BY <1>5, <2>2, <2>4, <2>5, SameRecord
  <2> QED BY <2>1, <2>3, <2>6
<1>12. WTab[t] = w /\ WTab' = [WTab EXCEPT ![t] = WithoutTools(u)] /\ UNCHANGED <<WApp, WDialog>>
       BY <1>1, <1>2, <1>3, <1>4, <1>10, WTabStep DEF WApp, WDialog
<1>13. \A other \in Tab : WTab[other].serial = tab[other].serial
  <2>1. \A other \in Tab : WTab[other] = WithoutTools(tab[other])
        BY <1>3, WTabStep
  <2>2. \A x : WithoutTools(x).serial = x.serial
        BY DEF WithoutTools
  <2> QED BY <2>1, <2>2
<1>14. Windows!User(t)
  <2>1. w.page = "open"
        BY <1>3, <1>10 DEF WithoutTools
  <2> QED BY <1>3, <1>12, <2>1, WindowsState DEF WApp, WDialog, NoDialog, None
<1>15. Windows!Connect(t, path) <=>
           /\ Windows!User(t) /\ WTab[t].serial = None
           /\ \A other \in Tab \ {t} : WTab[other].serial # path
           /\ \E k, l \in BOOLEAN :
                  Windows!Become(t, [WTab[t] EXCEPT !.serial = path, !.keeps = k, !.log = l])
       BY DEF Windows!Connect, WTab, Windows!None, None
<1>16. Windows!Become(t, [w EXCEPT !.serial = path, !.keeps = keeps, !.log = log])
       BY <1>11, <1>12, WindowsState
<1>17. WTab[t].serial = None /\ \A other \in Tab \ {t} : WTab[other].serial # path
       BY <1>1, <1>3, <1>13
<1>18. Windows!Connect(t, path)
       BY <1>12, <1>14, <1>15, <1>16, <1>17
<1> QED BY <1>9, <1>18, WindowsNext

LEMMA DisconnectKeeps ==
    ASSUME IInv, NEW t \in Tab, Disconnect(t)
    PROVE  IInv' /\ Kept /\ Like
<1>1. PICK s \in TabRecord : s = tab[t] /\ Sound(s)
      BY TabOf
<1>2. /\ tab' = [tab EXCEPT ![t] = StopTab(s)] /\ UNCHANGED <<app, dialog>>
      /\ app = "running" /\ dialog = NoDialog /\ s.page = "open" /\ s.serial # None
      BY <1>1 DEF Disconnect, User, Become
<1>3. /\ WithoutTools(StopTab(s)) = Windows!StopTab(WithoutTools(s))
      /\ Sound(StopTab(s)) /\ StopTab(s).page = s.page
      /\ Recording(s) => StopTab(s).capture # None
      BY <1>1, StopSeen
<1>4. StopTab(s).page # None
      BY <1>2, <1>3 DEF None
<1>5. IInv' /\ Kept
      BY <1>1, <1>2, <1>3, <1>4, TabStep
<1>6. WTab[t] = WithoutTools(s) /\ WTab' = [WTab EXCEPT ![t] = WithoutTools(StopTab(s))]
      /\ UNCHANGED <<WApp, WDialog>>
      BY <1>1, <1>2, WTabStep DEF WApp, WDialog
<1>7. WTab[t].page = "open" /\ WTab[t].serial # None
      BY <1>2, <1>6 DEF WithoutTools
<1>8. Windows!User(t)
      BY <1>2, <1>7, WindowsState DEF WApp, WDialog, NoDialog, None
<1>9. Windows!Become(t, Windows!StopTab(WTab[t]))
      BY <1>3, <1>6, WindowsState
<1>10. Windows!Disconnect(t) <=> /\ Windows!User(t) /\ WTab[t].serial # None
                                 /\ Windows!Become(t, Windows!StopTab(WTab[t]))
       BY DEF Windows!Disconnect, WTab, Windows!None, None
<1>11. Windows!Disconnect(t)
       BY <1>7, <1>8, <1>9, <1>10
<1> QED BY <1>5, <1>11, WindowsNext

\* Steps of several tabs
LEMMA TabsStep ==
    ASSUME IInv, tab' \in [Tab -> TabRecord], app' \in {"running", "closing", "gone"},
           \A t \in Tab : /\ Sound(tab'[t])
                          /\ tab'[t].page = None => tab'[t] = NewTab(None)
                          /\ Recording(tab[t]) => tab'[t].capture # None
    PROVE  IInv' /\ Kept
<1>1. TabInv'
      BY DEF TabInv, Sound, Alone, Asked, Quiet, Running
<1>2. PageInv'
      BY DEF PageInv
<1> QED BY <1>1, <1>2 DEF IInv, Kept

\* Dialogs that open, and one that is given up
LEMMA DialogsKeep ==
    ASSUME IInv,
           \/ DialogGivenUp \/ ChooseImport
           \/ \E t \in Tab : ChooseCapture(t) \/ ChooseTransfer(t)
    PROVE  IInv' /\ Kept /\ Like
<1>1. UNCHANGED <<tab, app>>
      BY DEF DialogGivenUp, ChooseImport, ChooseCapture, ChooseTransfer, Ask
<1>2. IInv' /\ Kept
  <2>1. tab' = tab /\ tab' \in [Tab -> TabRecord] /\ app' \in {"running", "closing", "gone"}
        BY <1>1 DEF IInv, TabInv, PageInv
  <2>2. ASSUME NEW t \in Tab
        PROVE  /\ Sound(tab'[t]) /\ (tab'[t].page = None => tab'[t] = NewTab(None))
               /\ (Recording(tab[t]) => tab'[t].capture # None)
        BY <2>1, TabOf DEF Recording, None
  <2> QED BY <2>1, <2>2, TabsStep
<1>3. UNCHANGED <<WTab, WApp>>
      BY <1>1 DEF WTab, WApp
<1>4. CASE UNCHANGED WDialog
      BY <1>2, <1>3, <1>4 DEF Like
<1>5. CASE DialogGivenUp
  <2>1. CASE dialog.kind \in {"close", "quit"}
    <3>1. WDialog = dialog /\ WDialog' = NoDialog /\ WDialog # NoDialog
          BY <1>5, <2>1 DEF DialogGivenUp, WDialog, NoDialog, None
    <3>2. Windows!DialogGivenUp <=> /\ WDialog # NoDialog /\ WDialog' = NoDialog
                                    /\ UNCHANGED <<WTab, WApp>>
          BY DEF Windows!DialogGivenUp, WTab, WApp, WDialog, Windows!NoDialog, NoDialog,
                 Windows!None, None
    <3> QED BY <1>2, <1>3, <3>1, <3>2, WindowsNext
  <2>2. CASE dialog.kind \notin {"close", "quit"}
        BY <1>4, <1>5, <2>2 DEF DialogGivenUp, WDialog, NoDialog, None
  <2> QED BY <2>1, <2>2
<1>6. CASE ChooseImport \/ \E t \in Tab : ChooseCapture(t) \/ ChooseTransfer(t)
  <2>1. dialog = NoDialog /\ dialog'.kind \notin {"close", "quit"}
        BY <1>6 DEF ChooseImport, ChooseCapture, ChooseTransfer, Ask, Tools, User
  <2> QED BY <1>4, <2>1 DEF WDialog, NoDialog, None
<1> QED BY <1>5, <1>6

-----------------------------------------------------------------------------
(* Tabs that close, and the window *)

\* A tab that is freed leaves nothing, or a new tab if it was the last.
Freed(t) == NewTab(IF \A u \in Tab \ {t} : tab[u].page = None THEN "open" ELSE None)

LEMMA FreeOne ==
    ASSUME NEW t \in Tab, tab \in [Tab -> TabRecord], NEW left,
           \A u \in Tab \ {t} : left[u] = tab[u]
    PROVE  AfterFree({t}, left) = [tab EXCEPT ![t] = Freed(t)]
<1>1. (CHOOSE x \in {t} : TRUE) = t
      OBVIOUS
<1>2. (\A u \in Tab \ {t} : left[u].page = None) <=> (\A u \in Tab \ {t} : tab[u].page = None)
      OBVIOUS
<1>3. \A x \in Tab : AfterFree({t}, left)[x] = IF x = t THEN Freed(t) ELSE tab[x]
      BY <1>1, <1>2 DEF AfterFree, Freed
<1>4. AfterFree({t}, left) = [x \in Tab |-> AfterFree({t}, left)[x]]
      BY DEF AfterFree
<1> QED BY <1>3, <1>4

LEMMA FreedKeeps ==
    ASSUME IInv, NEW t \in Tab, ~Recording(tab[t]),
           tab' = [tab EXCEPT ![t] = Freed(t)], UNCHANGED app
    PROVE  IInv' /\ Kept /\ (app = "running" => Windows!RemoveTab(t))
<1>1. PICK page \in {None, "open"} :
          page = IF \A u \in Tab \ {t} : tab[u].page = None THEN "open" ELSE None
      OBVIOUS
<1>2. Freed(t) = NewTab(page) /\ NewTab(page) \in TabRecord /\ Sound(NewTab(page))
      /\ NewTab(page).page = page
      BY <1>1, NewTabSound DEF Freed
<1>3. tab \in [Tab -> TabRecord] /\ app \in {"running", "closing", "gone"}
      BY DEF IInv, TabInv, PageInv
<1>4. tab' \in [Tab -> TabRecord] /\ app' \in {"running", "closing", "gone"}
      BY <1>2, <1>3
<1>5. ASSUME NEW u \in Tab
      PROVE  /\ Sound(tab'[u]) /\ (tab'[u].page = None => tab'[u] = NewTab(None))
             /\ (Recording(tab[u]) => tab'[u].capture # None)
  <2>1. CASE u = t
    <3>1. tab'[u] = NewTab(page)
          BY <1>2, <1>3, <2>1
    <3> QED BY <1>2, <2>1, <3>1
  <2>2. CASE u # t
    <3>1. tab'[u] = tab[u]
          BY <1>3, <2>2
    <3> QED BY <3>1, TabOf DEF Recording, None
  <2> QED BY <2>1, <2>2
<1>6. IInv' /\ Kept
      BY <1>4, <1>5, TabsStep
<1>7. ASSUME app = "running"
      PROVE  Windows!RemoveTab(t)
  <2>1. \A u \in Tab : WTab[u] = WithoutTools(tab[u])
        BY <1>7, WTabStep
  <2>2. \A x : WithoutTools(x).page = x.page
        BY DEF WithoutTools
  <2>3. (\A u \in Tab \ {t} : WTab[u].page = None) <=> (\A u \in Tab \ {t} : tab[u].page = None)
        BY <2>1, <2>2
  <2>4. WTab' = [WTab EXCEPT ![t] = WithoutTools(NewTab(page))]
        BY <1>2, <1>7, WTabStep
  <2>5. Windows!NewTab(page) = WithoutTools(NewTab(page))
        BY WindowsState
  <2>6. Windows!RemoveTab(t) <=>
            WTab' = [WTab EXCEPT ![t] =
                Windows!NewTab(IF \A u \in Tab \ {t} : WTab[u].page = None THEN "open" ELSE None)]
        BY DEF Windows!RemoveTab, WTab, Windows!None, None
  <2>7. page = IF \A u \in Tab \ {t} : WTab[u].page = None THEN "open" ELSE None
        BY <1>1, <2>3
  <2> QED BY <2>4, <2>5, <2>6, <2>7
<1> QED BY <1>6, <1>7

\* remove_tab(): the tab waits for its recording, or is freed.
LEMMA RemoveKeeps ==
    ASSUME IInv, NEW t \in Tab, tab[t].page # None, RemoveTab(t), UNCHANGED app
    PROVE  /\ IInv' /\ Kept
           /\ tab'[t].page = "closing" \/ (app = "running" => Windows!RemoveTab(t))
<1>1. PICK s \in TabRecord : s = tab[t] /\ Sound(s)
      BY TabOf
<1>2. /\ Sound(StopTab(s)) /\ StopTab(s).page = s.page
      /\ Recording(StopTab(s)) <=> Recording(s)
      BY <1>1, StopTabSound
<1>3. tab \in [Tab -> TabRecord]
      BY DEF IInv, TabInv
<1>4. CASE Recording(StopTab(s))
  <2>1. PICK w : w = StopTab(s)
        OBVIOUS
  <2>2. PICK u : u = [w EXCEPT !.page = "closing"]
        OBVIOUS
  <2>3. w \in TabRecord /\ Sound(w) /\ Recording(w)
        BY <1>2, <1>4, <2>1 DEF Sound
  <2>4. /\ u \in TabRecord /\ u.page = "closing" /\ u.capture = w.capture
        /\ u.quick = w.quick /\ u.runner = w.runner /\ u.out = w.out
        /\ u.bridge = w.bridge /\ u.missed = w.missed
        BY <2>2, <2>3 DEF TabRecord
  <2>5. Sound(u) /\ u.page # None /\ u.capture # None
        BY <2>3, <2>4 DEF Sound, Alone, Asked, Quiet, Running, Recording, None
  <2>6. tab' = [tab EXCEPT ![t] = [StopTab(s) EXCEPT !.page = "closing"]]
        BY <1>1, <1>3, <1>4 DEF RemoveTab
  <2>7. tab' = [tab EXCEPT ![t] = u]
        BY <2>1, <2>2, <2>6
  <2>8. IInv' /\ Kept
        BY <2>5, <2>7, TabStep
  <2>9. tab'[t].page = "closing"
        BY <1>3, <2>4, <2>7
  <2> QED BY <2>8, <2>9
<1>5. CASE ~Recording(StopTab(s))
  <2>1. tab' = AfterFree({t}, [tab EXCEPT ![t] = StopTab(s)])
        BY <1>1, <1>3, <1>5 DEF RemoveTab
  <2>2. PICK left : left = [tab EXCEPT ![t] = StopTab(s)]
        OBVIOUS
  <2>3. \A u \in Tab \ {t} : left[u] = tab[u]
        BY <1>3, <2>2
  <2>4. tab' = [tab EXCEPT ![t] = Freed(t)]
        BY <1>3, <2>1, <2>2, <2>3, FreeOne
  <2>5. ~Recording(tab[t])
        BY <1>1, <1>2, <1>5
  <2> QED BY <2>4, <2>5, FreedKeeps
<1> QED BY <1>4, <1>5

LEMMA ClosesKeep ==
    ASSUME IInv, NEW t \in Tab,
           CloseTab(t) \/ CloseTabDone(t) \/ CloseAfterRecording(t)
    PROVE  IInv' /\ Kept /\ Like
<1>1. CASE CloseTab(t)
  <2>1. app = "running" /\ dialog = NoDialog /\ tab[t].page = "open"
        BY <1>1 DEF CloseTab, User
  <2>2. WTab[t] = WithoutTools(tab[t])
        BY <2>1, WTabStep
  <2>3. WTab[t].page = "open" /\ WTab[t].serial = tab[t].serial
        BY <2>1, <2>2 DEF WithoutTools
  <2>4. Windows!User(t)
        BY <2>1, <2>3, WindowsState DEF WApp, WDialog, NoDialog, None
  <2>5. Windows!CloseTab(t) <=>
            /\ Windows!User(t)
            /\ IF WTab[t].serial = None
               THEN Windows!RemoveTab(t) /\ UNCHANGED <<WApp, WDialog>>
               ELSE WDialog' = [kind |-> "close", of |-> t] /\ UNCHANGED <<WTab, WApp>>
        BY DEF Windows!CloseTab, WTab, WApp, WDialog, Windows!None, None
  <2>6. CASE tab[t].serial = None
    <3>1. RemoveTab(t) /\ UNCHANGED <<app, dialog>>
          BY <1>1, <2>6 DEF CloseTab
    <3>2. tab[t].page # None
          BY <2>1 DEF None
    <3>3. /\ IInv' /\ Kept
          /\ tab'[t].page = "closing" \/ Windows!RemoveTab(t)
          BY <2>1, <3>1, <3>2, RemoveKeeps
    <3>4. CASE tab'[t].page = "closing"
          BY <3>3, <3>4 DEF Like
    <3>5. CASE Windows!RemoveTab(t)
      <4>1. UNCHANGED <<WApp, WDialog>>
            BY <3>1 DEF WApp, WDialog
      <4>2. Windows!CloseTab(t)
            BY <2>3, <2>4, <2>5, <2>6, <3>5, <4>1
      <4> QED BY <3>3, <4>2, WindowsNext
    <3> QED BY <3>3, <3>4, <3>5
  <2>7. CASE tab[t].serial # None
    <3>1. dialog' = [kind |-> "close", of |-> t] /\ UNCHANGED <<tab, app>>
          BY <1>1, <2>7 DEF CloseTab, Ask
    <3>2. IInv' /\ Kept
      <4>1. tab' = tab /\ tab' \in [Tab -> TabRecord] /\ app' \in {"running", "closing", "gone"}
            BY <3>1 DEF IInv, TabInv, PageInv
      <4>2. ASSUME NEW u \in Tab
            PROVE  /\ Sound(tab'[u]) /\ (tab'[u].page = None => tab'[u] = NewTab(None))
                   /\ (Recording(tab[u]) => tab'[u].capture # None)
            BY <4>1, TabOf DEF Recording, None
      <4> QED BY <4>1, <4>2, TabsStep
    <3>3. UNCHANGED <<WTab, WApp>>
          BY <3>1 DEF WTab, WApp
    <3>4. WDialog' = [kind |-> "close", of |-> t]
          BY <3>1 DEF WDialog
    <3>5. Windows!CloseTab(t)
          BY <2>3, <2>4, <2>5, <2>7, <3>3, <3>4
    <3> QED BY <3>2, <3>5, WindowsNext
  <2> QED BY <2>6, <2>7
<1>2. CASE CloseTabDone(t)
  <2>1. /\ dialog = [kind |-> "close", of |-> t] /\ dialog' = NoDialog
        /\ tab[t].page = "open" /\ RemoveTab(t) /\ UNCHANGED app
        BY <1>2 DEF CloseTabDone, Answered
  <2>2. tab[t].page # None
        BY <2>1 DEF None
  <2>3. /\ IInv' /\ Kept
        /\ tab'[t].page = "closing" \/ (app = "running" => Windows!RemoveTab(t))
        BY <2>1, <2>2, RemoveKeeps
  <2>4. /\ WDialog = [kind |-> "close", of |-> t] /\ WDialog' = NoDialog
        /\ WDialog # NoDialog /\ UNCHANGED WApp
        BY <2>1 DEF WDialog, WApp, NoDialog, None
  <2>5. CASE tab'[t].page = "closing"
        BY <2>3, <2>5 DEF Like
  <2>6. CASE app # "running"
    <3>1. UNCHANGED <<WTab, WApp>>
          BY <2>1, <2>6, GoneStep
    <3>2. Windows!DialogGivenUp <=> /\ WDialog # NoDialog /\ WDialog' = NoDialog
                                    /\ UNCHANGED <<WTab, WApp>>
          BY DEF Windows!DialogGivenUp, WTab, WApp, WDialog, Windows!NoDialog, NoDialog,
                 Windows!None, None
    <3> QED BY <2>3, <2>4, <3>1, <3>2, WindowsNext
  <2>7. CASE app = "running" /\ Windows!RemoveTab(t)
    <3>1. WTab[t] = WithoutTools(tab[t])
          BY <2>7, WTabStep
    <3>2. WTab[t].page = "open"
          BY <2>1, <3>1 DEF WithoutTools
    <3>3. Windows!CloseTabDone(t) <=>
              /\ WDialog = [kind |-> "close", of |-> t] /\ WDialog' = NoDialog
              /\ WTab[t].page = "open" /\ Windows!RemoveTab(t) /\ UNCHANGED WApp
          BY DEF Windows!CloseTabDone, WTab, WApp, WDialog, Windows!NoDialog, NoDialog,
                 Windows!None, None
    <3>4. Windows!CloseTabDone(t)
          BY <2>4, <2>7, <3>2, <3>3
    <3> QED BY <2>3, <3>4, WindowsNext
  <2> QED BY <2>3, <2>5, <2>6, <2>7
<1>3. CASE CloseAfterRecording(t)
  <2>1. /\ tab[t].page = "closing" /\ ~Recording(tab[t])
        /\ tab' = AfterFree({t}, tab) /\ UNCHANGED <<app, dialog>>
        BY <1>3 DEF CloseAfterRecording
  <2>2. tab \in [Tab -> TabRecord]
        BY DEF IInv, TabInv
  <2>3. PICK left : left = tab
        OBVIOUS
  <2>4. \A u \in Tab \ {t} : left[u] = tab[u]
        BY <2>3
  <2>5. AfterFree({t}, left) = [tab EXCEPT ![t] = Freed(t)]
        BY <2>2, <2>4, FreeOne
  <2>6. tab' = [tab EXCEPT ![t] = Freed(t)]
        BY <2>1, <2>3, <2>5
  <2>7. IInv' /\ Kept
        BY <2>1, <2>6, FreedKeeps
  <2> QED BY <2>1, <2>7 DEF Like
<1> QED BY <1>1, <1>2, <1>3

LEMMA AddKeeps ==
    ASSUME IInv, NEW t \in Tab, AddTab(t)
    PROVE  IInv' /\ Kept /\ Like
<1>1. /\ app = "running" /\ dialog = NoDialog /\ tab[t].page = None
      /\ tab' = [tab EXCEPT ![t] = NewTab("open")] /\ UNCHANGED <<app, dialog>>
      BY DEF AddTab, Become
<1>2. /\ Sound(NewTab("open")) /\ NewTab("open") \in TabRecord /\ NewTab("open").page = "open"
      BY NewTabSound
<1>3. NewTab("open").page # None
      BY <1>2 DEF None
<1>4. tab[t].capture = None
      BY <1>1, BlankTab
<1>5. ~Recording(tab[t])
      BY <1>4 DEF Recording, None
<1>6. IInv' /\ Kept
      BY <1>1, <1>2, <1>3, <1>5, TabStep
<1>7. /\ WTab[t] = WithoutTools(tab[t])
      /\ WTab' = [WTab EXCEPT ![t] = WithoutTools(NewTab("open"))]
      BY <1>1, WTabStep
<1>8. WTab[t].page = None
      BY <1>1, <1>7 DEF WithoutTools
<1>9. WApp = "running" /\ WDialog = NoDialog /\ UNCHANGED <<WApp, WDialog>>
      BY <1>1 DEF WApp, WDialog, NoDialog, None
<1>10. Windows!Become(t, Windows!NewTab("open"))
       BY <1>7, <1>9, WindowsState
<1>11. Windows!AddTab(t) <=> /\ WApp = "running" /\ WDialog = NoDialog
                             /\ WTab[t].page = None
                             /\ Windows!Become(t, Windows!NewTab("open"))
       BY DEF Windows!AddTab, WTab, WApp, WDialog, Windows!NoDialog, NoDialog,
              Windows!None, None
<1>12. Windows!AddTab(t)
       BY <1>8, <1>9, <1>10, <1>11
<1> QED BY <1>6, <1>12, WindowsNext

\* quit(): the window waits for its recordings, or is gone with all tabs.
LEMMA QuitKeeps ==
    ASSUME IInv, Quit
    PROVE  IInv' /\ Kept /\ Windows!Quit
<1>1. tab \in [Tab -> TabRecord]
      BY DEF IInv, TabInv
<1>2. \A t \in Tab : /\ Sound(StopTab(tab[t])) /\ StopTab(tab[t]) \in TabRecord
                     /\ StopTab(tab[t]).page = tab[t].page
                     /\ (Recording(StopTab(tab[t])) <=> Recording(tab[t]))
                     /\ (tab[t].page = None => StopTab(tab[t]) = NewTab(None))
      BY TabOf, StopTabSound DEF Sound
<1>3. \A t \in Tab : Recording(tab[t]) => StopTab(tab[t]).capture # None
      BY TabOf, StopSeen
<1>4. Sound(NewTab(None)) /\ NewTab(None) \in TabRecord
      BY NewTabSound
<1>5. PICK stopped : stopped = [t \in Tab |-> StopTab(tab[t])]
      OBVIOUS
<1>6. IF \E t \in Tab : Recording(stopped[t])
      THEN app' = "closing" /\ tab' = stopped
      ELSE app' = "gone" /\ tab' = [t \in Tab |-> NewTab(None)]
      BY <1>5 DEF Quit
<1>7. ASSUME \E t \in Tab : Recording(stopped[t])
      PROVE  IInv' /\ Kept
  <2>1. app' = "closing" /\ tab' = stopped
        BY <1>6, <1>7
  <2>2. \A t \in Tab : tab'[t] = StopTab(tab[t])
        BY <1>5, <2>1
  <2>3. tab' \in [Tab -> TabRecord] /\ app' \in {"running", "closing", "gone"}
        BY <1>2, <1>5, <2>1
  <2>4. ASSUME NEW t \in Tab
        PROVE  /\ Sound(tab'[t]) /\ (tab'[t].page = None => tab'[t] = NewTab(None))
               /\ (Recording(tab[t]) => tab'[t].capture # None)
        BY <1>2, <1>3, <2>2
  <2> QED BY <2>3, <2>4, TabsStep
<1>8. ASSUME ~\E t \in Tab : Recording(stopped[t])
      PROVE  IInv' /\ Kept
  <2>1. app' = "gone" /\ tab' = [t \in Tab |-> NewTab(None)]
        BY <1>6, <1>8
  <2>2. tab' \in [Tab -> TabRecord] /\ app' \in {"running", "closing", "gone"}
        BY <1>4, <2>1
  <2>3. ASSUME NEW t \in Tab
        PROVE  /\ Sound(tab'[t]) /\ (tab'[t].page = None => tab'[t] = NewTab(None))
               /\ (Recording(tab[t]) => tab'[t].capture # None)
    <3>1. tab'[t] = NewTab(None)
          BY <2>1
    <3>2. ~Recording(stopped[t]) /\ stopped[t] = StopTab(tab[t])
          BY <1>5, <1>8
    <3>3. ~Recording(tab[t])
          BY <1>2, <3>2
    <3> QED BY <1>4, <3>1, <3>3
  <2> QED BY <2>2, <2>3, TabsStep
<1>9. IInv' /\ Kept
      BY <1>7, <1>8
<1>10. app' # "running"
       BY <1>6
<1>11. WApp' = "gone" /\ WTab' = [t \in Tab |-> WithoutTools(NewTab(None))]
       BY <1>10 DEF WApp, WTab
<1>12. Windows!NewTab(None) = WithoutTools(NewTab(None))
       BY WindowsState
<1>13. Windows!Quit <=> WApp' = "gone" /\ WTab' = [t \in Tab |-> Windows!NewTab(None)]
       BY DEF Windows!Quit, WTab, WApp, Windows!None, None
<1>14. Windows!Quit
       BY <1>11, <1>12, <1>13
<1> QED BY <1>9, <1>14

LEMMA WindowKeeps ==
    ASSUME IInv, CloseRequested \/ QuitDone \/ FinishQuit \/ ImportSettings
    PROVE  IInv' /\ Kept /\ Like
<1>1. tab \in [Tab -> TabRecord] /\ app \in {"running", "closing", "gone"}
      BY DEF IInv, TabInv, PageInv
<1>2. CASE CloseRequested
  <2>1. app = "running" /\ dialog = NoDialog
        BY <1>2 DEF CloseRequested
  <2>2. \A t \in Tab : WTab[t] = WithoutTools(tab[t])
        BY <2>1, WTabStep
  <2>3. \A x : WithoutTools(x).serial = x.serial
        BY DEF WithoutTools
  <2>4. (\E t \in Tab : WTab[t].serial # None) <=> (\E t \in Tab : tab[t].serial # None)
        BY <2>2, <2>3
  <2>5. WApp = "running" /\ WDialog = NoDialog
        BY <2>1 DEF WApp, WDialog, NoDialog, None
  <2>6. Windows!CloseRequested <=>
            /\ WApp = "running" /\ WDialog = NoDialog
            /\ IF \E t \in Tab : WTab[t].serial # None
               THEN WDialog' = [kind |-> "quit"] /\ UNCHANGED <<WTab, WApp>>
               ELSE Windows!Quit /\ UNCHANGED WDialog
        BY DEF Windows!CloseRequested, WTab, WApp, WDialog, Windows!NoDialog, NoDialog,
               Windows!None, None
  <2>7. CASE \E t \in Tab : tab[t].serial # None
    <3>1. dialog' = [kind |-> "quit"] /\ UNCHANGED <<tab, app>>
          BY <1>2, <2>7 DEF CloseRequested
    <3>2. tab' = tab /\ tab' \in [Tab -> TabRecord] /\ app' \in {"running", "closing", "gone"}
          BY <1>1, <3>1
    <3>3. ASSUME NEW t \in Tab
          PROVE  /\ Sound(tab'[t]) /\ (tab'[t].page = None => tab'[t] = NewTab(None))
                 /\ (Recording(tab[t]) => tab'[t].capture # None)
          BY <3>2, TabOf DEF Recording, None
    <3>4. IInv' /\ Kept
          BY <3>2, <3>3, TabsStep
    <3>5. WDialog' = [kind |-> "quit"] /\ UNCHANGED <<WTab, WApp>>
          BY <3>1 DEF WTab, WApp, WDialog
    <3>6. Windows!CloseRequested
          BY <2>4, <2>5, <2>6, <2>7, <3>5
    <3> QED BY <3>4, <3>6, WindowsNext
  <2>8. CASE ~\E t \in Tab : tab[t].serial # None
    <3>1. Quit /\ UNCHANGED dialog
          BY <1>2, <2>8 DEF CloseRequested
    <3>2. IInv' /\ Kept /\ Windows!Quit
          BY <3>1, QuitKeeps
    <3>3. UNCHANGED WDialog
          BY <3>1 DEF WDialog
    <3>4. Windows!CloseRequested
          BY <2>4, <2>5, <2>6, <2>8, <3>2, <3>3
    <3> QED BY <3>2, <3>4, WindowsNext
  <2> QED BY <2>7, <2>8
<1>3. CASE QuitDone
  <2>1. dialog = [kind |-> "quit"] /\ dialog' = NoDialog /\ Quit
        BY <1>3 DEF QuitDone
  <2>2. IInv' /\ Kept /\ Windows!Quit
        BY <2>1, QuitKeeps
  <2>3. WDialog = [kind |-> "quit"] /\ WDialog' = NoDialog
        BY <2>1 DEF WDialog, NoDialog, None
  <2>4. Windows!QuitDone <=> WDialog = [kind |-> "quit"] /\ WDialog' = NoDialog /\ Windows!Quit
        BY DEF Windows!QuitDone, WDialog, Windows!NoDialog, NoDialog, Windows!None, None
  <2>5. Windows!QuitDone
        BY <2>2, <2>3, <2>4
  <2> QED BY <2>2, <2>5, WindowsNext
<1>4. CASE FinishQuit
  <2>1. /\ app = "closing" /\ \A t \in Tab : ~Recording(tab[t])
        /\ app' = "gone" /\ tab' = [t \in Tab |-> NewTab(None)] /\ UNCHANGED dialog
        BY <1>4 DEF FinishQuit
  <2>2. Sound(NewTab(None)) /\ NewTab(None) \in TabRecord
        BY NewTabSound
  <2>3. tab' \in [Tab -> TabRecord] /\ app' \in {"running", "closing", "gone"}
        BY <2>1, <2>2
  <2>4. \A t \in Tab : tab'[t] = NewTab(None)
        BY <2>1
  <2>5. IInv' /\ Kept
        BY <2>1, <2>2, <2>3, <2>4, TabsStep
  <2>6. UNCHANGED <<WTab, WApp>>
        BY <2>1, GoneStep
  <2>7. UNCHANGED WDialog
        BY <2>1 DEF WDialog
  <2> QED BY <2>5, <2>6, <2>7 DEF Like
<1>5. CASE ImportSettings
  <2>1. /\ \A t \in Tab : ~Recording(tab[t])
        /\ UNCHANGED app
        BY <1>5 DEF ImportSettings
  <2>2. PICK S \in SUBSET Tab : tab' = [t \in Tab |-> NewTab(IF t \in S THEN "open" ELSE None)]
        BY <1>5 DEF ImportSettings
  <2>3. ASSUME NEW t \in Tab
        PROVE  /\ Sound(tab'[t]) /\ (tab'[t].page = None => tab'[t] = NewTab(None))
               /\ (Recording(tab[t]) => tab'[t].capture # None)
               /\ tab'[t] \in TabRecord
    <3>1. PICK page \in {None, "open"} : page = IF t \in S THEN "open" ELSE None
          OBVIOUS
    <3>2. tab'[t] = NewTab(page)
          BY <2>2, <3>1
    <3>3. /\ NewTab(page) \in TabRecord /\ Sound(NewTab(page)) /\ NewTab(page).page = page
          BY NewTabSound
    <3> QED BY <2>1, <3>2, <3>3
  <2>4. tab' \in [Tab -> TabRecord] /\ app' \in {"running", "closing", "gone"}
    <3>1. tab' = [t \in Tab |-> tab'[t]]
          BY <2>2
    <3> QED BY <1>1, <2>1, <2>3, <3>1
  <2>5. IInv' /\ Kept
        BY <2>3, <2>4, TabsStep
  <2> QED BY <1>5, <2>5 DEF Like
<1> QED BY <1>2, <1>3, <1>4, <1>5

-----------------------------------------------------------------------------
(* The theorems *)

LEMMA InitIInv == Init => IInv
<1> SUFFICES ASSUME Init PROVE IInv
    OBVIOUS
<1>1. PICK S \in SUBSET Tab : tab = [t \in Tab |-> NewTab(IF t \in S THEN "open" ELSE None)]
      BY DEF Init
<1>2. ASSUME NEW t \in Tab
      PROVE  /\ tab[t] \in TabRecord /\ Sound(tab[t])
             /\ (tab[t].page = None => tab[t] = NewTab(None))
  <2>1. PICK page \in {None, "open"} : page = IF t \in S THEN "open" ELSE None
        OBVIOUS
  <2>2. tab[t] = NewTab(page)
        BY <1>1, <2>1
  <2>3. /\ NewTab(page) \in TabRecord /\ Sound(NewTab(page)) /\ NewTab(page).page = page
        BY NewTabSound
  <2> QED BY <2>2, <2>3
<1>3. tab \in [Tab -> TabRecord]
  <2>1. tab = [t \in Tab |-> tab[t]]
        BY <1>1
  <2> QED BY <1>2, <2>1
<1>4. app = "running"
      BY DEF Init
<1> QED BY <1>2, <1>3, <1>4 DEF IInv, TabInv, PageInv

LEMMA NextStep == IInv /\ [Next]_vars => IInv' /\ Kept /\ Like
<1> SUFFICES ASSUME IInv, [Next]_vars PROVE IInv' /\ Kept /\ Like
    OBVIOUS
<1>1. CASE UNCHANGED vars
  <2>1. tab' = tab /\ UNCHANGED <<app, dialog>>
        BY <1>1 DEF vars
  <2>2. tab' \in [Tab -> TabRecord] /\ app' \in {"running", "closing", "gone"}
        BY <2>1 DEF IInv, TabInv, PageInv
  <2>3. ASSUME NEW t \in Tab
        PROVE  /\ Sound(tab'[t]) /\ (tab'[t].page = None => tab'[t] = NewTab(None))
               /\ (Recording(tab[t]) => tab'[t].capture # None)
        BY <2>1, TabOf DEF Recording, None
  <2>4. IInv' /\ Kept
        BY <2>2, <2>3, TabsStep
  <2>5. UNCHANGED <<WTab, WApp, WDialog>>
        BY <2>1 DEF WTab, WApp, WDialog
  <2> QED BY <2>4, <2>5 DEF Like
<1>2. ASSUME NEW t \in Tab,
             \/ DeadlinePasses(t) \/ TransferEnds(t) \/ CaptureFinishes(t) \/ CloseModbus(t)
             \/ CancelTransfer(t) \/ StopCapture(t) \/ CaptureSelected(t)
      PROVE  IInv' /\ Kept /\ Like
      BY <1>2, AsideKeeps
<1>3. ASSUME NEW t \in Tab,
             \/ Written(t) \/ SendBytes(t) \/ QuickClicked(t) \/ QuickDue(t) \/ RunSequence(t)
             \/ StopSequence(t) \/ RunnerEnds(t) \/ RunnerSends(t)
      PROVE  IInv' /\ Kept /\ Like
      BY <1>3, SendsKeep
<1>4. ASSUME NEW t \in Tab,
             \/ ClientLinks(t) \/ OpenModbus(t) \/ TransferSelected(t)
      PROVE  IInv' /\ Kept /\ Like
      BY <1>4, BridgesKeep
<1>5. ASSUME NEW t \in Tab,
             PortOpens(t) \/ PortOpenFails(t) \/ PortFails(t) \/ GivesUp(t) \/ Receives(t)
      PROVE  IInv' /\ Kept /\ Like
      BY <1>5, WorkerKeeps
<1>6. ASSUME NEW t \in Tab,
             Tick(t) \/ Disconnect(t) \/ (\E path \in Path : Connect(t, path)) \/ AddTab(t)
      PROVE  IInv' /\ Kept /\ Like
      BY <1>6, TickKeeps, DisconnectKeeps, ConnectKeeps, AddKeeps
<1>7. ASSUME NEW t \in Tab, CloseTab(t) \/ CloseTabDone(t) \/ CloseAfterRecording(t)
      PROVE  IInv' /\ Kept /\ Like
      BY <1>7, ClosesKeep
<1>8. ASSUME \/ DialogGivenUp \/ ChooseImport
             \/ \E t \in Tab : ChooseCapture(t) \/ ChooseTransfer(t)
      PROVE  IInv' /\ Kept /\ Like
      BY <1>8, DialogsKeep
<1>9. ASSUME CloseRequested \/ QuitDone \/ FinishQuit \/ ImportSettings
      PROVE  IInv' /\ Kept /\ Like
      BY <1>9, WindowKeeps
<1> QED BY <1>1, <1>2, <1>3, <1>4, <1>5, <1>6, <1>7, <1>8, <1>9 DEF Next

LEMMA IInvHolds == Spec => []IInv
<1>1. IInv /\ [Next]_vars => IInv'
      BY NextStep
<1> QED BY <1>1, InitIInv, PTL DEF Spec

\* A transfer or the Modbus window has the port to itself (BridgeAlone), in every
\* state: nothing of others is queued for it, and no quick button or sequence waits.
THEOREM BridgesAreAlone == Spec => []BridgeAlone
<1>1. IInv => BridgeAlone
      BY DEF IInv, TabInv, PageInv, BridgeAlone, TypeOK, Sound, Alone, TabRecord, Event, Send
<1> QED BY <1>1, IInvHolds, PTL

\* Nothing that was asked for before a disconnect of which the tab was told is ever
\* sent after it (NeverAfterLoss).
THEOREM LossIsFinal == Spec => []NeverAfterLoss
<1>1. IInv => NeverAfterLoss
      BY DEF IInv, TabInv, NeverAfterLoss, Sound, Asked
<1> QED BY <1>1, IInvHolds, PTL

\* However a session ends, all that was received is in the log (ReceivedIsLogged).
THEOREM NothingIsMissed == Spec => []ReceivedIsLogged
<1>1. IInv => ReceivedIsLogged
      BY DEF IInv, TabInv, ReceivedIsLogged, Sound
<1> QED BY <1>1, IInvHolds, PTL

\* No step frees a tab whose recording has writes to do (RecordingOutlived).
THEOREM RecordingsEndFirst == Spec => RecordingOutlived
<1>1. IInv /\ [Next]_vars => [\A t \in Tab : Recording(tab[t]) => tab'[t].capture # None]_vars
      BY NextStep DEF Kept
<1> QED BY <1>1, IInvHolds, PTL DEF Spec, RecordingOutlived

\* The portable program, seen without its tools, does what the Windows program may
\* do (LikeWindows): the refinement, step by step.
THEOREM DoesLikeWindows == Spec => LikeWindows
<1>1. Init => Windows!Init
  <2> SUFFICES ASSUME Init PROVE Windows!Init
      OBVIOUS
  <2>1. PICK S \in SUBSET Tab \ {{}} :
            tab = [t \in Tab |-> NewTab(IF t \in S THEN "open" ELSE None)]
        BY DEF Init
  <2>2. app = "running" /\ dialog = NoDialog
        BY DEF Init
  <2>3. \A page : Windows!NewTab(page) = WithoutTools(NewTab(page))
        BY WindowsState
  <2>4. WTab = [t \in Tab |-> WithoutTools(tab[t])]
        BY <2>2 DEF WTab
  <2>5. WTab = [t \in Tab |-> Windows!NewTab(IF t \in S THEN "open" ELSE None)]
        BY <2>1, <2>3, <2>4
  <2>6. WApp = "running" /\ WDialog = NoDialog
        BY <2>2 DEF WApp, WDialog, NoDialog, None
  <2>7. Windows!Init <=>
            /\ \E R \in SUBSET Tab \ {{}} :
                   WTab = [t \in Tab |-> Windows!NewTab(IF t \in R THEN "open" ELSE None)]
            /\ WApp = "running" /\ WDialog = NoDialog
        BY DEF Windows!Init, WTab, WApp, WDialog, Windows!NoDialog, NoDialog,
               Windows!None, None
  <2> QED BY <2>5, <2>6, <2>7
<1>2. IInv /\ [Next]_vars
      => [\/ \E t \in Tab : "closing" \in {tab[t].page, tab'[t].page}
          \/ ImportSettings \/ Windows!Next]_(Windows!vars)
  <2>1. UNCHANGED <<WTab, WApp, WDialog>> => UNCHANGED Windows!vars
        BY DEF Windows!vars, WTab, WApp, WDialog
  <2> QED BY NextStep, <2>1 DEF Like
<1> QED BY <1>1, <1>2, IInvHolds, PTL DEF Spec, LikeWindows
=============================================================================
