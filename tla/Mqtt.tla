---------------------------------- MODULE Mqtt ----------------------------------
(***************************************************************************)
(* The MQTT client of mqtt.c and the window of mqtt_ui.c.                  *)
(*                                                                         *)
(* The client sends CONNECT when its TCP connection (Network) is ready and *)
(* is ready itself when the broker accepted. Requests take the next packet *)
(* identifier that is free and wait in a table for the answer of their     *)
(* type. What is received is queued and parsed a few packets at a time, by *)
(* the notice that brought it and by a timer, which also watches over the  *)
(* handshake and the silence of either side. The broker may send anything; *)
(* what an honest one was asked and still has to answer is kept beside it. *)
(* A packet that is not complete yet is not received yet.                  *)
(***************************************************************************)
EXTENDS Integers, Sequences, FiniteSets, SequencesExt, Bags

CONSTANTS MaxId,       \* packet identifiers are 1..MaxId (65535)
          MaxPendingRequests,  \* requests that may wait for their answer (64)
          MaxReceived, \* packets received and not parsed (128 KiB)
          ParseBudget,      \* packets parsed in one go (64)
          MaxChunk     \* bound: packets that arrive at once

MqttAssumption == {MaxId, MaxReceived, ParseBudget, MaxChunk} \subseteq Nat \ {0} /\ MaxPendingRequests \in 1..MaxId

VARIABLE mqtt

Answer == {"puback", "suback", "unsuback"}
Ack == [kind : Answer, id : 1..MaxId]
\* What the broker sends, without its contents; message1 is of QoS 1
Packet == Ack \cup [kind : {"accepted", "refused", "message", "message1", "pong", "malformed"}, id : {0}]

\* status: of the client, none when the window has no client; lateStart, silent, idle:
\* five seconds since the start, 45 since anything was received, 15 since sent.
\* asked, welcomed, honest: of the broker; reason: why the client closed.
NewClient(window) ==
    [status |-> "connecting", connectSent |-> FALSE, received |-> <<>>, pending |-> {},
     packetId |-> 0, lateStart |-> FALSE, silent |-> FALSE, idle |-> FALSE,
     asked |-> EmptyBag, welcomed |-> FALSE, honest |-> TRUE, reason |-> "none", window |-> window]
NoClient(window) == [NewClient(window) EXCEPT !.status = "none"]

MqttInit == mqtt = NoClient("open")

LiveClient(m) == m.status \in {"connecting", "ready"}
\* close_mqtt(): once; nothing looks at what is left
CloseMqtt(m, reason) ==
    IF LiveClient(m)
    THEN [NewClient(m.window) EXCEPT !.status = "closed", !.reason = reason, !.honest = m.honest]
    ELSE m
-----------------------------------------------------------------------------
(* Packets *)

\* packet(): the states after the first one; it may not be possible to acknowledge
Handle(m) ==
    LET p == Head(m.received)
        rest == [m EXCEPT !.received = Tail(@)]
    IN CASE m.status = "connecting" /\ p.kind = "accepted" -> {[rest EXCEPT !.status = "ready", !.lateStart = FALSE]}
         [] m.status = "connecting" /\ p.kind = "refused" -> {CloseMqtt(m, "refused")}
         [] m.status = "ready" /\ p \in m.pending -> {[rest EXCEPT !.pending = @ \ {p}]}
         [] m.status = "ready" /\ p.kind \in {"message", "pong"} -> {rest}
         [] m.status = "ready" /\ p.kind = "message1" -> {[rest EXCEPT !.idle = FALSE], CloseMqtt(m, "full")}
         [] OTHER -> {CloseMqtt(m, "malformed")}
\* parse(): from any of some states, a packet if there is one; and that a few times
HandleNext(S) == UNION {IF LiveClient(x) /\ x.received # <<>> THEN Handle(x) ELSE {x} : x \in S}
ParsePackets(m) ==
    LET after[n \in 0..ParseBudget] == IF n = 0 THEN {m} ELSE HandleNext(after[n - 1])
    IN after[ParseBudget]

\* What an honest broker may send next, and what it has to answer then
Legal(m, p) == CASE p.kind \in {"accepted", "refused"} -> m.connectSent /\ ~m.welcomed
                 [] p \in Ack -> p \in BagToSet(m.asked)
                 [] p.kind = "malformed" -> FALSE
                 [] OTHER -> m.welcomed
Sends(m, p) ==
    LET sent == [m EXCEPT !.received = Append(@, p)]
    IN IF m.honest /\ Legal(m, p)
       THEN [sent EXCEPT !.welcomed = @ \/ p.kind \in {"accepted", "refused"},
                         !.asked = IF p \in Ack THEN @ (-) SetToBag({p}) ELSE @]
       ELSE [sent EXCEPT !.honest = FALSE, !.welcomed = FALSE, !.asked = EmptyBag]
Sent(m, chunk) ==
    LET after[i \in 0..Len(chunk)] == IF i = 0 THEN m ELSE Sends(after[i - 1], chunk[i])
    IN after[Len(chunk)]

\* network_event() with what was received
ReceivePackets(chunk) ==
    /\ LiveClient(mqtt) /\ mqtt.connectSent
    /\ LET m == [Sent(mqtt, chunk) EXCEPT !.silent = FALSE]
       IN mqtt' \in IF Len(m.received) > MaxReceived THEN {CloseMqtt(m, "overflow")} ELSE ParsePackets(m)
-----------------------------------------------------------------------------
(* The connection and the timer *)

\* network_event() of the connection: ready, or lost or never made
LinkReady == /\ mqtt.status = "connecting" /\ ~mqtt.connectSent
             /\ mqtt' \in {[mqtt EXCEPT !.connectSent = TRUE, !.idle = FALSE], CloseMqtt(mqtt, "full")}
LinkLost == LiveClient(mqtt) /\ mqtt' = CloseMqtt(mqtt, "lost")

\* Time passes.
Late == /\ LiveClient(mqtt)
        /\ mqtt' \in IF mqtt.status = "connecting" THEN {[mqtt EXCEPT !.lateStart = TRUE]}
                     ELSE {[mqtt EXCEPT !.silent = TRUE], [mqtt EXCEPT !.idle = TRUE]}

\* Who is waited for too long; beside these, as beside other definitions below,
\* a wrong form
OverdueWhenReady(m) == m.status = "ready" /\ m.silent
Overdue(m) == (m.status = "connecting" /\ m.lateStart) \/ (m.status = "ready" /\ m.silent)
\* A PINGREQ that cannot be queued closes.
Pinged(m) == IF m.status = "ready" /\ m.idle THEN {[m EXCEPT !.idle = FALSE], CloseMqtt(m, "full")} ELSE {m}
WatchOnly(m) == IF Overdue(m) THEN {CloseMqtt(m, "timeout")} ELSE Pinged(m)
\* tick()
Watch(m) == IF Overdue(m) THEN {CloseMqtt(m, "timeout")} ELSE UNION {ParsePackets(x) : x \in Pinged(m)}
MqttTick == LiveClient(mqtt) /\ mqtt' \in Watch(mqtt)
-----------------------------------------------------------------------------
(* The window *)

\* next_id(): the numbers go round, 0 and those that wait are left out
NextFree(m, taken) ==
    LET number(k) == (m.packetId + k) % (MaxId + 1)
        free == {k \in 1..(2 * (MaxId + 1)) : number(k) \notin taken \cup {0}}
    IN number(Min(free))
NextIdUnchecked(m) == NextFree(m, {})
NextId(m) == NextFree(m, {r.id : r \in m.pending})

\* check_ready()
CheckReady(m) == m.window = "open" /\ m.status = "ready" /\ Cardinality(m.pending) < MaxPendingRequests
\* tio_mqtt_subscribe() and tio_mqtt_publish() with QoS 1: the number is used up
\* also when the packet cannot be queued
Request(kind) ==
    LET id == NextId(mqtt)
        numbered == [mqtt EXCEPT !.packetId = id]
        r == [kind |-> kind, id |-> id]
    IN /\ CheckReady(mqtt)
       /\ mqtt' \in {numbered, [numbered EXCEPT !.pending = {q \in @ : q.id # id} \cup {r}, !.idle = FALSE,
                                                !.asked = IF mqtt.honest THEN @ (+) SetToBag({r}) ELSE @]}
\* tio_mqtt_publish() with QoS 0
Publish == CheckReady(mqtt) /\ mqtt' = [mqtt EXCEPT !.idle = FALSE]

\* connect_clicked(), disconnect_clicked(), free_view(): tio_mqtt_free() is at once
ConnectMqtt == mqtt.window = "open" /\ mqtt' = NewClient("open")
DisconnectMqtt == mqtt.window = "open" /\ mqtt' = NoClient("open")
CloseMqttWindow == mqtt.window = "open" /\ mqtt' = NoClient("gone")

MqttNext == \/ \E n \in 1..MaxChunk : \E chunk \in [1..n -> Packet] : ReceivePackets(chunk)
        \/ LinkReady \/ LinkLost \/ Late \/ MqttTick \/ Publish
        \/ \E kind \in Answer : Request(kind)
        \/ ConnectMqtt \/ DisconnectMqtt \/ CloseMqttWindow

MqttSpec == MqttInit /\ [][MqttNext]_mqtt
\* The timer runs.
MqttFairness == WF_mqtt(MqttTick)
-----------------------------------------------------------------------------
\* A broker that only answers what it was asked, once and in any order, is never
\* taken for a malformed one, though identifiers are used again after MaxId and
\* packets wait to be parsed while more requests are made.
HonestIsServed == mqtt.reason = "malformed" => ~mqtt.honest
\* The table of pending requests has all that the broker still has to answer.
NothingForgotten == mqtt.status = "ready" /\ mqtt.honest => BagToSet(mqtt.asked) \subseteq mqtt.pending
MqttSound == HonestIsServed /\ NothingForgotten

\* A handshake that lasts too long ends, whatever the broker or the network do not do;
\* and all that was received is parsed though nothing more may arrive.
LateHandshake == mqtt.status = "connecting" /\ mqtt.lateStart
Unparsed == mqtt.received # <<>>
=============================================================================
