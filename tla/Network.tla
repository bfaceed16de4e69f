-------------------------------- MODULE Network --------------------------------
(***************************************************************************)
(* The TCP and UDP connections of network.c and the window of network_ui.c *)
(* that has one of them at a time.                                         *)
(*                                                                         *)
(* A connection is counted by whoever may still call into it: its owner,   *)
(* the connect operation, the watches that say its socket is readable or   *)
(* writable. Sends are queued whole and written in parts when the socket   *)
(* takes them; the peer, the socket and the user act in any order.         *)
(***************************************************************************)
EXTENDS Naturals, Sequences, SequencesExt

CONSTANTS Conn,            \* connections that may exist at once
          MaxLength,       \* bytes in a send (65536, or 65507 in a datagram)
          MaxQueued,       \* bytes that may be queued (1 MiB)
          MaxPendingSends, \* sends that may be queued (256)
          WriteBudget,     \* writes for one notice of the socket (32)
          MaxSends         \* bound: sends accepted by a connection

NetworkAssumption == {MaxLength, MaxQueued, MaxPendingSends, WriteBudget, MaxSends} \subseteq Nat \ {0}

VARIABLE net \* window: open or gone; current: the connection it has; conn: all

None == "none"
\* ready: connected; reader, writer: the watches; pending: lengths of queued sends;
\* offset: of the first one; owned: its callback is set. What has happened: accepted
\* and told count sends, wire and confirmed their bytes.
Unused == [refs |-> 0, udp |-> FALSE, owned |-> FALSE, connecting |-> FALSE,
           ready |-> FALSE, closed |-> FALSE, reader |-> FALSE, writer |-> FALSE,
           pending |-> <<>>, queued |-> 0, offset |-> 0,
           accepted |-> 0, told |-> 0, wire |-> 0, confirmed |-> 0]

NetworkInit == net = [window |-> "open", current |-> None, conn |-> [c \in Conn |-> Unused]]

\* unref() n times: the last one frees
Drop(x, n) == IF x.refs > n THEN [x EXCEPT !.refs = @ - n] ELSE Unused
Holds(h) == IF h THEN 1 ELSE 0
Watches(x) == Holds(x.reader) + Holds(x.writer)
\* stop(): once; destroying a watch gives its reference back
StopNetwork(x) ==
    IF x.closed THEN x
    ELSE Drop([x EXCEPT !.closed = TRUE, !.ready = FALSE, !.reader = FALSE, !.writer = FALSE,
                        !.pending = <<>>, !.queued = 0], Watches(x))
\* tio_network_free()
FreeNetwork(x) == Drop(StopNetwork([x EXCEPT !.owned = FALSE]), 1)

Become(c, x) == net' = [net EXCEPT !.conn[c] = x]
-----------------------------------------------------------------------------
\* connected(), also when the connection was given up meanwhile
StaysAfterClose(x) == Drop([x EXCEPT !.connecting = FALSE, !.ready = TRUE, !.reader = TRUE], 1)
Opened(x) == IF x.closed THEN Drop([x EXCEPT !.connecting = FALSE], 1)
             ELSE [x EXCEPT !.connecting = FALSE, !.ready = TRUE, !.reader = TRUE]
Connected(c) == net.conn[c].connecting /\ Become(c, Opened(net.conn[c]))
\* A cancelled operation ends as well.
ConnectFails(c) == /\ net.conn[c].connecting
                   /\ Become(c, Drop([StopNetwork(net.conn[c]) EXCEPT !.connecting = FALSE], 1))

\* readable(): what came is passed on; the end of the stream or an error stops
ReadStops(c) == net.conn[c].reader /\ Become(c, StopNetwork(net.conn[c]))

\* tio_network_send() that is accepted (of an empty one TCP keeps nothing)
MaySendOn(x, length) == /\ x.ready /\ length <= MaxLength
                        /\ x.queued + length <= MaxQueued /\ Len(x.pending) < MaxPendingSends
SendOn(c, length) ==
    LET x == net.conn[c]
    IN /\ net.window = "open" /\ net.current = c
       /\ MaySendOn(x, length) /\ (x.udp \/ length > 0) /\ x.accepted < MaxSends
       /\ Become(c, [x EXCEPT !.pending = Append(@, length), !.queued = @ + length,
                              !.accepted = @ + 1, !.writer = TRUE,
                              !.refs = IF x.writer THEN @ ELSE @ + 1])

\* The first send is on the wire: it leaves the queue and its TX event tells so.
TellKeepsOffset(x) == [x EXCEPT !.pending = Tail(@), !.queued = @ - Head(x.pending),
                                !.told = @ + 1, !.confirmed = @ + Head(x.pending)]
Tell(x) == [x EXCEPT !.pending = Tail(@), !.queued = @ - Head(x.pending), !.offset = 0,
                     !.told = @ + 1, !.confirmed = @ + Head(x.pending)]
\* One g_socket_send(): a part of the first send, or an error
Write(x) ==
    LET length == Head(x.pending)
        least == IF length = 0 THEN 0 ELSE 1
        sent == {[x EXCEPT !.offset = @ + n, !.wire = @ + n] : n \in least..(length - x.offset)}
    IN {StopNetwork(x)} \cup {CASE y.offset = length -> Tell(y)
                                [] y.offset # length /\ x.udp -> StopNetwork(y)
                                [] OTHER -> y : y \in sent}
\* writable(): until the socket would block, the queue is empty or the budget spent
More(x) == ~x.closed /\ x.pending # <<>>
Writes(S) == S \cup UNION {Write(x) : x \in {y \in S : More(y)}}
NetworkWritten(x) == LET after[n \in 0..WriteBudget] == IF n = 0 THEN {x} ELSE Writes(after[n - 1])
                     IN after[WriteBudget]
Left(x) == IF More(x) \/ ~x.writer THEN x ELSE Drop([x EXCEPT !.writer = FALSE], 1)
Writable(c) == /\ net.conn[c].writer
               /\ \E x \in NetworkWritten(net.conn[c]) : Become(c, Left(x))
-----------------------------------------------------------------------------
\* The window lets go of its connection.
Released == IF net.current = None THEN net.conn
            ELSE [net.conn EXCEPT ![net.current] = FreeNetwork(@)]
\* connect_clicked()
ConnectNetwork(c, udp) ==
    /\ net.window = "open" /\ Released[c] = Unused
    /\ net' = [net EXCEPT !.current = c,
                          !.conn = [Released EXCEPT ![c] = [Unused EXCEPT !.refs = 2, !.udp = udp,
                                                            !.owned = TRUE, !.connecting = TRUE]]]
\* disconnect_clicked()
DisconnectNetwork == /\ net.window = "open"
                     /\ net' = [net EXCEPT !.current = None, !.conn = Released]
\* free_view()
CloseNetworkWindow == /\ net.window = "open"
                      /\ net' = [window |-> "gone", current |-> None, conn |-> Released]

NetworkNext == \/ \E c \in Conn : \/ Connected(c) \/ ConnectFails(c) \/ ReadStops(c) \/ Writable(c)
                                  \/ \E length \in 0..MaxLength : SendOn(c, length)
                                  \/ \E udp \in BOOLEAN : ConnectNetwork(c, udp)
               \/ DisconnectNetwork \/ CloseNetworkWindow

NetworkSpec == NetworkInit /\ [][NetworkNext]_net
-----------------------------------------------------------------------------
\* A connection lives exactly as long as somebody may call into it: one more and it
\* leaks, one less and the operation or the watch left finds it freed.
RefsExact == \A c \in Conn :
    LET x == net.conn[c]
    IN x.refs = Holds(x.owned) + Holds(x.connecting) + Holds(x.reader) + Holds(x.writer)
\* A TX event is told for each send, in order and once, when exactly its bytes and
\* those before are on the wire, until the connection is closed.
ToldIsWritten == \A c \in Conn :
    LET x == net.conn[c]
    IN ~x.closed => /\ x.wire = x.confirmed + x.offset
                    /\ x.told + Len(x.pending) = x.accepted
Sum(s) == FoldLeft(LAMBDA sum, n : sum + n, 0, s)
\* Sends that wait are watched for, and within the bounds of bytes and of sends.
QueueWatched == \A c \in Conn :
    LET x == net.conn[c]
    IN /\ x.queued = Sum(x.pending)
       /\ x.queued <= MaxQueued /\ Len(x.pending) <= MaxPendingSends
       /\ x.writer <=> x.pending # <<>>
       /\ x.reader <=> x.ready
NetworkSound == RefsExact /\ ToldIsWritten /\ QueueWatched
=============================================================================
