------------------------------- MODULE MCTools -------------------------------
(* Small instances of the parts of the program that work by themselves.        *)
EXTENDS Tools

MCDeviceOf == [c \in Char |-> "d1"]

(* Signals that cross from one byte of two bits to the other, of both orders    *)
(* and signs, one of a whole payload, a multiplexed one; and files that are not *)
(* valid.                                                                       *)
Plain == [kind |-> "none", of |-> 0]
Signal(name, start, bits, little, signed, mux) ==
    [kind |-> "signal", name |-> name, start |-> start, bits |-> bits, little |-> little,
     sign |-> signed, mux |-> mux, factor |-> 2, offset |-> 1]
Message(length) == [kind |-> "message", id |-> 1, extended |-> FALSE, length |-> length]
Kind(k) == [kind |-> k]
Muxed == Signal("x", 1, 1, TRUE, FALSE, [kind |-> "value", of |-> 1])
MCFile ==
    {<<Message(2), Kind("other"), Signal("x", start, bits, little, FALSE, Plain)>> :
        start \in 0..3, bits \in 1..4, little \in BOOLEAN}
    \cup {<<Message(2), Signal("x", 1, 3, little, TRUE, Plain)>> : little \in BOOLEAN}
    \cup {<<Message(1), Signal("m", 0, 1, TRUE, FALSE, [kind |-> "selector", of |-> 0]), Muxed>>,
          <<Message(1), Muxed>>, <<Message(1), Message(2)>>, <<>>,
          <<Signal("x", 0, 1, TRUE, FALSE, Plain)>>, <<Message(1), Kind("unsupported")>>,
          <<Message(1), Signal("x", 0, 1, TRUE, FALSE, Plain), Signal("x", 0, 1, TRUE, FALSE, Plain)>>}
MCFrame ==
    {[id |-> 1, extended |-> FALSE, kind |-> "data", bytes |-> <<a, b>>] : a, b \in 0..3}
    \cup {[id |-> 1, extended |-> e, kind |-> k, bytes |-> <<3>>] : e \in BOOLEAN, k \in {"data", "rtr"}}

(* What a device sends: characters of one and two bytes, controls, commands.    *)
Csi(parameters, final) == <<"ESC", "[">> \o parameters \o <<final>>
MCUnit ==
    {<<"a">>, <<"lead", "tail">>, <<"CR">>, <<"LF">>, <<"BS">>, <<"BEL">>, <<"ESC", "m">>,
     <<"ESC", "]", "a", "BEL">>, <<"ESC", "]", "a", "ESC", "\\">>}
    \cup {Csi(p, f) : p \in {<<>>, <<"1">>, <<"2">>}, f \in {"P", "X", "@", "J", "K", "G", "C", "D", "m"}}
    \cup {Csi(<<"?", "3">>, f) : f \in {"l", "h"}}
    \cup {Csi(<<"1", ";", "2">>, "K"), Csi(<<"?">>, "K")}

Replayed(time, ends, level) == [time |-> time, ends |-> ends, level |-> level]
MCRecording == [a |-> <<Replayed(0, FALSE, 6), Replayed(0, FALSE, 5), Replayed(2, TRUE, 1)>>]
=============================================================================
