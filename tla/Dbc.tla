----------------------------------- MODULE Dbc -----------------------------------
(***************************************************************************)
(* DBC definitions of CAN messages: what dbc.c accepts, and what it reads  *)
(* from a frame.                                                           *)
(*                                                                         *)
(* A file is a sequence of lines, each already taken to pieces by the      *)
(* regular expressions: "message" (BO_), "signal" (SG_), "unsupported",    *)
(* "malformed" (one of the first two that does not match, or is too long,  *)
(* or has a number that is not finite) or "other". Factors and offsets     *)
(* are integers here.                                                      *)
(***************************************************************************)
EXTENDS Integers, Sequences, FiniteSets, SequencesExt

CONSTANTS Width,       \* bits of a byte (8)
          MaxMessages, \* messages of a file (1024)
          MaxSignals   \* signals of a message (128)

DbcAssumption == {Width, MaxMessages, MaxSignals} \subseteq Nat \ {0}

\* Where the next bit of a signal is: up, or down and on in the next byte; beside it a
\* wrong form
DownOnly(s, position) == IF s.little THEN position + 1
                         ELSE IF position % Width # 0 THEN position - 1 ELSE position + Width
NextBit(s, position) == IF s.little THEN position + 1
                        ELSE IF position % Width # 0 THEN position - 1 ELSE position + 2 * Width - 1
\* Positions of the bits of a signal, in the order they are visited
Positions(s) ==
    LET at[i \in 1..s.bits] == IF i = 1 THEN s.start ELSE NextBit(s, at[i - 1])
    IN at
\* fits()
Fits(s, bytes) == \A i \in 1..s.bits : Positions(s)[i] < bytes * Width

\* extract(): the first bit visited is the lowest, or the highest
Extract(s, bytes) ==
    LET bit(p) == (bytes[p \div Width + 1] \div 2 ^ (p % Width)) % 2
        at == Positions(s)
    IN FoldLeftDomain(LAMBDA raw, i : IF s.little THEN raw + bit(at[i]) * 2 ^ (i - 1)
                                      ELSE 2 * raw + bit(at[i]), 0, at)
-----------------------------------------------------------------------------
\* mux: "none", "selector", or the value of the selector the signal is there for
Selector(s) == s.mux = [kind |-> "selector", of |-> 0]
Multiplexed(s) == s.mux.kind = "value"

Add(dbc, line) ==
    LET last == dbc.messages[Len(dbc.messages)]
        refused == [dbc EXCEPT !.valid = FALSE]
    IN CASE line.kind = "other" \/ ~dbc.valid -> dbc
         [] dbc.valid /\ line.kind = "message" ->
                IF \/ Len(dbc.messages) >= MaxMessages
                   \/ \E i \in DOMAIN dbc.messages : /\ dbc.messages[i].id = line.id
                                                     /\ dbc.messages[i].extended = line.extended
                THEN refused
                ELSE [dbc EXCEPT !.messages = Append(@, [id |-> line.id, extended |-> line.extended,
                                                         length |-> line.length, signals |-> <<>>])]
         [] dbc.valid /\ line.kind = "signal" ->
                IF \/ dbc.messages = <<>> \/ Len(last.signals) >= MaxSignals
                   \/ line.bits = 0 \/ ~Fits(line, last.length)
                   \/ \E i \in DOMAIN last.signals : \/ last.signals[i].name = line.name
                                                     \/ Selector(last.signals[i]) /\ Selector(line)
                THEN refused
                ELSE [dbc EXCEPT !.messages[Len(dbc.messages)].signals = Append(@, line)]
         [] OTHER -> refused
\* tio_dbc_parse()
Parse(file) ==
    LET dbc == FoldLeft(Add, [valid |-> TRUE, messages |-> <<>>], file)
        complete(m) == \/ \E i \in DOMAIN m.signals : Selector(m.signals[i])
                       \/ \A i \in DOMAIN m.signals : ~Multiplexed(m.signals[i])
    IN [dbc EXCEPT !.valid = @ /\ dbc.messages # <<>> /\ \A i \in DOMAIN dbc.messages : complete(dbc.messages[i])]

\* tio_dbc_decode(): nothing for a frame that is not defined or that is too short,
\* else the value of each signal that is there
Nothing == [kind |-> "nothing", values |-> <<>>]
Decode(dbc, frame) ==
    LET found == {i \in DOMAIN dbc.messages : /\ dbc.messages[i].id = frame.id
                                              /\ dbc.messages[i].extended = frame.extended}
        m == dbc.messages[CHOOSE i \in found : TRUE]
        select == {i \in DOMAIN m.signals : Selector(m.signals[i])}
        mux == IF select = {} THEN 0 ELSE Extract(m.signals[CHOOSE i \in select : TRUE], frame.bytes)
        present == {i \in DOMAIN m.signals : Multiplexed(m.signals[i]) => m.signals[i].mux.of = mux}
        value(s) == LET raw == Extract(s, frame.bytes)
                        signed == IF s.sign /\ raw >= 2 ^ (s.bits - 1) THEN raw - 2 ^ s.bits ELSE raw
                    IN signed * s.factor + s.offset
    IN IF found = {} THEN Nothing
       ELSE IF Len(frame.bytes) < m.length THEN [Nothing EXCEPT !.kind = "short"]
       ELSE [kind |-> "values", values |-> [n \in {m.signals[i].name : i \in present} |->
                value(m.signals[CHOOSE i \in present : m.signals[i].name = n])]]
=============================================================================
