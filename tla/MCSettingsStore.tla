---------------------------- MODULE MCSettingsStore ----------------------------
(* Two instances of the program, one of which saves from two threads.       *)
EXTENDS SettingsStore, TLC

CONSTANTS t1, t2, t3, p1, p2

MCThread == {t1, t2, t3}
MCProcess == {p1, p2}
MCProcOf == (t1 :> p1) @@ (t2 :> p1) @@ (t3 :> p2)
\* One thread in each of two processes.
MCPair == {t1, t3}
MCPairOf == (t1 :> p1) @@ (t3 :> p2)
\* The store starts just before its counter wraps.
MCFirstSeqs == {Modulus - 2}
MCLoader == {t3}
=============================================================================
