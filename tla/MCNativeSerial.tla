----------------------------- MODULE MCNativeSerial -----------------------------
(* Two connections, three commands, and queues that a few bytes fill.         *)
EXTENDS NativeSerial
MCSizes == {2}
=============================================================================
