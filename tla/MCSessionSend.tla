------------------------------ MODULE MCSessionSend ------------------------------
(* A sequence of two steps and a delay of one pass, two sessions in a row.    *)
EXTENDS SessionSend
=============================================================================
