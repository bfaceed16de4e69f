------------------------------ MODULE MCSessionTabs ------------------------------
(* Three tabs at most and three connections; the devices matter to one run    *)
(* only, which has two of them.                                               *)
EXTENDS SessionTabs
CONSTANTS d1, d2
MCOneDevice == {d1}
MCTwoDevices == {d1, d2}
=============================================================================
