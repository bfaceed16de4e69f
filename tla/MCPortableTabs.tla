------------------------------ MODULE MCPortableTabs ------------------------------
(* A tab with all tools beside one that is only opened and closed.           *)
EXTENDS PortableTabs
=============================================================================
