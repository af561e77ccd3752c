----------------------------- MODULE MCPTPEvents -----------------------------
(* Model-checking instances of PTPEvents.                                   *)
EXTENDS PTPEvents
=============================================================================
