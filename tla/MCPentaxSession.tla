-------------------------- MODULE MCPentaxSession --------------------------
(* Connections without end: what one process leaves behind, the next one   *)
(* finds.                                                                  *)
EXTENDS PentaxSession
=============================================================================
