-------------------------- MODULE MCPentaxCapture --------------------------
(* PentaxCapture for TLC.  No model values: the exposures are counted.      *)
EXTENDS PentaxCapture
=============================================================================
