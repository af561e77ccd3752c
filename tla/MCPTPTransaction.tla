------------------------- MODULE MCPTPTransaction -------------------------
(* Model-checking instances of PTPTransaction.  The operations are model    *)
(* values: two that return data, so that late data of one can meet the      *)
(* other, and one of each other kind.                                       *)
EXTENDS PTPTransaction
=============================================================================
