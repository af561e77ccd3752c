--------------------------- MODULE MCPTPContext ---------------------------
(* Model-checking instance of PTPContext.  The generation counter wraps     *)
(* after two lifetimes, so that a stale binding can carry the generation of *)
(* a live one.  Threads and contexts are interchangeable.                   *)
EXTENDS PTPContext, TLC

Symmetry == Permutations(Threads) \cup Permutations(Contexts)
=============================================================================
