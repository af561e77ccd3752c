-------------------------- MODULE RequestResponse --------------------------
(* What a transaction layer promises its callers: calls are made one after  *)
(* another, and a caller is told "ok" only when the device has done the     *)
(* request of that call.  Opening a session may be tried again and again,   *)
(* and then the request done may be any of the repetitions.  Nothing is     *)
(* promised of a call that failed, was refused, or ended "unsure".          *)

VARIABLES
  asks,                     \* what the current or last call is for
  done,                     \* the device has done it
  told                      \* what its caller was told

vars == <<asks, done, told>>

Answers == {"ok", "unsure", "refused", "failed"}

Init ==
  /\ asks = "nothing"
  /\ done = FALSE
  /\ told = "unsure"

Ask ==
  /\ told # "none"
  /\ told' = "none"
  /\ \/ asks' = "work" /\ done' = FALSE
     \/ asks' = "open" /\ done' = (asks = "open" /\ done)

Decide ==
  /\ done' = TRUE
  /\ UNCHANGED <<asks, told>>

Answer ==
  /\ told = "none"
  /\ told' \in IF done THEN Answers ELSE Answers \ {"ok"}
  /\ UNCHANGED <<asks, done>>

Next == Ask \/ Decide \/ Answer

Spec == Init /\ [][Next]_vars
=============================================================================
