-------------------------------- MODULE Parts ---------------------------------
(* Systems of independent parts, checked together: a behaviour is of one    *)
(* part, its `focus', and the variables of the others are unused.           *)

VARIABLE focus

Unused(v) == v = "unused"

(* What the part does when it is in focus, and what otherwise.              *)
Focused(part, does, otherwise) == IF focus = part THEN does ELSE otherwise
=============================================================================
