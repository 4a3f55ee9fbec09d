----------------------------- MODULE MCDesktop ------------------------------
(***************************************************************************)
(* TLC instance of Gdi and the Windows under it: two spellings of one class *)
(* name; behaviours of window calls alone, and shorter ones with GDI calls. *)
(***************************************************************************)
EXTENDS Gdi

SomeNames == {"Main", "MAIN"}
LowerCase(name) == IF name = "MAIN" \/ name = "Main" THEN "main" ELSE name
SomeBudgets == {[windows |-> 5, gdi |-> 0], [windows |-> 3, gdi |-> 3]}
=============================================================================
