------------------------------- MODULE MCRunLoop -------------------------------
(***************************************************************************)
(* The guest programs of the TLC runs of RunLoop.  A behaviour is of one    *)
(* of them, from its first state on.                                        *)
(***************************************************************************)
EXTENDS RunLoop

Guest(features, tlsCallbacks, budget) ==
    [features |-> features, tlsCallbacks |-> tlsCallbacks, budget |-> budget]

(* "Nesting": host calls, dialogs and exceptions interrupt each other.      *)
(* "Tail calls": host calls may be reached without a return word of their   *)
(* own.  With all three at once there are many more states, and the budget  *)
(* is smaller.                                                              *)
BatchedPrograms ==
    {Guest({"dialog", "exception"}, 1, 13),
     Guest({"tail call", "exception"}, 0, 11),
     Guest(GuestFeatures, 0, 9)}

TracedPrograms == {Guest({}, 0, 8)}

DialogPrograms == {Guest({"dialog", "exception"}, 0, 12)}
=============================================================================
