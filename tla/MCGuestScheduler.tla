--------------------------- MODULE MCGuestScheduler ---------------------------
(* TLC instances of GuestScheduler: the wait calls the guest makes.         *)
EXTENDS GuestScheduler, TLC

CONSTANTS e1, e2, m1, m2

One(h) == [handles |-> <<h>>, all |-> TRUE]
AnyOf(h, k) == [handles |-> <<h, k>>, all |-> FALSE]
AllOf(h, k) == [handles |-> <<h, k>>, all |-> TRUE]

(* Waits on an event, a mutex and a worker, alone and mixed.                *)
WaitsMixed == {One(e1), One(m1), AllOf(e1, m1), AnyOf(m1, e1), AnyOf(2, e1)}

(* Two events taken together by one waiter and one of them by another; the  *)
(* same mutex twice in one call.                                            *)
WaitsContention == {AllOf(e1, e2), AnyOf(e2, e1), AllOf(m1, m1)}

(* The initial thread joins a worker; workers signal and wait.              *)
WaitsJoin == {One(2), One(e1), AnyOf(3, e1)}

ObjectSymmetry == Permutations({e1, e2}) \cup Permutations({m1, m2})
=============================================================================
