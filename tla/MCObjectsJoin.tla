---------------------------- MODULE MCObjectsJoin ----------------------------
(***************************************************************************)
(* Two guests of GuestScheduler in one run, told apart by `focus' from the *)
(* initial state on: "join", where the initial thread joins workers that   *)
(* signal one event and wait, and "objects", a single thread that does not *)
(* wait and whose two events and two mutexes share a name.                 *)
(***************************************************************************)
EXTENDS GuestScheduler

CONSTANTS e1, e2

VARIABLE focus

One(h) == [handles |-> <<h>>, all |-> TRUE]
AnyOf(h, k) == [handles |-> <<h, k>>, all |-> FALSE]
WaitsJoin == {One(2), One(e1), AnyOf(3, e1)}

InJoin(A) == focus = "join" /\ A

MCInit == Init /\ focus \in {"join", "objects"}

(* The calls each guest does not make: in "join" there is one event, without *)
(* a name; in "objects" no second thread and no wait.                        *)
Restraint ==
    \/ InJoin(mutexes' = mutexes /\ eventNames' = eventNames /\ issued' \subseteq {e1})
    \/ focus = "objects" /\ \A t \in Threads \ {Main} : tstate'[t] = "Unborn"
       /\ pending' = pending

MCNext == Next /\ Restraint /\ UNCHANGED focus

(* FiniteWorkersSpec in the focus "join".                                   *)
MCSpec ==
    /\ MCInit /\ [][MCNext]_<<vars, focus>>
    /\ WF_vars(InJoin(HostStep))
    /\ SF_vars(InJoin(LeaveCallbacks)) /\ SF_vars(InJoin(WorkerExits))

(* Every wake pass ends, and after a thread exit the run goes on or stops.  *)
HostCallsReturn == InJoin(pc \in {"wake", "reschedule"}) ~> (pc \notin {"wake", "reschedule"})

(* Joining a worker returns, unless there is a reason that it cannot        *)
(* (JoinIsOver): no order of wake passes, suspended workers and other waits *)
(* leaves the initial thread parked.                                        *)
JoinReturns == \A t \in Threads : InJoin(Joins(t)) ~> InJoin(JoinIsOver(t))

(* What a guest waits for comes: the end of a wake pass, and of a join.     *)
CallsReturn == HostCallsReturn /\ JoinReturns
=============================================================================
