----------------------------- MODULE WaitContract -----------------------------
(***************************************************************************)
(* What the wait functions promise a guest program, without a scheduler:   *)
(* threads act in any order, and a wait is one atomic transaction.         *)
(*                                                                         *)
(*   - A thread blocks only on a wait it cannot take now.                  *)
(*   - A blocked thread is released by exactly one step, which takes its   *)
(*     objects in that same step: all of them or the first signalled one.  *)
(*   - Nothing else takes an object, and nothing is taken for a thread     *)
(*     that stays blocked.                                                 *)
(*                                                                         *)
(* GuestScheduler implements this contract for guests that do not close a  *)
(* handle some thread is blocked on (GuestScheduler!Contract).             *)
(***************************************************************************)
EXTENDS KernelObjects

CONSTANTS
    Waits,      \* the wait calls threads make
    Pending     \* "not blocked"

VARIABLES
    blockedOn,  \* the wait each thread is blocked on, or Pending
    ended       \* the terminated threads

contractVars == <<objectVars, blockedOn, ended>>

Init ==
    /\ ObjectsInit
    /\ blockedOn = [t \in Threads |-> Pending]
    /\ ended = {}

Active(t) == t \notin ended /\ blockedOn[t] = Pending

(* A wait that is taken at once by the thread that makes it.                *)
TakeNow(t) ==
    /\ Active(t)
    /\ \E w \in Waits : \E result \in 0..(Len(w.handles) - 1) :
          Satisfy(w, t, ended, result)
    /\ UNCHANGED <<blockedOn, ended>>

Block(t) ==
    /\ Active(t)
    /\ \E w \in Waits :
          /\ AllValid(w)
          /\ ~Satisfiable(w, t, ended)
          /\ blockedOn' = [blockedOn EXCEPT ![t] = w]
    /\ UNCHANGED <<objectVars, ended>>

Unblock(t) ==
    /\ blockedOn[t] # Pending
    /\ \E result \in 0..(Len(blockedOn[t].handles) - 1) :
          Satisfy(blockedOn[t], t, ended, result)
    /\ blockedOn' = [blockedOn EXCEPT ![t] = Pending]
    /\ UNCHANGED ended

End(t) ==
    /\ Active(t)
    /\ ended' = ended \cup {t}
    /\ UNCHANGED <<objectVars, blockedOn>>

(* Any other use of the objects by a thread that is not blocked.            *)
Use(t) ==
    /\ Active(t)
    /\ \/ \E n \in Names \cup {NoName}, b1, b2 \in BOOLEAN : CreateEvent(n, b1, b2)
       \/ \E n \in Names \cup {NoName}, b \in BOOLEAN : CreateMutex(n, b, t)
       \/ \E e \in Events, b \in BOOLEAN : SetState(e, b)
       \/ \E m \in Mutexes : Release(m, t)
       \/ \E e \in Events : CloseEvent(e)
       \/ \E m \in Mutexes : CloseMutex(m)
       \/ \E u \in Threads : CloseThreadHandle(u)
       \/ /\ \E u \in Threads : threadHandles' = threadHandles \cup {u}
          /\ UNCHANGED <<events, mutexes, eventNames, mutexNames, issued>>
    /\ UNCHANGED <<blockedOn, ended>>

Next == \E t \in Threads : TakeNow(t) \/ Block(t) \/ Unblock(t) \/ End(t) \/ Use(t)

Spec == Init /\ [][Next]_contractVars
=============================================================================
