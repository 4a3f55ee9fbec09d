---------------------------- MODULE GuestScheduler ----------------------------
(***************************************************************************)
(* The cooperative scheduler: guest threads (threads.rs), the host calls   *)
(* that create, park, wake and end them, and the wait/wake protocol over   *)
(* the kernel objects (host_context.rs; the handlers are in                *)
(* vnrt-kernel32/src/lib.rs).                                              *)
(*                                                                         *)
(* One host thread runs everything.  The guest thread `current' executes   *)
(* until it makes a host call; a host call runs to completion.  The only   *)
(* loop in a call is the wake pass (wake_waiters), which visits the parked *)
(* threads in id order, consumes objects for those it can satisfy and      *)
(* completes them after the last visit.  A visit is a step here, so that   *)
(* the error exit in the middle of the pass is visible; no other action is *)
(* enabled while pc # "guest", as nothing else runs in the code.           *)
(*                                                                         *)
(* A call that only returns an error or polls (timeout 0) leaves this      *)
(* state alone: it is a stuttering step.  CPU contexts are abstracted to   *)
(* the result a completed wait will return.                                *)
(*                                                                         *)
(* Definitions headed "Wrong:" are faulty variants of the definition that  *)
(* follows them; nothing uses them but the tests of the properties.        *)
(***************************************************************************)
EXTENDS KernelObjects

CONSTANTS
    Waits,      \* the wait calls the guest may make, a subset of Wait
    Pending,    \* "no wait pending", "no result"
    Disciplined \* TRUE: the guest closes no handle a thread is parked on

ASSUME SchedulerAssumption ==
    /\ Waits \subseteq Wait
    /\ Pending \notin Wait
    /\ Pending \notin Nat
    /\ Disciplined \in BOOLEAN

VARIABLES
    tstate,     \* GuestThread::state, "Unborn" before CreateThread
    suspend,    \* GuestThread::suspend_count
    pending,    \* GuestThread::pending_wait
    completed,  \* GuestThread::completed_wait: the result it will return
    current,    \* ThreadManager::current_id
    nested,     \* suspended host calls or queued guest callbacks exist
    pc,         \* where the host is
    scan,       \* wake pass: parked threads still to be visited
    grants,     \* wake pass: results of the waits satisfied so far
    cause       \* wake pass: the call that runs it

threadVars == <<tstate, suspend, pending, completed, current>>
wakeVars == <<scan, grants, cause>>
vars == <<objectVars, threadVars, nested, pc, wakeVars>>

ThreadStates == {"Unborn", "Ready", "Running", "Waiting", "Terminated"}

(* guest: guest code runs; wake: inside wake_waiters; reschedule: after the *)
(* wake pass of a thread exit; exited: the run returns an exit code; stuck: *)
(* it stops with "no runnable thread"; fault: it stops with another error.  *)
PCs == {"guest", "wake", "reschedule", "exited", "stuck", "fault"}

TypeOK ==
    /\ ObjectsTypeOK
    /\ tstate \in [Threads -> ThreadStates]
    /\ suspend \in [Threads -> {0, 1}]
    /\ pending \in [Threads -> Wait \cup {Pending}]
    /\ completed \in [Threads -> Nat \cup {Pending}]
    /\ current \in Threads
    /\ nested \in BOOLEAN
    /\ pc \in PCs
    /\ scan \subseteq Threads
    /\ grants \in [Threads -> Nat \cup {Pending}]
    /\ cause \in {"call", "exit"}

NoGrants == [t \in Threads |-> Pending]

Init ==
    /\ ObjectsInit
    /\ tstate = [t \in Threads |-> IF t = Main THEN "Running" ELSE "Unborn"]
    /\ suspend = [t \in Threads |-> 0]
    /\ pending = [t \in Threads |-> Pending]
    /\ completed = [t \in Threads |-> Pending]
    /\ current = Main
    /\ nested = FALSE
    /\ pc = "guest"
    /\ scan = {}
    /\ grants = NoGrants
    /\ cause = "call"

Ended == {t \in Threads : tstate[t] = "Terminated"}
Parked == {t \in Threads : tstate[t] = "Waiting" /\ pending[t] # Pending}

(* Wrong: only the threads after the current one are considered.            *)
RunnableLater(t) ==
    t > current /\ tstate[t] = "Ready" /\ suspend[t] = 0 /\ pending[t] = Pending

(* pick_runnable_other: the candidates, and the one it picks.               *)
Runnable(t) ==
    /\ t # current
    /\ tstate[t] = "Ready"
    /\ suspend[t] = 0
    /\ pending[t] = Pending

Picked(t) == Runnable(t) /\ \A u \in Threads : Runnable(u) => t <= u

-----------------------------------------------------------------------------
(* Host calls of the current thread.                                        *)

(* CreateThread.  Ids are handed out in order and never reused.             *)
CreateThread(suspended) ==
    /\ pc = "guest"
    /\ \E t \in Threads :
          /\ tstate[t] = "Unborn"
          /\ \A u \in Threads : u < t => tstate[u] # "Unborn"
          /\ tstate' = [tstate EXCEPT ![t] = "Ready"]
          /\ suspend' = [suspend EXCEPT ![t] = IF suspended THEN 1 ELSE 0]
          /\ threadHandles' = threadHandles \cup {t}
    /\ UNCHANGED <<events, mutexes, eventNames, mutexNames, issued,
                   pending, completed, current, nested, pc, wakeVars>>

(* Wrong: the count of a thread that is not suspended is decremented.       *)
ResumeThreadUnderflows(t) ==
    /\ pc = "guest"
    /\ t \in threadHandles
    /\ tstate[t] # "Terminated"
    /\ suspend' = [suspend EXCEPT ![t] = @ - 1]
    /\ UNCHANGED <<objectVars, tstate, pending, completed, current, nested, pc,
                   wakeVars>>

(* ResumeThread.  It makes a thread runnable and does not yield to it.      *)
ResumeThread(t) ==
    /\ pc = "guest"
    /\ t \in threadHandles
    /\ tstate[t] # "Terminated"
    /\ suspend[t] > 0
    /\ suspend' = [suspend EXCEPT ![t] = @ - 1]
    /\ UNCHANGED <<objectVars, tstate, pending, completed, current, nested, pc,
                   wakeVars>>

CreateEventA(name, manual, initial) ==
    /\ pc = "guest"
    /\ CreateEvent(name, manual, initial)
    /\ UNCHANGED <<threadVars, nested, pc, wakeVars>>

CreateMutexA(name, initialOwner) ==
    /\ pc = "guest"
    /\ CreateMutex(name, initialOwner, current)
    /\ UNCHANGED <<threadVars, nested, pc, wakeVars>>

ResetEvent(e) ==
    /\ pc = "guest"
    /\ SetState(e, FALSE)
    /\ UNCHANGED <<threadVars, nested, pc, wakeVars>>

(* Wrong: a pass wakes at most one waiter.                                  *)
BeginWakeOne(by) ==
    /\ pc' = "wake"
    /\ scan' = {t \in Parked : \A u \in Parked : t <= u}
    /\ grants' = NoGrants
    /\ cause' = by

(* wake_waiters takes its snapshot of the parked threads before it visits   *)
(* the first of them.                                                       *)
BeginWake(by) ==
    /\ pc' = "wake"
    /\ scan' = Parked
    /\ grants' = NoGrants
    /\ cause' = by

SetEvent(e) ==
    /\ pc = "guest"
    /\ SetState(e, TRUE)
    /\ BeginWake("call")
    /\ UNCHANGED <<threadVars, nested>>

(* Wrong: nobody is woken.                                                  *)
ReleaseMutexSilently(m) ==
    /\ pc = "guest"
    /\ Release(m, current)
    /\ UNCHANGED <<threadVars, nested, pc, wakeVars>>

ReleaseMutex(m) ==
    /\ pc = "guest"
    /\ Release(m, current)
    /\ BeginWake("call")
    /\ UNCHANGED <<threadVars, nested>>

(* CloseHandle.  Nothing is woken, and no parked thread is looked at: only   *)
(* a disciplined guest stays away from the handles in use.                  *)
InUse(h) == \E t \in Parked : \E i \in DOMAIN pending[t].handles : pending[t].handles[i] = h

CloseHandle(h) ==
    /\ pc = "guest"
    /\ Disciplined => ~InUse(h)
    /\ \/ h \in Events /\ CloseEvent(h)
       \/ h \in Mutexes /\ CloseMutex(h)
       \/ h \in Threads /\ CloseThreadHandle(h)
    /\ UNCHANGED <<threadVars, nested, pc, wakeVars>>

(* WaitForSingleObject/WaitForMultipleObjects, satisfied at once.           *)
WaitSatisfied(w) ==
    /\ pc = "guest"
    /\ \E result \in 0..(Len(w.handles) - 1) : Satisfy(w, current, Ended, result)
    /\ UNCHANGED <<threadVars, nested, pc, wakeVars>>

(* Wrong: the completed wait is not consumed.                               *)
SwitchToKeepsResult(next, ts, pd, cw) ==
    /\ tstate' = [ts EXCEPT ![next] = "Running"]
    /\ pending' = pd
    /\ completed' = cw
    /\ current' = next

(* switch_to, entered with the thread table already updated to ts, pd, cw:  *)
(* the next thread runs and consumes its completed wait, if it has one.     *)
SwitchTo(next, ts, pd, cw) ==
    /\ tstate' = [ts EXCEPT ![next] = "Running"]
    /\ pending' = pd
    /\ completed' = [cw EXCEPT ![next] = Pending]
    /\ current' = next

(* Wrong: a wait inside a callback parks the thread all the same.           *)
WaitBlocksAnywhere(w) ==
    /\ pc = "guest"
    /\ AllValid(w)
    /\ ~Satisfiable(w, current, Ended)
    /\ \E next \in Threads :
          /\ Picked(next)
          /\ SwitchTo(next, [tstate EXCEPT ![current] = "Waiting"],
                      [pending EXCEPT ![current] = w], [completed EXCEPT ![current] = Pending])
    /\ UNCHANGED <<objectVars, suspend, nested, pc, wakeVars>>

(* The blocking case: park_wait_and_schedule.  Every nonzero timeout waits  *)
(* for ever.  Without a runnable thread the run stops, after parking.       *)
WaitBlocks(w) ==
    /\ pc = "guest"
    /\ AllValid(w)
    /\ ~Satisfiable(w, current, Ended)
    /\ ~nested
    /\ LET ts == [tstate EXCEPT ![current] = "Waiting"]
           pd == [pending EXCEPT ![current] = w]
           cw == [completed EXCEPT ![current] = Pending]
       IN \/ \E next \in Threads : Picked(next) /\ SwitchTo(next, ts, pd, cw)
             /\ pc' = pc
          \/ /\ \A next \in Threads : ~Runnable(next)
             /\ tstate' = ts /\ pending' = pd /\ completed' = cw
             /\ pc' = "stuck"
             /\ UNCHANGED current
    /\ UNCHANGED <<objectVars, suspend, nested, wakeVars>>

(* Wrong: the threads that wait for the ended one are not woken.            *)
ExitThreadSilently ==
    /\ pc = "guest"
    /\ ~nested
    /\ tstate' = [tstate EXCEPT ![current] = "Terminated"]
    /\ suspend' = [suspend EXCEPT ![current] = 0]
    /\ pc' = "reschedule"
    /\ UNCHANGED <<objectVars, pending, completed, current, nested, wakeVars>>

(* ExitThread and the return of a thread procedure, of the initial thread's *)
(* entry point too.                                                         *)
ExitThread ==
    /\ pc = "guest"
    /\ ~nested
    /\ tstate' = [tstate EXCEPT ![current] = "Terminated"]
    /\ suspend' = [suspend EXCEPT ![current] = 0]
    /\ pending' = [pending EXCEPT ![current] = Pending]
    /\ completed' = [completed EXCEPT ![current] = Pending]
    /\ BeginWake("exit")
    /\ UNCHANGED <<objectVars, current, nested>>

(* ExitProcess, and TerminateProcess on the pseudo handle.                  *)
ExitProcess ==
    /\ pc = "guest"
    /\ pc' = "exited"
    /\ UNCHANGED <<objectVars, threadVars, nested, wakeVars>>

(* A host call that calls back into the guest (EnumWindows, DispatchMessage *)
(* and the like) is suspended until its last callback returns.  The frames  *)
(* of nested calls are abstracted to "some exist".                          *)
EnterCallback ==
    /\ pc = "guest" /\ ~nested
    /\ nested' = TRUE
    /\ UNCHANGED <<objectVars, threadVars, pc, wakeVars>>

LeaveCallbacks ==
    /\ pc = "guest" /\ nested
    /\ nested' = FALSE
    /\ UNCHANGED <<objectVars, threadVars, pc, wakeVars>>

(* A blocking wait or a thread exit inside a callback stops the run.        *)
BlockInCallback ==
    /\ pc = "guest" /\ nested
    /\ pc' = "fault"
    /\ UNCHANGED <<objectVars, threadVars, nested, wakeVars>>

-----------------------------------------------------------------------------
(* The wake pass: wake_waiters and its copy wake_waiters_after_thread_exit. *)

Visited(t) == t \in scan /\ \A u \in scan : t <= u

(* Wrong: the pass looks at the objects and does not consume them.          *)
VisitSatisfiedProbes(t) ==
    /\ pc = "wake"
    /\ Visited(t)
    /\ AllValid(pending[t])
    /\ Satisfiable(pending[t], t, Ended)
    /\ grants' = [grants EXCEPT ![t] = 0]
    /\ scan' = scan \ {t}
    /\ UNCHANGED <<objectVars, threadVars, nested, pc, cause>>

(* The pass satisfies t's wait: its objects are consumed at once.           *)
VisitSatisfied(t) ==
    /\ pc = "wake"
    /\ Visited(t)
    /\ \E result \in 0..(Len(pending[t].handles) - 1) :
          /\ Satisfy(pending[t], t, Ended, result)
          /\ grants' = [grants EXCEPT ![t] = result]
    /\ scan' = scan \ {t}
    /\ UNCHANGED <<threadVars, nested, pc, cause>>

(* Wrong: the pass does not move on.                                        *)
VisitUnsatisfiedRetries(t) ==
    /\ pc = "wake"
    /\ Visited(t)
    /\ AllValid(pending[t])
    /\ ~Satisfiable(pending[t], t, Ended)
    /\ cause' = IF cause = "call" THEN "exit" ELSE "call"
    /\ UNCHANGED <<objectVars, threadVars, nested, pc, scan, grants>>

VisitUnsatisfied(t) ==
    /\ pc = "wake"
    /\ Visited(t)
    /\ AllValid(pending[t])
    /\ ~Satisfiable(pending[t], t, Ended)
    /\ scan' = scan \ {t}
    /\ UNCHANGED <<objectVars, threadVars, nested, pc, grants, cause>>

(* Wrong: the error exit keeps the waits satisfied so far.                  *)
VisitPoisonedKeepsGrants(t) ==
    /\ pc = "wake"
    /\ Visited(t)
    /\ ~AllValid(pending[t])
    /\ scan' = {}
    /\ pc' = IF cause = "exit" THEN "fault" ELSE "guest"
    /\ UNCHANGED <<objectVars, threadVars, nested, grants, cause>>

(* One of t's handles has been closed: the pass returns Err and nobody is   *)
(* completed.  SetEvent and ReleaseMutex report failure to the guest; for a *)
(* thread exit the error stops the run.                                     *)
VisitPoisoned(t) ==
    /\ pc = "wake"
    /\ Visited(t)
    /\ ~AllValid(pending[t])
    /\ scan' = {}
    /\ grants' = NoGrants
    /\ pc' = IF cause = "exit" THEN "fault" ELSE "guest"
    /\ UNCHANGED <<objectVars, threadVars, nested, cause>>

(* Wrong: the results of all threads are overwritten.                       *)
CompleteWaitsOverwrites ==
    /\ pc = "wake"
    /\ scan = {}
    /\ tstate' = [t \in Threads |-> IF grants[t] # Pending THEN "Ready" ELSE tstate[t]]
    /\ pending' = [t \in Threads |-> IF grants[t] # Pending THEN Pending ELSE pending[t]]
    /\ completed' = grants
    /\ grants' = NoGrants
    /\ pc' = IF cause = "exit" THEN "reschedule" ELSE "guest"
    /\ UNCHANGED <<objectVars, suspend, current, nested, scan, cause>>

(* The second loop: complete_wait for every satisfied thread.               *)
CompleteWaits ==
    /\ pc = "wake"
    /\ scan = {}
    /\ tstate' = [t \in Threads |-> IF grants[t] # Pending THEN "Ready" ELSE tstate[t]]
    /\ pending' = [t \in Threads |-> IF grants[t] # Pending THEN Pending ELSE pending[t]]
    /\ completed' = [t \in Threads |-> IF grants[t] # Pending THEN grants[t] ELSE completed[t]]
    /\ grants' = NoGrants
    /\ pc' = IF cause = "exit" THEN "reschedule" ELSE "guest"
    /\ UNCHANGED <<objectVars, suspend, current, nested, scan, cause>>

(* Wrong: the initial thread hands over like a worker.                      *)
RescheduleAlways ==
    /\ pc = "reschedule"
    /\ \/ /\ \E next \in Threads : Picked(next) /\ SwitchTo(next, tstate, pending, completed)
          /\ pc' = "guest"
          /\ UNCHANGED suspend
       \/ /\ \A next \in Threads : ~Runnable(next)
          /\ pc' = "stuck"
          /\ UNCHANGED threadVars
    /\ UNCHANGED <<objectVars, nested, wakeVars>>

(* The rest of exit_guest_thread: the initial thread ends the process, a    *)
(* worker hands over (pick_runnable_any; the current thread has ended).     *)
Reschedule ==
    /\ pc = "reschedule"
    /\ \/ /\ current = Main
          /\ pc' = "exited"
          /\ UNCHANGED threadVars
       \/ /\ current # Main
          /\ \E next \in Threads : Picked(next) /\ SwitchTo(next, tstate, pending, completed)
          /\ pc' = "guest"
          /\ UNCHANGED suspend
       \/ /\ current # Main
          /\ \A next \in Threads : ~Runnable(next)
          /\ pc' = "stuck"
          /\ UNCHANGED threadVars
    /\ UNCHANGED <<objectVars, nested, wakeVars>>

-----------------------------------------------------------------------------
HostStep ==
    \/ \E t \in Threads : VisitSatisfied(t) \/ VisitUnsatisfied(t) \/ VisitPoisoned(t)
    \/ CompleteWaits
    \/ Reschedule

ObjectCall ==
    \/ \E n \in Names \cup {NoName}, b1, b2 \in BOOLEAN : CreateEventA(n, b1, b2)
    \/ \E n \in Names \cup {NoName}, b \in BOOLEAN : CreateMutexA(n, b)
    \/ \E e \in Events : SetEvent(e) \/ ResetEvent(e)
    \/ \E m \in Mutexes : ReleaseMutex(m)
    \/ \E h \in Handles : CloseHandle(h)

ThreadCall ==
    \/ \E b \in BOOLEAN : CreateThread(b)
    \/ \E t \in Threads : ResumeThread(t)
    \/ \E w \in Waits : WaitSatisfied(w) \/ WaitBlocks(w)
    \/ ExitThread
    \/ ExitProcess
    \/ EnterCallback
    \/ LeaveCallbacks
    \/ BlockInCallback

(* The run has returned to the caller.                                      *)
Stopped ==
    /\ pc \in {"exited", "stuck", "fault"}
    /\ UNCHANGED vars

Next == HostStep \/ ObjectCall \/ ThreadCall \/ Stopped

Spec == Init /\ [][Next]_vars

(* Fairness.  The host executes its own loops without pause; nothing makes  *)
(* a guest thread do anything.                                              *)
HostSpec == Spec /\ WF_vars(HostStep)

(* A program whose callbacks return, and whose workers, as long as they get *)
(* to run, at last return from their thread procedures.                     *)
WorkerExits == current # Main /\ ExitThread
FiniteWorkersSpec == HostSpec /\ SF_vars(LeaveCallbacks) /\ SF_vars(WorkerExits)

-----------------------------------------------------------------------------
(* Properties.                                                              *)

(* Some parked thread waits on a handle that has been closed since.         *)
Poisoned(t) == t \in Parked /\ ~AllValid(pending[t])

(* The thread table is coherent: while guest code runs exactly one thread   *)
(* is Running and it is `current'; a thread has a pending wait exactly      *)
(* while it is Waiting; a completed wait belongs to a Ready thread; only a  *)
(* thread that has not started is suspended.  switch_to and complete_wait   *)
(* return errors when this fails (threads.rs:360, 427).                     *)
ThreadsCoherent ==
    /\ \A t \in Threads : tstate[t] = "Running" => t = current
    /\ pc = "guest" \/ (pc = "wake" /\ cause = "call") => tstate[current] = "Running"
    /\ pc = "reschedule" \/ (pc = "wake" /\ cause = "exit") => tstate[current] = "Terminated"
    /\ \A t \in Threads : tstate[t] = "Waiting" <=> pending[t] # Pending
    /\ \A t \in Threads : completed[t] # Pending => tstate[t] = "Ready"
    /\ \A t \in Threads : suspend[t] > 0 => tstate[t] = "Ready" /\ completed[t] = Pending
    /\ threadHandles \subseteq {t \in Threads : tstate[t] # "Unborn"}

(* The bookkeeping of a wake pass: it visits and completes only parked      *)
(* threads, and leaves nothing behind (complete_wait fails otherwise,       *)
(* threads.rs:360).                                                         *)
WakeCoherent ==
    /\ scan \subseteq Parked
    /\ \A t \in Threads : grants[t] # Pending => t \in Parked \ scan
    /\ pc # "wake" => scan = {} /\ grants = NoGrants

(* The strengthening of NoLostWakeup that every step preserves.  A handle   *)
(* in use was handed out (so a closed one stays closed); a wait satisfied   *)
(* in the running pass is on live handles; and the threads the pass has     *)
(* left behind unsatisfied cannot take their waits.                         *)
Known(h) == h \in issued \/ (h \in Threads /\ tstate[h] # "Unborn")

HandlesKnown ==
    /\ \A e \in Events : events[e].refs > 0 => e \in issued
    /\ \A m \in Mutexes : mutexes[m].refs > 0 => m \in issued
    /\ \A t \in Parked : \A i \in DOMAIN pending[t].handles : Known(pending[t].handles[i])

GrantsValid == \A t \in Threads : grants[t] # Pending => AllValid(pending[t])

PassSound ==
    (\A t \in Threads : ~Poisoned(t)) =>
        \A t \in Parked \ scan :
            grants[t] = Pending => ~Satisfiable(pending[t], t, Ended)

WakeInvariant == HandlesKnown /\ GrantsValid /\ PassSound

(* A mutex is free exactly when its recursion count is zero.                *)
MutexesCoherent ==
    \A m \in Mutexes :
        /\ mutexes[m].owner = NoThread <=> mutexes[m].recursion = 0
        /\ mutexes[m].refs = 0 => mutexes[m].owner = NoThread
        /\ mutexes[m].owner # NoThread => tstate[mutexes[m].owner] # "Unborn"

(* No lost wake-up.  Whenever no wake pass is under way, no parked thread   *)
(* could take what it waits for: every change that satisfies a wait also    *)
(* completes it.  It fails once a handle is closed under a parked thread,   *)
(* which makes every later pass return early (see WakesDelivered).          *)
NoLostWakeup ==
    (pc # "wake" /\ \A t \in Threads : ~Poisoned(t)) =>
        \A t \in Parked : ~Satisfiable(pending[t], t, Ended)

(* "no runnable Guest thread" is the truth: when the run stops with that    *)
(* error every thread has ended, is suspended, or is parked on a wait that  *)
(* cannot be satisfied (or would be, but for a closed handle).              *)
StuckIsDeadlock ==
    pc = "stuck" =>
        \A t \in Threads :
            \/ tstate[t] \in {"Unborn", "Terminated"}
            \/ tstate[t] = "Ready" /\ suspend[t] > 0
            \/ /\ t \in Parked
               /\ \/ ~Satisfiable(pending[t], t, Ended)
                  \/ \E u \in Threads : Poisoned(u)

(* Control leaves a thread only at top level: while a host call is          *)
(* suspended for a guest callback, its frame is the current thread's.       *)
NoSwitchInCallback == nested \/ nested' => current' = current

(* The result of a satisfied wait reaches its thread: it stays until the    *)
(* scheduler runs that thread, whatever the others do in between.           *)
ResultDelivered ==
    \A t \in Threads : completed[t] # Pending => completed'[t] = completed[t] \/ current' = t

(* A switch loses nothing: neither the suspended calls of the thread it     *)
(* leaves nor the result that the thread it goes to was woken with          *)
(* (switch_to, park_wait_and_schedule).                                     *)
SwitchesLoseNothing == [][NoSwitchInCallback /\ ResultDelivered]_vars

(* A thread parked on a closed handle never runs again: handles are not     *)
(* reissued, and no later wake pass completes it.                           *)
PoisonIsForever == [][\A t \in Threads : Poisoned(t) => Poisoned(t)']_vars

(* When a wait of the initial thread for thread t is over, or will never    *)
(* be: it runs again, a worker ends the process or blocks in a callback,    *)
(* the run stops with t still alive (the host found a deadlock), or a       *)
(* handle in use was closed.                                                *)
Joins(t) == pending[Main] # Pending /\ pending[Main].handles = <<t>>
JoinIsOver(t) ==
    \/ tstate[Main] = "Running"
    \/ pc \in {"exited", "fault"}
    \/ pc = "stuck" /\ t \notin Ended
    \/ \E u \in Threads : Poisoned(u)

(* SetEvent and ExitThread wake the parked threads (docs/NEXT_STEPS.md:141),*)
(* each of them: a thread that could take its objects is never left parked  *)
(* by a finished pass.  NoLostWakeup without its exemption for passes cut   *)
(* short by a closed handle: it takes a disciplined guest.                  *)
WakesDelivered ==
    pc # "wake" =>
        \A t \in Parked : AllValid(pending[t]) => ~Satisfiable(pending[t], t, Ended)

(* When the initial thread has ended, by ExitThread or by returning from    *)
(* the entry point, the run reports an exit code and no error               *)
(* (process.rs:387-390: "must terminate the initial thread/process").       *)
MainReturnTerminates == Main \in Ended => pc \in {"wake", "reschedule", "exited"}

(* The scheduler implements the contract of the wait functions: a thread    *)
(* whose wait the wake pass has satisfied is no longer blocked, although    *)
(* the pass has not completed it yet.                                       *)
Contract == INSTANCE WaitContract WITH
    blockedOn <- [t \in Threads |-> IF grants[t] # Pending THEN Pending ELSE pending[t]],
    ended <- Ended
ImplementsContract == Contract!Spec
=============================================================================
