------------------------- MODULE GuestSchedulerProofs -------------------------
(***************************************************************************)
(* Proofs about GuestScheduler, for every number of threads, events and    *)
(* mutexes and every set of wait calls.                                    *)
(***************************************************************************)
EXTENDS GuestScheduler, FiniteSetTheorems, TLAPS

-----------------------------------------------------------------------------
(* The operators of KernelObjects.                                          *)

(* How often a handle is listed in a wait is a number, and it is positive   *)
(* exactly for the handles that are listed.                                 *)
LEMMA OccurrencesType ==
    ASSUME NEW hs \in Seq(Handles), NEW h
    PROVE  /\ Occurrences(hs, h) \in Nat
           /\ Occurrences(hs, h) > 0 <=> \E i \in DOMAIN hs : hs[i] = h
<1> DEFINE At == {i \in DOMAIN hs : hs[i] = h}
<1>1. DOMAIN hs = 1..Len(hs) /\ Len(hs) \in Nat
  OBVIOUS
<1>2. IsFiniteSet(1..Len(hs))
  BY <1>1, FS_Interval
<1>3. IsFiniteSet(At)
  BY <1>1, <1>2, FS_Subset
<1>4. Cardinality(At) \in Nat /\ (Cardinality(At) = 0 <=> At = {})
  BY <1>3, FS_CardinalityType, FS_EmptySet
<1>5. QED
  BY <1>4 DEF Occurrences

(* Updates of one object.                                                   *)
LEMMA EventUpdate ==
    ASSUME NEW x \in Event
    PROVE  /\ \A b \in BOOLEAN : [x EXCEPT !.signaled = b] \in Event
           /\ \A k \in 0..MaxReferences : [x EXCEPT !.refs = k] \in Event
BY DEF Event

LEMMA MutexUpdate ==
    ASSUME NEW x \in Mutex
    PROVE  /\ \A t \in Threads \cup {NoThread}, n \in 0..MaxRecursion :
                 [x EXCEPT !.owner = t, !.recursion = n] \in Mutex
           /\ \A k \in 0..MaxReferences : [x EXCEPT !.refs = k] \in Mutex
<1>1. ASSUME NEW t \in Threads \cup {NoThread}, NEW n \in 0..MaxRecursion
      PROVE  [x EXCEPT !.owner = t, !.recursion = n] \in Mutex
  BY DEF Mutex
<1>2. QED
  BY <1>1 DEF Mutex

LEMMA AbsentObjects == AbsentEvent \in Event /\ AbsentMutex \in Mutex
<1>1. AbsentEvent \in Event
  BY ObjectsAssumption DEF Event, AbsentEvent
<1>2. AbsentMutex \in Mutex
  BY ObjectsAssumption DEF Mutex, AbsentMutex
<1>3. QED
  BY <1>1, <1>2

(* Consuming the objects of a wait leaves the tables well-typed.            *)
LEMMA TakeType ==
    ASSUME ObjectsTypeOK, NEW hs \in Seq(Handles), NEW t \in Threads, Take(hs, t)
    PROVE  ObjectsTypeOK'
<1> USE ObjectsAssumption
<1>1. events' \in [Events -> Event]
  <2>1. ASSUME NEW e \in Events
        PROVE  [events[e] EXCEPT !.signaled = FALSE] \in Event /\ events[e] \in Event
    BY EventUpdate DEF ObjectsTypeOK
  <2>2. QED
    BY <2>1 DEF Take
<1>2. ASSUME NEW m \in Mutexes
      PROVE  Saturated(mutexes[m].recursion + Occurrences(hs, m)) \in 0..MaxRecursion
  BY OccurrencesType DEF ObjectsTypeOK, Mutex, Saturated
<1>3. mutexes' \in [Mutexes -> Mutex]
  <2>1. ASSUME NEW m \in Mutexes
        PROVE  /\ mutexes[m] \in Mutex
               /\ [mutexes[m] EXCEPT !.owner = t,
                     !.recursion = Saturated(@ + Occurrences(hs, m))] \in Mutex
    <3>1. mutexes[m] \in Mutex
      BY DEF ObjectsTypeOK
    <3>2. QED
      BY <3>1, <1>2, MutexUpdate
  <2>2. QED
    BY <2>1 DEF Take
<1>4. QED
  BY <1>1, <1>3 DEF ObjectsTypeOK, Take

LEMMA SatisfyType ==
    ASSUME ObjectsTypeOK, NEW w \in Wait, NEW t \in Threads, NEW ended, NEW r \in Nat,
           Satisfy(w, t, ended, r)
    PROVE  ObjectsTypeOK'
<1>1. w.handles \in Seq(Handles)
  BY DEF Wait
<1>2. CASE Take(w.handles, t)
  BY <1>1, <1>2, TakeType
<1>3. CASE r + 1 \in DOMAIN w.handles /\ Take(<<w.handles[r + 1]>>, t)
  <2>1. <<w.handles[r + 1]>> \in Seq(Handles)
    BY <1>1, <1>3
  <2>2. QED
    BY <2>1, <1>3, TakeType
<1>4. QED
  BY <1>2, <1>3 DEF Satisfy

LEMMA CreateEventType ==
    ASSUME ObjectsTypeOK, NEW n \in Names \cup {NoName}, NEW b1 \in BOOLEAN, NEW b2 \in BOOLEAN,
           CreateEvent(n, b1, b2)
    PROVE  ObjectsTypeOK'
<1> USE ObjectsAssumption
<1>1. CASE n # NoName /\ eventNames[n] # NoHandle
  <2>1. eventNames[n] \in Events
    BY <1>1 DEF ObjectsTypeOK
  <2>2. QED
    BY <1>1, <2>1 DEF CreateEvent, ObjectsTypeOK, Event
<1>2. CASE n # NoName => eventNames[n] = NoHandle
  BY <1>2, SMTT(30) DEF CreateEvent, ObjectsTypeOK, Event
<1>3. QED
  BY <1>1, <1>2

LEMMA CreateMutexType ==
    ASSUME ObjectsTypeOK, NEW n \in Names \cup {NoName}, NEW b \in BOOLEAN, NEW t \in Threads,
           CreateMutex(n, b, t)
    PROVE  ObjectsTypeOK'
<1> USE ObjectsAssumption
<1>1. CASE n # NoName /\ mutexNames[n] # NoHandle
  <2>1. mutexNames[n] \in Mutexes
    BY <1>1 DEF ObjectsTypeOK
  <2>2. QED
    BY <1>1, <2>1 DEF CreateMutex, ObjectsTypeOK, Mutex
<1>2. CASE n # NoName => mutexNames[n] = NoHandle
  BY <1>2 DEF CreateMutex, ObjectsTypeOK, Mutex
<1>3. QED
  BY <1>1, <1>2

LEMMA SmallOpsType ==
    ASSUME ObjectsTypeOK
    PROVE  /\ \A e \in Events, b \in BOOLEAN : SetState(e, b) => ObjectsTypeOK'
           /\ \A m \in Mutexes, t \in Threads : Release(m, t) => ObjectsTypeOK'
           /\ \A e \in Events : CloseEvent(e) => ObjectsTypeOK'
           /\ \A m \in Mutexes : CloseMutex(m) => ObjectsTypeOK'
           /\ \A t : CloseThreadHandle(t) => ObjectsTypeOK'
<1> USE ObjectsAssumption
<1>1. ASSUME NEW e \in Events, NEW b \in BOOLEAN, SetState(e, b) PROVE ObjectsTypeOK'
  <2>1. [events[e] EXCEPT !.signaled = b] \in Event
    BY EventUpdate DEF ObjectsTypeOK
  <2>2. events' \in [Events -> Event]
    BY <1>1, <2>1 DEF SetState, ObjectsTypeOK
  <2>3. QED
    BY <1>1, <2>2 DEF SetState, ObjectsTypeOK
<1>2. ASSUME NEW m \in Mutexes, NEW t \in Threads, Release(m, t) PROVE ObjectsTypeOK'
  <2>1. mutexes[m] \in Mutex
    BY DEF ObjectsTypeOK
  <2> DEFINE o == IF mutexes[m].recursion = 1 THEN NoThread ELSE t
             n == mutexes[m].recursion - 1
  <2>2. [mutexes[m] EXCEPT !.owner = o, !.recursion = n] \in Mutex
    <3>1. n \in 0..MaxRecursion /\ o \in Threads \cup {NoThread}
      BY <1>2, <2>1 DEF Release, Mutex
    <3>2. QED
      BY <2>1, <3>1, MutexUpdate
  <2>3. mutexes' = [mutexes EXCEPT ![m] = [mutexes[m] EXCEPT !.owner = o, !.recursion = n]]
    BY <1>2, <2>1 DEF Release, ObjectsTypeOK, Mutex
  <2>4. mutexes' \in [Mutexes -> Mutex]
    BY <2>2, <2>3 DEF ObjectsTypeOK
  <2>5. QED
    BY <1>2, <2>4 DEF Release, ObjectsTypeOK
<1>3. ASSUME NEW e \in Events, CloseEvent(e) PROVE ObjectsTypeOK'
  <2>1. events[e] \in Event /\ events[e].refs - 1 \in 0..MaxReferences
    BY <1>3 DEF ObjectsTypeOK, Event, CloseEvent
  <2>2. [events[e] EXCEPT !.refs = @ - 1] \in Event /\ AbsentEvent \in Event
    BY <2>1, EventUpdate, AbsentObjects
  <2>3. events' \in [Events -> Event]
    BY <1>3, <2>2 DEF CloseEvent, ObjectsTypeOK
  <2>4. eventNames' \in [Names -> Events \cup {NoHandle}]
    BY <1>3 DEF CloseEvent, ObjectsTypeOK
  <2>5. QED
    BY <1>3, <2>3, <2>4 DEF CloseEvent, ObjectsTypeOK
<1>4. ASSUME NEW m \in Mutexes, CloseMutex(m) PROVE ObjectsTypeOK'
  <2>1. mutexes[m] \in Mutex /\ mutexes[m].refs - 1 \in 0..MaxReferences
    BY <1>4 DEF ObjectsTypeOK, Mutex, CloseMutex
  <2>2. [mutexes[m] EXCEPT !.refs = @ - 1] \in Mutex /\ AbsentMutex \in Mutex
    BY <2>1, MutexUpdate, AbsentObjects
  <2>3. mutexes' \in [Mutexes -> Mutex]
    BY <1>4, <2>2 DEF CloseMutex, ObjectsTypeOK
  <2>4. mutexNames' \in [Names -> Mutexes \cup {NoHandle}]
    BY <1>4 DEF CloseMutex, ObjectsTypeOK
  <2>5. QED
    BY <1>4, <2>3, <2>4 DEF CloseMutex, ObjectsTypeOK
<1>5. ASSUME NEW t, CloseThreadHandle(t) PROVE ObjectsTypeOK'
  BY <1>5 DEF CloseThreadHandle, ObjectsTypeOK
<1>6. QED
  BY <1>1, <1>2, <1>3, <1>4, <1>5

-----------------------------------------------------------------------------
(* Type correctness.                                                        *)

LEMMA InitType == Init => TypeOK
<1> SUFFICES ASSUME Init PROVE TypeOK
  OBVIOUS
<1> USE ObjectsAssumption, SchedulerAssumption
<1>1. ObjectsTypeOK
  BY AbsentObjects DEF Init, ObjectsInit, ObjectsTypeOK
<1>2. Main \in Threads
  BY DEF Main, Threads
<1>3. QED
  BY <1>1, <1>2 DEF Init, TypeOK, NoGrants, ThreadStates, PCs

LEMMA ObjectCallType == TypeOK /\ ObjectCall => TypeOK'
<1> SUFFICES ASSUME TypeOK, ObjectCall PROVE TypeOK'
  OBVIOUS
<1>0. ObjectsTypeOK /\ current \in Threads
  BY DEF TypeOK
<1>1. ASSUME ObjectsTypeOK', UNCHANGED <<threadVars, nested, pc, wakeVars>>
      PROVE  TypeOK'
  BY <1>1 DEF TypeOK, threadVars, wakeVars
<1>2. ASSUME ObjectsTypeOK', BeginWake("call"), UNCHANGED <<threadVars, nested>>
      PROVE  TypeOK'
  BY <1>2 DEF TypeOK, BeginWake, threadVars, Parked, NoGrants, PCs
<1>3. CASE \E n \in Names \cup {NoName}, b1, b2 \in BOOLEAN : CreateEventA(n, b1, b2)
  BY <1>3, <1>0, <1>1, CreateEventType DEF CreateEventA
<1>4. CASE \E n \in Names \cup {NoName}, b \in BOOLEAN : CreateMutexA(n, b)
  BY <1>4, <1>0, <1>1, CreateMutexType DEF CreateMutexA
<1>5. CASE \E e \in Events : SetEvent(e) \/ ResetEvent(e)
  BY <1>5, <1>0, <1>1, <1>2, SmallOpsType DEF SetEvent, ResetEvent
<1>6. CASE \E m \in Mutexes : ReleaseMutex(m)
  BY <1>6, <1>0, <1>2, SmallOpsType DEF ReleaseMutex
<1>7. CASE \E h \in Handles : CloseHandle(h)
  BY <1>7, <1>0, <1>1, SmallOpsType DEF CloseHandle
<1>8. QED
  BY <1>3, <1>4, <1>5, <1>6, <1>7 DEF ObjectCall

LEMMA SwitchType ==
    ASSUME NEW next \in Threads, NEW ts \in [Threads -> ThreadStates],
           NEW pd \in [Threads -> Wait \cup {Pending}],
           NEW cw \in [Threads -> Nat \cup {Pending}],
           SwitchTo(next, ts, pd, cw)
    PROVE  /\ tstate' \in [Threads -> ThreadStates]
           /\ pending' \in [Threads -> Wait \cup {Pending}]
           /\ completed' \in [Threads -> Nat \cup {Pending}]
           /\ current' \in Threads
BY DEF SwitchTo, ThreadStates

LEMMA ThreadCallType == TypeOK /\ ThreadCall => TypeOK'
<1> SUFFICES ASSUME TypeOK, ThreadCall PROVE TypeOK'
  OBVIOUS
<1> USE ObjectsAssumption, SchedulerAssumption
<1>1. ASSUME NEW b \in BOOLEAN, CreateThread(b) PROVE TypeOK'
  BY <1>1 DEF CreateThread, TypeOK, ObjectsTypeOK, ThreadStates, wakeVars
<1>2. ASSUME NEW t \in Threads, ResumeThread(t) PROVE TypeOK'
  BY <1>2 DEF ResumeThread, TypeOK, ObjectsTypeOK, wakeVars, objectVars
<1>3. ASSUME NEW w \in Waits, WaitSatisfied(w) PROVE TypeOK'
  <2>1. w \in Wait /\ Len(w.handles) \in Nat
    BY DEF Wait
  <2>2. ObjectsTypeOK'
    BY <1>3, <2>1, SatisfyType DEF WaitSatisfied, TypeOK
  <2>3. QED
    BY <1>3, <2>2 DEF WaitSatisfied, TypeOK, threadVars, wakeVars
<1>4. ASSUME NEW w \in Waits, WaitBlocks(w) PROVE TypeOK'
  <2> DEFINE ts == [tstate EXCEPT ![current] = "Waiting"]
             pd == [pending EXCEPT ![current] = w]
             cw == [completed EXCEPT ![current] = Pending]
  <2>1. /\ ts \in [Threads -> ThreadStates]
        /\ pd \in [Threads -> Wait \cup {Pending}]
        /\ cw \in [Threads -> Nat \cup {Pending}]
    BY DEF TypeOK, ThreadStates
  <2>2. ObjectsTypeOK' /\ UNCHANGED <<suspend, nested, wakeVars>>
    BY <1>4 DEF WaitBlocks, TypeOK, ObjectsTypeOK, objectVars
  <2>3. CASE \E next \in Threads : SwitchTo(next, ts, pd, cw) /\ pc' = pc
    <3>1. PICK next \in Threads : SwitchTo(next, ts, pd, cw) /\ pc' = pc
      BY <2>3
    <3> HIDE DEF ts, pd, cw
    <3>2. QED
      BY <3>1, <2>1, <2>2, SwitchType DEF TypeOK, wakeVars
  <2>4. CASE tstate' = ts /\ pending' = pd /\ completed' = cw /\ pc' = "stuck" /\ current' = current
    BY <2>4, <2>1, <2>2 DEF TypeOK, wakeVars, PCs
  <2>5. QED
    BY <1>4, <2>3, <2>4 DEF WaitBlocks
<1>5. CASE ExitThread
  BY <1>5 DEF ExitThread, TypeOK, ObjectsTypeOK, objectVars, ThreadStates, BeginWake, Parked,
              NoGrants, PCs
<1>6. CASE ExitProcess \/ EnterCallback \/ LeaveCallbacks \/ BlockInCallback
  <2>1. UNCHANGED <<objectVars, threadVars, wakeVars>>
    BY <1>6 DEF ExitProcess, EnterCallback, LeaveCallbacks, BlockInCallback
  <2>2. nested' \in BOOLEAN /\ pc' \in PCs
    BY <1>6 DEF ExitProcess, EnterCallback, LeaveCallbacks, BlockInCallback, TypeOK, PCs
  <2> QED
    BY <2>1, <2>2 DEF TypeOK, ObjectsTypeOK, objectVars, threadVars, wakeVars
<1>7. QED
  BY <1>1, <1>2, <1>3, <1>4, <1>5, <1>6 DEF ThreadCall

LEMMA HostStepType == TypeOK /\ WakeCoherent /\ HostStep => TypeOK'
<1> SUFFICES ASSUME TypeOK, WakeCoherent, HostStep PROVE TypeOK'
  OBVIOUS
<1> USE ObjectsAssumption, SchedulerAssumption
<1>1. ASSUME NEW t \in Threads, VisitSatisfied(t) PROVE TypeOK'
  <2>1. pending[t] \in Wait /\ Len(pending[t].handles) \in Nat
    BY <1>1 DEF VisitSatisfied, Visited, WakeCoherent, Parked, TypeOK, Wait
  <2>2. PICK r \in 0..(Len(pending[t].handles) - 1) :
            Satisfy(pending[t], t, Ended, r) /\ grants' = [grants EXCEPT ![t] = r]
    BY <1>1 DEF VisitSatisfied
  <2>3. ObjectsTypeOK'
    BY <2>1, <2>2, SatisfyType DEF TypeOK
  <2>4. grants' \in [Threads -> Nat \cup {Pending}]
    BY <2>1, <2>2 DEF TypeOK
  <2>5. QED
    BY <1>1, <2>3, <2>4 DEF VisitSatisfied, TypeOK, threadVars
<1>2. ASSUME NEW t \in Threads, VisitUnsatisfied(t) PROVE TypeOK'
  BY <1>2 DEF VisitUnsatisfied, TypeOK, ObjectsTypeOK, objectVars, threadVars
<1>3. ASSUME NEW t \in Threads, VisitPoisoned(t) PROVE TypeOK'
  BY <1>3 DEF VisitPoisoned, TypeOK, ObjectsTypeOK, objectVars, threadVars, NoGrants, PCs
<1>4. CASE CompleteWaits
  <2>1. tstate' \in [Threads -> ThreadStates]
    BY <1>4 DEF CompleteWaits, TypeOK, ThreadStates
  <2>2. pending' \in [Threads -> Wait \cup {Pending}]
    BY <1>4 DEF CompleteWaits, TypeOK
  <2>3. completed' \in [Threads -> Nat \cup {Pending}]
    BY <1>4 DEF CompleteWaits, TypeOK
  <2>4. QED
    BY <1>4, <2>1, <2>2, <2>3
    DEF CompleteWaits, TypeOK, ObjectsTypeOK, objectVars, NoGrants, PCs
<1>5. CASE Reschedule
  <2>1. ObjectsTypeOK' /\ UNCHANGED <<nested, wakeVars>> /\ pc' \in PCs /\ UNCHANGED suspend
    BY <1>5 DEF Reschedule, TypeOK, ObjectsTypeOK, objectVars, PCs, threadVars
  <2>2. CASE UNCHANGED threadVars
    BY <2>1, <2>2 DEF TypeOK, threadVars, wakeVars
  <2>3. CASE \E next \in Threads : SwitchTo(next, tstate, pending, completed)
    BY <2>1, <2>3, SwitchType DEF TypeOK, wakeVars
  <2>4. QED
    BY <1>5, <2>2, <2>3 DEF Reschedule
<1>6. QED
  BY <1>1, <1>2, <1>3, <1>4, <1>5 DEF HostStep

-----------------------------------------------------------------------------
(* Coherence of the thread table and of the wake pass.                      *)

Coherent == TypeOK /\ ThreadsCoherent /\ WakeCoherent

LEMMA InitCoherent == Init => Coherent
<1> SUFFICES ASSUME Init PROVE Coherent
  OBVIOUS
<1>1. TypeOK
  BY InitType
<1>2. ThreadsCoherent
  <2>1. \A t \in Threads : pending[t] = Pending /\ completed[t] = Pending /\ suspend[t] = 0
    BY DEF Init
  <2>2. \A t \in Threads : tstate[t] = IF t = Main THEN "Running" ELSE "Unborn"
    BY DEF Init
  <2>3. current = Main /\ Main \in Threads /\ pc = "guest" /\ threadHandles = {}
    BY ObjectsAssumption DEF Init, ObjectsInit, Main, Threads
  <2>4. QED
    BY <2>1, <2>2, <2>3 DEF ThreadsCoherent
<1>3. WakeCoherent
  BY DEF Init, WakeCoherent, NoGrants
<1>4. QED
  BY <1>1, <1>2, <1>3 DEF Coherent

(* What the code may assume of the thread that makes a host call.           *)
LEMMA RunningThread ==
    ASSUME Coherent, pc = "guest"
    PROVE  /\ current \in Threads
           /\ tstate[current] = "Running"
           /\ suspend[current] = 0
           /\ pending[current] = Pending
           /\ completed[current] = Pending
           /\ current \notin Parked
           /\ scan = {}
           /\ \A t \in Threads : grants[t] = Pending
<1>1. current \in Threads /\ suspend[current] \in {0, 1}
  BY DEF Coherent, TypeOK
<1>2. tstate[current] = "Running"
  BY DEF Coherent, ThreadsCoherent
<1>3. suspend[current] = 0
  BY <1>1, <1>2 DEF Coherent, ThreadsCoherent
<1>4. pending[current] = Pending /\ completed[current] = Pending
  BY <1>1, <1>2 DEF Coherent, ThreadsCoherent
<1>5. scan = {} /\ \A t \in Threads : grants[t] = Pending
  BY DEF Coherent, WakeCoherent, NoGrants
<1>6. QED
  BY <1>1, <1>2, <1>3, <1>4, <1>5 DEF Parked

LEMMA ObjectCallCoherent == Coherent /\ ObjectCall => Coherent'
<1> SUFFICES ASSUME Coherent, ObjectCall PROVE Coherent'
  OBVIOUS
<1>0. TypeOK'
  BY ObjectCallType DEF Coherent
<1>1. ASSUME UNCHANGED <<threadVars, nested, pc, wakeVars>>, threadHandles' \subseteq threadHandles
      PROVE  ThreadsCoherent' /\ WakeCoherent'
  <2>1. ThreadsCoherent'
    BY <1>1 DEF Coherent, ThreadsCoherent, threadVars, wakeVars
  <2>2. WakeCoherent'
    BY <1>1 DEF Coherent, WakeCoherent, threadVars, wakeVars, Parked
  <2>3. QED
    BY <2>1, <2>2
<1>2. ASSUME pc = "guest", BeginWake("call"), UNCHANGED <<threadVars, nested, threadHandles>>
      PROVE  ThreadsCoherent' /\ WakeCoherent'
  <2>1. ThreadsCoherent'
    BY <1>2 DEF Coherent, ThreadsCoherent, threadVars, BeginWake
  <2>2. WakeCoherent'
    BY <1>2 DEF WakeCoherent, threadVars, Parked, BeginWake, NoGrants
  <2>3. QED
    BY <2>1, <2>2
<1>3. CASE \E n \in Names \cup {NoName}, b1, b2 \in BOOLEAN : CreateEventA(n, b1, b2)
  BY <1>0, <1>3, <1>1 DEF CreateEventA, CreateEvent, Coherent
<1>4. CASE \E n \in Names \cup {NoName}, b \in BOOLEAN : CreateMutexA(n, b)
  BY <1>0, <1>4, <1>1 DEF CreateMutexA, CreateMutex, Coherent
<1>5. CASE \E e \in Events : SetEvent(e) \/ ResetEvent(e)
  BY <1>0, <1>5, <1>1, <1>2 DEF SetEvent, ResetEvent, SetState, Coherent
<1>6. CASE \E m \in Mutexes : ReleaseMutex(m)
  BY <1>0, <1>6, <1>2 DEF ReleaseMutex, Release, Coherent
<1>7. CASE \E h \in Handles : CloseHandle(h)
  <2>1. threadHandles' \subseteq threadHandles /\ UNCHANGED <<threadVars, nested, pc, wakeVars>>
    BY <1>7 DEF CloseHandle, CloseEvent, CloseMutex, CloseThreadHandle
  <2>2. QED
    BY <1>0, <2>1, <1>1 DEF Coherent
<1>8. QED
  BY <1>3, <1>4, <1>5, <1>6, <1>7 DEF ObjectCall

(* The scheduler only ever picks a thread that can run.                     *)
LEMMA SwitchCoherent ==
    ASSUME Coherent, pc \in {"guest", "reschedule"}, NEW next \in Threads, Picked(next),
           NEW ts, NEW pd, NEW cw,
           \/ ts = tstate /\ pd = pending /\ cw = completed /\ pc = "reschedule"
           \/ /\ \E w \in Wait : pd = [pending EXCEPT ![current] = w]
              /\ ts = [tstate EXCEPT ![current] = "Waiting"]
              /\ cw = [completed EXCEPT ![current] = Pending]
              /\ pc = "guest",
           SwitchTo(next, ts, pd, cw), UNCHANGED <<suspend, threadHandles, wakeVars>>, pc' = "guest"
    PROVE  ThreadsCoherent' /\ WakeCoherent'
<1> USE SchedulerAssumption
<1>1. /\ current \in Threads /\ tstate[next] = "Ready" /\ next # current
      /\ suspend[next] = 0 /\ pending[next] = Pending
  BY DEF Picked, Runnable, Coherent, TypeOK
<1>2. scan' = {} /\ grants' = NoGrants
  BY DEF Coherent, WakeCoherent, wakeVars
<1>3. WakeCoherent'
  BY <1>2 DEF WakeCoherent, NoGrants
<1>4. CASE ts = tstate /\ pd = pending /\ cw = completed /\ pc = "reschedule"
  <2>1. /\ tstate' = [tstate EXCEPT ![next] = "Running"]
        /\ pending' = pending
        /\ completed' = [completed EXCEPT ![next] = Pending]
        /\ current' = next
    BY <1>4 DEF SwitchTo
  <2>2. QED
    BY <1>1, <1>3, <1>4, <2>1 DEF Coherent, TypeOK, ThreadsCoherent
<1>5. ASSUME NEW w \in Wait,
             pd = [pending EXCEPT ![current] = w], ts = [tstate EXCEPT ![current] = "Waiting"],
             cw = [completed EXCEPT ![current] = Pending], pc = "guest"
      PROVE  ThreadsCoherent'
  <2>1. suspend[current] = 0
    BY <1>5, RunningThread
  <2>2. /\ tstate' = [tstate EXCEPT ![current] = "Waiting", ![next] = "Running"]
        /\ pending' = [pending EXCEPT ![current] = w]
        /\ completed' = [completed EXCEPT ![current] = Pending, ![next] = Pending]
        /\ current' = next
    BY <1>5 DEF SwitchTo
  <2>3. w # Pending
    BY <1>5
  <2>4. /\ \A t \in Threads : t # next /\ t # current =>
              tstate'[t] = tstate[t] /\ pending'[t] = pending[t] /\ completed'[t] = completed[t]
        /\ tstate'[current] = "Waiting" /\ pending'[current] = w /\ completed'[current] = Pending
        /\ tstate'[next] = "Running" /\ pending'[next] = Pending /\ completed'[next] = Pending
    BY <1>1, <2>2 DEF Coherent, TypeOK
  <2>5. suspend' = suspend /\ threadHandles' = threadHandles
    OBVIOUS
  <2>6. current' = next /\ pc' = "guest"
    BY <2>2
  <2>7. \A t \in Threads : tstate'[t] = "Waiting" <=> pending'[t] # Pending
    BY <2>3, <2>4 DEF Coherent, ThreadsCoherent
  <2>8. \A t \in Threads : suspend'[t] > 0 => tstate'[t] = "Ready" /\ completed'[t] = Pending
    BY <1>1, <2>1, <2>4, <2>5 DEF Coherent, ThreadsCoherent
  <2>9. threadHandles' \subseteq {t \in Threads : tstate'[t] # "Unborn"}
    BY <2>4, <2>5 DEF Coherent, ThreadsCoherent
  <2>10. QED
    BY <1>1, <2>4, <2>6, <2>7, <2>8, <2>9 DEF Coherent, ThreadsCoherent
<1>6. QED
  BY <1>3, <1>4, <1>5

LEMMA ThreadCallCoherent == Coherent /\ ThreadCall => Coherent'
<1> SUFFICES ASSUME Coherent, ThreadCall PROVE Coherent'
  OBVIOUS
<1> USE SchedulerAssumption
<1>0. TypeOK' /\ TypeOK
  BY ThreadCallType DEF Coherent
<1>1. ASSUME UNCHANGED <<pending, tstate, wakeVars>>, pc = "guest"
      PROVE  WakeCoherent'
  BY <1>1 DEF Coherent, WakeCoherent, NoGrants, wakeVars, Parked
<1>2. ASSUME NEW b \in BOOLEAN, CreateThread(b) PROVE Coherent'
  <2>1. PICK t \in Threads :
            /\ tstate[t] = "Unborn"
            /\ tstate' = [tstate EXCEPT ![t] = "Ready"]
            /\ suspend' = [suspend EXCEPT ![t] = IF b THEN 1 ELSE 0]
            /\ threadHandles' = threadHandles \cup {t}
    BY <1>2 DEF CreateThread
  <2>2. ThreadsCoherent'
    BY <1>0, <1>2, <2>1 DEF CreateThread, TypeOK, Coherent, ThreadsCoherent, wakeVars
  <2>3. WakeCoherent'
    BY <1>2 DEF CreateThread, Coherent, WakeCoherent, NoGrants, wakeVars
  <2>4. QED
    BY <1>0, <2>2, <2>3 DEF Coherent
<1>3. ASSUME NEW t \in Threads, ResumeThread(t) PROVE Coherent'
  <2>1. ThreadsCoherent'
    BY <1>0, <1>3 DEF ResumeThread, TypeOK, Coherent, ThreadsCoherent, wakeVars, objectVars
  <2>2. QED
    BY <1>0, <1>3, <1>1, <2>1 DEF ResumeThread, Coherent
<1>4. ASSUME NEW w \in Waits, WaitSatisfied(w) PROVE Coherent'
  <2>1. threadHandles' = threadHandles
    BY <1>4 DEF WaitSatisfied, Satisfy, Take
  <2>2. ThreadsCoherent'
    BY <1>4, <2>1 DEF WaitSatisfied, Coherent, ThreadsCoherent, wakeVars, threadVars
  <2>3. QED
    BY <1>0, <1>4, <1>1, <2>2 DEF WaitSatisfied, Coherent, threadVars
<1>5. ASSUME NEW w \in Waits, WaitBlocks(w) PROVE Coherent'
  <2>0. w \in Wait
    OBVIOUS
  <2> DEFINE ts == [tstate EXCEPT ![current] = "Waiting"]
             pd == [pending EXCEPT ![current] = w]
             cw == [completed EXCEPT ![current] = Pending]
  <2>1. pc = "guest" /\ UNCHANGED <<objectVars, suspend, nested, wakeVars>>
    BY <1>5 DEF WaitBlocks
  <2>2. CASE \E next \in Threads : Picked(next) /\ SwitchTo(next, ts, pd, cw) /\ pc' = pc
    <3>1. PICK next \in Threads : Picked(next) /\ SwitchTo(next, ts, pd, cw) /\ pc' = pc
      BY <2>2
    <3>2. \E v \in Wait : pd = [pending EXCEPT ![current] = v]
      BY <2>0
    <3>3. pc' = "guest" /\ UNCHANGED <<suspend, threadHandles, wakeVars>>
      BY <2>1, <3>1 DEF objectVars
    <3>4. /\ ts = [tstate EXCEPT ![current] = "Waiting"]
          /\ cw = [completed EXCEPT ![current] = Pending]
      OBVIOUS
    <3> HIDE DEF ts, pd, cw
    <3>5. ThreadsCoherent' /\ WakeCoherent'
      BY <2>1, <3>1, <3>2, <3>3, <3>4, SwitchCoherent
    <3>6. QED
      BY <1>0, <3>5 DEF Coherent
  <2>3. CASE tstate' = ts /\ pending' = pd /\ completed' = cw /\ pc' = "stuck" /\ current' = current
    <3>1. suspend[current] = 0
      BY <2>1, RunningThread
    <3>2. ThreadsCoherent'
      BY <1>0, <2>0, <2>1, <2>3, <3>1 DEF Coherent, TypeOK, ThreadsCoherent, objectVars, wakeVars
    <3>3. WakeCoherent'
      BY <2>1 DEF Coherent, WakeCoherent, NoGrants, wakeVars
    <3>4. QED
      BY <1>0, <3>2, <3>3 DEF Coherent
  <2>4. QED
    BY <1>5, <2>2, <2>3 DEF WaitBlocks
<1>6. CASE ExitThread
  <2>1. Parked' = Parked
    BY <1>0, <1>6, RunningThread DEF ExitThread, TypeOK, Parked
  <2>2. WakeCoherent'
    BY <1>6, <2>1 DEF ExitThread, BeginWake, WakeCoherent, NoGrants
  <2>3. ThreadsCoherent'
    BY <1>0, <1>6 DEF ExitThread, BeginWake, Coherent, ThreadsCoherent, TypeOK, objectVars
  <2>4. QED
    BY <1>0, <2>2, <2>3 DEF Coherent
<1>7. CASE ExitProcess \/ EnterCallback \/ LeaveCallbacks \/ BlockInCallback
  <2>1. /\ pc = "guest" /\ pc' \in {"guest", "exited", "fault"}
        /\ UNCHANGED <<objectVars, threadVars, wakeVars>>
    BY <1>7 DEF ExitProcess, EnterCallback, LeaveCallbacks, BlockInCallback
  <2>2. ThreadsCoherent'
    BY <2>1 DEF Coherent, ThreadsCoherent, objectVars, threadVars, wakeVars
  <2>3. QED
    BY <1>0, <1>1, <2>1, <2>2 DEF Coherent, threadVars
<1>8. QED
  BY <1>2, <1>3, <1>4, <1>5, <1>6, <1>7 DEF ThreadCall

LEMMA HostStepCoherent == Coherent /\ HostStep => Coherent'
<1> SUFFICES ASSUME Coherent, HostStep PROVE Coherent'
  OBVIOUS
<1> USE SchedulerAssumption
<1>0. TypeOK' /\ TypeOK
  BY HostStepType DEF Coherent
<1>1. ASSUME NEW t \in Threads, VisitSatisfied(t) PROVE Coherent'
  <2>1. threadHandles' = threadHandles
    BY <1>1 DEF VisitSatisfied, Satisfy, Take
  <2>2. ThreadsCoherent'
    BY <1>1, <2>1 DEF VisitSatisfied, Coherent, ThreadsCoherent, threadVars
  <2>3. WakeCoherent'
    BY <1>0, <1>1 DEF VisitSatisfied, Visited, Coherent, WakeCoherent, threadVars, Parked, TypeOK
  <2>4. QED
    BY <1>0, <2>2, <2>3 DEF Coherent
<1>2. ASSUME NEW t \in Threads, VisitUnsatisfied(t) PROVE Coherent'
  <2>1. ThreadsCoherent'
    BY <1>2 DEF VisitUnsatisfied, Coherent, ThreadsCoherent, threadVars, objectVars
  <2>2. WakeCoherent'
    BY <1>2 DEF VisitUnsatisfied, Coherent, WakeCoherent, threadVars, Parked
  <2>3. QED
    BY <1>0, <2>1, <2>2 DEF Coherent
<1>3. ASSUME NEW t \in Threads, VisitPoisoned(t) PROVE Coherent'
  <2>1. ThreadsCoherent'
    BY <1>0, <1>3 DEF VisitPoisoned, Coherent, ThreadsCoherent, threadVars, objectVars, TypeOK
  <2>2. WakeCoherent'
    BY <1>3 DEF VisitPoisoned, WakeCoherent, NoGrants
  <2>3. QED
    BY <1>0, <2>1, <2>2 DEF Coherent
<1>4. CASE CompleteWaits
  <2>1. \A t \in Threads : grants[t] # Pending => tstate[t] = "Waiting"
    BY DEF Coherent, WakeCoherent, Parked
  <2>2. ThreadsCoherent'
    BY <1>0, <1>4, <2>1 DEF CompleteWaits, Coherent, ThreadsCoherent, objectVars, TypeOK
  <2>3. WakeCoherent'
    BY <1>4 DEF CompleteWaits, WakeCoherent, NoGrants
  <2>4. QED
    BY <1>0, <2>2, <2>3 DEF Coherent
<1>5. CASE Reschedule
  <2>1. pc = "reschedule" /\ UNCHANGED <<objectVars, nested, wakeVars>>
    BY <1>5 DEF Reschedule
  <2>2. CASE UNCHANGED threadVars /\ pc' \in {"exited", "stuck"}
    <3>1. ThreadsCoherent'
      BY <2>1, <2>2 DEF Coherent, ThreadsCoherent, objectVars, threadVars, wakeVars
    <3>2. WakeCoherent'
      BY <2>1, <2>2 DEF Coherent, WakeCoherent, NoGrants, wakeVars
    <3>3. QED
      BY <1>0, <3>1, <3>2 DEF Coherent
  <2>3. ASSUME NEW next \in Threads, Picked(next), SwitchTo(next, tstate, pending, completed),
               pc' = "guest", UNCHANGED suspend
        PROVE  Coherent'
    BY <1>0, <2>1, <2>3, SwitchCoherent DEF Coherent, objectVars
  <2>4. QED
    BY <1>5, <2>2, <2>3 DEF Reschedule
<1>6. QED
  BY <1>1, <1>2, <1>3, <1>4, <1>5 DEF HostStep

LEMMA StepCoherent == Coherent /\ [Next]_vars => Coherent'
<1> SUFFICES ASSUME Coherent, [Next]_vars PROVE Coherent'
  OBVIOUS
<1>1. CASE UNCHANGED vars
  BY <1>1 DEF Coherent, TypeOK, ObjectsTypeOK, ThreadsCoherent, WakeCoherent, Parked, vars,
              objectVars, threadVars, wakeVars
<1>2. CASE Stopped
  BY <1>1, <1>2 DEF Stopped
<1>3. QED
  BY <1>1, <1>2, ObjectCallCoherent, ThreadCallCoherent, HostStepCoherent DEF Next

(* The runtime's tables always hold values of their types.                  *)
THEOREM TypeCorrect == Spec => []TypeOK
<1>1. Init => Coherent
  BY InitCoherent
<1>2. Coherent /\ [Next]_vars => Coherent'
  BY StepCoherent
<1>3. Coherent => TypeOK
  BY DEF Coherent
<1>4. QED
  BY <1>1, <1>2, <1>3, PTL DEF Spec

(* One running thread, and waits, completions and suspensions only where    *)
(* switch_to and complete_wait expect them.                                 *)
THEOREM ThreadsStayCoherent == Spec => [](ThreadsCoherent /\ WakeCoherent)
<1>1. Coherent => ThreadsCoherent /\ WakeCoherent
  BY DEF Coherent
<1>2. QED
  BY <1>1, InitCoherent, StepCoherent, PTL DEF Spec

-----------------------------------------------------------------------------
(***************************************************************************)
(* No wake-up is lost: proofs of NoLostWakeup, StuckIsDeadlock and         *)
(* PoisonIsForever of GuestScheduler for any number of threads and objects.*)
(*                                                                         *)
(* The argument.  A step treats the objects quietly for thread t when no   *)
(* handle that t may be parked on becomes signalled by it (ObjectQuiet).   *)
(* Every step is quiet for every parked thread, except SetEvent,           *)
(* ReleaseMutex and ExitThread, which start a wake pass over all parked    *)
(* threads.  The pass keeps for each thread it has visited and not         *)
(* satisfied that its wait cannot be taken (PassSound): later visits only  *)
(* consume.  A handle that is closed stays closed (ObjectFrame), so a      *)
(* poisoned thread stays poisoned and the claim stays void from then on.   *)
(***************************************************************************)

(* What every step does to the objects: handles are never handed out twice. *)
ObjectFrame ==
    /\ issued \subseteq issued'
    /\ \A e \in Events : events'[e].refs > 0 =>
          e \in issued' /\ (e \in issued => events[e].refs > 0)
    /\ \A m \in Mutexes : mutexes'[m].refs > 0 =>
          m \in issued' /\ (m \in issued => mutexes[m].refs > 0)

(* No live object that t may know becomes signalled for t.                  *)
ObjectQuiet(t) ==
    /\ \A e \in Events :
          e \in issued /\ events'[e].refs > 0 /\ events'[e].signaled => events[e].signaled
    /\ \A m \in Mutexes :
          m \in issued /\ mutexes'[m].refs > 0 /\ mutexes'[m].owner \in {NoThread, t} =>
              mutexes[m].owner \in {NoThread, t}

Issued ==
    /\ \A e \in Events : events[e].refs > 0 => e \in issued
    /\ \A m \in Mutexes : mutexes[m].refs > 0 => m \in issued

-----------------------------------------------------------------------------
(* The operations of KernelObjects.                                         *)

LEMMA UnchangedFrame ==
    ASSUME Issued, UNCHANGED <<events, mutexes, issued>>
    PROVE  ObjectFrame /\ \A t \in Threads : ObjectQuiet(t)
BY DEF Issued, ObjectFrame, ObjectQuiet

LEMMA TakeFrame ==
    ASSUME ObjectsTypeOK, Issued, NEW hs \in Seq(Handles), NEW t \in Threads, Take(hs, t)
    PROVE  ObjectFrame /\ \A u \in Threads \ {t} : ObjectQuiet(u)
<1>1. ASSUME NEW e \in Events
      PROVE  events'[e].refs = events[e].refs /\ (events'[e].signaled => events[e].signaled)
  BY DEF Take, ObjectsTypeOK, Event
<1>2. ASSUME NEW m \in Mutexes
      PROVE  /\ mutexes'[m].refs = mutexes[m].refs
             /\ mutexes'[m].owner = mutexes[m].owner \/ mutexes'[m].owner = t
  BY DEF Take, ObjectsTypeOK, Mutex
<1>3. issued' = issued
  BY DEF Take
<1>4. t # NoThread
  BY DEF Threads, NoThread
<1>5. ObjectFrame
  BY <1>1, <1>2, <1>3 DEF ObjectFrame, Issued
<1>6. ASSUME NEW u \in Threads \ {t} PROVE ObjectQuiet(u)
  BY <1>1, <1>2, <1>3, <1>4 DEF ObjectQuiet
<1>7. QED
  BY <1>5, <1>6

LEMMA SatisfyFrame ==
    ASSUME ObjectsTypeOK, Issued, NEW w \in Wait, NEW t \in Threads, NEW ended, NEW r \in Nat,
           Satisfy(w, t, ended, r)
    PROVE  /\ ObjectFrame /\ \A u \in Threads \ {t} : ObjectQuiet(u)
           /\ UNCHANGED threadHandles
<1>1. w.handles \in Seq(Handles)
  BY DEF Wait
<1>2. CASE Take(w.handles, t)
  BY <1>1, <1>2, TakeFrame DEF Take
<1>3. CASE r + 1 \in DOMAIN w.handles /\ Take(<<w.handles[r + 1]>>, t)
  <2>1. <<w.handles[r + 1]>> \in Seq(Handles)
    BY <1>1, <1>3
  <2>2. QED
    BY <2>1, <1>3, TakeFrame DEF Take
<1>4. QED
  BY <1>2, <1>3 DEF Satisfy

LEMMA CreateEventFrame ==
    ASSUME ObjectsTypeOK, Issued, NEW n \in Names \cup {NoName}, NEW b1 \in BOOLEAN,
           NEW b2 \in BOOLEAN, CreateEvent(n, b1, b2)
    PROVE  ObjectFrame /\ \A t \in Threads : ObjectQuiet(t)
<1>1. UNCHANGED mutexes
  BY DEF CreateEvent
<1>2. CASE n # NoName /\ eventNames[n] # NoHandle
  <2> DEFINE e == eventNames[n]
  <2>1. e \in Events /\ events[e].refs > 0 /\ events[e] \in Event
    BY <1>2 DEF CreateEvent, ObjectsTypeOK
  <2>2. events' = [events EXCEPT ![e].refs = @ + 1] /\ issued' = issued
    BY <1>2 DEF CreateEvent
  <2>3. \A f \in Events : events'[f].signaled = events[f].signaled
                          /\ (events'[f].refs > 0 => events[f].refs > 0)
    BY <2>1, <2>2 DEF ObjectsTypeOK, Event
  <2>4. QED
    BY <1>1, <2>2, <2>3 DEF ObjectFrame, ObjectQuiet, Issued
<1>3. CASE n # NoName => eventNames[n] = NoHandle
  <2>1. PICK e \in Events \ issued :
          /\ events' = [events EXCEPT ![e] =
                [refs |-> 1, manual |-> b1, signaled |-> b2, name |-> n]]
          /\ issued' = issued \cup {e}
    BY <1>3 DEF CreateEvent
  <2>2. \A f \in Events : f # e => events'[f] = events[f]
    BY <2>1 DEF ObjectsTypeOK
  <2>3. QED
    BY <1>1, <2>1, <2>2 DEF ObjectFrame, ObjectQuiet, Issued
<1>4. QED
  BY <1>2, <1>3

LEMMA CreateMutexFrame ==
    ASSUME ObjectsTypeOK, Issued, NEW n \in Names \cup {NoName}, NEW b \in BOOLEAN,
           NEW u \in Threads, CreateMutex(n, b, u)
    PROVE  ObjectFrame /\ \A t \in Threads : ObjectQuiet(t)
<1>1. UNCHANGED events
  BY DEF CreateMutex
<1>2. CASE n # NoName /\ mutexNames[n] # NoHandle
  <2> DEFINE m == mutexNames[n]
  <2>1. m \in Mutexes /\ mutexes[m].refs > 0 /\ mutexes[m] \in Mutex
    BY <1>2 DEF CreateMutex, ObjectsTypeOK
  <2>2. mutexes' = [mutexes EXCEPT ![m].refs = @ + 1] /\ issued' = issued
    BY <1>2 DEF CreateMutex
  <2>3. \A k \in Mutexes : mutexes'[k].owner = mutexes[k].owner
                           /\ (mutexes'[k].refs > 0 => mutexes[k].refs > 0)
    BY <2>1, <2>2 DEF ObjectsTypeOK, Mutex
  <2>4. QED
    BY <1>1, <2>2, <2>3 DEF ObjectFrame, ObjectQuiet, Issued
<1>3. CASE n # NoName => mutexNames[n] = NoHandle
  <2>1. PICK m \in Mutexes \ issued :
          /\ \E x : mutexes' = [mutexes EXCEPT ![m] = x]
          /\ issued' = issued \cup {m}
    BY <1>3 DEF CreateMutex
  <2>2. \A k \in Mutexes : k # m => mutexes'[k] = mutexes[k]
    BY <2>1 DEF ObjectsTypeOK
  <2>3. QED
    BY <1>1, <2>1, <2>2 DEF ObjectFrame, ObjectQuiet, Issued
<1>4. QED
  BY <1>2, <1>3

LEMMA SetStateFrame ==
    ASSUME ObjectsTypeOK, Issued, NEW e \in Events, NEW b \in BOOLEAN, SetState(e, b)
    PROVE  ObjectFrame /\ (~b => \A t \in Threads : ObjectQuiet(t))
<1>1. UNCHANGED <<mutexes, issued>>
  BY DEF SetState
<1>2. \A f \in Events : events'[f].refs = events[f].refs
                        /\ (~b /\ events'[f].signaled => events[f].signaled)
  BY DEF SetState, ObjectsTypeOK, Event
<1>3. QED
  BY <1>1, <1>2 DEF ObjectFrame, ObjectQuiet, Issued

LEMMA ReleaseFrame ==
    ASSUME ObjectsTypeOK, Issued, NEW m \in Mutexes, NEW t \in Threads, Release(m, t)
    PROVE  ObjectFrame
<1>1. UNCHANGED <<events, issued>>
  BY DEF Release
<1>2. \A k \in Mutexes : mutexes'[k].refs = mutexes[k].refs
  BY DEF Release, ObjectsTypeOK, Mutex
<1>3. QED
  BY <1>1, <1>2 DEF ObjectFrame, Issued

LEMMA CloseEventFrame ==
    ASSUME ObjectsTypeOK, Issued, NEW e \in Events, CloseEvent(e)
    PROVE  ObjectFrame /\ \A t \in Threads : ObjectQuiet(t)
<1>1. UNCHANGED <<mutexes, issued>>
  BY DEF CloseEvent
<1>2. \A f \in Events : (events'[f].refs > 0 => events[f].refs > 0)
                        /\ (events'[f].signaled => events[f].signaled)
  BY DEF CloseEvent, ObjectsTypeOK, Event, AbsentEvent
<1>3. QED
  BY <1>1, <1>2 DEF ObjectFrame, ObjectQuiet, Issued

LEMMA CloseMutexFrame ==
    ASSUME ObjectsTypeOK, Issued, NEW m \in Mutexes, CloseMutex(m)
    PROVE  ObjectFrame /\ \A t \in Threads : ObjectQuiet(t)
<1>1. UNCHANGED <<events, issued>>
  BY DEF CloseMutex
<1>2. \A k \in Mutexes : mutexes'[k].refs > 0 =>
          mutexes[k].refs > 0 /\ mutexes'[k].owner = mutexes[k].owner
  BY DEF CloseMutex, ObjectsTypeOK, Mutex, AbsentMutex
<1>3. QED
  BY <1>1, <1>2 DEF ObjectFrame, ObjectQuiet, Issued

-----------------------------------------------------------------------------
(* One step, seen by the parked threads.                                    *)

StepFrame ==
    /\ ObjectFrame
    /\ \A u \in threadHandles' :
          u \in threadHandles \/ (u \in Threads /\ tstate[u] = "Unborn")
    /\ \A u \in Threads : tstate[u] # "Unborn" => tstate'[u] # "Unborn"

PoisonKept == \A t \in Threads : Poisoned(t) => Poisoned(t)'

LEMMA HandleStep ==
    ASSUME ObjectsTypeOK, StepFrame, NEW h \in Handles, Known(h)
    PROVE  /\ Known(h)'
           /\ Valid(h)' => Valid(h)
           /\ \A t \in Threads :
                 ObjectQuiet(t) /\ Ended' = Ended /\ Valid(h)' /\ Signalled(h, t, Ended)' =>
                     Signalled(h, t, Ended)
<1> USE ObjectsAssumption
<1>1. CASE h \in Events
  <2>1. h \notin Mutexes /\ h \notin Threads /\ h \in issued
    BY <1>1 DEF Known
  <2>2. Known(h)' /\ (Valid(h)' => Valid(h))
    BY <1>1, <2>1 DEF Known, Valid, StepFrame, ObjectFrame, ObjectsTypeOK
  <2>3. ASSUME NEW t \in Threads, ObjectQuiet(t), Valid(h)', Signalled(h, t, Ended)'
        PROVE  Signalled(h, t, Ended)
    <3>1. h \notin threadHandles'
      BY <2>1 DEF StepFrame, ObjectsTypeOK
    <3>2. events'[h].refs > 0
      BY <1>1, <2>1, <2>3, <3>1 DEF Valid
    <3>3. QED
      BY <1>1, <2>1, <2>3, <3>2 DEF Signalled, ObjectQuiet
  <2>4. QED
    BY <2>2, <2>3
<1>2. CASE h \in Mutexes
  <2>1. h \notin Events /\ h \notin Threads /\ h \in issued
    BY <1>2 DEF Known
  <2>2. Known(h)' /\ (Valid(h)' => Valid(h))
    BY <1>2, <2>1 DEF Known, Valid, StepFrame, ObjectFrame, ObjectsTypeOK
  <2>3. ASSUME NEW t \in Threads, ObjectQuiet(t), Valid(h)', Signalled(h, t, Ended)'
        PROVE  Signalled(h, t, Ended)
    <3>1. h \notin threadHandles'
      BY <2>1 DEF StepFrame, ObjectsTypeOK
    <3>2. mutexes'[h].refs > 0
      BY <1>2, <2>1, <2>3, <3>1 DEF Valid
    <3>3. QED
      BY <1>2, <2>1, <2>3, <3>2 DEF Signalled, ObjectQuiet
  <2>4. QED
    BY <2>2, <2>3
<1>3. CASE h \in Threads
  <2>1. h \notin Events /\ h \notin Mutexes /\ h \notin issued /\ tstate[h] # "Unborn"
    BY <1>3 DEF Known, ObjectsTypeOK
  <2>2. Known(h)' /\ (Valid(h)' => Valid(h))
    BY <1>3, <2>1 DEF Known, Valid, StepFrame
  <2>3. ASSUME NEW t \in Threads, Ended' = Ended, Signalled(h, t, Ended)'
        PROVE  Signalled(h, t, Ended)
    BY <1>3, <2>1, <2>3 DEF Signalled
  <2>4. QED
    BY <2>2, <2>3
<1>4. QED
  BY <1>1, <1>2, <1>3 DEF Handles

(* A thread that stays parked: a handle of its wait that is closed stays    *)
(* closed, and a quiet step does not let it take its wait.                  *)
LEMMA ParkedStep ==
    ASSUME TypeOK, HandlesKnown, StepFrame, NEW t \in Parked, t \in Parked',
           pending'[t] = pending[t]
    PROVE  /\ \A i \in DOMAIN pending'[t].handles : Known(pending[t].handles[i])'
           /\ Poisoned(t) => Poisoned(t)'
           /\ ObjectQuiet(t) /\ Ended' = Ended /\ ~Poisoned(t)'
                 /\ Satisfiable(pending[t], t, Ended)' => Satisfiable(pending[t], t, Ended)
<1>1. t \in Threads /\ ObjectsTypeOK
  BY DEF Parked, TypeOK
<1>2. PICK w \in Wait : w = pending[t]
  BY <1>1 DEF Parked, TypeOK
<1>3. \A i \in DOMAIN w.handles : w.handles[i] \in Handles
  BY <1>2 DEF Wait
<1>4. \A i \in DOMAIN w.handles : Known(w.handles[i])
  BY <1>2 DEF HandlesKnown
<1>5. \A i \in DOMAIN w.handles : Known(w.handles[i])'
  BY <1>1, <1>3, <1>4, HandleStep
<1>6. \A i \in DOMAIN w.handles : Valid(w.handles[i])' => Valid(w.handles[i])
  BY <1>1, <1>3, <1>4, HandleStep
<1>7. Poisoned(t) => Poisoned(t)'
  BY <1>2, <1>6 DEF Poisoned, AllValid
<1>8. ASSUME ObjectQuiet(t), Ended' = Ended, ~Poisoned(t)', Satisfiable(w, t, Ended)'
      PROVE  Satisfiable(w, t, Ended)
  <2>1. \A i \in DOMAIN w.handles : Valid(w.handles[i])'
    BY <1>2, <1>8 DEF Poisoned, AllValid
  <2>2. \A i \in DOMAIN w.handles :
           Signalled(w.handles[i], t, Ended)' => Signalled(w.handles[i], t, Ended)
    BY <1>1, <1>3, <1>4, <1>8, <2>1, HandleStep
  <2>3. QED
    BY <1>8, <2>2 DEF Satisfiable
<1>9. QED
  BY <1>2, <1>5, <1>7, <1>8 DEF Satisfiable

(* A step that parks and releases nobody.                                   *)
LEMMA StepSound ==
    ASSUME TypeOK, WakeInvariant, StepFrame, GrantsValid',
           Parked' = Parked, \A t \in Parked : pending'[t] = pending[t],
           \/ Parked \subseteq scan'
           \/ \E t \in Threads : Poisoned(t)
           \/ /\ Ended' = Ended
              /\ \A t \in Parked \ scan' : grants'[t] = Pending =>
                    /\ ObjectQuiet(t)
                    /\ grants[t] = Pending
                    /\ t \in scan => ~Satisfiable(pending[t], t, Ended)
    PROVE  WakeInvariant' /\ PoisonKept
<1>1. Parked \subseteq Threads
  BY DEF Parked
<1>2. HandlesKnown /\ PassSound
  BY DEF WakeInvariant
<1>3. PoisonKept
  <2>1. SUFFICES ASSUME NEW t \in Threads, Poisoned(t) PROVE Poisoned(t)'
    BY DEF PoisonKept
  <2>2. t \in Parked
    BY <2>1 DEF Poisoned
  <2>3. QED
    BY <1>2, <2>1, <2>2, ParkedStep
<1>4. HandlesKnown'
  <2>1. \A t \in Parked' : \A i \in DOMAIN pending'[t].handles : Known(pending[t].handles[i])'
    BY <1>2, ParkedStep
  <2>2. QED
    BY <2>1 DEF HandlesKnown, StepFrame, ObjectFrame
<1>5. PassSound'
  <2>1. SUFFICES ASSUME \A t \in Threads : ~Poisoned(t)',
                        NEW t \in Parked' \ scan', grants'[t] = Pending,
                        Satisfiable(pending[t], t, Ended)'
                 PROVE  FALSE
    BY DEF PassSound
  <2>2. t \in Parked /\ t \in Threads /\ pending'[t] = pending[t] /\ t \in Parked'
    BY <1>1, <2>1
  <2>3. \A u \in Threads : ~Poisoned(u)
    BY <1>3, <2>1 DEF PoisonKept
  <2>4. /\ Ended' = Ended
        /\ ObjectQuiet(t)
        /\ grants[t] = Pending
        /\ t \in scan => ~Satisfiable(pending[t], t, Ended)
    BY <2>1, <2>2, <2>3
  <2>5. Satisfiable(pending[t], t, Ended)
    BY <1>2, <2>1, <2>2, <2>4, ParkedStep
  <2>6. QED
    BY <1>2, <2>2, <2>3, <2>4, <2>5 DEF PassSound
<1>6. QED
  BY <1>3, <1>4, <1>5 DEF WakeInvariant

-----------------------------------------------------------------------------
(* The steps of the scheduler.                                              *)

LEMMA NoGrantsPending == \A t \in Threads : NoGrants[t] = Pending
BY DEF NoGrants

LEMMA IssuedHolds == ASSUME WakeInvariant PROVE Issued
BY DEF WakeInvariant, HandlesKnown, Issued

(* A host call that leaves the threads alone.                               *)
LEMMA CallSound ==
    ASSUME Coherent, WakeInvariant, pc # "wake", ObjectFrame,
           \A u \in threadHandles' : u \in threadHandles,
           UNCHANGED <<tstate, pending>>, grants' = NoGrants,
           \/ scan' = Parked
           \/ scan' = scan /\ \A t \in Parked : ObjectQuiet(t)
    PROVE  WakeInvariant' /\ PoisonKept
<1>1. TypeOK /\ grants = NoGrants /\ scan = {}
  BY DEF Coherent, WakeCoherent
<1>2. StepFrame
  BY DEF StepFrame
<1>3. Parked' = Parked /\ Ended' = Ended /\ \A t \in Parked : pending'[t] = pending[t]
  BY DEF Parked, Ended
<1>4. GrantsValid'
  BY NoGrantsPending DEF GrantsValid
<1>5. \A t \in Parked : grants[t] = Pending
  BY <1>1, NoGrantsPending DEF Parked
<1>6. QED
  BY <1>1, <1>2, <1>3, <1>4, <1>5, StepSound

LEMMA ObjectCallSound ==
    ASSUME Coherent, WakeInvariant, ObjectCall
    PROVE  WakeInvariant' /\ PoisonKept
<1>1. ObjectsTypeOK /\ Issued /\ current \in Threads
  BY IssuedHolds DEF Coherent, TypeOK
<1>2. Parked \subseteq Threads /\ (pc = "guest" => grants = NoGrants)
  BY DEF Parked, Coherent, WakeCoherent
<1>3. ASSUME NEW n \in Names \cup {NoName}, NEW b1 \in BOOLEAN, NEW b2 \in BOOLEAN,
             CreateEventA(n, b1, b2)
      PROVE  WakeInvariant' /\ PoisonKept
  <2>1. ObjectFrame /\ \A t \in Threads : ObjectQuiet(t)
    BY <1>1, <1>3, CreateEventFrame DEF CreateEventA
  <2>2. pc = "guest" /\ UNCHANGED <<tstate, pending, grants, scan, threadHandles>>
    BY <1>3 DEF CreateEventA, CreateEvent, threadVars, wakeVars
  <2>3. QED
    BY <1>2, <2>1, <2>2, CallSound
<1>4. ASSUME NEW n \in Names \cup {NoName}, NEW b \in BOOLEAN, CreateMutexA(n, b)
      PROVE  WakeInvariant' /\ PoisonKept
  <2>1. ObjectFrame /\ \A t \in Threads : ObjectQuiet(t)
    BY <1>1, <1>4, CreateMutexFrame DEF CreateMutexA
  <2>2. pc = "guest" /\ UNCHANGED <<tstate, pending, grants, scan, threadHandles>>
    BY <1>4 DEF CreateMutexA, CreateMutex, threadVars, wakeVars
  <2>3. QED
    BY <1>2, <2>1, <2>2, CallSound
<1>5. ASSUME NEW e \in Events, SetEvent(e)
      PROVE  WakeInvariant' /\ PoisonKept
  <2>1. ObjectFrame
    BY <1>1, <1>5, SetStateFrame DEF SetEvent
  <2>2. /\ pc = "guest" /\ UNCHANGED <<tstate, pending, threadHandles>>
        /\ grants' = NoGrants /\ scan' = Parked
    BY <1>5 DEF SetEvent, SetState, BeginWake, threadVars
  <2>3. QED
    BY <2>1, <2>2, CallSound
<1>6. ASSUME NEW e \in Events, ResetEvent(e)
      PROVE  WakeInvariant' /\ PoisonKept
  <2>1. ObjectFrame /\ \A t \in Threads : ObjectQuiet(t)
    BY <1>1, <1>6, SetStateFrame DEF ResetEvent
  <2>2. pc = "guest" /\ UNCHANGED <<tstate, pending, grants, scan, threadHandles>>
    BY <1>6 DEF ResetEvent, SetState, threadVars, wakeVars
  <2>3. QED
    BY <1>2, <2>1, <2>2, CallSound
<1>7. ASSUME NEW m \in Mutexes, ReleaseMutex(m)
      PROVE  WakeInvariant' /\ PoisonKept
  <2>1. ObjectFrame
    BY <1>1, <1>7, ReleaseFrame DEF ReleaseMutex
  <2>2. /\ pc = "guest" /\ UNCHANGED <<tstate, pending, threadHandles>>
        /\ grants' = NoGrants /\ scan' = Parked
    BY <1>7 DEF ReleaseMutex, Release, BeginWake, threadVars
  <2>3. QED
    BY <2>1, <2>2, CallSound
<1>8. ASSUME NEW h \in Handles, CloseHandle(h)
      PROVE  WakeInvariant' /\ PoisonKept
  <2>1. pc = "guest" /\ UNCHANGED <<tstate, pending, grants, scan>>
    BY <1>8 DEF CloseHandle, threadVars, wakeVars
  <2>2. CASE h \in Events /\ CloseEvent(h)
    <3>1. ObjectFrame /\ \A t \in Threads : ObjectQuiet(t)
      BY <1>1, <2>2, CloseEventFrame
    <3>2. threadHandles' = threadHandles
      BY <2>2 DEF CloseEvent
    <3>3. QED
      BY <1>2, <2>1, <3>1, <3>2, CallSound
  <2>3. CASE h \in Mutexes /\ CloseMutex(h)
    <3>1. ObjectFrame /\ \A t \in Threads : ObjectQuiet(t)
      BY <1>1, <2>3, CloseMutexFrame
    <3>2. threadHandles' = threadHandles
      BY <2>3 DEF CloseMutex
    <3>3. QED
      BY <1>2, <2>1, <3>1, <3>2, CallSound
  <2>4. CASE h \in Threads /\ CloseThreadHandle(h)
    <3>1. UNCHANGED <<events, mutexes, issued>>
      BY <2>4 DEF CloseThreadHandle
    <3>2. ObjectFrame /\ \A t \in Threads : ObjectQuiet(t)
      BY <1>1, <3>1, UnchangedFrame
    <3>3. \A u \in threadHandles' : u \in threadHandles
      BY <2>4 DEF CloseThreadHandle
    <3>4. QED
      BY <1>2, <2>1, <3>2, <3>3, CallSound
  <2>5. QED
    BY <1>8, <2>2, <2>3, <2>4 DEF CloseHandle
<1>9. QED
  BY <1>3, <1>4, <1>5, <1>6, <1>7, <1>8 DEF ObjectCall

(* The objects stay as they are and nobody is parked or released.           *)
LEMMA IdleSound ==
    ASSUME Coherent, WakeInvariant, UNCHANGED objectVars, Parked' = Parked, Ended' = Ended,
           \A t \in Parked : pending'[t] = pending[t],
           \A u \in Threads : tstate[u] # "Unborn" => tstate'[u] # "Unborn",
           UNCHANGED grants,
           \A t \in scan \ scan' : ~Satisfiable(pending[t], t, Ended)
    PROVE  WakeInvariant' /\ PoisonKept
<1>1. TypeOK /\ Parked \subseteq Threads
  BY DEF Coherent, Parked
<1>2. ObjectFrame /\ \A t \in Threads : ObjectQuiet(t)
  BY IssuedHolds, UnchangedFrame DEF objectVars
<1>3. StepFrame
  BY <1>2 DEF StepFrame, objectVars
<1>4. GrantsValid'
  <2>1. SUFFICES ASSUME NEW t \in Threads, grants[t] # Pending PROVE AllValid(pending[t])'
    BY DEF GrantsValid
  <2>2. t \in Parked /\ AllValid(pending[t])
    BY <2>1 DEF WakeInvariant, GrantsValid, Coherent, WakeCoherent
  <2>3. QED
    BY <2>2 DEF AllValid, Valid, objectVars
<1>5. QED
  BY <1>1, <1>2, <1>3, <1>4, StepSound

LEMMA WaitBlocksSound ==
    ASSUME Coherent, WakeInvariant, NEW w \in Waits, WaitBlocks(w)
    PROVE  WakeInvariant' /\ PoisonKept
<1>1. /\ TypeOK /\ current \in Threads /\ grants = NoGrants /\ scan = {}
      /\ pc = "guest" /\ tstate[current] = "Running"
  BY RunningThread DEF Coherent, TypeOK, WakeCoherent, WaitBlocks
<1>2. UNCHANGED <<objectVars, scan, grants>>
  BY DEF WaitBlocks, wakeVars
<1>3. /\ AllValid(w) /\ ~Satisfiable(w, current, Ended)
      /\ w \in Wait /\ w # Pending
  BY SchedulerAssumption DEF WaitBlocks
<1>4. /\ pending' = [pending EXCEPT ![current] = w]
      /\ tstate'[current] = "Waiting"
      /\ \A t \in Threads \ {current} :
            \/ tstate'[t] = tstate[t]
            \/ Runnable(t) /\ tstate'[t] = "Running"
  <2>1. CASE pc' = "stuck" /\ tstate' = [tstate EXCEPT ![current] = "Waiting"]
             /\ pending' = [pending EXCEPT ![current] = w]
    BY <1>1, <2>1 DEF TypeOK
  <2>2. ASSUME NEW next \in Threads, Picked(next),
               SwitchTo(next, [tstate EXCEPT ![current] = "Waiting"],
                        [pending EXCEPT ![current] = w],
                        [completed EXCEPT ![current] = Pending])
        PROVE  <1>4!1 /\ <1>4!2 /\ <1>4!3
    BY <1>1, <2>2 DEF SwitchTo, Picked, Runnable, TypeOK
  <2>3. QED
    BY <2>1, <2>2 DEF WaitBlocks
<1>5. /\ current \notin Parked
      /\ Parked' = Parked \cup {current}
      /\ Ended' = Ended
      /\ pending'[current] = w
      /\ \A t \in Parked : pending'[t] = pending[t]
  BY <1>1, <1>3, <1>4 DEF Parked, Ended, Runnable, TypeOK
<1>6. ObjectFrame /\ \A t \in Threads : ObjectQuiet(t)
  BY <1>2, IssuedHolds, UnchangedFrame DEF objectVars
<1>7. StepFrame
  BY <1>2, <1>4, <1>5, <1>6 DEF StepFrame, objectVars, Runnable
<1>8. HandlesKnown /\ PassSound /\ Parked \subseteq Threads
  BY DEF WakeInvariant, Parked
<1>9. PoisonKept
  BY <1>1, <1>5, <1>7, <1>8, ParkedStep DEF PoisonKept, Poisoned
<1>10. HandlesKnown'
  <2>1. \A t \in Parked : \A i \in DOMAIN pending'[t].handles : Known(pending[t].handles[i])'
    BY <1>1, <1>5, <1>7, <1>8, ParkedStep
  <2>2. ASSUME NEW i \in DOMAIN w.handles PROVE Known(w.handles[i])'
    <3>1. w.handles[i] \in Handles /\ Valid(w.handles[i])
      BY <1>3 DEF Wait, AllValid
    <3>2. Known(w.handles[i])
      BY <1>1, <1>8, <3>1 DEF Valid, Known, HandlesKnown, Coherent, ThreadsCoherent
    <3>3. ObjectsTypeOK
      BY <1>1 DEF TypeOK
    <3>4. QED
      BY <1>7, <3>1, <3>2, <3>3, HandleStep
  <2>3. \A e \in Events : events'[e].refs > 0 => e \in issued'
    BY <1>6 DEF ObjectFrame
  <2>4. \A m \in Mutexes : mutexes'[m].refs > 0 => m \in issued'
    BY <1>6 DEF ObjectFrame
  <2>5. QED
    BY <1>5, <2>1, <2>2, <2>3, <2>4 DEF HandlesKnown
<1>11. GrantsValid'
  BY <1>1, <1>2, NoGrantsPending DEF GrantsValid
<1>12. PassSound'
  <2>1. SUFFICES ASSUME \A t \in Threads : ~Poisoned(t)', NEW t \in Parked',
                        Satisfiable(pending[t], t, Ended)'
                 PROVE  FALSE
    BY DEF PassSound
  <2>2. \A u \in Threads : ~Poisoned(u)
    BY <1>9, <2>1 DEF PoisonKept
  <2>3. CASE t = current
    BY <1>2, <1>3, <1>5, <2>1, <2>3 DEF Satisfiable, Signalled, objectVars
  <2>4. CASE t \in Parked
    <3>1. t \in Threads /\ grants[t] = Pending
      BY <1>1, <1>8, <2>4, NoGrantsPending
    <3>2. Satisfiable(pending[t], t, Ended)
      BY <1>1, <1>5, <1>6, <1>7, <1>8, <2>1, <2>4, <3>1, ParkedStep
    <3>3. QED
      BY <1>1, <1>8, <2>2, <2>4, <3>1, <3>2 DEF PassSound
  <2>5. QED
    BY <1>5, <2>3, <2>4
<1>13. QED
  BY <1>9, <1>10, <1>11, <1>12 DEF WakeInvariant

LEMMA ThreadCallSound ==
    ASSUME Coherent, WakeInvariant, ThreadCall
    PROVE  WakeInvariant' /\ PoisonKept
<1>1. TypeOK /\ ObjectsTypeOK /\ Issued /\ current \in Threads /\ Parked \subseteq Threads
  BY IssuedHolds DEF Coherent, TypeOK, Parked
<1>2. pc = "guest" => grants = NoGrants /\ scan = {} /\ current \notin Parked
  BY RunningThread DEF Coherent, WakeCoherent, Parked
<1>3. ASSUME NEW b \in BOOLEAN, CreateThread(b)
      PROVE  WakeInvariant' /\ PoisonKept
  <2>1. PICK t \in Threads :
           /\ tstate[t] = "Unborn"
           /\ tstate' = [tstate EXCEPT ![t] = "Ready"]
           /\ threadHandles' = threadHandles \cup {t}
    BY <1>3 DEF CreateThread
  <2>2. pc = "guest" /\ UNCHANGED <<events, mutexes, issued, pending, grants, scan>>
    BY <1>3 DEF CreateThread, wakeVars
  <2>3. ObjectFrame /\ \A u \in Threads : ObjectQuiet(u)
    BY <1>1, <2>2, UnchangedFrame
  <2>4. \A u \in Threads : u = t \/ tstate'[u] = tstate[u]
    BY <2>1 DEF TypeOK
  <2>5. tstate'[t] = "Ready"
    BY <1>1, <2>1 DEF TypeOK
  <2>6. Parked' = Parked /\ Ended' = Ended
    BY <2>1, <2>2, <2>4, <2>5 DEF Parked, Ended
  <2>7. StepFrame
    BY <2>1, <2>3, <2>4, <2>5 DEF StepFrame
  <2>8. GrantsValid'
    BY <1>2, <2>2, NoGrantsPending DEF GrantsValid
  <2>9. QED
    BY <1>1, <1>2, <2>2, <2>3, <2>6, <2>7, <2>8, NoGrantsPending, StepSound
<1>4. ASSUME NEW t \in Threads, ResumeThread(t)
      PROVE  WakeInvariant' /\ PoisonKept
  BY <1>4, IdleSound DEF ResumeThread, Parked, Ended, wakeVars
<1>5. ASSUME NEW w \in Waits, WaitSatisfied(w)
      PROVE  WakeInvariant' /\ PoisonKept
  <2>1. PICK result \in 0..(Len(w.handles) - 1) : Satisfy(w, current, Ended, result)
    BY <1>5 DEF WaitSatisfied
  <2>2. w \in Wait /\ result \in Nat
    BY SchedulerAssumption
  <2>3. /\ ObjectFrame
        /\ \A u \in Threads \ {current} : ObjectQuiet(u)
        /\ UNCHANGED threadHandles
    BY <1>1, <2>1, <2>2, SatisfyFrame
  <2>4. pc = "guest" /\ UNCHANGED <<tstate, pending, grants, scan>>
    BY <1>5 DEF WaitSatisfied, threadVars, wakeVars
  <2>5. \A u \in Parked : ObjectQuiet(u)
    BY <1>1, <1>2, <2>3, <2>4
  <2>6. QED
    BY <1>2, <2>3, <2>4, <2>5, CallSound
<1>6. ASSUME NEW w \in Waits, WaitBlocks(w)
      PROVE  WakeInvariant' /\ PoisonKept
  BY <1>6, WaitBlocksSound
<1>7. ASSUME ExitThread
      PROVE  WakeInvariant' /\ PoisonKept
  <2>1. /\ pc = "guest"
        /\ tstate' = [tstate EXCEPT ![current] = "Terminated"]
        /\ pending' = [pending EXCEPT ![current] = Pending]
        /\ scan' = Parked /\ grants' = NoGrants
        /\ UNCHANGED objectVars
    BY <1>7 DEF ExitThread, BeginWake
  <2>2. tstate'[current] = "Terminated" /\ tstate[current] = "Running"
    BY <1>1, <2>1, RunningThread DEF TypeOK
  <2>3. \A u \in Threads : u # current => tstate'[u] = tstate[u] /\ pending'[u] = pending[u]
    BY <2>1 DEF TypeOK
  <2>4. Parked' = Parked /\ \A u \in Parked : pending'[u] = pending[u]
    BY <1>1, <1>2, <2>1, <2>2, <2>3 DEF Parked
  <2>5. StepFrame
    BY <1>1, <2>1, <2>2, <2>3, UnchangedFrame DEF StepFrame, objectVars
  <2>6. GrantsValid'
    BY <2>1, NoGrantsPending DEF GrantsValid
  <2>7. QED
    BY <1>1, <2>1, <2>4, <2>5, <2>6, StepSound
<1>8. CASE ExitProcess \/ EnterCallback \/ LeaveCallbacks \/ BlockInCallback
  BY <1>8, IdleSound
     DEF ExitProcess, EnterCallback, LeaveCallbacks, BlockInCallback, Parked, Ended,
         threadVars, wakeVars
<1>9. QED
  BY <1>3, <1>4, <1>5, <1>6, <1>7, <1>8 DEF ThreadCall

LEMMA TakeValid ==
    ASSUME ObjectsTypeOK, NEW hs, NEW t, Take(hs, t), NEW h, Valid(h)
    PROVE  Valid(h)'
<1>1. threadHandles' = threadHandles
  BY DEF Take
<1>2. \A e \in Events : events'[e].refs = events[e].refs
  BY DEF Take, ObjectsTypeOK, Event
<1>3. \A m \in Mutexes : mutexes'[m].refs = mutexes[m].refs
  BY DEF Take, ObjectsTypeOK, Mutex
<1>4. QED
  BY <1>1, <1>2, <1>3 DEF Valid

LEMMA VisitSatisfiedSound ==
    ASSUME Coherent, WakeInvariant, NEW t \in Threads, VisitSatisfied(t)
    PROVE  WakeInvariant' /\ PoisonKept
<1>1. TypeOK /\ ObjectsTypeOK /\ Issued /\ Parked \subseteq Threads
  BY IssuedHolds DEF Coherent, TypeOK, Parked
<1>2. PICK result \in 0..(Len(pending[t].handles) - 1) :
         Satisfy(pending[t], t, Ended, result) /\ grants' = [grants EXCEPT ![t] = result]
  BY DEF VisitSatisfied
<1>3. scan' = scan \ {t} /\ UNCHANGED <<tstate, pending>> /\ t \in scan
  BY DEF VisitSatisfied, Visited, threadVars
<1>4. t \in Parked /\ pending[t] \in Wait
  BY <1>1, <1>3 DEF Coherent, WakeCoherent, Parked, TypeOK
<1>5. result \in Nat /\ result # Pending
  BY SchedulerAssumption
<1>6. /\ ObjectFrame
      /\ \A u \in Threads \ {t} : ObjectQuiet(u)
      /\ UNCHANGED threadHandles
  BY <1>1, <1>2, <1>4, <1>5, SatisfyFrame
<1>7. AllValid(pending[t]) /\ \E hs : Take(hs, t)
  BY <1>2 DEF Satisfy
<1>8. StepFrame /\ Parked' = Parked /\ Ended' = Ended
  BY <1>3, <1>6 DEF StepFrame, Parked, Ended
<1>9. grants'[t] = result /\ \A u \in Threads \ {t} : grants'[u] = grants[u]
  BY <1>1, <1>2 DEF TypeOK
<1>10. GrantsValid'
  <2>1. SUFFICES ASSUME NEW u \in Threads, grants'[u] # Pending PROVE AllValid(pending[u])'
    BY DEF GrantsValid
  <2>2. AllValid(pending[u])
    BY <1>7, <1>9, <2>1 DEF WakeInvariant, GrantsValid
  <2>3. PICK w : w = pending[u]
    OBVIOUS
  <2>4. \A i \in DOMAIN w.handles : Valid(w.handles[i])'
    BY <1>1, <1>7, <2>2, <2>3, TakeValid DEF AllValid
  <2>5. QED
    BY <1>3, <2>3, <2>4 DEF AllValid
<1>11. \A u \in Parked \ scan' : grants'[u] = Pending =>
          ObjectQuiet(u) /\ grants[u] = Pending /\ u \notin scan
  BY <1>1, <1>3, <1>5, <1>6, <1>9
<1>12. QED
  BY <1>1, <1>3, <1>8, <1>10, <1>11, StepSound

LEMMA VisitPoisonedSound ==
    ASSUME Coherent, WakeInvariant, NEW t \in Threads, VisitPoisoned(t)
    PROVE  WakeInvariant' /\ PoisonKept
<1>1. TypeOK /\ Issued
  BY IssuedHolds DEF Coherent
<1>2. UNCHANGED <<tstate, pending>> /\ UNCHANGED objectVars /\ grants' = NoGrants
  BY DEF VisitPoisoned, threadVars
<1>3. Poisoned(t)
  BY DEF VisitPoisoned, Visited, Poisoned, Coherent, WakeCoherent
<1>4. StepFrame /\ Parked' = Parked /\ Ended' = Ended
  BY <1>1, <1>2, UnchangedFrame DEF StepFrame, Parked, Ended, objectVars
<1>5. GrantsValid'
  BY <1>2, NoGrantsPending DEF GrantsValid
<1>6. QED
  BY <1>1, <1>2, <1>3, <1>4, <1>5, StepSound

LEMMA CompleteWaitsSound ==
    ASSUME Coherent, WakeInvariant, CompleteWaits
    PROVE  WakeInvariant' /\ PoisonKept
<1>1. TypeOK /\ Issued /\ Parked \subseteq Threads /\ scan = {} /\ scan' = {}
  BY IssuedHolds DEF Coherent, CompleteWaits, Parked
<1>2. UNCHANGED objectVars /\ grants' = NoGrants
  BY DEF CompleteWaits
<1>3. \A t \in Threads :
         /\ grants[t] # Pending => tstate'[t] = "Ready"
         /\ grants[t] = Pending => tstate'[t] = tstate[t] /\ pending'[t] = pending[t]
  BY DEF CompleteWaits
<1>4. \A t \in Threads : grants[t] # Pending => tstate[t] = "Waiting"
  BY DEF Coherent, WakeCoherent, Parked
<1>5. /\ Parked' = {t \in Parked : grants[t] = Pending}
      /\ Ended' = Ended
      /\ \A t \in Parked' : pending'[t] = pending[t]
  BY <1>1, <1>3, <1>4 DEF Parked, Ended
<1>6. StepFrame /\ \A t \in Threads : ObjectQuiet(t)
  BY <1>1, <1>2, <1>3, <1>4, UnchangedFrame DEF StepFrame, objectVars
<1>7. HandlesKnown /\ GrantsValid /\ PassSound
  BY DEF WakeInvariant
<1>8. PoisonKept
  BY <1>1, <1>5, <1>6, <1>7, ParkedStep DEF PoisonKept, Poisoned, GrantsValid
<1>9. HandlesKnown'
  <2>1. \A t \in Parked' : \A i \in DOMAIN pending'[t].handles : Known(pending[t].handles[i])'
    BY <1>1, <1>5, <1>6, <1>7, ParkedStep
  <2>2. \A e \in Events : events'[e].refs > 0 => e \in issued'
    BY <1>6 DEF StepFrame, ObjectFrame
  <2>3. \A m \in Mutexes : mutexes'[m].refs > 0 => m \in issued'
    BY <1>6 DEF StepFrame, ObjectFrame
  <2>4. QED
    BY <2>1, <2>2, <2>3 DEF HandlesKnown
<1>10. GrantsValid'
  BY <1>2, NoGrantsPending DEF GrantsValid
<1>11. PassSound'
  <2>1. SUFFICES ASSUME \A t \in Threads : ~Poisoned(t)', NEW t \in Parked',
                        Satisfiable(pending[t], t, Ended)'
                 PROVE  FALSE
    BY DEF PassSound
  <2>2. t \in Parked /\ t \in Threads /\ grants[t] = Pending
    BY <1>1, <1>5
  <2>3. \A u \in Threads : ~Poisoned(u)
    BY <1>8, <2>1 DEF PoisonKept
  <2>4. Satisfiable(pending[t], t, Ended)
    BY <1>1, <1>5, <1>6, <1>7, <2>1, <2>2, ParkedStep
  <2>5. QED
    BY <1>1, <1>7, <2>2, <2>3, <2>4 DEF PassSound
<1>12. QED
  BY <1>8, <1>9, <1>10, <1>11 DEF WakeInvariant

LEMMA HostStepSound ==
    ASSUME Coherent, WakeInvariant, HostStep
    PROVE  WakeInvariant' /\ PoisonKept
<1>1. ASSUME NEW t \in Threads, VisitUnsatisfied(t)
      PROVE  WakeInvariant' /\ PoisonKept
  <2>1. UNCHANGED <<tstate, pending, grants, objectVars>>
    BY <1>1 DEF VisitUnsatisfied, threadVars
  <2>2. \A u \in scan \ scan' : ~Satisfiable(pending[u], u, Ended)
    BY <1>1 DEF VisitUnsatisfied
  <2>3. QED
    BY <2>1, <2>2, IdleSound DEF Parked, Ended
<1>2. ASSUME Reschedule
      PROVE  WakeInvariant' /\ PoisonKept
  <2>1. UNCHANGED <<objectVars, scan, grants>> /\ TypeOK
    BY <1>2 DEF Reschedule, wakeVars, Coherent
  <2>2. CASE UNCHANGED threadVars
    BY <2>1, <2>2, IdleSound DEF threadVars, Parked, Ended
  <2>3. ASSUME NEW next \in Threads, Picked(next),
               SwitchTo(next, tstate, pending, completed)
        PROVE  WakeInvariant' /\ PoisonKept
    <3>1. /\ tstate[next] = "Ready" /\ tstate'[next] = "Running" /\ pending' = pending
          /\ \A u \in Threads : u # next => tstate'[u] = tstate[u]
      BY <2>1, <2>3 DEF Picked, Runnable, SwitchTo, TypeOK
    <3>2. Parked' = Parked /\ Ended' = Ended
      BY <3>1 DEF Parked, Ended
    <3>3. QED
      BY <2>1, <3>1, <3>2, IdleSound
  <2>4. QED
    BY <1>2, <2>2, <2>3 DEF Reschedule
<1>3. QED
  BY <1>1, <1>2, VisitSatisfiedSound, VisitPoisonedSound, CompleteWaitsSound DEF HostStep

LEMMA StepWakes ==
    Coherent /\ WakeInvariant /\ [Next]_vars => WakeInvariant' /\ PoisonKept
<1> SUFFICES ASSUME Coherent, WakeInvariant, [Next]_vars PROVE WakeInvariant' /\ PoisonKept
  OBVIOUS
<1>1. CASE UNCHANGED vars
  BY <1>1, IdleSound DEF vars, threadVars, wakeVars, Parked, Ended
<1>2. QED
  BY <1>1, HostStepSound, ObjectCallSound, ThreadCallSound DEF Next, Stopped

LEMMA InitWakes == Init => WakeInvariant
<1> SUFFICES ASSUME Init PROVE WakeInvariant
  OBVIOUS
<1>1. Parked = {}
  BY DEF Init, Parked
<1>2. HandlesKnown
  BY <1>1 DEF Init, ObjectsInit, AbsentEvent, AbsentMutex, HandlesKnown
<1>3. GrantsValid /\ PassSound
  BY <1>1, NoGrantsPending DEF Init, GrantsValid, PassSound
<1>4. QED
  BY <1>2, <1>3 DEF WakeInvariant

(* When the run stops with "no runnable thread", nobody was runnable.       *)
Halted ==
    pc = "stuck" =>
        /\ tstate[current] \in {"Waiting", "Terminated"}
        /\ \A t \in Threads : ~Runnable(t)

LEMMA StepHalted == Coherent /\ Halted /\ [Next]_vars => Halted'
<1> SUFFICES ASSUME Coherent, Halted, [Next]_vars PROVE Halted'
  OBVIOUS
<1>1. TypeOK /\ current \in Threads
  BY DEF Coherent, TypeOK
<1>2. CASE UNCHANGED <<tstate, suspend, pending, current, pc>>
  BY <1>2 DEF Halted, Runnable
<1>3. CASE pc' # "stuck"
  BY <1>3 DEF Halted
<1>4. ASSUME NEW w \in Waits, WaitBlocks(w) PROVE Halted'
  <2>1. CASE pc' = pc
    BY <1>4, <1>3, <2>1 DEF WaitBlocks
  <2>2. CASE pc' # pc
    <3>1. /\ \A t \in Threads : ~Runnable(t)
          /\ tstate' = [tstate EXCEPT ![current] = "Waiting"]
          /\ pending' = [pending EXCEPT ![current] = w]
          /\ UNCHANGED <<current, suspend>>
      BY <1>4, <2>2 DEF WaitBlocks
    <3>2. tstate'[current] = "Waiting"
      BY <1>1, <3>1 DEF TypeOK
    <3>3. \A t \in Threads : t # current => tstate'[t] = tstate[t] /\ pending'[t] = pending[t]
      BY <1>1, <3>1 DEF TypeOK
    <3>4. QED
      BY <3>1, <3>2, <3>3 DEF Halted, Runnable
  <2>3. QED
    BY <2>1, <2>2
<1>5. CASE Reschedule
  <2>1. CASE UNCHANGED threadVars /\ \A t \in Threads : ~Runnable(t)
    <3>1. tstate[current] = "Terminated"
      BY <1>5 DEF Reschedule, Coherent, ThreadsCoherent
    <3>2. QED
      BY <2>1, <3>1 DEF Halted, Runnable, threadVars
  <2>2. QED
    BY <1>5, <1>3, <2>1 DEF Reschedule
<1>6. CASE \E t \in Threads : VisitSatisfied(t) \/ VisitUnsatisfied(t) \/ VisitPoisoned(t)
  BY <1>6, <1>3 DEF VisitSatisfied, VisitUnsatisfied, VisitPoisoned
<1>7. CASE CompleteWaits
  BY <1>7, <1>3 DEF CompleteWaits
<1>8. CASE ObjectCall
  BY <1>8, <1>3
     DEF ObjectCall, CreateEventA, CreateMutexA, SetEvent, ResetEvent, ReleaseMutex, CloseHandle,
         BeginWake
<1>9. CASE ThreadCall
  BY <1>9, <1>3, <1>4
     DEF ThreadCall, CreateThread, ResumeThread, WaitSatisfied, ExitThread, ExitProcess,
         EnterCallback, LeaveCallbacks, BlockInCallback, BeginWake
<1>10. CASE UNCHANGED vars
  BY <1>10, <1>2 DEF vars, threadVars
<1>11. QED
  BY <1>5, <1>6, <1>7, <1>8, <1>9, <1>10 DEF Next, HostStep, Stopped

-----------------------------------------------------------------------------
(* The invariant behind NoLostWakeup: a wake pass leaves no satisfiable     *)
(* wait behind, unless it meets a closed handle (wake_waiters).             *)
THEOREM WakesStaySound == Spec => []WakeInvariant
<1>1. Coherent /\ WakeInvariant /\ [Next]_vars => (Coherent /\ WakeInvariant)'
  BY StepCoherent, StepWakes
<1>2. QED
  BY <1>1, InitCoherent, InitWakes, PTL DEF Spec

(* Between host calls no parked thread can take what it waits for, for any  *)
(* number of threads and objects and every set of waits.                    *)
THEOREM WakeupsAreNotLost == Spec => []NoLostWakeup
<1>1. Coherent /\ WakeInvariant /\ [Next]_vars => (Coherent /\ WakeInvariant)'
  BY StepCoherent, StepWakes
<1>2. Coherent /\ WakeInvariant => NoLostWakeup
  <2>1. SUFFICES ASSUME Coherent, WakeInvariant, pc # "wake",
                        \A t \in Threads : ~Poisoned(t), NEW t \in Parked
                 PROVE  ~Satisfiable(pending[t], t, Ended)
    BY DEF NoLostWakeup
  <2>2. scan = {} /\ grants = NoGrants /\ t \in Threads
    BY <2>1 DEF Coherent, WakeCoherent, Parked
  <2>3. grants[t] = Pending
    BY <2>2, NoGrantsPending
  <2>4. QED
    BY <2>1, <2>2, <2>3 DEF WakeInvariant, PassSound
<1>3. QED
  BY <1>1, <1>2, InitCoherent, InitWakes, PTL DEF Spec

(* "no runnable Guest thread" is reported only when every thread has ended, *)
(* is suspended, or waits for what cannot come (or for a closed handle).    *)
THEOREM StuckMeansDeadlock == Spec => []StuckIsDeadlock
<1>1. Coherent /\ WakeInvariant /\ Halted /\ [Next]_vars => (Coherent /\ WakeInvariant /\ Halted)'
  BY StepCoherent, StepWakes, StepHalted
<1>2. Coherent /\ WakeInvariant /\ Halted => StuckIsDeadlock
  <2>1. SUFFICES ASSUME Coherent, WakeInvariant, Halted, pc = "stuck", NEW t \in Threads
                 PROVE  \/ tstate[t] \in {"Unborn", "Terminated"}
                        \/ tstate[t] = "Ready" /\ suspend[t] > 0
                        \/ /\ t \in Parked
                           /\ \/ ~Satisfiable(pending[t], t, Ended)
                              \/ \E u \in Threads : Poisoned(u)
    BY DEF StuckIsDeadlock
  <2>2. /\ scan = {} /\ grants[t] = Pending
        /\ tstate[current] \in {"Waiting", "Terminated"}
        /\ ~Runnable(t)
        /\ tstate[t] \in ThreadStates /\ suspend[t] \in {0, 1}
    BY <2>1, NoGrantsPending DEF Coherent, WakeCoherent, Halted, TypeOK
  <2>3. tstate[t] # "Running"
    BY <2>1, <2>2 DEF Coherent, ThreadsCoherent
  <2>4. CASE tstate[t] = "Ready"
    BY <2>1, <2>2, <2>4 DEF Runnable, Coherent, ThreadsCoherent
  <2>5. CASE tstate[t] = "Waiting"
    <3>1. t \in Parked
      BY <2>1, <2>5 DEF Parked, Coherent, ThreadsCoherent
    <3>2. QED
      BY <2>1, <2>2, <3>1 DEF WakeInvariant, PassSound
  <2>6. QED
    BY <2>2, <2>3, <2>4, <2>5 DEF ThreadStates
<1>3. Init => Halted
  BY DEF Init, Halted
<1>4. QED
  BY <1>1, <1>2, <1>3, InitCoherent, InitWakes, PTL DEF Spec

(* No step repairs a wait on a closed handle.                               *)
THEOREM PoisonPersists == Spec => PoisonIsForever
<1>1. Coherent /\ WakeInvariant /\ [Next]_vars => (Coherent /\ WakeInvariant)'
  BY StepCoherent, StepWakes
<1>2. Coherent /\ WakeInvariant /\ [Next]_vars =>
         [\A t \in Threads : Poisoned(t) => Poisoned(t)']_vars
  BY StepWakes DEF PoisonKept
<1>3. QED
  BY <1>1, <1>2, InitCoherent, InitWakes, PTL DEF Spec, PoisonIsForever

-----------------------------------------------------------------------------
(***************************************************************************)
(* The object tables stay coherent, no switch loses a result, and the      *)
(* scheduler implements the contract of the wait functions (WaitContract), *)
(* for any number of threads and objects.                                  *)
(*                                                                         *)
(* The argument.  Whatever a step does to the events and the mutexes, it   *)
(* does it by one operation of KernelObjects for one thread that has       *)
(* started (ObjectStep); the two invariants of the tables are preserved    *)
(* operation by operation.  The refinement maps a thread whose wait the    *)
(* running pass has satisfied to one that is not blocked, so the visit of  *)
(* the pass is the contract's Unblock and the completion at the end of the *)
(* pass a stuttering step.  It takes a disciplined guest: nobody is then   *)
(* ever parked on a closed handle (NonePoisoned), and no pass is cut short.*)
(***************************************************************************)

Born(t) == t \in Threads /\ tstate[t] # "Unborn"

ObjectStep ==
    \/ UNCHANGED <<events, mutexes, eventNames, mutexNames, issued>>
    \/ \E t \in Threads :
          /\ Born(t)
          /\ \/ \E w \in Wait, r \in Nat : Satisfy(w, t, Ended, r)
             \/ \E n \in Names \cup {NoName}, b1, b2 \in BOOLEAN : CreateEvent(n, b1, b2)
             \/ \E n \in Names \cup {NoName}, b \in BOOLEAN : CreateMutex(n, b, t)
             \/ \E e \in Events, b \in BOOLEAN : SetState(e, b)
             \/ \E m \in Mutexes : Release(m, t)
             \/ \E e \in Events : CloseEvent(e)
             \/ \E m \in Mutexes : CloseMutex(m)

(* What every step does to the objects.                                     *)
LEMMA StepIsObjectStep ==
    ASSUME Coherent, [Next]_vars
    PROVE  ObjectStep /\ \A t : Born(t) => Born(t)'
<1> USE SchedulerAssumption
<1>1. TypeOK /\ current \in Threads
  BY DEF Coherent, TypeOK
<1>2. pc = "guest" => Born(current)
  BY RunningThread DEF Born
<1>3. CASE ObjectCall
  <2>1. pc = "guest" /\ UNCHANGED tstate
    BY <1>3 DEF ObjectCall, CreateEventA, CreateMutexA, SetEvent, ResetEvent, ReleaseMutex,
                CloseHandle, threadVars
  <2>2. ObjectStep
    <3>1. CASE \E n \in Names \cup {NoName}, b1, b2 \in BOOLEAN : CreateEventA(n, b1, b2)
      BY <1>1, <1>2, <2>1, <3>1 DEF CreateEventA, ObjectStep
    <3>2. CASE \E n \in Names \cup {NoName}, b \in BOOLEAN : CreateMutexA(n, b)
      BY <1>1, <1>2, <2>1, <3>2 DEF CreateMutexA, ObjectStep
    <3>3. CASE \E e \in Events : SetEvent(e) \/ ResetEvent(e)
      BY <1>1, <1>2, <2>1, <3>3 DEF SetEvent, ResetEvent, ObjectStep
    <3>4. CASE \E m \in Mutexes : ReleaseMutex(m)
      BY <1>1, <1>2, <2>1, <3>4 DEF ReleaseMutex, ObjectStep
    <3>5. CASE \E h \in Handles : CloseHandle(h)
      BY <1>1, <1>2, <2>1, <3>5 DEF CloseHandle, CloseThreadHandle, ObjectStep
    <3>6. QED
      BY <1>3, <3>1, <3>2, <3>3, <3>4, <3>5 DEF ObjectCall
  <2>3. QED
    BY <2>1, <2>2 DEF Born
<1>4. CASE ThreadCall
  <2>1. ASSUME NEW b \in BOOLEAN, CreateThread(b)
        PROVE  ObjectStep /\ \A t : Born(t) => Born(t)'
    BY <1>1, <2>1 DEF CreateThread, ObjectStep, Born, TypeOK
  <2>2. ASSUME NEW w \in Waits, WaitSatisfied(w)
        PROVE  ObjectStep /\ \A t : Born(t) => Born(t)'
    <3>1. w \in Wait /\ Born(current) /\ UNCHANGED tstate
      BY <1>2, <2>2 DEF WaitSatisfied, threadVars
    <3>2. \E r \in Nat : Satisfy(w, current, Ended, r)
      BY <2>2 DEF WaitSatisfied
    <3>3. QED
      BY <1>1, <3>1, <3>2 DEF ObjectStep, Born
  <2>3. ASSUME NEW w \in Waits, WaitBlocks(w)
        PROVE  ObjectStep /\ \A t : Born(t) => Born(t)'
    <3>1. UNCHANGED objectVars
      BY <2>3 DEF WaitBlocks
    <3>2. ASSUME NEW next \in Threads,
                 tstate' = [[tstate EXCEPT ![current] = "Waiting"] EXCEPT ![next] = "Running"]
          PROVE  \A t : Born(t) => Born(t)'
      BY <1>1, <3>2 DEF Born, TypeOK
    <3>3. CASE tstate' = [tstate EXCEPT ![current] = "Waiting"]
      BY <1>1, <3>1, <3>3 DEF Born, TypeOK, ObjectStep, objectVars
    <3>4. QED
      BY <2>3, <3>1, <3>2, <3>3 DEF WaitBlocks, SwitchTo, ObjectStep, objectVars
  <2>4. CASE ExitThread
    BY <1>1, <2>4 DEF ExitThread, Born, TypeOK, ObjectStep, objectVars
  <2>5. CASE \E t \in Threads : ResumeThread(t)
    BY <2>5 DEF ResumeThread, Born, ObjectStep, objectVars
  <2>6. CASE ExitProcess \/ EnterCallback \/ LeaveCallbacks \/ BlockInCallback
    BY <2>6 DEF ExitProcess, EnterCallback, LeaveCallbacks, BlockInCallback, Born, ObjectStep,
                objectVars, threadVars
  <2>7. QED
    BY <1>4, <2>1, <2>2, <2>3, <2>4, <2>5, <2>6 DEF ThreadCall
<1>5. CASE HostStep
  <2>1. ASSUME NEW t \in Threads, VisitSatisfied(t)
        PROVE  ObjectStep /\ \A u : Born(u) => Born(u)'
    <3>1. pending[t] \in Wait /\ Born(t) /\ UNCHANGED tstate
      BY <1>1, <2>1
         DEF VisitSatisfied, Visited, Coherent, WakeCoherent, Parked, TypeOK, Born, threadVars
    <3>2. \E r \in Nat : Satisfy(pending[t], t, Ended, r)
      BY <2>1 DEF VisitSatisfied
    <3>3. QED
      BY <3>1, <3>2 DEF ObjectStep, Born
  <2>2. CASE \E t \in Threads : VisitUnsatisfied(t) \/ VisitPoisoned(t)
    BY <2>2 DEF VisitUnsatisfied, VisitPoisoned, Born, ObjectStep, objectVars, threadVars
  <2>3. CASE CompleteWaits
    BY <1>1, <2>3 DEF CompleteWaits, Born, ObjectStep, objectVars, TypeOK
  <2>4. CASE Reschedule
    <3>1. UNCHANGED objectVars
      BY <2>4 DEF Reschedule
    <3>2. \/ UNCHANGED tstate
          \/ \E next \in Threads : tstate' = [tstate EXCEPT ![next] = "Running"]
      BY <2>4 DEF Reschedule, SwitchTo, threadVars
    <3>3. QED
      BY <1>1, <3>1, <3>2 DEF Born, ObjectStep, objectVars, TypeOK
  <2>5. QED
    BY <1>5, <2>1, <2>2, <2>3, <2>4 DEF HostStep
<1>6. CASE UNCHANGED vars
  BY <1>6 DEF vars, objectVars, threadVars, ObjectStep, Born
<1>7. QED
  BY <1>3, <1>4, <1>5, <1>6 DEF Next, Stopped

-----------------------------------------------------------------------------
(* The mutex table.                                                         *)

MutexOK(m) ==
    /\ mutexes[m].owner = NoThread <=> mutexes[m].recursion = 0
    /\ mutexes[m].refs = 0 => mutexes[m].owner = NoThread
    /\ mutexes[m].owner # NoThread => Born(mutexes[m].owner)

LEMMA TakeMutexes ==
    ASSUME ObjectsTypeOK, NEW hs \in Seq(Handles), NEW t \in Threads, Take(hs, t), Born(t),
           \A i \in DOMAIN hs : Valid(hs[i]),
           \A u : Born(u) => Born(u)',
           NEW m \in Mutexes, MutexOK(m)
    PROVE  MutexOK(m)'
<1> USE ObjectsAssumption
<1>1. mutexes[m] \in Mutex /\ threadHandles \subseteq Threads
  BY DEF ObjectsTypeOK
<1>2. CASE Occurrences(hs, m) > 0
  <2>1. PICK i \in DOMAIN hs : hs[i] = m
    BY <1>2, OccurrencesType
  <2>2. mutexes[m].refs > 0
    BY <1>1, <2>1 DEF Valid
  <2>3. mutexes'[m] = [mutexes[m] EXCEPT !.owner = t,
                          !.recursion = Saturated(@ + Occurrences(hs, m))]
    BY <1>2 DEF Take
  <2>4. mutexes'[m].owner = t /\ mutexes'[m].refs = mutexes[m].refs
    BY <1>1, <2>3 DEF Mutex
  <2>5. mutexes'[m].recursion = Saturated(mutexes[m].recursion + Occurrences(hs, m))
    BY <1>1, <2>3 DEF Mutex
  <2>6. Occurrences(hs, m) \in Nat
    BY OccurrencesType
  <2>7. mutexes'[m].recursion # 0
    BY <1>1, <1>2, <2>5, <2>6 DEF Mutex, Saturated
  <2>8. t # NoThread
    BY DEF Threads, NoThread
  <2>9. QED
    BY <1>1, <2>2, <2>4, <2>7, <2>8 DEF MutexOK, Mutex
<1>3. CASE ~(Occurrences(hs, m) > 0)
  BY <1>3 DEF Take, MutexOK
<1>4. QED
  BY <1>2, <1>3

LEMMA StepMutexes ==
    ASSUME ObjectsTypeOK, ObjectStep, \A t : Born(t) => Born(t)',
           NEW m \in Mutexes, MutexOK(m)
    PROVE  MutexOK(m)'
<1> USE ObjectsAssumption
<1>1. mutexes[m] \in Mutex
  BY DEF ObjectsTypeOK
<1>2. CASE UNCHANGED mutexes
  BY <1>2 DEF MutexOK
<1>3. ASSUME NEW t \in Threads, Born(t), NEW w \in Wait, NEW r \in Nat, Satisfy(w, t, Ended, r)
      PROVE  MutexOK(m)'
  <2>1. w.handles \in Seq(Handles) /\ \A i \in DOMAIN w.handles : Valid(w.handles[i])
    BY <1>3 DEF Wait, Satisfy, AllValid
  <2>2. CASE Take(w.handles, t)
    BY <1>3, <2>1, <2>2, TakeMutexes
  <2>3. CASE r + 1 \in DOMAIN w.handles /\ Take(<<w.handles[r + 1]>>, t)
    <3>1. /\ <<w.handles[r + 1]>> \in Seq(Handles)
          /\ \A i \in DOMAIN <<w.handles[r + 1]>> : Valid(<<w.handles[r + 1]>>[i])
      BY <2>1, <2>3
    <3>2. QED
      BY <1>3, <2>3, <3>1, TakeMutexes
  <2>4. QED
    BY <1>3, <2>2, <2>3 DEF Satisfy
<1>4. ASSUME NEW t \in Threads, Born(t), NEW n \in Names \cup {NoName}, NEW b \in BOOLEAN,
             CreateMutex(n, b, t)
      PROVE  MutexOK(m)'
  <2>1. CASE n # NoName /\ mutexNames[n] # NoHandle
    <3>1. mutexes'[m] = mutexes[m] \/
              /\ mutexes[m].refs > 0
              /\ mutexes'[m] = [mutexes[m] EXCEPT !.refs = @ + 1]
      BY <1>4, <2>1 DEF CreateMutex, ObjectsTypeOK
    <3>2. QED
      BY <1>1, <3>1 DEF MutexOK, Mutex
  <2>2. CASE n # NoName => mutexNames[n] = NoHandle
    <3>1. \/ mutexes'[m] = mutexes[m]
          \/ mutexes'[m] = [refs |-> 1, owner |-> IF b THEN t ELSE NoThread,
                            recursion |-> IF b THEN 1 ELSE 0, name |-> n]
      BY <1>4, <2>2 DEF CreateMutex, ObjectsTypeOK
    <3>2. t # NoThread /\ Born(t)'
      BY <1>4 DEF Threads, NoThread
    <3>3. CASE mutexes'[m] = mutexes[m]
      BY <3>3 DEF MutexOK
    <3>4. CASE mutexes'[m].owner = (IF b THEN t ELSE NoThread)
               /\ mutexes'[m].recursion = (IF b THEN 1 ELSE 0) /\ mutexes'[m].refs = 1
      BY <3>2, <3>4 DEF MutexOK
    <3>5. QED
      BY <3>1, <3>3, <3>4
  <2>3. QED
    BY <2>1, <2>2
<1>5. ASSUME NEW t \in Threads, Born(t), NEW k \in Mutexes, Release(k, t)
      PROVE  MutexOK(m)'
  <2>1. CASE k = m
    <3>1. /\ mutexes'[m].owner = IF mutexes[m].recursion = 1 THEN NoThread ELSE t
          /\ mutexes'[m].recursion = mutexes[m].recursion - 1
          /\ mutexes'[m].refs = mutexes[m].refs
      BY <1>1, <1>5, <2>1 DEF Release, ObjectsTypeOK, Mutex
    <3>2. mutexes[m].refs > 0 /\ mutexes[m].recursion > 0 /\ t # NoThread /\ Born(t)'
      BY <1>5, <2>1 DEF Release, Threads, NoThread
    <3>3. QED
      BY <1>1, <3>1, <3>2 DEF MutexOK, Mutex
  <2>2. CASE k # m
    BY <1>5, <2>2 DEF Release, ObjectsTypeOK, MutexOK
  <2>3. QED
    BY <2>1, <2>2
<1>6. ASSUME NEW k \in Mutexes, CloseMutex(k)
      PROVE  MutexOK(m)'
  <2>1. \/ mutexes'[m] = mutexes[m]
        \/ mutexes[m].refs > 1 /\ mutexes'[m] = [mutexes[m] EXCEPT !.refs = @ - 1]
        \/ mutexes'[m] = AbsentMutex
    BY <1>6 DEF CloseMutex, ObjectsTypeOK
  <2>2. QED
    BY <1>1, <2>1 DEF MutexOK, Mutex, AbsentMutex
<1>7. QED
  BY <1>2, <1>3, <1>4, <1>5, <1>6 DEF ObjectStep, CreateEvent, SetState, CloseEvent

(* A mutex is free exactly when its recursion count is zero, a destroyed    *)
(* mutex is free, and its owner is a thread that was started, though it may *)
(* have ended: through every recursive wait, release, close and wake pass   *)
(* (MutexManager).                                                          *)
THEOREM MutexesStayCoherent == Spec => []MutexesCoherent
<1> DEFINE Inv == Coherent /\ \A m \in Mutexes : MutexOK(m)
<1>1. Init => Inv
  <2> SUFFICES ASSUME Init PROVE \A m \in Mutexes : MutexOK(m)
    BY InitCoherent
  <2> QED
    BY DEF Init, ObjectsInit, AbsentMutex, MutexOK
<1>2. Inv /\ [Next]_vars => Inv'
  <2> SUFFICES ASSUME Inv, [Next]_vars PROVE Inv'
    OBVIOUS
  <2>1. ObjectsTypeOK
    BY DEF Coherent, TypeOK
  <2>2. QED
    BY <2>1, StepCoherent, StepIsObjectStep, StepMutexes
<1>3. Inv => MutexesCoherent
  BY DEF MutexOK, MutexesCoherent, Born
<1>4. QED
  BY <1>1, <1>2, <1>3, PTL DEF Spec

-----------------------------------------------------------------------------
(* The name tables.                                                         *)

EventNamesOK ==
    /\ \A n \in Names : eventNames[n] # NoHandle =>
          events[eventNames[n]].refs > 0 /\ events[eventNames[n]].name = n
    /\ \A e \in Events : (events[e].refs > 0 /\ events[e].name # NoName) =>
          eventNames[events[e].name] = e

MutexNamesOK ==
    /\ \A n \in Names : mutexNames[n] # NoHandle =>
          mutexes[mutexNames[n]].refs > 0 /\ mutexes[mutexNames[n]].name = n
    /\ \A m \in Mutexes : (mutexes[m].refs > 0 /\ mutexes[m].name # NoName) =>
          mutexNames[mutexes[m].name] = m

(* A step that changes neither which objects are live nor what their names  *)
(* are keeps the tables consistent.                                         *)
LEMMA NamesKept ==
    ASSUME ObjectsTypeOK, EventNamesOK, MutexNamesOK
    PROVE  /\ eventNames' = eventNames
              /\ (\A e \in Events : events'[e].name = events[e].name
                     /\ (events'[e].refs > 0 <=> events[e].refs > 0))
              => EventNamesOK'
           /\ mutexNames' = mutexNames
              /\ (\A m \in Mutexes : mutexes'[m].name = mutexes[m].name
                     /\ (mutexes'[m].refs > 0 <=> mutexes[m].refs > 0))
              => MutexNamesOK'
<1>1. \A n \in Names : /\ eventNames[n] # NoHandle => eventNames[n] \in Events
                       /\ mutexNames[n] # NoHandle => mutexNames[n] \in Mutexes
  BY DEF ObjectsTypeOK
<1>2. QED
  BY <1>1 DEF EventNamesOK, MutexNamesOK

LEMMA TakeNames ==
    ASSUME ObjectsTypeOK, EventNamesOK, MutexNamesOK, NEW hs, NEW t, Take(hs, t)
    PROVE  EventNamesOK' /\ MutexNamesOK'
<1>1. UNCHANGED <<eventNames, mutexNames>>
  BY DEF Take
<1>2. \A e \in Events : events'[e].name = events[e].name /\ events'[e].refs = events[e].refs
  BY DEF Take, ObjectsTypeOK, Event
<1>3. \A m \in Mutexes :
         mutexes'[m].name = mutexes[m].name /\ mutexes'[m].refs = mutexes[m].refs
  BY DEF Take, ObjectsTypeOK, Mutex
<1>4. QED
  BY <1>1, <1>2, <1>3, NamesKept

LEMMA EventOpsNames ==
    ASSUME ObjectsTypeOK, Issued, EventNamesOK, MutexNamesOK
    PROVE  /\ \A n \in Names \cup {NoName}, b1, b2 \in BOOLEAN :
                 CreateEvent(n, b1, b2) => EventNamesOK'
           /\ \A e \in Events, b \in BOOLEAN : SetState(e, b) => EventNamesOK'
           /\ \A e \in Events : CloseEvent(e) => EventNamesOK'
<1> USE ObjectsAssumption
<1>1. ASSUME NEW n \in Names \cup {NoName}, NEW b1 \in BOOLEAN, NEW b2 \in BOOLEAN,
             CreateEvent(n, b1, b2)
      PROVE  EventNamesOK'
  <2>1. CASE n # NoName /\ eventNames[n] # NoHandle
    <3>1. eventNames[n] \in Events /\ events[eventNames[n]] \in Event
      BY <2>1 DEF ObjectsTypeOK
    <3>2. /\ events[eventNames[n]].refs > 0
          /\ events' = [events EXCEPT ![eventNames[n]].refs = @ + 1]
          /\ eventNames' = eventNames
      BY <1>1, <2>1 DEF CreateEvent
    <3>3. \A e \in Events : events'[e].name = events[e].name
              /\ (events'[e].refs > 0 <=> events[e].refs > 0)
      BY <3>1, <3>2 DEF ObjectsTypeOK, Event
    <3>4. QED
      BY <3>2, <3>3, NamesKept
  <2>2. CASE n # NoName => eventNames[n] = NoHandle
    <3>1. PICK e \in Events \ issued :
             /\ events' = [events EXCEPT ![e] =
                   [refs |-> 1, manual |-> b1, signaled |-> b2, name |-> n]]
             /\ eventNames' = IF n = NoName THEN eventNames
                              ELSE [eventNames EXCEPT ![n] = e]
      BY <1>1, <2>2 DEF CreateEvent
    <3>2. events'[e].refs = 1 /\ events'[e].name = n
      BY <3>1 DEF ObjectsTypeOK
    <3>3. \A f \in Events : f # e => events'[f] = events[f]
      BY <3>1 DEF ObjectsTypeOK
    <3>4. ~(events[e].refs > 0)
      BY DEF Issued
    <3>5. ASSUME NEW k \in Names, eventNames'[k] # NoHandle
          PROVE  events'[eventNames'[k]].refs > 0 /\ events'[eventNames'[k]].name = k
      <4>1. CASE k = n
        <5>1. eventNames'[k] = e
          BY <3>1, <4>1 DEF ObjectsTypeOK
        <5>2. QED
          BY <3>2, <4>1, <5>1
      <4>2. CASE k # n
        <5>1. eventNames'[k] = eventNames[k]
          BY <3>1, <4>2 DEF ObjectsTypeOK
        <5>2. eventNames[k] \in Events /\ eventNames[k] # e
          BY <3>4, <3>5, <5>1 DEF ObjectsTypeOK, EventNamesOK
        <5>3. QED
          BY <3>3, <3>5, <5>1, <5>2 DEF EventNamesOK
      <4>3. QED
        BY <4>1, <4>2
    <3>6. ASSUME NEW f \in Events, events'[f].refs > 0, events'[f].name # NoName
          PROVE  eventNames'[events'[f].name] = f
      <4>1. CASE f = e
        BY <3>1, <3>2, <3>6, <4>1 DEF ObjectsTypeOK
      <4>2. CASE f # e
        <5>1. eventNames[events[f].name] = f /\ events[f].name \in Names
          BY <3>3, <3>6, <4>2 DEF EventNamesOK, ObjectsTypeOK, Event
        <5>2. events[f].name # n
          BY <2>2, <5>1
        <5>3. QED
          BY <3>1, <3>3, <4>2, <5>1, <5>2 DEF ObjectsTypeOK
      <4>3. QED
        BY <4>1, <4>2
    <3>7. QED
      BY <3>5, <3>6 DEF EventNamesOK
  <2>3. QED
    BY <2>1, <2>2
<1>2. ASSUME NEW e \in Events, NEW b \in BOOLEAN, SetState(e, b) PROVE EventNamesOK'
  <2>1. \A f \in Events : events'[f].name = events[f].name /\ events'[f].refs = events[f].refs
    BY <1>2 DEF SetState, ObjectsTypeOK, Event
  <2>2. QED
    BY <1>2, <2>1, NamesKept DEF SetState
<1>3. ASSUME NEW e \in Events, CloseEvent(e) PROVE EventNamesOK'
  <2>0. events[e] \in Event
    BY DEF ObjectsTypeOK
  <2>1. CASE events[e].refs > 1
    <3>1. events' = [events EXCEPT ![e].refs = @ - 1] /\ eventNames' = eventNames
      BY <1>3, <2>1 DEF CloseEvent
    <3>2. \A f \in Events : events'[f].name = events[f].name
              /\ (events'[f].refs > 0 <=> events[f].refs > 0)
      BY <2>0, <2>1, <3>1 DEF ObjectsTypeOK, Event
    <3>3. QED
      BY <3>1, <3>2, NamesKept
  <2>2. CASE ~(events[e].refs > 1)
    <3>1. /\ events' = [events EXCEPT ![e] = AbsentEvent]
          /\ eventNames' = IF events[e].name = NoName THEN eventNames
                           ELSE [eventNames EXCEPT ![events[e].name] = NoHandle]
          /\ events[e].refs > 0
      BY <1>3, <2>2 DEF CloseEvent
    <3>2. ~(events'[e].refs > 0)
      BY <3>1 DEF ObjectsTypeOK, AbsentEvent
    <3>3. \A f \in Events : f # e => events'[f] = events[f]
      BY <3>1 DEF ObjectsTypeOK
    <3>4. ASSUME NEW k \in Names, eventNames'[k] # NoHandle
          PROVE  events'[eventNames'[k]].refs > 0 /\ events'[eventNames'[k]].name = k
      <4>1. eventNames'[k] = eventNames[k] /\ k # events[e].name
        BY <3>1, <3>4 DEF ObjectsTypeOK
      <4>2. eventNames[k] \in Events /\ eventNames[k] # e
        BY <3>4, <4>1 DEF ObjectsTypeOK, EventNamesOK
      <4>3. QED
        BY <3>3, <3>4, <4>1, <4>2 DEF EventNamesOK
    <3>5. ASSUME NEW f \in Events, events'[f].refs > 0, events'[f].name # NoName
          PROVE  eventNames'[events'[f].name] = f
      <4>1. f # e /\ events'[f] = events[f]
        BY <3>2, <3>3, <3>5
      <4>2. eventNames[events[f].name] = f /\ events[f].name \in Names
        BY <3>5, <4>1 DEF EventNamesOK, ObjectsTypeOK, Event
      <4>3. events[e].name # NoName => eventNames[events[e].name] = e
        BY <3>1 DEF EventNamesOK
      <4>4. events[e].name = NoName \/ events[f].name # events[e].name
        BY <4>1, <4>2, <4>3
      <4>5. QED
        BY <3>1, <4>1, <4>2, <4>4 DEF ObjectsTypeOK
    <3>6. QED
      BY <3>4, <3>5 DEF EventNamesOK
  <2>3. QED
    BY <2>1, <2>2
<1>4. QED
  BY <1>1, <1>2, <1>3

LEMMA MutexOpsNames ==
    ASSUME ObjectsTypeOK, Issued, EventNamesOK, MutexNamesOK
    PROVE  /\ \A n \in Names \cup {NoName}, b \in BOOLEAN, t \in Threads :
                 CreateMutex(n, b, t) => MutexNamesOK'
           /\ \A m \in Mutexes, t \in Threads : Release(m, t) => MutexNamesOK'
           /\ \A m \in Mutexes : CloseMutex(m) => MutexNamesOK'
<1> USE ObjectsAssumption
<1>1. ASSUME NEW n \in Names \cup {NoName}, NEW b \in BOOLEAN, NEW t \in Threads,
             CreateMutex(n, b, t)
      PROVE  MutexNamesOK'
  <2>1. CASE n # NoName /\ mutexNames[n] # NoHandle
    <3>1. mutexNames[n] \in Mutexes /\ mutexes[mutexNames[n]] \in Mutex
      BY <2>1 DEF ObjectsTypeOK
    <3>2. /\ mutexes[mutexNames[n]].refs > 0
          /\ mutexes' = [mutexes EXCEPT ![mutexNames[n]].refs = @ + 1]
          /\ mutexNames' = mutexNames
      BY <1>1, <2>1 DEF CreateMutex
    <3>3. \A m \in Mutexes : mutexes'[m].name = mutexes[m].name
              /\ (mutexes'[m].refs > 0 <=> mutexes[m].refs > 0)
      BY <3>1, <3>2 DEF ObjectsTypeOK, Mutex
    <3>4. QED
      BY <3>2, <3>3, NamesKept
  <2>2. CASE n # NoName => mutexNames[n] = NoHandle
    <3>1. PICK m \in Mutexes \ issued :
             /\ mutexes' = [mutexes EXCEPT ![m] =
                   [refs |-> 1, owner |-> IF b THEN t ELSE NoThread,
                    recursion |-> IF b THEN 1 ELSE 0, name |-> n]]
             /\ mutexNames' = IF n = NoName THEN mutexNames
                              ELSE [mutexNames EXCEPT ![n] = m]
      BY <1>1, <2>2 DEF CreateMutex
    <3>2. mutexes'[m].refs = 1 /\ mutexes'[m].name = n
      BY <3>1 DEF ObjectsTypeOK
    <3>3. \A k \in Mutexes : k # m => mutexes'[k] = mutexes[k]
      BY <3>1 DEF ObjectsTypeOK
    <3>4. ~(mutexes[m].refs > 0)
      BY DEF Issued
    <3>5. ASSUME NEW k \in Names, mutexNames'[k] # NoHandle
          PROVE  mutexes'[mutexNames'[k]].refs > 0 /\ mutexes'[mutexNames'[k]].name = k
      <4>1. CASE k = n
        <5>1. mutexNames'[k] = m
          BY <3>1, <4>1 DEF ObjectsTypeOK
        <5>2. QED
          BY <3>2, <4>1, <5>1
      <4>2. CASE k # n
        <5>1. mutexNames'[k] = mutexNames[k]
          BY <3>1, <4>2 DEF ObjectsTypeOK
        <5>2. mutexNames[k] \in Mutexes /\ mutexNames[k] # m
          BY <3>4, <3>5, <5>1 DEF ObjectsTypeOK, MutexNamesOK
        <5>3. QED
          BY <3>3, <3>5, <5>1, <5>2 DEF MutexNamesOK
      <4>3. QED
        BY <4>1, <4>2
    <3>6. ASSUME NEW f \in Mutexes, mutexes'[f].refs > 0, mutexes'[f].name # NoName
          PROVE  mutexNames'[mutexes'[f].name] = f
      <4>1. CASE f = m
        BY <3>1, <3>2, <3>6, <4>1 DEF ObjectsTypeOK
      <4>2. CASE f # m
        <5>1. mutexNames[mutexes[f].name] = f /\ mutexes[f].name \in Names
          BY <3>3, <3>6, <4>2 DEF MutexNamesOK, ObjectsTypeOK, Mutex
        <5>2. mutexes[f].name # n
          BY <2>2, <5>1
        <5>3. QED
          BY <3>1, <3>3, <4>2, <5>1, <5>2 DEF ObjectsTypeOK
      <4>3. QED
        BY <4>1, <4>2
    <3>7. QED
      BY <3>5, <3>6 DEF MutexNamesOK
  <2>3. QED
    BY <2>1, <2>2
<1>2. ASSUME NEW m \in Mutexes, NEW t \in Threads, Release(m, t) PROVE MutexNamesOK'
  <2>1. \A f \in Mutexes : mutexes'[f].name = mutexes[f].name /\ mutexes'[f].refs = mutexes[f].refs
    BY <1>2 DEF Release, ObjectsTypeOK, Mutex
  <2>2. QED
    BY <1>2, <2>1, NamesKept DEF Release
<1>3. ASSUME NEW m \in Mutexes, CloseMutex(m) PROVE MutexNamesOK'
  <2>0. mutexes[m] \in Mutex
    BY DEF ObjectsTypeOK
  <2>1. CASE mutexes[m].refs > 1
    <3>1. mutexes' = [mutexes EXCEPT ![m].refs = @ - 1] /\ mutexNames' = mutexNames
      BY <1>3, <2>1 DEF CloseMutex
    <3>2. \A f \in Mutexes : mutexes'[f].name = mutexes[f].name
              /\ (mutexes'[f].refs > 0 <=> mutexes[f].refs > 0)
      BY <2>0, <2>1, <3>1 DEF ObjectsTypeOK, Mutex
    <3>3. QED
      BY <3>1, <3>2, NamesKept
  <2>2. CASE ~(mutexes[m].refs > 1)
    <3>1. /\ mutexes' = [mutexes EXCEPT ![m] = AbsentMutex]
          /\ mutexNames' = IF mutexes[m].name = NoName THEN mutexNames
                           ELSE [mutexNames EXCEPT ![mutexes[m].name] = NoHandle]
          /\ mutexes[m].refs > 0
      BY <1>3, <2>2 DEF CloseMutex
    <3>2. ~(mutexes'[m].refs > 0)
      BY <3>1 DEF ObjectsTypeOK, AbsentMutex
    <3>3. \A f \in Mutexes : f # m => mutexes'[f] = mutexes[f]
      BY <3>1 DEF ObjectsTypeOK
    <3>4. ASSUME NEW k \in Names, mutexNames'[k] # NoHandle
          PROVE  mutexes'[mutexNames'[k]].refs > 0 /\ mutexes'[mutexNames'[k]].name = k
      <4>1. mutexNames'[k] = mutexNames[k] /\ k # mutexes[m].name
        BY <3>1, <3>4 DEF ObjectsTypeOK
      <4>2. mutexNames[k] \in Mutexes /\ mutexNames[k] # m
        BY <3>4, <4>1 DEF ObjectsTypeOK, MutexNamesOK
      <4>3. QED
        BY <3>3, <3>4, <4>1, <4>2 DEF MutexNamesOK
    <3>5. ASSUME NEW f \in Mutexes, mutexes'[f].refs > 0, mutexes'[f].name # NoName
          PROVE  mutexNames'[mutexes'[f].name] = f
      <4>1. f # m /\ mutexes'[f] = mutexes[f]
        BY <3>2, <3>3, <3>5
      <4>2. mutexNames[mutexes[f].name] = f /\ mutexes[f].name \in Names
        BY <3>5, <4>1 DEF MutexNamesOK, ObjectsTypeOK, Mutex
      <4>3. mutexes[m].name # NoName => mutexNames[mutexes[m].name] = m
        BY <3>1 DEF MutexNamesOK
      <4>4. mutexes[m].name = NoName \/ mutexes[f].name # mutexes[m].name
        BY <4>1, <4>2, <4>3
      <4>5. QED
        BY <3>1, <4>1, <4>2, <4>4 DEF ObjectsTypeOK
    <3>6. QED
      BY <3>4, <3>5 DEF MutexNamesOK
  <2>3. QED
    BY <2>1, <2>2
<1>4. QED
  BY <1>1, <1>2, <1>3

LEMMA StepNames ==
    ASSUME ObjectsTypeOK, Issued, ObjectStep, EventNamesOK, MutexNamesOK
    PROVE  EventNamesOK' /\ MutexNamesOK'
<1>1. CASE \E w, t, r : Satisfy(w, t, Ended, r)
  BY <1>1, TakeNames DEF Satisfy
<1>2. UNCHANGED <<events, eventNames>> => EventNamesOK'
  BY NamesKept
<1>3. UNCHANGED <<mutexes, mutexNames>> => MutexNamesOK'
  BY NamesKept
<1>4. CASE UNCHANGED <<events, mutexes, eventNames, mutexNames, issued>>
  BY <1>2, <1>3, <1>4
<1>5. CASE \/ \E n \in Names \cup {NoName}, b1, b2 \in BOOLEAN : CreateEvent(n, b1, b2)
           \/ \E e \in Events, b \in BOOLEAN : SetState(e, b)
           \/ \E e \in Events : CloseEvent(e)
  <2>1. UNCHANGED <<mutexes, mutexNames>>
    BY <1>5 DEF CreateEvent, SetState, CloseEvent
  <2>2. EventNamesOK'
    BY <1>5, EventOpsNames
  <2> QED
    BY <1>3, <2>1, <2>2
<1>6. CASE \E t \in Threads :
               \/ \E n \in Names \cup {NoName}, b \in BOOLEAN : CreateMutex(n, b, t)
               \/ \E m \in Mutexes : Release(m, t)
               \/ \E m \in Mutexes : CloseMutex(m)
  <2>1. UNCHANGED <<events, eventNames>>
    BY <1>6 DEF CreateMutex, Release, CloseMutex
  <2>2. MutexNamesOK'
    BY <1>6, MutexOpsNames
  <2> QED
    BY <1>2, <2>1, <2>2
<1>7. QED
  BY <1>1, <1>4, <1>5, <1>6 DEF ObjectStep

(* A name in the tables resolves to the live object that carries it, and a  *)
(* live named object is found by its name, whoever creates, opens and       *)
(* closes in whatever order (EventManager::names, MutexManager::names).     *)
THEOREM NamesResolve == Spec => []NameTablesConsistent
<1> DEFINE Inv == Coherent /\ WakeInvariant /\ EventNamesOK /\ MutexNamesOK
<1>1. Init => Inv
  <2> SUFFICES ASSUME Init PROVE EventNamesOK /\ MutexNamesOK
    BY InitCoherent, InitWakes
  <2> QED
    BY DEF Init, ObjectsInit, AbsentEvent, AbsentMutex, EventNamesOK, MutexNamesOK
<1>2. Inv /\ [Next]_vars => Inv'
  <2> SUFFICES ASSUME Inv, [Next]_vars PROVE Inv'
    OBVIOUS
  <2>1. ObjectsTypeOK /\ Issued
    BY IssuedHolds DEF Coherent, TypeOK
  <2>2. QED
    BY <2>1, StepCoherent, StepWakes, StepIsObjectStep, StepNames
<1>3. Inv => NameTablesConsistent
  BY DEF EventNamesOK, MutexNamesOK, NameTablesConsistent
<1>4. QED
  BY <1>1, <1>2, <1>3, PTL DEF Spec

-----------------------------------------------------------------------------
(* Switches.                                                                *)

(* A thread that ends has no suspended calls.                               *)
ExitsAtTopLevel == pc = "reschedule" \/ (pc = "wake" /\ cause = "exit") => ~nested

LEMMA StepSwitches ==
    ASSUME Coherent, ExitsAtTopLevel, [Next]_vars
    PROVE  ExitsAtTopLevel' /\ NoSwitchInCallback /\ ResultDelivered
<1>1. TypeOK /\ current \in Threads
  BY DEF Coherent, TypeOK
<1>2. CASE ObjectCall
  BY <1>2 DEF ObjectCall, CreateEventA, CreateMutexA, SetEvent, ResetEvent, ReleaseMutex,
              CloseHandle, BeginWake, threadVars, wakeVars, ExitsAtTopLevel,
              NoSwitchInCallback, ResultDelivered
<1>3. ASSUME NEW next \in Threads, NEW ts, NEW pd, NEW cw, SwitchTo(next, ts, pd, cw),
             cw \in [Threads -> Nat \cup {Pending}],
             \A t \in Threads : cw[t] = completed[t] \/ completed[t] = Pending,
             ~nested, ~nested'
      PROVE  NoSwitchInCallback /\ ResultDelivered
  BY <1>3 DEF SwitchTo, NoSwitchInCallback, ResultDelivered
<1>4. CASE ThreadCall
  <2>1. ASSUME NEW w \in Waits, WaitBlocks(w)
        PROVE  ExitsAtTopLevel' /\ NoSwitchInCallback /\ ResultDelivered
    <3> DEFINE cw == [completed EXCEPT ![current] = Pending]
    <3>1. completed[current] = Pending
      BY <2>1, RunningThread DEF WaitBlocks
    <3>2. /\ cw \in [Threads -> Nat \cup {Pending}]
          /\ \A t \in Threads : cw[t] = completed[t] \/ completed[t] = Pending
      BY <1>1, <3>1 DEF TypeOK
    <3>3. ~nested /\ ~nested' /\ pc' \in {"guest", "stuck"}
      BY <2>1 DEF WaitBlocks
    <3>4. \/ \E next \in Threads : \E ts, pd : SwitchTo(next, ts, pd, cw)
          \/ completed' = cw /\ current' = current
      BY <2>1 DEF WaitBlocks
    <3> HIDE DEF cw
    <3>5. NoSwitchInCallback /\ ResultDelivered
      BY <1>3, <3>2, <3>3, <3>4 DEF NoSwitchInCallback, ResultDelivered
    <3>6. QED
      BY <3>3, <3>5 DEF ExitsAtTopLevel
  <2>2. CASE ExitThread
    <3>1. completed[current] = Pending
      BY <2>2, RunningThread DEF ExitThread
    <3>2. QED
      BY <1>1, <2>2, <3>1 DEF ExitThread, BeginWake, ExitsAtTopLevel, NoSwitchInCallback,
                              ResultDelivered, TypeOK
  <2>3. CASE \/ \E b \in BOOLEAN : CreateThread(b)
             \/ \E t \in Threads : ResumeThread(t)
             \/ \E w \in Waits : WaitSatisfied(w)
             \/ ExitProcess \/ EnterCallback \/ LeaveCallbacks \/ BlockInCallback
    <3>1. /\ UNCHANGED <<completed, current>>
          /\ pc' \in {"guest", "exited", "fault"}
      BY <2>3 DEF CreateThread, ResumeThread, WaitSatisfied, ExitProcess, EnterCallback,
                  LeaveCallbacks, BlockInCallback, threadVars
    <3>2. QED
      BY <3>1 DEF ExitsAtTopLevel, NoSwitchInCallback, ResultDelivered
  <2>4. QED
    BY <1>4, <2>1, <2>2, <2>3 DEF ThreadCall
<1>5. CASE HostStep
  <2>1. CASE \E t \in Threads : VisitSatisfied(t) \/ VisitUnsatisfied(t) \/ VisitPoisoned(t)
    BY <2>1 DEF VisitSatisfied, VisitUnsatisfied, VisitPoisoned, threadVars, ExitsAtTopLevel,
                NoSwitchInCallback, ResultDelivered
  <2>2. CASE CompleteWaits
    <3>1. \A t \in Threads : grants[t] # Pending => completed[t] = Pending
      BY DEF Coherent, WakeCoherent, ThreadsCoherent, Parked
    <3>2. QED
      BY <2>2, <3>1 DEF CompleteWaits, ExitsAtTopLevel, NoSwitchInCallback, ResultDelivered
  <2>3. CASE Reschedule
    <3>1. ~nested /\ ~nested' /\ pc' # "reschedule" /\ pc' # "wake"
      BY <2>3 DEF Reschedule, ExitsAtTopLevel
    <3>2. \/ UNCHANGED threadVars
          \/ \E next \in Threads : SwitchTo(next, tstate, pending, completed)
      BY <2>3 DEF Reschedule
    <3>3. NoSwitchInCallback /\ ResultDelivered
      BY <1>1, <1>3, <3>1, <3>2 DEF TypeOK, threadVars, NoSwitchInCallback, ResultDelivered
    <3>4. QED
      BY <3>1, <3>3 DEF ExitsAtTopLevel
  <2>4. QED
    BY <1>5, <2>1, <2>2, <2>3 DEF HostStep
<1>6. CASE UNCHANGED vars
  BY <1>6 DEF vars, threadVars, wakeVars, ExitsAtTopLevel, NoSwitchInCallback, ResultDelivered
<1>7. QED
  BY <1>2, <1>4, <1>5, <1>6 DEF Next, Stopped

(* No switch happens while a host call is suspended for callbacks, and the  *)
(* result a wait was completed with stays until its thread runs (switch_to).*)
THEOREM SwitchesAreSound == Spec => SwitchesLoseNothing
<1>1. Init => ExitsAtTopLevel
  BY DEF Init, ExitsAtTopLevel
<1>2. Coherent /\ ExitsAtTopLevel /\ [Next]_vars => (Coherent /\ ExitsAtTopLevel)'
  BY StepCoherent, StepSwitches
<1>3. Coherent /\ ExitsAtTopLevel /\ [Next]_vars => [NoSwitchInCallback /\ ResultDelivered]_vars
  BY StepSwitches
<1>4. QED
  BY <1>1, <1>2, <1>3, InitCoherent, PTL DEF Spec, SwitchesLoseNothing

-----------------------------------------------------------------------------
(* Disciplined guests.                                                      *)

NonePoisoned == \A t \in Threads : ~Poisoned(t)

(* A step that keeps every handle in use valid poisons no one.              *)
LEMMA ParkedStaysSound ==
    ASSUME NonePoisoned, Parked' \subseteq Parked, \A t \in Parked' : pending'[t] = pending[t],
           \A h : Valid(h) /\ InUse(h) => Valid(h)'
    PROVE  NonePoisoned'
<1>1. SUFFICES ASSUME NEW t \in Threads, t \in Parked'
               PROVE  AllValid(pending[t])'
  BY DEF NonePoisoned, Poisoned
<1>2. t \in Parked /\ pending'[t] = pending[t] /\ AllValid(pending[t])
  BY <1>1 DEF NonePoisoned, Poisoned
<1>3. PICK w : w = pending[t]
  OBVIOUS
<1>4. \A i \in DOMAIN w.handles : Valid(w.handles[i]) /\ InUse(w.handles[i])
  BY <1>2, <1>3 DEF AllValid, InUse
<1>5. \A i \in DOMAIN w.handles : Valid(w.handles[i])'
  BY <1>4
<1>6. QED
  BY <1>2, <1>3, <1>5 DEF AllValid

(* Only the close operations make a handle invalid.                         *)
LEMMA OperationsKeepValid ==
    ASSUME ObjectsTypeOK, Issued
    PROVE  /\ \A n \in Names \cup {NoName}, b1, b2 \in BOOLEAN :
                 CreateEvent(n, b1, b2) => \A h : Valid(h) => Valid(h)'
           /\ \A n \in Names \cup {NoName}, b \in BOOLEAN, t \in Threads :
                 CreateMutex(n, b, t) => \A h : Valid(h) => Valid(h)'
           /\ \A e \in Events, b \in BOOLEAN : SetState(e, b) => \A h : Valid(h) => Valid(h)'
           /\ \A m \in Mutexes, t \in Threads : Release(m, t) => \A h : Valid(h) => Valid(h)'
           /\ \A e \in Events : CloseEvent(e) => \A h : Valid(h) /\ h # e => Valid(h)'
           /\ \A m \in Mutexes : CloseMutex(m) => \A h : Valid(h) /\ h # m => Valid(h)'
           /\ \A t \in Threads : CloseThreadHandle(t) => \A h : Valid(h) /\ h # t => Valid(h)'
<1> USE ObjectsAssumption
<1>0. ASSUME UNCHANGED threadHandles,
             \A e \in Events : events[e].refs > 0 => events'[e].refs > 0,
             \A m \in Mutexes : mutexes[m].refs > 0 => mutexes'[m].refs > 0,
             NEW h, Valid(h)
      PROVE  Valid(h)'
  BY <1>0 DEF Valid
<1>1. ASSUME NEW n \in Names \cup {NoName}, NEW b1 \in BOOLEAN, NEW b2 \in BOOLEAN,
             CreateEvent(n, b1, b2)
      PROVE  \A h : Valid(h) => Valid(h)'
  <2>1. CASE n # NoName /\ eventNames[n] # NoHandle
    <3>1. eventNames[n] \in Events
      BY <2>1 DEF ObjectsTypeOK
    <3>2. /\ events' = [events EXCEPT ![eventNames[n]].refs = @ + 1]
          /\ UNCHANGED <<mutexes, threadHandles>>
      BY <1>1, <2>1 DEF CreateEvent
    <3>3. \A e \in Events : events[e].refs > 0 => events'[e].refs > 0
      BY <3>1, <3>2 DEF ObjectsTypeOK, Event
    <3>4. QED
      BY <1>0, <3>2, <3>3
  <2>2. CASE n # NoName => eventNames[n] = NoHandle
    <3>1. PICK e \in Events \ issued : \E x : events' = [events EXCEPT ![e] = x]
      BY <1>1, <2>2 DEF CreateEvent
    <3>2. \A f \in Events : events[f].refs > 0 => events'[f].refs > 0
      BY <3>1 DEF ObjectsTypeOK, Issued
    <3>3. QED
      BY <1>0, <1>1, <3>2 DEF CreateEvent
  <2>3. QED
    BY <2>1, <2>2
<1>2. ASSUME NEW n \in Names \cup {NoName}, NEW b \in BOOLEAN, NEW t \in Threads,
             CreateMutex(n, b, t)
      PROVE  \A h : Valid(h) => Valid(h)'
  <2>1. CASE n # NoName /\ mutexNames[n] # NoHandle
    <3>1. mutexNames[n] \in Mutexes
      BY <2>1 DEF ObjectsTypeOK
    <3>2. /\ mutexes' = [mutexes EXCEPT ![mutexNames[n]].refs = @ + 1]
          /\ UNCHANGED <<events, threadHandles>>
      BY <1>2, <2>1 DEF CreateMutex
    <3>3. \A m \in Mutexes : mutexes[m].refs > 0 => mutexes'[m].refs > 0
      BY <3>1, <3>2 DEF ObjectsTypeOK, Mutex
    <3>4. QED
      BY <1>0, <3>2, <3>3
  <2>2. CASE n # NoName => mutexNames[n] = NoHandle
    <3>1. PICK m \in Mutexes \ issued : \E x : mutexes' = [mutexes EXCEPT ![m] = x]
      BY <1>2, <2>2 DEF CreateMutex
    <3>2. \A f \in Mutexes : mutexes[f].refs > 0 => mutexes'[f].refs > 0
      BY <3>1 DEF ObjectsTypeOK, Issued
    <3>3. QED
      BY <1>0, <1>2, <3>2 DEF CreateMutex
  <2>3. QED
    BY <2>1, <2>2
<1>3. ASSUME NEW e \in Events, NEW b \in BOOLEAN, SetState(e, b)
      PROVE  \A h : Valid(h) => Valid(h)'
  <2>1. \A f \in Events : events'[f].refs = events[f].refs
    BY <1>3 DEF SetState, ObjectsTypeOK, Event
  <2>2. QED
    BY <1>0, <1>3, <2>1 DEF SetState
<1>4. ASSUME NEW m \in Mutexes, NEW t \in Threads, Release(m, t)
      PROVE  \A h : Valid(h) => Valid(h)'
  <2>1. \A f \in Mutexes : mutexes'[f].refs = mutexes[f].refs
    BY <1>4 DEF Release, ObjectsTypeOK, Mutex
  <2>2. QED
    BY <1>0, <1>4, <2>1 DEF Release
<1>5. ASSUME NEW e \in Events, CloseEvent(e), NEW h, Valid(h), h # e PROVE Valid(h)'
  BY <1>5 DEF CloseEvent, ObjectsTypeOK, Valid
<1>6. ASSUME NEW m \in Mutexes, CloseMutex(m), NEW h, Valid(h), h # m PROVE Valid(h)'
  BY <1>6 DEF CloseMutex, ObjectsTypeOK, Valid
<1>7. ASSUME NEW t \in Threads, CloseThreadHandle(t), NEW h, Valid(h), h # t PROVE Valid(h)'
  BY <1>7 DEF CloseThreadHandle, Valid
<1>8. QED
  BY <1>1, <1>2, <1>3, <1>4, <1>5, <1>6, <1>7

LEMMA StepDisciplined ==
    ASSUME Coherent, WakeInvariant, Disciplined, NonePoisoned, [Next]_vars
    PROVE  NonePoisoned'
<1> USE ObjectsAssumption, SchedulerAssumption
<1>1. TypeOK /\ ObjectsTypeOK /\ Issued /\ current \in Threads
  BY IssuedHolds DEF Coherent, TypeOK
<1>2. ASSUME UNCHANGED <<tstate, pending>>, \A h : Valid(h) /\ InUse(h) => Valid(h)'
      PROVE  NonePoisoned'
  BY <1>2, ParkedStaysSound DEF Parked
<1>3. UNCHANGED objectVars => \A h : Valid(h) => Valid(h)'
  BY DEF objectVars, Valid
<1>4. CASE ObjectCall
  <2>1. UNCHANGED <<tstate, pending>>
    BY <1>4 DEF ObjectCall, CreateEventA, CreateMutexA, SetEvent, ResetEvent, ReleaseMutex,
                CloseHandle, threadVars
  <2>2. \A h : Valid(h) /\ InUse(h) => Valid(h)'
    <3>1. CASE \E n \in Names \cup {NoName}, b1, b2 \in BOOLEAN : CreateEventA(n, b1, b2)
      BY <1>1, <3>1, OperationsKeepValid DEF CreateEventA
    <3>2. CASE \E n \in Names \cup {NoName}, b \in BOOLEAN : CreateMutexA(n, b)
      BY <1>1, <3>2, OperationsKeepValid DEF CreateMutexA
    <3>3. CASE \E e \in Events : SetEvent(e) \/ ResetEvent(e)
      BY <1>1, <3>3, OperationsKeepValid DEF SetEvent, ResetEvent
    <3>4. CASE \E m \in Mutexes : ReleaseMutex(m)
      BY <1>1, <3>4, OperationsKeepValid DEF ReleaseMutex
    <3>5. ASSUME NEW k \in Handles, CloseHandle(k), NEW h, Valid(h), InUse(h)
          PROVE  Valid(h)'
      <4>1. h # k
        BY <3>5 DEF CloseHandle
      <4>2. QED
        BY <1>1, <3>5, <4>1, OperationsKeepValid DEF CloseHandle
    <3>6. QED
      BY <1>4, <3>1, <3>2, <3>3, <3>4, <3>5 DEF ObjectCall
  <2>3. QED
    BY <1>2, <2>1, <2>2
<1>5. CASE ThreadCall
  <2>1. ASSUME NEW b \in BOOLEAN, CreateThread(b) PROVE NonePoisoned'
    <3>1. PICK t \in Threads : /\ tstate' = [tstate EXCEPT ![t] = "Ready"]
                               /\ threadHandles' = threadHandles \cup {t}
      BY <2>1 DEF CreateThread
    <3>2. \A h : Valid(h) => Valid(h)'
      BY <2>1, <3>1 DEF CreateThread, Valid
    <3>3. Parked' \subseteq Parked /\ pending' = pending
      BY <1>1, <2>1, <3>1 DEF CreateThread, Parked, TypeOK
    <3>4. QED
      BY <3>2, <3>3, ParkedStaysSound
  <2>2. ASSUME NEW w \in Waits, WaitSatisfied(w) PROVE NonePoisoned'
    <3>1. PICK hs : Take(hs, current)
      BY <2>2 DEF WaitSatisfied, Satisfy
    <3>2. \A h : Valid(h) => Valid(h)'
      BY <1>1, <3>1, TakeValid
    <3>3. QED
      BY <1>2, <2>2, <3>2 DEF WaitSatisfied, threadVars
  <2>3. ASSUME NEW w \in Waits, WaitBlocks(w) PROVE NonePoisoned'
    <3>1. AllValid(w) /\ UNCHANGED objectVars
      BY <2>3 DEF WaitBlocks
    <3>2. pending' = [pending EXCEPT ![current] = w]
      BY <2>3 DEF WaitBlocks, SwitchTo
    <3>3. \/ tstate' = [tstate EXCEPT ![current] = "Waiting"]
          \/ \E next \in Threads :
                tstate' = [[tstate EXCEPT ![current] = "Waiting"] EXCEPT ![next] = "Running"]
      BY <2>3 DEF WaitBlocks, SwitchTo
    <3>4. SUFFICES ASSUME NEW t \in Threads, t \in Parked' PROVE AllValid(pending[t])'
      BY DEF NonePoisoned, Poisoned
    <3>5. CASE t = current
      <4>1. pending'[t] = w
        BY <1>1, <3>2, <3>5 DEF TypeOK
      <4>2. QED
        BY <3>1, <4>1 DEF AllValid, Valid, objectVars
    <3>6. CASE t # current
      <4>1. t \in Parked /\ pending'[t] = pending[t]
        BY <1>1, <3>2, <3>3, <3>4, <3>6 DEF TypeOK, Parked
      <4>2. AllValid(pending[t])
        BY <4>1 DEF NonePoisoned, Poisoned
      <4>3. QED
        BY <3>1, <4>1, <4>2 DEF AllValid, Valid, objectVars
    <3>7. QED
      BY <3>5, <3>6
  <2>4. CASE ExitThread
    <3>1. UNCHANGED objectVars
      BY <2>4 DEF ExitThread
    <3>2. Parked' \subseteq Parked /\ \A t \in Parked' : pending'[t] = pending[t]
      BY <1>1, <2>4 DEF ExitThread, TypeOK, Parked
    <3>3. QED
      BY <1>3, <3>1, <3>2, ParkedStaysSound
  <2>5. CASE \/ \E t \in Threads : ResumeThread(t)
             \/ ExitProcess \/ EnterCallback \/ LeaveCallbacks \/ BlockInCallback
    <3>1. UNCHANGED <<tstate, pending>> /\ UNCHANGED objectVars
      BY <2>5 DEF ResumeThread, ExitProcess, EnterCallback, LeaveCallbacks, BlockInCallback,
                  threadVars
    <3>2. QED
      BY <1>2, <1>3, <3>1
  <2>6. QED
    BY <1>5, <2>1, <2>2, <2>3, <2>4, <2>5 DEF ThreadCall
<1>6. CASE HostStep
  <2>1. ASSUME NEW t \in Threads, VisitSatisfied(t) PROVE NonePoisoned'
    <3>1. PICK hs : Take(hs, t)
      BY <2>1 DEF VisitSatisfied, Satisfy
    <3>2. \A h : Valid(h) => Valid(h)'
      BY <1>1, <3>1, TakeValid
    <3>3. QED
      BY <1>2, <2>1, <3>2 DEF VisitSatisfied, threadVars
  <2>2. CASE \E t \in Threads : VisitUnsatisfied(t) \/ VisitPoisoned(t)
    BY <1>2, <1>3, <2>2 DEF VisitUnsatisfied, VisitPoisoned, threadVars
  <2>3. CASE CompleteWaits
    <3>1. Parked' \subseteq Parked /\ \A t \in Parked' : pending'[t] = pending[t]
      BY <2>3 DEF CompleteWaits, Parked
    <3>2. QED
      BY <1>3, <2>3, <3>1, ParkedStaysSound DEF CompleteWaits
  <2>4. CASE Reschedule
    <3>1. \/ UNCHANGED <<tstate, pending>>
          \/ \E next \in Threads : tstate' = [tstate EXCEPT ![next] = "Running"]
                                   /\ pending' = pending
      BY <2>4 DEF Reschedule, SwitchTo, threadVars
    <3>2. Parked' \subseteq Parked /\ pending' = pending
      BY <1>1, <3>1 DEF Parked, TypeOK
    <3>3. QED
      BY <1>3, <2>4, <3>2, ParkedStaysSound DEF Reschedule
  <2>5. QED
    BY <1>6, <2>1, <2>2, <2>3, <2>4 DEF HostStep
<1>7. CASE UNCHANGED vars
  BY <1>2, <1>3, <1>7 DEF vars, threadVars
<1>8. QED
  BY <1>4, <1>5, <1>6, <1>7 DEF Next, Stopped

(* The end of the initial thread.                                           *)
MainIsLeaving == Main \in Ended => pc = "exited" \/ (pc \in {"wake", "reschedule"} /\ current = Main)

LEMMA StepLeaving ==
    ASSUME Coherent, NonePoisoned, MainIsLeaving, [Next]_vars
    PROVE  MainIsLeaving'
<1>1. TypeOK /\ current \in Threads
  BY DEF Coherent, TypeOK
<1>2. Main \in Ended => pc # "guest" /\ pc # "stuck" /\ pc # "fault"
  BY DEF MainIsLeaving
<1>3. CASE ObjectCall
  BY <1>2, <1>3
     DEF ObjectCall, CreateEventA, CreateMutexA, SetEvent, ResetEvent, ReleaseMutex, CloseHandle,
         threadVars, MainIsLeaving, Ended
<1>4. CASE ThreadCall
  <2>1. CASE ExitThread
    BY <1>1, <1>2, <2>1 DEF ExitThread, BeginWake, MainIsLeaving, Ended, TypeOK
  <2>2. CASE ~ExitThread
    <3>1. pc = "guest" /\ Main \notin Ended
      BY <1>2, <1>4, <2>2
         DEF ThreadCall, CreateThread, ResumeThread, WaitSatisfied, WaitBlocks, ExitProcess,
             EnterCallback, LeaveCallbacks, BlockInCallback
    <3>2. \A t \in Threads : tstate'[t] = "Terminated" => tstate[t] = "Terminated"
      BY <1>1, <1>4, <2>2
         DEF ThreadCall, CreateThread, ResumeThread, WaitSatisfied, WaitBlocks, ExitProcess,
             EnterCallback, LeaveCallbacks, BlockInCallback, SwitchTo, threadVars, TypeOK
    <3>3. QED
      BY <3>1, <3>2 DEF MainIsLeaving, Ended
  <2>3. QED
    BY <2>1, <2>2
<1>5. CASE HostStep
  <2>1. ASSUME NEW t \in Threads, VisitSatisfied(t) \/ VisitUnsatisfied(t)
        PROVE  MainIsLeaving'
    BY <2>1 DEF VisitSatisfied, VisitUnsatisfied, threadVars, MainIsLeaving, Ended
  <2>2. \A t \in Threads : ~VisitPoisoned(t)
    BY DEF VisitPoisoned, Visited, Coherent, WakeCoherent, NonePoisoned, Poisoned
  <2>3. CASE CompleteWaits
    <3>1. Ended' \subseteq Ended /\ current' = current /\ pc = "wake"
      BY <2>3 DEF CompleteWaits, Ended
    <3>2. Main \in Ended /\ current = Main => cause # "call"
      BY <3>1 DEF Coherent, ThreadsCoherent, Ended
    <3>3. QED
      BY <1>1, <2>3, <3>1, <3>2 DEF CompleteWaits, MainIsLeaving, TypeOK
  <2>4. CASE Reschedule
    <3>1. CASE current = Main
      BY <2>4, <3>1 DEF Reschedule, MainIsLeaving
    <3>2. CASE current # Main
      <4>1. Main \notin Ended
        BY <2>4, <3>2 DEF Reschedule, MainIsLeaving
      <4>2. \A t \in Threads : tstate'[t] = "Terminated" => tstate[t] = "Terminated"
        BY <1>1, <2>4, <3>2 DEF Reschedule, SwitchTo, threadVars, TypeOK
      <4>3. QED
        BY <4>1, <4>2 DEF MainIsLeaving, Ended
    <3>3. QED
      BY <3>1, <3>2
  <2>5. QED
    BY <1>5, <2>1, <2>2, <2>3, <2>4 DEF HostStep
<1>6. CASE UNCHANGED vars
  BY <1>6 DEF vars, threadVars, MainIsLeaving, Ended
<1>7. QED
  BY <1>3, <1>4, <1>5, <1>6 DEF Next, Stopped

DisciplinedInv == Coherent /\ WakeInvariant /\ NonePoisoned /\ MainIsLeaving

LEMMA DisciplinedInvariant ==
    ASSUME Disciplined
    PROVE  Spec => []DisciplinedInv
<1>1. Init => DisciplinedInv
  <2> SUFFICES ASSUME Init PROVE NonePoisoned /\ MainIsLeaving
    BY InitCoherent, InitWakes DEF DisciplinedInv
  <2>1. Parked = {} /\ Ended = {}
    BY DEF Init, Parked, Ended
  <2>2. QED
    BY <2>1 DEF NonePoisoned, Poisoned, MainIsLeaving
<1>2. DisciplinedInv /\ [Next]_vars => DisciplinedInv'
  BY StepCoherent, StepWakes, StepDisciplined, StepLeaving DEF DisciplinedInv
<1>3. QED
  BY <1>1, <1>2, PTL DEF Spec

(* With a disciplined guest, once the initial thread has ended the run is   *)
(* in the wake pass of that end, about to hand over or exited: it is never  *)
(* back in guest code, stuck or faulted (process.rs:387).                   *)
THEOREM MainReturnReports ==
    ASSUME Disciplined
    PROVE  Spec => []MainReturnTerminates
<1>1. DisciplinedInv => MainReturnTerminates
  BY DEF DisciplinedInv, MainIsLeaving, MainReturnTerminates
<1>2. QED
  BY <1>1, DisciplinedInvariant, PTL

-----------------------------------------------------------------------------
(* The scheduler implements the contract of the wait functions.             *)

(* The contract's operators are the scheduler's.                            *)
LEMMA SameOperators ==
    /\ Contract!Threads = Threads
    /\ Contract!ObjectsInit = ObjectsInit
    /\ \A w : Contract!AllValid(w) = AllValid(w)
    /\ \A w, t, ended : Contract!Satisfiable(w, t, ended) = Satisfiable(w, t, ended)
    /\ \A w, t, ended, r : Contract!Satisfy(w, t, ended, r) = Satisfy(w, t, ended, r)
<1>1. Contract!Threads = Threads
  BY DEF Contract!Threads, Threads
<1>2. Contract!ObjectsInit = ObjectsInit
  BY DEF Contract!ObjectsInit, ObjectsInit, Contract!AbsentEvent, AbsentEvent,
         Contract!AbsentMutex, AbsentMutex, Contract!NoThread, NoThread
<1>3. \A w : Contract!AllValid(w) = AllValid(w)
  BY DEF Contract!AllValid, AllValid, Contract!Valid, Valid
<1>4. \A w, t, ended : Contract!Satisfiable(w, t, ended) = Satisfiable(w, t, ended)
  BY DEF Contract!Satisfiable, Satisfiable, Contract!Signalled, Signalled, Contract!NoThread,
         NoThread, Contract!Threads, Threads
<1>5. ASSUME NEW w, NEW t, NEW ended, NEW r
      PROVE  Contract!Satisfy(w, t, ended, r) = Satisfy(w, t, ended, r)
  <2>1. \A i : Contract!FirstSignalled(w, i, t, ended) = FirstSignalled(w, i, t, ended)
    BY DEF Contract!FirstSignalled, FirstSignalled, Contract!Signalled, Signalled,
           Contract!NoThread, NoThread, Contract!Threads, Threads
  <2>2. \A hs, h : Contract!Occurrences(hs, h) = Occurrences(hs, h)
    BY DEF Contract!Occurrences, Occurrences, Contract!Cardinality, Cardinality
  <2>3. \A n : Contract!Saturated(n) = Saturated(n)
    BY DEF Contract!Saturated, Saturated
  <2>4. \A hs : Contract!Take(hs, t) = Take(hs, t)
    BY <2>2, <2>3 DEF Contract!Take, Take
  <2>5. QED
    BY <1>3, <1>4, <2>1, <2>4 DEF Contract!Satisfy, Satisfy
<1>6. QED
  BY <1>1, <1>2, <1>3, <1>4, <1>5

LEMMA SameOperations ==
    /\ \A n, b1, b2 : Contract!CreateEvent(n, b1, b2) = CreateEvent(n, b1, b2)
    /\ \A n, b, t : Contract!CreateMutex(n, b, t) = CreateMutex(n, b, t)
    /\ \A e, b : Contract!SetState(e, b) = SetState(e, b)
    /\ \A m, t : Contract!Release(m, t) = Release(m, t)
    /\ \A e : Contract!CloseEvent(e) = CloseEvent(e)
    /\ \A m : Contract!CloseMutex(m) = CloseMutex(m)
    /\ \A t : Contract!CloseThreadHandle(t) = CloseThreadHandle(t)
<1>1. \A n, b1, b2 : Contract!CreateEvent(n, b1, b2) = CreateEvent(n, b1, b2)
  BY DEF Contract!CreateEvent, CreateEvent
<1>2. \A n, b, t : Contract!CreateMutex(n, b, t) = CreateMutex(n, b, t)
  BY DEF Contract!CreateMutex, CreateMutex, Contract!NoThread, NoThread
<1>3. \A e, b : Contract!SetState(e, b) = SetState(e, b)
  BY DEF Contract!SetState, SetState
<1>4. \A m, t : Contract!Release(m, t) = Release(m, t)
  BY DEF Contract!Release, Release, Contract!NoThread, NoThread
<1>5. \A e : Contract!CloseEvent(e) = CloseEvent(e)
  BY DEF Contract!CloseEvent, CloseEvent, Contract!AbsentEvent, AbsentEvent
<1>6. \A m : Contract!CloseMutex(m) = CloseMutex(m)
  BY DEF Contract!CloseMutex, CloseMutex, Contract!AbsentMutex, AbsentMutex, Contract!NoThread,
         NoThread
<1>7. \A t : Contract!CloseThreadHandle(t) = CloseThreadHandle(t)
  BY DEF Contract!CloseThreadHandle, CloseThreadHandle
<1>8. QED
  BY <1>1, <1>2, <1>3, <1>4, <1>5, <1>6, <1>7

(* The refinement mapping.                                                  *)
Blocked == [t \in Threads |-> IF grants[t] # Pending THEN Pending ELSE pending[t]]

(* The contract's actions, in the scheduler's terms.                        *)
LEMMA ContractActions ==
    ASSUME NEW t \in Threads
    PROVE  /\ t \notin Ended /\ Blocked[t] = Pending /\ Blocked' = Blocked /\ Ended' = Ended
              /\ (\/ \E n \in Names \cup {NoName}, b1, b2 \in BOOLEAN : CreateEvent(n, b1, b2)
                  \/ \E n \in Names \cup {NoName}, b \in BOOLEAN : CreateMutex(n, b, t)
                  \/ \E e \in Events, b \in BOOLEAN : SetState(e, b)
                  \/ \E m \in Mutexes : Release(m, t)
                  \/ \E e \in Events : CloseEvent(e)
                  \/ \E m \in Mutexes : CloseMutex(m)
                  \/ \E u \in Threads : CloseThreadHandle(u)
                  \/ /\ \E u \in Threads : threadHandles' = threadHandles \cup {u}
                     /\ UNCHANGED <<events, mutexes, eventNames, mutexNames, issued>>)
              => Contract!Next
           /\ t \notin Ended /\ Blocked[t] = Pending /\ Blocked' = Blocked /\ Ended' = Ended
              /\ (\E w \in Waits : \E r \in 0..(Len(w.handles) - 1) : Satisfy(w, t, Ended, r))
              => Contract!Next
           /\ t \notin Ended /\ Blocked[t] = Pending /\ UNCHANGED objectVars /\ Ended' = Ended
              /\ (\E w \in Waits : /\ AllValid(w) /\ ~Satisfiable(w, t, Ended)
                                   /\ Blocked' = [Blocked EXCEPT ![t] = w])
              => Contract!Next
           /\ Blocked[t] # Pending /\ Ended' = Ended /\ Blocked' = [Blocked EXCEPT ![t] = Pending]
              /\ (\E r \in 0..(Len(Blocked[t].handles) - 1) : Satisfy(Blocked[t], t, Ended, r))
              => Contract!Next
           /\ t \notin Ended /\ Blocked[t] = Pending /\ UNCHANGED objectVars /\ Blocked' = Blocked
              /\ Ended' = Ended \cup {t}
              => Contract!Next
<1>0. Contract!Active(t) <=> t \notin Ended /\ Blocked[t] = Pending
  BY DEF Contract!Active, Blocked
<1>1. ASSUME t \notin Ended, Blocked[t] = Pending, Blocked' = Blocked, Ended' = Ended,
             \/ \E n \in Names \cup {NoName}, b1, b2 \in BOOLEAN : CreateEvent(n, b1, b2)
             \/ \E n \in Names \cup {NoName}, b \in BOOLEAN : CreateMutex(n, b, t)
             \/ \E e \in Events, b \in BOOLEAN : SetState(e, b)
             \/ \E m \in Mutexes : Release(m, t)
             \/ \E e \in Events : CloseEvent(e)
             \/ \E m \in Mutexes : CloseMutex(m)
             \/ \E u \in Threads : CloseThreadHandle(u)
             \/ /\ \E u \in Threads : threadHandles' = threadHandles \cup {u}
                /\ UNCHANGED <<events, mutexes, eventNames, mutexNames, issued>>
      PROVE  Contract!Use(t)
  BY <1>0, <1>1, SameOperators, SameOperations DEF Contract!Use, Blocked
<1>2. ASSUME t \notin Ended, Blocked[t] = Pending, Blocked' = Blocked, Ended' = Ended,
             \E w \in Waits : \E r \in 0..(Len(w.handles) - 1) : Satisfy(w, t, Ended, r)
      PROVE  Contract!TakeNow(t)
  BY <1>0, <1>2, SameOperators DEF Contract!TakeNow, Blocked
<1>3. ASSUME t \notin Ended, Blocked[t] = Pending, UNCHANGED objectVars, Ended' = Ended,
             \E w \in Waits : /\ AllValid(w) /\ ~Satisfiable(w, t, Ended)
                              /\ Blocked' = [Blocked EXCEPT ![t] = w]
      PROVE  Contract!Block(t)
  BY <1>0, <1>3, SameOperators DEF Contract!Block, Blocked, Contract!objectVars, objectVars
<1>4. ASSUME Blocked[t] # Pending, Ended' = Ended, Blocked' = [Blocked EXCEPT ![t] = Pending],
             \E r \in 0..(Len(Blocked[t].handles) - 1) : Satisfy(Blocked[t], t, Ended, r)
      PROVE  Contract!Unblock(t)
  BY <1>4, SameOperators DEF Contract!Unblock, Blocked
<1>5. ASSUME t \notin Ended, Blocked[t] = Pending, UNCHANGED objectVars, Blocked' = Blocked,
             Ended' = Ended \cup {t}
      PROVE  Contract!End(t)
  BY <1>0, <1>5, SameOperators DEF Contract!End, Blocked, Contract!objectVars, objectVars
<1>6. QED
  BY <1>1, <1>2, <1>3, <1>4, <1>5, SameOperators DEF Contract!Next

(* A step of the scheduler is a step of the contract or changes nothing it  *)
(* speaks of.                                                               *)
LEMMA StepRefines ==
    ASSUME DisciplinedInv, [Next]_vars
    PROVE  \/ Contract!Next
           \/ UNCHANGED objectVars /\ Blocked' = Blocked /\ Ended' = Ended
<1> USE ObjectsAssumption, SchedulerAssumption
<1>1. Coherent /\ TypeOK /\ current \in Threads
  BY DEF DisciplinedInv, Coherent, TypeOK
<1>2. pc = "guest" => current \notin Ended /\ Blocked[current] = Pending
  BY <1>1, RunningThread DEF Ended, Blocked
<1>3. UNCHANGED <<grants, pending>> => Blocked' = Blocked
  BY DEF Blocked
<1>4. UNCHANGED tstate => Ended' = Ended
  BY DEF Ended
<1>5. pc = "guest" /\ grants' = NoGrants /\ pending' = pending => Blocked' = Blocked
  BY <1>1 DEF Coherent, WakeCoherent, Blocked
<1>6. CASE ObjectCall
  <2>1. pc = "guest" /\ UNCHANGED <<tstate, pending>> /\ (grants' = grants \/ grants' = NoGrants)
    BY <1>6 DEF ObjectCall, CreateEventA, CreateMutexA, SetEvent, ResetEvent, ReleaseMutex,
                CloseHandle, BeginWake, threadVars, wakeVars
  <2>2. current \notin Ended /\ Blocked[current] = Pending /\ Blocked' = Blocked /\ Ended' = Ended
    BY <1>2, <1>3, <1>4, <1>5, <2>1
  <2>3. \/ \E n \in Names \cup {NoName}, b1, b2 \in BOOLEAN : CreateEvent(n, b1, b2)
        \/ \E n \in Names \cup {NoName}, b \in BOOLEAN : CreateMutex(n, b, current)
        \/ \E e \in Events, b \in BOOLEAN : SetState(e, b)
        \/ \E m \in Mutexes : Release(m, current)
        \/ \E e \in Events : CloseEvent(e)
        \/ \E m \in Mutexes : CloseMutex(m)
        \/ \E u \in Threads : CloseThreadHandle(u)
    BY <1>6 DEF ObjectCall, CreateEventA, CreateMutexA, SetEvent, ResetEvent, ReleaseMutex,
                CloseHandle
  <2>4. QED
    BY <1>1, <2>2, <2>3, ContractActions
<1>7. CASE ThreadCall
  <2>1. ASSUME NEW b \in BOOLEAN, CreateThread(b) PROVE Contract!Next
    <3>1. PICK t \in Threads : /\ tstate[t] = "Unborn"
                               /\ tstate' = [tstate EXCEPT ![t] = "Ready"]
                               /\ threadHandles' = threadHandles \cup {t}
      BY <2>1 DEF CreateThread
    <3>2. /\ pc = "guest" /\ UNCHANGED <<grants, pending>>
          /\ UNCHANGED <<events, mutexes, eventNames, mutexNames, issued>>
      BY <2>1 DEF CreateThread, wakeVars
    <3>3. Ended' = Ended
      BY <1>1, <3>1 DEF Ended, TypeOK
    <3>4. QED
      BY <1>1, <1>2, <1>3, <3>1, <3>2, <3>3, ContractActions
  <2>2. ASSUME NEW w \in Waits, WaitSatisfied(w) PROVE Contract!Next
    <3>1. pc = "guest" /\ UNCHANGED <<tstate, grants, pending>>
      BY <2>2 DEF WaitSatisfied, threadVars, wakeVars
    <3>2. \E r \in 0..(Len(w.handles) - 1) : Satisfy(w, current, Ended, r)
      BY <2>2 DEF WaitSatisfied
    <3>3. QED
      BY <1>1, <1>2, <1>3, <1>4, <3>1, <3>2, ContractActions
  <2>3. ASSUME NEW w \in Waits, WaitBlocks(w) PROVE Contract!Next
    <3>1. /\ pc = "guest" /\ AllValid(w) /\ ~Satisfiable(w, current, Ended)
          /\ UNCHANGED objectVars /\ UNCHANGED grants
          /\ pending' = [pending EXCEPT ![current] = w]
      BY <2>3 DEF WaitBlocks, SwitchTo, wakeVars
    <3>2. \A t \in Threads : grants[t] = Pending
      BY <1>1, <3>1, RunningThread
    <3>3. Blocked' = [Blocked EXCEPT ![current] = w]
      BY <1>1, <3>1, <3>2 DEF Blocked, TypeOK
    <3>4. Ended' = Ended
      <4>1. tstate[current] = "Running"
        BY <1>1, <3>1, RunningThread
      <4>2. CASE tstate' = [tstate EXCEPT ![current] = "Waiting"]
        BY <1>1, <4>1, <4>2 DEF Ended, TypeOK
      <4>3. ASSUME NEW next \in Threads, tstate[next] = "Ready",
                   tstate' = [[tstate EXCEPT ![current] = "Waiting"] EXCEPT ![next] = "Running"]
            PROVE  Ended' = Ended
        BY <1>1, <4>1, <4>3 DEF Ended, TypeOK
      <4>4. QED
        BY <2>3, <4>2, <4>3 DEF WaitBlocks, SwitchTo, Picked, Runnable
    <3>5. QED
      BY <1>1, <1>2, <3>1, <3>3, <3>4, ContractActions
  <2>4. CASE ExitThread
    <3>1. /\ pc = "guest" /\ UNCHANGED objectVars /\ grants' = NoGrants
          /\ tstate' = [tstate EXCEPT ![current] = "Terminated"]
          /\ pending' = [pending EXCEPT ![current] = Pending]
      BY <2>4 DEF ExitThread, BeginWake
    <3>2. pending[current] = Pending
      BY <1>1, <3>1, RunningThread
    <3>3. pending' = pending
      BY <1>1, <3>1, <3>2 DEF TypeOK
    <3>4. Ended' = Ended \cup {current}
      BY <1>1, <3>1 DEF Ended, TypeOK
    <3>5. QED
      BY <1>1, <1>2, <1>5, <3>1, <3>3, <3>4, ContractActions
  <2>5. CASE \/ \E t \in Threads : ResumeThread(t)
             \/ ExitProcess \/ EnterCallback \/ LeaveCallbacks \/ BlockInCallback
    <3>1. UNCHANGED objectVars /\ UNCHANGED <<tstate, pending, grants>>
      BY <2>5 DEF ResumeThread, ExitProcess, EnterCallback, LeaveCallbacks, BlockInCallback,
                  threadVars, wakeVars
    <3>2. QED
      BY <1>3, <1>4, <3>1
  <2>6. QED
    BY <1>7, <2>1, <2>2, <2>3, <2>4, <2>5 DEF ThreadCall
<1>8. CASE HostStep
  <2>1. ASSUME NEW t \in Threads, VisitSatisfied(t) PROVE Contract!Next
    <3>1. PICK r \in 0..(Len(pending[t].handles) - 1) :
             Satisfy(pending[t], t, Ended, r) /\ grants' = [grants EXCEPT ![t] = r]
      BY <2>1 DEF VisitSatisfied
    <3>2. UNCHANGED <<tstate, pending>>
      BY <2>1 DEF VisitSatisfied, threadVars
    <3>3. t \in Parked /\ grants[t] = Pending
      BY <1>1, <2>1 DEF VisitSatisfied, Visited, Coherent, WakeCoherent
    <3>4. Blocked[t] = pending[t] /\ Blocked[t] # Pending /\ r # Pending
      BY <3>3 DEF Blocked, Parked
    <3>5. Blocked' = [Blocked EXCEPT ![t] = Pending]
      BY <1>1, <3>1, <3>2, <3>4 DEF Blocked, TypeOK
    <3>6. QED
      BY <1>4, <3>1, <3>2, <3>4, <3>5, ContractActions
  <2>2. ASSUME NEW t \in Threads, VisitUnsatisfied(t)
        PROVE  UNCHANGED objectVars /\ Blocked' = Blocked /\ Ended' = Ended
    BY <1>3, <1>4, <2>2 DEF VisitUnsatisfied, threadVars
  <2>3. \A t \in Threads : ~VisitPoisoned(t)
    BY DEF DisciplinedInv, VisitPoisoned, Visited, Coherent, WakeCoherent, NonePoisoned, Poisoned
  <2>4. CASE CompleteWaits
    <3>1. \A t \in Threads : grants[t] # Pending => tstate[t] = "Waiting"
      BY <1>1 DEF Coherent, WakeCoherent, Parked
    <3>2. Ended' = Ended
      BY <2>4, <3>1 DEF CompleteWaits, Ended
    <3>3. Blocked' = Blocked
      BY <2>4 DEF CompleteWaits, Blocked, NoGrants
    <3>4. QED
      BY <2>4, <3>2, <3>3 DEF CompleteWaits
  <2>5. CASE Reschedule
    <3>1. UNCHANGED objectVars /\ UNCHANGED grants
      BY <2>5 DEF Reschedule, wakeVars
    <3>2. CASE UNCHANGED threadVars
      BY <1>3, <1>4, <3>1, <3>2 DEF threadVars
    <3>3. ASSUME NEW next \in Threads, Picked(next), SwitchTo(next, tstate, pending, completed)
          PROVE  Blocked' = Blocked /\ Ended' = Ended
      <4>1. pending' = pending /\ tstate' = [tstate EXCEPT ![next] = "Running"]
            /\ tstate[next] = "Ready"
        BY <3>3 DEF SwitchTo, Picked, Runnable
      <4>2. QED
        BY <1>1, <1>3, <3>1, <4>1 DEF Ended, TypeOK
    <3>4. QED
      BY <2>5, <3>1, <3>2, <3>3 DEF Reschedule
  <2>6. QED
    BY <1>8, <2>1, <2>2, <2>3, <2>4, <2>5 DEF HostStep
<1>9. CASE UNCHANGED vars
  BY <1>3, <1>4, <1>9 DEF vars, threadVars, wakeVars
<1>10. QED
  BY <1>6, <1>7, <1>8, <1>9 DEF Next, Stopped

(* The scheduler, wake passes and all, implements the contract of the wait  *)
(* functions: a wait is taken in one step, by the thread that made it, and  *)
(* only when it can be.  The guest must not close a handle in use.          *)
THEOREM SchedulerRefines ==
    ASSUME Disciplined
    PROVE  Spec => ImplementsContract
<1>1. Init => Contract!Init
  <2> SUFFICES ASSUME Init PROVE Contract!Init
    OBVIOUS
  <2>1. ObjectsInit /\ Ended = {} /\ \A t \in Threads : grants[t] = Pending /\ pending[t] = Pending
    BY DEF Init, Ended, NoGrants
  <2>2. QED
    BY <2>1, SameOperators DEF Contract!Init
<1>2. DisciplinedInv /\ [Next]_vars => [Contract!Next]_(Contract!contractVars)
  BY StepRefines DEF Contract!contractVars, Contract!objectVars, objectVars, Blocked
<1>3. QED
  BY <1>1, <1>2, DisciplinedInvariant, PTL DEF Spec, Contract!Spec, ImplementsContract
=============================================================================
