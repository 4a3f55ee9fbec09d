---------------------------- MODULE KernelObjects ----------------------------
(***************************************************************************)
(* The waitable kernel objects of the runtime: events and mutexes, their   *)
(* reference counts and name tables (vnrt-runtime/src/objects.rs), and the *)
(* open thread handles (ThreadManager::handle_to_id, threads.rs).          *)
(*                                                                         *)
(* A handle value is fresh for the life of the process (the managers only  *)
(* count up), so an object is identified with its handle; the handle of a  *)
(* worker thread is identified with the thread.  The handle ranges of the  *)
(* managers are assumed disjoint: see ObjectsAssumption.                   *)
(*                                                                         *)
(* The module has no behaviour of its own.  Its operations are the effects *)
(* that the scheduler (GuestScheduler) and the wait contract (WaitContract)*)
(* share.                                                                  *)
(*                                                                         *)
(* Definitions headed "Wrong:" are faulty variants of the definition that  *)
(* follows them; nothing uses them but the tests of the properties.        *)
(***************************************************************************)
EXTENDS Integers, Sequences, FiniteSets

CONSTANTS
    Events,         \* handles EventManager may hand out
    Mutexes,        \* handles MutexManager may hand out
    Names,          \* object names the guest uses
    NoName,         \* an unnamed object
    NoHandle,       \* a name that is not in the table
    MaxThreads,     \* MAX_GUEST_THREADS (32)
    MaxReferences,  \* bound: references one object can collect (u32::MAX)
    MaxRecursion    \* where a mutex recursion count saturates (u32::MAX)

(* Thread ids are handed out in increasing order; the initial thread is    *)
(* the lowest (GUEST_THREAD_ID).                                           *)
Threads == 1..MaxThreads
Main == 1
NoThread == 0

ASSUME ObjectsAssumption ==
    /\ MaxThreads \in Nat \ {0}
    /\ MaxReferences \in Nat \ {0}
    /\ MaxRecursion \in Nat \ {0}
    /\ Events \cap Mutexes = {}
    /\ (Events \cup Mutexes) \cap Threads = {}
    /\ NoName \notin Names
    /\ NoHandle \notin Events \cup Mutexes

Handles == Events \cup Mutexes \cup Threads

VARIABLES
    events,         \* EventManager::objects; refs = 0 is "not in the map"
    mutexes,        \* MutexManager::objects, likewise
    eventNames,     \* EventManager::names
    mutexNames,     \* MutexManager::names
    issued,         \* handles below next_handle: never handed out again
    threadHandles   \* ThreadManager::handle_to_id

objectVars == <<events, mutexes, eventNames, mutexNames, issued, threadHandles>>

Event == [refs: 0..MaxReferences, manual: BOOLEAN, signaled: BOOLEAN,
          name: Names \cup {NoName}]
Mutex == [refs: 0..MaxReferences, owner: Threads \cup {NoThread},
          recursion: 0..MaxRecursion, name: Names \cup {NoName}]

AbsentEvent == [refs |-> 0, manual |-> FALSE, signaled |-> FALSE, name |-> NoName]
AbsentMutex == [refs |-> 0, owner |-> NoThread, recursion |-> 0, name |-> NoName]

ObjectsTypeOK ==
    /\ events \in [Events -> Event]
    /\ mutexes \in [Mutexes -> Mutex]
    /\ eventNames \in [Names -> Events \cup {NoHandle}]
    /\ mutexNames \in [Names -> Mutexes \cup {NoHandle}]
    /\ issued \subseteq Events \cup Mutexes
    /\ threadHandles \subseteq Threads

ObjectsInit ==
    /\ events = [e \in Events |-> AbsentEvent]
    /\ mutexes = [m \in Mutexes |-> AbsentMutex]
    /\ eventNames = [n \in Names |-> NoHandle]
    /\ mutexNames = [n \in Names |-> NoHandle]
    /\ issued = {}
    /\ threadHandles = {}     \* the initial thread has no handle

-----------------------------------------------------------------------------
(* Lookup: what try_wait_objects asks of one handle.                        *)

Valid(h) ==
    \/ h \in Events /\ events[h].refs > 0
    \/ h \in Mutexes /\ mutexes[h].refs > 0
    \/ h \in threadHandles

(* h is signalled for thread t; ended is the set of terminated threads.     *)
Signalled(h, t, ended) ==
    \/ h \in Events /\ events[h].signaled
    \/ h \in Mutexes /\ mutexes[h].owner \in {NoThread, t}
    \/ h \in Threads /\ h \in ended

(* A wait is a non-empty array of handles and the wait-all flag.            *)
Wait == [handles: Seq(Handles) \ {<<>>}, all: BOOLEAN]

AllValid(w) == \A i \in DOMAIN w.handles : Valid(w.handles[i])

FirstSignalled(w, i, t, ended) ==
    /\ Signalled(w.handles[i], t, ended)
    /\ \A j \in DOMAIN w.handles : j < i => ~Signalled(w.handles[j], t, ended)

Satisfiable(w, t, ended) ==
    IF w.all THEN \A i \in DOMAIN w.handles : Signalled(w.handles[i], t, ended)
             ELSE \E i \in DOMAIN w.handles : Signalled(w.handles[i], t, ended)

-----------------------------------------------------------------------------
(* Effects on the tables.                                                   *)

Occurrences(hs, h) == Cardinality({i \in DOMAIN hs : hs[i] = h})

Saturated(n) == IF n < MaxRecursion THEN n ELSE MaxRecursion

(* EventManager::consume and MutexManager::acquire over the handles hs of a *)
(* satisfied wait of thread t: an auto-reset event is reset, a mutex gains  *)
(* one recursion for every time it is listed, a thread handle is untouched. *)
Take(hs, t) ==
    /\ events' = [e \in Events |->
          IF Occurrences(hs, e) > 0 /\ ~events[e].manual
          THEN [events[e] EXCEPT !.signaled = FALSE]
          ELSE events[e]]
    /\ mutexes' = [m \in Mutexes |->
          IF Occurrences(hs, m) > 0
          THEN [mutexes[m] EXCEPT
                  !.owner = t,
                  !.recursion = Saturated(@ + Occurrences(hs, m))]
          ELSE mutexes[m]]
    /\ UNCHANGED <<eventNames, mutexNames, issued, threadHandles>>

(* try_wait_objects with consume = true, the case Ok(Some(result)).         *)
Satisfy(w, t, ended, result) ==
    /\ AllValid(w)
    /\ \/ /\ w.all
          /\ Satisfiable(w, t, ended)
          /\ result = 0
          /\ Take(w.handles, t)
       \/ /\ ~w.all
          /\ result + 1 \in DOMAIN w.handles
          /\ FirstSignalled(w, result + 1, t, ended)
          /\ Take(<<w.handles[result + 1]>>, t)

(* Wrong: a closed handle is handed out again.                              *)
CreateEventReuses(name, manual, initial) ==
    /\ \E e \in {x \in Events : events[x].refs = 0} :
          /\ events' = [events EXCEPT ![e] =
                [refs |-> 1, manual |-> manual, signaled |-> initial, name |-> name]]
          /\ issued' = issued \cup {e}
    /\ UNCHANGED <<mutexes, eventNames, mutexNames, threadHandles>>

(* EventManager::create: a known name adds a reference and ignores the      *)
(* requested mode and state.                                                *)
CreateEvent(name, manual, initial) ==
    /\ \/ /\ name # NoName
          /\ eventNames[name] # NoHandle
          /\ LET e == eventNames[name] IN
             /\ events[e].refs \in 1..(MaxReferences - 1)
             /\ events' = [events EXCEPT ![e].refs = @ + 1]
          /\ UNCHANGED <<eventNames, issued>>
       \/ /\ name # NoName => eventNames[name] = NoHandle
          /\ \E e \in Events \ issued :
             /\ events' = [events EXCEPT ![e] =
                   [refs |-> 1, manual |-> manual, signaled |-> initial, name |-> name]]
             /\ eventNames' = IF name = NoName THEN eventNames
                              ELSE [eventNames EXCEPT ![name] = e]
             /\ issued' = issued \cup {e}
    /\ UNCHANGED <<mutexes, mutexNames, threadHandles>>

SetState(e, signaled) ==
    /\ events[e].refs > 0
    /\ events' = [events EXCEPT ![e].signaled = signaled]
    /\ UNCHANGED <<mutexes, eventNames, mutexNames, issued, threadHandles>>

(* MutexManager::create: opening an existing name does not take ownership.  *)
CreateMutex(name, initialOwner, t) ==
    /\ \/ /\ name # NoName
          /\ mutexNames[name] # NoHandle
          /\ LET m == mutexNames[name] IN
             /\ mutexes[m].refs \in 1..(MaxReferences - 1)
             /\ mutexes' = [mutexes EXCEPT ![m].refs = @ + 1]
          /\ UNCHANGED <<mutexNames, issued>>
       \/ /\ name # NoName => mutexNames[name] = NoHandle
          /\ \E m \in Mutexes \ issued :
             /\ mutexes' = [mutexes EXCEPT ![m] =
                   [refs |-> 1,
                    owner |-> IF initialOwner THEN t ELSE NoThread,
                    recursion |-> IF initialOwner THEN 1 ELSE 0,
                    name |-> name]]
             /\ mutexNames' = IF name = NoName THEN mutexNames
                              ELSE [mutexNames EXCEPT ![name] = m]
             /\ issued' = issued \cup {m}
    /\ UNCHANGED <<events, eventNames, threadHandles>>

(* Wrong: the last release leaves the owner.                                *)
ReleaseKeepsOwner(m, t) ==
    /\ mutexes[m].refs > 0
    /\ mutexes[m].owner = t
    /\ mutexes[m].recursion > 0
    /\ mutexes' = [mutexes EXCEPT ![m].recursion = @ - 1]
    /\ UNCHANGED <<events, eventNames, mutexNames, issued, threadHandles>>

(* MutexManager::release by the owner.                                      *)
Release(m, t) ==
    /\ mutexes[m].refs > 0
    /\ mutexes[m].owner = t
    /\ mutexes[m].recursion > 0
    /\ mutexes' = [mutexes EXCEPT
          ![m].owner = IF mutexes[m].recursion = 1 THEN NoThread ELSE t,
          ![m].recursion = @ - 1]
    /\ UNCHANGED <<events, eventNames, mutexNames, issued, threadHandles>>

(* Wrong: every close of a named event forgets the name.                    *)
CloseEventForgetsName(e) ==
    /\ events[e].refs > 0
    /\ events' = [events EXCEPT ![e] = IF events[e].refs > 1
                                       THEN [events[e] EXCEPT !.refs = @ - 1]
                                       ELSE AbsentEvent]
    /\ eventNames' = [n \in Names |-> IF n = events[e].name THEN NoHandle ELSE eventNames[n]]
    /\ UNCHANGED <<mutexes, mutexNames, issued, threadHandles>>

(* EventManager::close.                                                     *)
CloseEvent(e) ==
    /\ events[e].refs > 0
    /\ IF events[e].refs > 1
       THEN /\ events' = [events EXCEPT ![e].refs = @ - 1]
            /\ UNCHANGED eventNames
       ELSE /\ events' = [events EXCEPT ![e] = AbsentEvent]
            /\ eventNames' = IF events[e].name = NoName THEN eventNames
                             ELSE [eventNames EXCEPT ![events[e].name] = NoHandle]
    /\ UNCHANGED <<mutexes, mutexNames, issued, threadHandles>>

(* Closing the last reference destroys the mutex, owned or not.             *)
CloseMutex(m) ==
    /\ mutexes[m].refs > 0
    /\ IF mutexes[m].refs > 1
       THEN /\ mutexes' = [mutexes EXCEPT ![m].refs = @ - 1]
            /\ UNCHANGED mutexNames
       ELSE /\ mutexes' = [mutexes EXCEPT ![m] = AbsentMutex]
            /\ mutexNames' = IF mutexes[m].name = NoName THEN mutexNames
                             ELSE [mutexNames EXCEPT ![mutexes[m].name] = NoHandle]
    /\ UNCHANGED <<events, eventNames, issued, threadHandles>>

(* ThreadManager::close_handle: the thread itself lives on.                 *)
CloseThreadHandle(t) ==
    /\ t \in threadHandles
    /\ threadHandles' = threadHandles \ {t}
    /\ UNCHANGED <<events, mutexes, eventNames, mutexNames, issued>>

-----------------------------------------------------------------------------
(* A name resolves to the live object that carries it, and a live named    *)
(* object is reachable by its name: what EventManager::create and          *)
(* MutexManager::create rely on when they look a name up and index the map *)
(* with what they find, across every order of create, open and close.      *)
NameTablesConsistent ==
    /\ \A n \in Names : eventNames[n] # NoHandle =>
          events[eventNames[n]].refs > 0 /\ events[eventNames[n]].name = n
    /\ \A e \in Events : (events[e].refs > 0 /\ events[e].name # NoName) =>
          eventNames[events[e].name] = e
    /\ \A n \in Names : mutexNames[n] # NoHandle =>
          mutexes[mutexNames[n]].refs > 0 /\ mutexes[mutexNames[n]].name = n
    /\ \A m \in Mutexes : (mutexes[m].refs > 0 /\ mutexes[m].name # NoName) =>
          mutexNames[mutexes[m].name] = m
=============================================================================
