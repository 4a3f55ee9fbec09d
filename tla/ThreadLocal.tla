----------------------------- MODULE ThreadLocal -----------------------------
(***************************************************************************)
(* What a guest thread believes to be its own while others run: its last    *)
(* error, kept by the host and in the thread's TEB, and its TLS slots; and  *)
(* the words threads share: critical sections and interlocked variables.    *)
(*                                                                          *)
(* Which thread runs is chosen by GuestScheduler; here a call parks, wakes, *)
(* creates or ends a thread when it may.  The guest enters a section that   *)
(* is initialized, leaves one it is in and deletes one that nobody is in.   *)
(*                                                                          *)
(* Definitions headed "Wrong:" are faulty variants of the definition that   *)
(* follows them; nothing uses them but the tests of the properties.         *)
(***************************************************************************)
EXTENDS Integers, FiniteSets

CONSTANTS
    Threads, Main,
    Slots,          \* of TLS, from 0 up
    Values,         \* what the guest stores, 0 among it
    Sections,       \* critical sections
    WordModulus,    \* 2^32
    MaxCalls        \* bound of a behaviour

ASSUME ThreadLocalAssumption ==
    /\ Main \in Threads
    /\ Slots \subseteq Nat
    /\ Values \subseteq Nat /\ 0 \in Values
    /\ WordModulus \in Nat \ {0}

VARIABLES
    state,          \* of each thread
    current,
    lastError,      \* Runtime::last_error, the host's copy
    saved,          \* GuestThread::last_error
    teb,            \* the LastError word of each TEB
    static,         \* static_slot_count: 1 if the image has a TLS directory
    allocated,      \* slots in use
    pages,          \* TLS words of each thread
    sections,       \* contents of the critical sections, Absent before use
    word,           \* a word for the interlocked calls
    contended,      \* the run has ended: a section was contended
    own,            \* history: the last error each thread has caused,
    mine,           \*   the value it has given each slot,
    depth,          \*   how often it has entered each section,
    locker,         \*   threads that have the lock of the PEB,
    steps           \*   number of calls, weighted

threadVars == <<state, current>>
errorVars == <<lastError, saved, teb, own>>
tlsVars == <<static, allocated, pages, mine>>
sectionVars == <<sections, contended, depth>>
vars == <<threadVars, errorVars, tlsVars, sectionVars, word, locker, steps>>

Absent == [lock |-> 0, recursion |-> 0, owner |-> 0]
StaticBlock == 99       \* GUEST_TLS_DATA_BASE
Refused == 87           \* ERROR_INVALID_PARAMETER

Alive == {t \in Threads : state[t] \in {"Ready", "Running", "Waiting"}}

(* The main thread's slot 0 is the image's TLS block, if it has one.        *)
Init ==
    /\ state = [t \in Threads |-> IF t = Main THEN "Running" ELSE "Unborn"]
    /\ current = Main
    /\ lastError = 0 /\ saved = [t \in Threads |-> 0]
    /\ teb = [t \in Threads |-> 0] /\ own = [t \in Threads |-> 0]
    /\ static \in {0, 1}
    /\ allocated = {i \in Slots : i < static}
    /\ pages = [t \in Threads |-> [i \in Slots |->
                    IF t = Main /\ i < static THEN StaticBlock ELSE 0]]
    /\ mine = pages
    /\ sections = [s \in Sections |-> Absent] /\ contended = FALSE
    /\ depth = [t \in Threads |-> [s \in Sections |-> 0]]
    /\ word = 0 /\ locker = {} /\ steps = 0

-----------------------------------------------------------------------------
(* The last error at the boundary of a call.  The guest may have written    *)
(* the word in its TEB: the call begins with what is there, and ends with   *)
(* the word of the thread that is current by then.                          *)
Refreshed == teb[current]

(* Wrong: it ends with the word of the thread that made the call.           *)
PublishToCaller(error) == teb' = [teb EXCEPT ![current] = error]

Publish(error) == teb' = [teb EXCEPT ![current'] = error]

(* A call that returns to its caller, having set its last error or not.     *)
Returns(error) ==
    /\ lastError' = error
    /\ Publish(error)
    /\ own' = [own EXCEPT ![current] = error]
    /\ UNCHANGED saved

Keeps == lastError' = Refreshed /\ Publish(Refreshed) /\ UNCHANGED <<saved, own>>

GuestWritesLastError(error) ==
    /\ teb' = [teb EXCEPT ![current] = error]
    /\ own' = [own EXCEPT ![current] = error]
    /\ UNCHANGED <<lastError, saved, threadVars, tlsVars, sectionVars, word, locker>>

unshared == <<tlsVars, sectionVars, word, locker>>

SetLastError(error) == UNCHANGED <<threadVars, unshared>> /\ Returns(error)

-----------------------------------------------------------------------------
(* Threads.                                                                 *)
CreateThread(t) ==
    /\ state[t] = "Unborn"
    /\ state' = [state EXCEPT ![t] = "Ready"]
    /\ UNCHANGED current
    /\ Returns(0)
    /\ UNCHANGED unshared

(* The copies of the last error change hands.                               *)
SwitchTo(next, error) ==
    /\ current' = next
    /\ saved' = [saved EXCEPT ![current] = error]
    /\ lastError' = saved[next]
    /\ Publish(saved[next])
    /\ UNCHANGED own

(* park_wait_and_schedule.                                                  *)
Park(next) ==
    /\ state[next] = "Ready"
    /\ state' = [state EXCEPT ![current] = "Waiting", ![next] = "Running"]
    /\ SwitchTo(next, Refreshed)
    /\ UNCHANGED unshared

(* A call of the current thread makes a waiting one ready.                  *)
CompleteWait(t) ==
    /\ state[t] = "Waiting"
    /\ state' = [state EXCEPT ![t] = "Ready"]
    /\ UNCHANGED current
    /\ Returns(0)
    /\ UNCHANGED unshared

(* By a call, or by a return from its procedure, which refreshes nothing.   *)
ExitThread(next) ==
    /\ current # Main
    /\ state[next] = "Ready"
    /\ state' = [state EXCEPT ![current] = "Terminated", ![next] = "Running"]
    /\ \E error \in {Refreshed, lastError} : SwitchTo(next, error)
    /\ UNCHANGED unshared

-----------------------------------------------------------------------------
(* TLS slots.                                                               *)

(* Wrong: the word of the calling thread alone.                             *)
ClearedOfCurrent(table, i) == [table EXCEPT ![current][i] = 0]

(* The words of that slot, of every thread there is.                        *)
Cleared(table, i) ==
    [t \in Threads |-> IF state[t] = "Unborn" THEN table[t] ELSE [table[t] EXCEPT ![i] = 0]]

(* The first free one.                                                      *)
allocate(i) ==
    /\ i \in Slots \ allocated
    /\ \A j \in Slots \ allocated : i <= j
    /\ allocated' = allocated \cup {i}
    /\ pages' = Cleared(pages, i)
    /\ mine' = [t \in Threads |-> [mine[t] EXCEPT ![i] = 0]]
    /\ UNCHANGED static

TlsAlloc ==
    /\ UNCHANGED <<threadVars, sectionVars, word, locker>>
    /\ \/ \E i \in Slots : allocate(i) /\ Returns(0)
       \/ Slots = allocated /\ Returns(8) /\ UNCHANGED tlsVars

Dynamic(i) == i \in allocated /\ i >= static

free(i) ==
    /\ Dynamic(i)
    /\ allocated' = allocated \ {i}
    /\ pages' = Cleared(pages, i)
    /\ UNCHANGED <<static, mine>>

TlsFree(i) ==
    /\ UNCHANGED <<threadVars, sectionVars, word, locker>>
    /\ \/ free(i) /\ Returns(0)
       \/ ~Dynamic(i) /\ Returns(Refused) /\ UNCHANGED tlsVars

SetSlot(i, value) ==
    /\ i \in allocated
    /\ pages' = [pages EXCEPT ![current][i] = value]
    /\ mine' = [mine EXCEPT ![current][i] = value]
    /\ UNCHANGED <<static, allocated>>

TlsSetValue(i, value) ==
    /\ UNCHANGED <<threadVars, sectionVars, word, locker>>
    /\ \/ SetSlot(i, value) /\ Returns(0)
       \/ i \notin allocated /\ Returns(Refused) /\ UNCHANGED tlsVars

GetSlot(i) == IF i \in allocated THEN 0 ELSE Refused

TlsGetValue(i) == UNCHANGED <<threadVars, unshared>> /\ Returns(GetSlot(i))

-----------------------------------------------------------------------------
(* Critical sections.  LockCount is -1 when nobody is in.                   *)
Section(recursion, owner) ==
    [lock |-> IF recursion = 0 THEN WordModulus - 1 ELSE recursion - 1,
     recursion |-> recursion, owner |-> owner]

Change(s, section) == sections' = [sections EXCEPT ![s] = section]
InUse(s) == sections[s] # Absent

InitializeCriticalSection(s) == ~InUse(s) /\ Change(s, Section(0, 0)) /\ UNCHANGED <<contended, depth>>

DeleteCriticalSection(s) ==
    /\ InUse(s) /\ sections[s].recursion = 0
    /\ Change(s, Absent)
    /\ UNCHANGED <<contended, depth>>

Contended(s) == sections[s].recursion # 0 /\ sections[s].owner # current

(* The run ends where another thread is in.                                 *)
EnterCriticalSection(s) ==
    /\ InUse(s)
    /\ contended' = Contended(s)
    /\ IF Contended(s) THEN UNCHANGED <<sections, depth>>
       ELSE /\ Change(s, Section(sections[s].recursion + 1, current))
            /\ depth' = [depth EXCEPT ![current][s] = @ + 1]

(* Wrong: one leave is enough.                                              *)
LeftAtOnce(s) == Section(0, 0)

Left(s) ==
    LET recursion == sections[s].recursion - 1
    IN Section(recursion, IF recursion = 0 THEN 0 ELSE sections[s].owner)

LeaveCriticalSection(s) ==
    /\ InUse(s) /\ depth[current][s] > 0
    /\ sections[s].recursion # 0 /\ sections[s].owner = current
    /\ Change(s, Left(s))
    /\ depth' = [depth EXCEPT ![current][s] = @ - 1]
    /\ UNCHANGED contended

CriticalSection ==
    /\ UNCHANGED <<threadVars, tlsVars, word, locker>>
    /\ \/ \E s \in Sections : InitializeCriticalSection(s)
       \/ \E s \in Sections : DeleteCriticalSection(s)
       \/ \E s \in Sections : EnterCriticalSection(s)
       \/ \E s \in Sections : LeaveCriticalSection(s)
    /\ Keeps

(* The lock of the PEB is none: both calls do nothing.                      *)
RtlAcquirePebLock == locker' = locker \cup {current}
RtlReleasePebLock == locker' = locker \ {current}

PebLock ==
    /\ RtlAcquirePebLock \/ RtlReleasePebLock
    /\ UNCHANGED <<threadVars, tlsVars, sectionVars, word>>
    /\ Keeps

-----------------------------------------------------------------------------
(* Interlocked calls: the new word.                                         *)
Incremented == (word + 1) % WordModulus
Decremented == (word - 1) % WordModulus
Exchanged(value) == value
CompareExchanged(exchange, comparand) == IF word = comparand THEN exchange ELSE word
ExchangeAdded(value) == (word + value) % WordModulus

Interlocked ==
    /\ \/ word' = Incremented
       \/ word' = Decremented
       \/ \E v \in Values : word' = Exchanged(v)
       \/ \E v, w \in Values : word' = CompareExchanged(v, w)
       \/ \E v \in Values : word' = ExchangeAdded(v)
    /\ UNCHANGED <<threadVars, tlsVars, sectionVars, locker>>
    /\ Keeps

-----------------------------------------------------------------------------
Call ==
    \/ \E error \in Values : GuestWritesLastError(error)
    \/ \E error \in Values : SetLastError(error)
    \/ \E t \in Threads : CreateThread(t)
    \/ \E t \in Threads : Park(t)
    \/ \E t \in Threads : CompleteWait(t)
    \/ \E t \in Threads : ExitThread(t)
    \/ TlsAlloc
    \/ \E i \in Slots : TlsFree(i)
    \/ \E i \in Slots, value \in Values : TlsSetValue(i, value)
    \/ \E i \in Slots : TlsGetValue(i)
    \/ CriticalSection

(* The bound counts the last two kinds of calls twice.                      *)
Next ==
    /\ ~contended
    /\ \/ steps < MaxCalls /\ steps' = steps + 1 /\ Call
       \/ steps + 1 < MaxCalls /\ steps' = steps + 2 /\ (PebLock \/ Interlocked)

Spec == Init /\ [][Next]_vars

-----------------------------------------------------------------------------
(* Every variable has its type.                                             *)
TypeOK ==
    /\ state \in [Threads -> {"Unborn", "Ready", "Running", "Waiting", "Terminated"}]
    /\ current \in Threads /\ state[current] = "Running"
    /\ lastError \in Int /\ saved \in [Threads -> Int] /\ teb \in [Threads -> Int]
    /\ allocated \subseteq Slots
    /\ pages \in [Threads -> [Slots -> Int]]
    /\ \A s \in Sections : sections[s].lock \in 0..(WordModulus - 1)
    /\ word \in 0..(WordModulus - 1) \cup Values

(* A thread finds its last error as it left it, however many threads have   *)
(* run and failed calls in between, and whether it reads the TEB or asks    *)
(* the host (switch_to, dispatch_host_call).                                *)
LastErrorIsOwn ==
    \A t \in Alive : own[t] = IF t = current THEN teb[t] ELSE saved[t]

(* A slot holds in each thread what that thread has put there since the     *)
(* slot was allocated, and 0 before, although slots and their words are     *)
(* used again (TlsSlotManager).                                             *)
SlotsAreOwn == \A t \in Threads, i \in allocated : pages[t][i] = mine[t][i]

(* No two threads are in a critical section, and the words of a section     *)
(* tell who is in, and how often (CriticalSection).                         *)
SectionsExclude ==
    \A s \in Sections :
        /\ \A t, u \in Threads : depth[t][s] > 0 /\ depth[u][s] > 0 => t = u
        /\ \A t \in Threads : depth[t][s] > 0 =>
              sections[s] = [lock |-> depth[t][s] - 1, recursion |-> depth[t][s], owner |-> t]
        /\ (\A t \in Threads : depth[t][s] = 0) => sections[s].recursion = 0

(* What a thread keeps is its own.                                          *)
ThreadsKeepTheirOwn == LastErrorIsOwn /\ SlotsAreOwn /\ SectionsExclude

(* Does not hold, and is checked by no run:                                 *)
(* The lock of the PEB "cannot be contended" (ntdll): two threads never     *)
(* have it.                                                                 *)
PebLockExcludes == Cardinality(locker) <= 1
=============================================================================
