--------------------------- MODULE ProcessProofs ------------------------------
(***************************************************************************)
(* Proofs about what a process of the guest is made of, for any instance of *)
(* it: what a thread believes to be its own while others run is its own;    *)
(* the wildcard loop finds every match; paths stay under the root; and an   *)
(* address that the guest is given for an API leads to that API.            *)
(***************************************************************************)
EXTENDS Process, FiniteSetTheorems, SequenceTheorems, WellFoundedInduction, TLAPS

-----------------------------------------------------------------------------
(* Induction.  A property of numbers is the set T of those that have it.    *)
LEMMA LeastNumber ==
    ASSUME NEW T, T \subseteq Nat, T # {}
    PROVE  \E n \in T : \A m \in T : n <= m
<1>1. PICK n \in T : \A m \in T : <<m, n>> \notin OpToRel(<, Nat)
  BY NatLessThanWellFounded, WFMin
<1>2. \A m \in T : ~(m < n)
  BY <1>1 DEF OpToRel
<1> QED BY <1>2

LEMMA SetInduction ==
    ASSUME NEW T, 0 \in T, \A n \in Nat : n \in T => n + 1 \in T
    PROVE  Nat \subseteq T
<1> SUFFICES ASSUME Nat \ T # {} PROVE FALSE
  OBVIOUS
<1>1. PICK n \in Nat \ T : \A m \in Nat \ T : n <= m
  BY LeastNumber
<1>2. n # 0 /\ n - 1 \in Nat /\ n - 1 \in T
  BY <1>1
<1> QED BY <1>1, <1>2

-----------------------------------------------------------------------------
(* What a guest thread believes to be its own is its own, for any number    *)
(* of threads, TLS slots and critical sections and without a bound on the   *)
(* calls: proof of ThreadsKeepTheirOwn of ThreadLocal.                      *)
(*                                                                          *)
(* The argument.  Three tables are kept in step with what each thread       *)
(* remembers, and each needs more than it promises.  The last error of a    *)
(* thread must be in place before the thread is created; the words of a     *)
(* slot must be 0 in the page of a thread that does not exist yet, because  *)
(* allocating the slot clears only the pages that do (Cleared); and a       *)
(* section that nobody is in must have recursion 0, or it could be entered  *)
(* by a thread that is not its owner.                                       *)
States == {"Unborn", "Ready", "Running", "Waiting", "Terminated"}

Tables ==
    /\ state \in [Threads -> States]
    /\ current \in Threads /\ state[current] = "Running"
    /\ lastError \in Int
    /\ saved \in [Threads -> Int] /\ teb \in [Threads -> Int] /\ own \in [Threads -> Int]
    /\ static \in {0, 1} /\ allocated \subseteq Slots
    /\ pages \in [Threads -> [Slots -> Int]] /\ mine \in [Threads -> [Slots -> Int]]
    /\ sections \in [Sections -> [lock : Int, recursion : Nat, owner : Threads \cup {0}]]
    /\ depth \in [Threads -> [Sections -> Nat]]

ErrorsInPlace ==
    \A t \in Threads :
        state[t] # "Terminated" => own[t] = IF t = current THEN teb[t] ELSE saved[t]

PagesStartClear == \A t \in Threads, i \in Slots : state[t] = "Unborn" => pages[t][i] = 0

-----------------------------------------------------------------------------
(* The last error.                                                          *)

LEMMA ReturnsError ==
    ASSUME Tables, ErrorsInPlace, NEW error \in Int, Returns(error), current' = current,
           \A t \in Threads : state[t] = "Terminated" => state'[t] = "Terminated"
    PROVE  /\ lastError' \in Int /\ saved' \in [Threads -> Int] /\ teb' \in [Threads -> Int]
           /\ own' \in [Threads -> Int]
           /\ ErrorsInPlace'
BY DEF Tables, ErrorsInPlace, Returns, Publish

LEMMA KeepsError ==
    ASSUME Tables, ErrorsInPlace, Keeps, UNCHANGED threadVars
    PROVE  /\ lastError' \in Int /\ saved' \in [Threads -> Int] /\ teb' \in [Threads -> Int]
           /\ own' \in [Threads -> Int]
           /\ ErrorsInPlace'
BY DEF Tables, ErrorsInPlace, Keeps, Publish, Refreshed, threadVars

(* A switch hands the copies over.  The thread that is left has its last    *)
(* error saved, unless it has ended.                                        *)
LEMMA SwitchesError ==
    ASSUME Tables, ErrorsInPlace, NEW next \in Threads, NEW error \in Int, SwitchTo(next, error),
           state[next] = "Ready",
           \/ state' = [state EXCEPT ![current] = "Waiting", ![next] = "Running"]
              /\ error = Refreshed
           \/ state' = [state EXCEPT ![current] = "Terminated", ![next] = "Running"]
    PROVE  /\ lastError' \in Int /\ saved' \in [Threads -> Int] /\ teb' \in [Threads -> Int]
           /\ own' \in [Threads -> Int]
           /\ state' \in [Threads -> States] /\ current' \in Threads
           /\ state'[current'] = "Running"
           /\ \A t \in Threads : state'[t] = "Unborn" => state[t] = "Unborn"
           /\ ErrorsInPlace'
<1>1. current \in Threads /\ next # current /\ current' = next
  BY DEF Tables, SwitchTo
<1>2. state' \in [Threads -> States] /\ state'[next] = "Running"
      /\ \A t \in Threads : state'[t] = "Unborn" => state[t] = "Unborn"
  BY <1>1 DEF Tables, States
<1>3. /\ saved' = [saved EXCEPT ![current] = error] /\ lastError' = saved[next]
      /\ teb' = [teb EXCEPT ![next] = saved[next]] /\ own' = own
  BY <1>1 DEF SwitchTo, Publish
<1>4. lastError' \in Int /\ saved' \in [Threads -> Int] /\ teb' \in [Threads -> Int]
      /\ own' \in [Threads -> Int]
  BY <1>1, <1>3 DEF Tables
<1>5. ASSUME NEW t \in Threads, state'[t] # "Terminated"
      PROVE  own'[t] = IF t = next THEN teb'[t] ELSE saved'[t]
  <2>1. CASE t = next
    BY <1>1, <1>3, <2>1 DEF Tables, ErrorsInPlace
  <2>2. CASE t = current
    BY <1>1, <1>3, <1>5, <2>2 DEF Tables, ErrorsInPlace, Refreshed
  <2>3. CASE t # next /\ t # current
    <3>1. state[t] # "Terminated"
      BY <1>1, <1>5, <2>3 DEF Tables
    <3>2. QED
      BY <1>3, <2>3, <3>1 DEF Tables, ErrorsInPlace
  <2>4. QED
    BY <2>1, <2>2, <2>3
<1>6. QED
  BY <1>1, <1>2, <1>4, <1>5 DEF ErrorsInPlace

-----------------------------------------------------------------------------
(* TLS slots.                                                               *)

SlotTables ==
    /\ static \in {0, 1} /\ allocated \subseteq Slots
    /\ pages \in [Threads -> [Slots -> Int]] /\ mine \in [Threads -> [Slots -> Int]]

SlotsInPlace == SlotTables /\ PagesStartClear /\ SlotsAreOwn

LEMMA ClearedPages ==
    ASSUME SlotsInPlace, NEW i \in Slots, pages' = Cleared(pages, i)
    PROVE  /\ pages' \in [Threads -> [Slots -> Int]]
           /\ \A t \in Threads : pages'[t][i] = 0
           /\ \A t \in Threads, j \in Slots : j # i => pages'[t][j] = pages[t][j]
<1>1. \A t \in Threads : [pages[t] EXCEPT ![i] = 0] \in [Slots -> Int]
  BY DEF SlotsInPlace, SlotTables
<1>2. \A t \in Threads :
         pages'[t] = IF state[t] = "Unborn" THEN pages[t] ELSE [pages[t] EXCEPT ![i] = 0]
  BY DEF Cleared
<1>3. pages' \in [Threads -> [Slots -> Int]]
  BY <1>1 DEF Cleared, SlotsInPlace, SlotTables
<1>4. ASSUME NEW t \in Threads
      PROVE  pages'[t][i] = 0 /\ \A j \in Slots : j # i => pages'[t][j] = pages[t][j]
  <2>1. pages[t] \in [Slots -> Int]
    BY DEF SlotsInPlace, SlotTables
  <2>2. CASE state[t] = "Unborn"
    BY <1>2, <2>2 DEF SlotsInPlace, PagesStartClear
  <2>3. CASE state[t] # "Unborn"
    <3>1. pages'[t] = [pages[t] EXCEPT ![i] = 0]
      BY <1>2, <2>3
    <3>2. QED
      BY <2>1, <3>1
  <2>4. QED
    BY <2>2, <2>3
<1>5. QED
  BY <1>3, <1>4

LEMMA SlotCalls ==
    ASSUME SlotsInPlace, current \in Threads, state[current] = "Running", UNCHANGED state
    PROVE  /\ \A i \in Slots : allocate(i) => SlotsInPlace'
           /\ \A i \in Slots : free(i) => SlotsInPlace'
           /\ \A i \in Slots, v \in Values : SetSlot(i, v) => SlotsInPlace'
           /\ UNCHANGED tlsVars => SlotsInPlace'
<1> USE ThreadLocalAssumption
<1>1. ASSUME NEW i \in Slots, allocate(i) PROVE SlotsInPlace'
  <2>1. /\ pages' \in [Threads -> [Slots -> Int]]
        /\ \A t \in Threads : pages'[t][i] = 0
        /\ \A t \in Threads, j \in Slots : j # i => pages'[t][j] = pages[t][j]
    BY <1>1, ClearedPages DEF allocate
  <2>2. /\ mine' \in [Threads -> [Slots -> Int]]
        /\ \A t \in Threads : mine'[t][i] = 0
        /\ \A t \in Threads, j \in Slots : j # i => mine'[t][j] = mine[t][j]
    BY <1>1 DEF allocate, SlotsInPlace, SlotTables
  <2>3. allocated' = allocated \cup {i} /\ static' = static
    BY <1>1 DEF allocate
  <2>4. QED
    BY <2>1, <2>2, <2>3 DEF SlotsInPlace, SlotTables, PagesStartClear, SlotsAreOwn
<1>2. ASSUME NEW i \in Slots, free(i) PROVE SlotsInPlace'
  <2>1. /\ pages' \in [Threads -> [Slots -> Int]]
        /\ \A t \in Threads : pages'[t][i] = 0
        /\ \A t \in Threads, j \in Slots : j # i => pages'[t][j] = pages[t][j]
    BY <1>2, ClearedPages DEF free
  <2>2. allocated' = allocated \ {i} /\ static' = static /\ mine' = mine
    BY <1>2 DEF free
  <2>3. QED
    BY <2>1, <2>2 DEF SlotsInPlace, SlotTables, PagesStartClear, SlotsAreOwn
<1>3. ASSUME NEW i \in Slots, NEW v \in Values, SetSlot(i, v) PROVE SlotsInPlace'
  <2>1. /\ pages' = [pages EXCEPT ![current][i] = v]
        /\ mine' = [mine EXCEPT ![current][i] = v]
        /\ UNCHANGED <<static, allocated>>
    BY <1>3 DEF SetSlot
  <2>2. pages' \in [Threads -> [Slots -> Int]] /\ mine' \in [Threads -> [Slots -> Int]]
    BY <2>1 DEF SlotsInPlace, SlotTables
  <2>3. \A t \in Threads, j \in Slots :
           /\ pages'[t][j] = IF t = current /\ j = i THEN v ELSE pages[t][j]
           /\ mine'[t][j] = IF t = current /\ j = i THEN v ELSE mine[t][j]
    BY <2>1 DEF SlotsInPlace, SlotTables
  <2>4. QED
    BY <2>1, <2>2, <2>3 DEF SlotsInPlace, SlotTables, PagesStartClear, SlotsAreOwn
<1>4. ASSUME UNCHANGED tlsVars PROVE SlotsInPlace'
  BY <1>4 DEF tlsVars, SlotsInPlace, SlotTables, PagesStartClear, SlotsAreOwn
<1>5. QED
  BY <1>1, <1>2, <1>3, <1>4

-----------------------------------------------------------------------------
(* Critical sections.                                                       *)

SectionTables ==
    /\ sections \in [Sections -> [lock : Int, recursion : Nat, owner : Threads \cup {0}]]
    /\ depth \in [Threads -> [Sections -> Nat]]

SectionsInPlace == SectionTables /\ SectionsExclude

LEMMA SectionType ==
    ASSUME NEW recursion \in Nat, NEW owner \in Threads \cup {0}
    PROVE  /\ Section(recursion, owner) \in [lock : Int, recursion : Nat, owner : Threads \cup {0}]
           /\ Section(recursion, owner).recursion = recursion
           /\ recursion > 0 => Section(recursion, owner) =
                 [lock |-> recursion - 1, recursion |-> recursion, owner |-> owner]
<1> USE ThreadLocalAssumption
<1>1. recursion > 0 => Section(recursion, owner) =
         [lock |-> recursion - 1, recursion |-> recursion, owner |-> owner]
  BY DEF Section
<1>2. QED
  BY <1>1 DEF Section

(* A section that nobody is in, before and after a call.                    *)
LEMMA SectionEmptied ==
    ASSUME SectionsInPlace, NEW s \in Sections, sections[s].recursion = 0,
           NEW section \in [lock : Int, recursion : Nat, owner : Threads \cup {0}],
           section.recursion = 0, Change(s, section), UNCHANGED depth
    PROVE  SectionsInPlace'
<1>1. sections' = [sections EXCEPT ![s] = section]
  BY DEF Change
<1>2. SectionTables'
  BY <1>1 DEF SectionsInPlace, SectionTables
<1>3. sections'[s] = section /\ \A r \in Sections : r # s => sections'[r] = sections[r]
  BY <1>1 DEF SectionsInPlace, SectionTables
<1>4. \A t \in Threads : depth[t][s] = 0
  <2>1. SUFFICES ASSUME NEW t \in Threads, depth[t][s] # 0 PROVE FALSE
    OBVIOUS
  <2>2. depth[t][s] \in Nat /\ depth[t][s] > 0
    BY <2>1 DEF SectionsInPlace, SectionTables
  <2>3. sections[s] = [lock |-> depth[t][s] - 1, recursion |-> depth[t][s], owner |-> t]
    BY <2>2 DEF SectionsInPlace, SectionsExclude
  <2>4. sections[s].recursion = depth[t][s]
    BY <2>3
  <2>5. QED
    BY <2>2, <2>4
<1>5. SectionsExclude'
  <2>1. SUFFICES ASSUME NEW r \in Sections
                 PROVE  /\ \A t, u \in Threads : depth[t][r] > 0 /\ depth[u][r] > 0 => t = u
                        /\ \A t \in Threads : depth[t][r] > 0 =>
                              sections'[r] = [lock |-> depth[t][r] - 1,
                                              recursion |-> depth[t][r], owner |-> t]
                        /\ (\A t \in Threads : depth[t][r] = 0) => sections'[r].recursion = 0
    BY DEF SectionsExclude
  <2>2. CASE r = s
    BY <1>3, <1>4, <2>2
  <2>3. CASE r # s
    BY <1>3, <2>3 DEF SectionsInPlace, SectionsExclude
  <2>4. QED
    BY <2>2, <2>3
<1>6. QED
  BY <1>2, <1>5 DEF SectionsInPlace

(* A section that the current thread alone is in, or nobody.                *)
LEMMA SectionHeld ==
    ASSUME SectionsInPlace, current \in Threads, NEW s \in Sections, NEW n \in Nat,
           \A t \in Threads : t # current => depth[t][s] = 0,
           NEW section \in [lock : Int, recursion : Nat, owner : Threads \cup {0}],
           section.recursion = n,
           n > 0 => section = [lock |-> n - 1, recursion |-> n, owner |-> current],
           Change(s, section), depth' = [depth EXCEPT ![current][s] = n]
    PROVE  SectionsInPlace'
<1>1. sections' = [sections EXCEPT ![s] = section]
  BY DEF Change
<1>2. depth' \in [Threads -> [Sections -> Nat]]
  BY DEF SectionsInPlace, SectionTables
<1>3. SectionTables'
  BY <1>1, <1>2 DEF SectionsInPlace, SectionTables
<1>4. sections'[s] = section /\ \A r \in Sections : r # s => sections'[r] = sections[r]
  BY <1>1 DEF SectionsInPlace, SectionTables
<1>5. /\ depth'[current][s] = n
      /\ \A t \in Threads : t # current => depth'[t][s] = 0
      /\ \A t \in Threads, r \in Sections : r # s => depth'[t][r] = depth[t][r]
  BY DEF SectionsInPlace, SectionTables
<1>6. SectionsExclude'
  <2>1. SUFFICES ASSUME NEW r \in Sections
                 PROVE  /\ \A t, u \in Threads : depth'[t][r] > 0 /\ depth'[u][r] > 0 => t = u
                        /\ \A t \in Threads : depth'[t][r] > 0 =>
                              sections'[r] = [lock |-> depth'[t][r] - 1,
                                              recursion |-> depth'[t][r], owner |-> t]
                        /\ (\A t \in Threads : depth'[t][r] = 0) => sections'[r].recursion = 0
    BY DEF SectionsExclude
  <2>2. CASE r = s
    BY <1>4, <1>5, <2>2
  <2>3. CASE r # s
    BY <1>4, <1>5, <2>3 DEF SectionsInPlace, SectionsExclude
  <2>4. QED
    BY <2>2, <2>3
<1>7. QED
  BY <1>3, <1>6 DEF SectionsInPlace

LEMMA SectionCalls ==
    ASSUME SectionsInPlace, current \in Threads, NEW s \in Sections
    PROVE  /\ InitializeCriticalSection(s) => SectionsInPlace'
           /\ DeleteCriticalSection(s) => SectionsInPlace'
           /\ EnterCriticalSection(s) => SectionsInPlace'
           /\ LeaveCriticalSection(s) => SectionsInPlace'
<1>0. /\ sections[s] \in [lock : Int, recursion : Nat, owner : Threads \cup {0}]
      /\ Absent \in [lock : Int, recursion : Nat, owner : Threads \cup {0}]
      /\ \A t \in Threads : depth[t][s] \in Nat
  BY DEF SectionsInPlace, SectionTables, Absent
<1>1. ASSUME InitializeCriticalSection(s) PROVE SectionsInPlace'
  <2>1. sections[s].recursion = 0
    BY <1>1 DEF InitializeCriticalSection, InUse, Absent
  <2>2. QED
    BY <1>1, <2>1, SectionType, SectionEmptied DEF InitializeCriticalSection
<1>2. ASSUME DeleteCriticalSection(s) PROVE SectionsInPlace'
  <2>1. sections[s].recursion = 0 /\ Absent.recursion = 0
    BY <1>2 DEF DeleteCriticalSection, Absent
  <2>2. QED
    BY <1>0, <1>2, <2>1, SectionEmptied DEF DeleteCriticalSection
<1>3. ASSUME EnterCriticalSection(s) PROVE SectionsInPlace'
  <2>1. CASE Contended(s)
    BY <1>3, <2>1
       DEF EnterCriticalSection, SectionsInPlace, SectionTables, SectionsExclude
  <2>2. CASE ~Contended(s)
    <3>1. \A t \in Threads : t # current => depth[t][s] = 0
      <4>1. SUFFICES ASSUME NEW t \in Threads, t # current, depth[t][s] > 0 PROVE FALSE
        BY <1>0
      <4>2. sections[s] = [lock |-> depth[t][s] - 1, recursion |-> depth[t][s], owner |-> t]
        BY <4>1 DEF SectionsInPlace, SectionsExclude
      <4>3. QED
        BY <1>0, <2>2, <4>1, <4>2 DEF Contended
    <3>2. sections[s].recursion = depth[current][s]
      <4>1. CASE depth[current][s] > 0
        <5>1. sections[s] = [lock |-> depth[current][s] - 1, recursion |-> depth[current][s],
                             owner |-> current]
          BY <4>1 DEF SectionsInPlace, SectionsExclude
        <5>2. QED
          BY <5>1
      <4>2. CASE depth[current][s] = 0
        BY <3>1, <4>2 DEF SectionsInPlace, SectionsExclude
      <4>3. QED
        BY <1>0, <4>1, <4>2
    <3> DEFINE n == sections[s].recursion + 1
    <3>3. n \in Nat /\ n > 0
      BY <1>0
    <3>4. Change(s, Section(n, current)) /\ depth' = [depth EXCEPT ![current][s] = n]
      BY <1>3, <2>2, <3>2 DEF EnterCriticalSection
    <3> HIDE DEF n
    <3>5. QED
      BY <3>1, <3>3, <3>4, SectionType, SectionHeld
  <2>3. QED
    BY <2>1, <2>2
<1>4. ASSUME LeaveCriticalSection(s) PROVE SectionsInPlace'
  <2> DEFINE n == depth[current][s] - 1
             o == IF n = 0 THEN 0 ELSE current
  <2>1. depth[current][s] > 0 /\ n \in Nat /\ o \in Threads \cup {0}
    BY <1>0, <1>4 DEF LeaveCriticalSection
  <2>2. sections[s] = [lock |-> depth[current][s] - 1, recursion |-> depth[current][s],
                       owner |-> current]
    BY <2>1 DEF SectionsInPlace, SectionsExclude
  <2>3. \A t \in Threads : t # current => depth[t][s] = 0
    BY <1>0, <2>1 DEF SectionsInPlace, SectionsExclude
  <2>4. Left(s) = Section(n, o)
    BY <2>2 DEF Left
  <2>5. Change(s, Section(n, o)) /\ depth' = [depth EXCEPT ![current][s] = n]
    BY <1>4, <2>4 DEF LeaveCriticalSection
  <2>6. n > 0 => o = current
    OBVIOUS
  <2> HIDE DEF n, o
  <2>7. /\ Section(n, o) \in [lock : Int, recursion : Nat, owner : Threads \cup {0}]
        /\ Section(n, o).recursion = n
        /\ n > 0 => Section(n, o) = [lock |-> n - 1, recursion |-> n, owner |-> current]
    BY <2>1, <2>6, SectionType
  <2>8. QED
    BY <2>1, <2>3, <2>5, <2>7, SectionHeld
<1>5. QED
  BY <1>1, <1>2, <1>3, <1>4

-----------------------------------------------------------------------------
(* All three together.                                                      *)

ErrorTables ==
    /\ lastError \in Int
    /\ saved \in [Threads -> Int] /\ teb \in [Threads -> Int] /\ own \in [Threads -> Int]
ThreadTables ==
    state \in [Threads -> States] /\ current \in Threads /\ state[current] = "Running"

Kept == ThreadTables /\ ErrorTables /\ ErrorsInPlace /\ SlotsInPlace /\ SectionsInPlace

LEMMA KeptTables ==
    Kept => Tables /\ current \in Threads /\ state[current] = "Running" /\ Refreshed \in Int
BY DEF Kept, ThreadTables, ErrorTables, SlotsInPlace, SectionsInPlace, SlotTables, SectionTables,
       Tables, Refreshed

LEMMA InitKept == Init => Kept
<1> SUFFICES ASSUME Init PROVE Kept
  OBVIOUS
<1> USE ThreadLocalAssumption
<1>1. ThreadTables /\ ErrorTables /\ ErrorsInPlace
  BY DEF Init, ThreadTables, ErrorTables, ErrorsInPlace, States
<1>2. SlotTables
  <2>1. pages \in [Threads -> [Slots -> Int]]
    BY DEF Init, StaticBlock
  <2>2. QED
    BY <2>1 DEF Init, SlotTables
<1>3. SlotsAreOwn /\ PagesStartClear
  BY DEF Init, SlotsAreOwn, PagesStartClear
<1>4. SectionsInPlace
  BY DEF Init, SectionsInPlace, SectionTables, SectionsExclude, Absent
<1>5. QED
  BY <1>1, <1>2, <1>3, <1>4 DEF Kept, SlotsInPlace

LEMMA SectionsUntouched == SectionsInPlace /\ UNCHANGED sectionVars => SectionsInPlace'
BY DEF SectionsInPlace, SectionTables, SectionsExclude, sectionVars

LEMMA SlotsUntouched ==
    ASSUME SlotsInPlace, UNCHANGED tlsVars,
           \A t \in Threads : state'[t] = "Unborn" => state[t] = "Unborn"
    PROVE  SlotsInPlace'
BY DEF SlotsInPlace, SlotTables, PagesStartClear, SlotsAreOwn, tlsVars

LEMMA CallKept == Kept /\ Call => Kept'
<1> SUFFICES ASSUME Kept, Call PROVE Kept'
  OBVIOUS
<1> USE ThreadLocalAssumption
<1>0. /\ Tables /\ current \in Threads /\ state[current] = "Running" /\ Refreshed \in Int
      /\ ErrorsInPlace /\ SlotsInPlace /\ SectionsInPlace /\ Values \subseteq Int
  BY KeptTables DEF Kept
(* A call that returns to its caller.                                       *)
<1>1. ASSUME UNCHANGED threadVars, SlotsInPlace', SectionsInPlace',
             Keeps \/ \E error \in Int : Returns(error)
      PROVE  Kept'
  <2>1. ThreadTables'
    BY <1>1 DEF Kept, ThreadTables, threadVars
  <2>2. ErrorTables' /\ ErrorsInPlace'
    BY <1>0, <1>1, ReturnsError, KeepsError DEF ErrorTables, threadVars
  <2>3. QED
    BY <1>1, <2>1, <2>2 DEF Kept
<1>2. UNCHANGED <<threadVars, tlsVars>> => SlotsInPlace'
  BY <1>0, SlotCalls DEF threadVars
<1>3. UNCHANGED sectionVars => SectionsInPlace'
  BY <1>0, SectionsUntouched
<1>4. ASSUME NEW error \in Values, GuestWritesLastError(error) PROVE Kept'
  <2>1. ErrorTables' /\ ErrorsInPlace'
    BY <1>0, <1>4 DEF GuestWritesLastError, ErrorTables, ErrorsInPlace, Tables, threadVars
  <2>2. QED
    BY <1>2, <1>3, <1>4, <2>1 DEF GuestWritesLastError, Kept, ThreadTables, threadVars
<1>5. ASSUME NEW error \in Values, SetLastError(error) PROVE Kept'
  BY <1>0, <1>1, <1>2, <1>3, <1>5 DEF SetLastError, unshared
<1>6. ASSUME NEW t \in Threads, CreateThread(t) \/ CompleteWait(t) PROVE Kept'
  <2>1. /\ state[t] \in {"Unborn", "Waiting"} /\ state' = [state EXCEPT ![t] = "Ready"]
        /\ current' = current /\ Returns(0)
        /\ UNCHANGED tlsVars /\ UNCHANGED sectionVars
    BY <1>6 DEF CreateThread, CompleteWait, unshared
  <2>2. ThreadTables' /\ (\A u \in Threads : state[u] = "Terminated" => state'[u] = "Terminated")
        /\ \A u \in Threads : state'[u] = "Unborn" => state[u] = "Unborn"
    BY <1>0, <2>1 DEF Tables, ThreadTables, States
  <2>3. ErrorTables' /\ ErrorsInPlace'
    BY <1>0, <2>1, <2>2, ReturnsError DEF ErrorTables
  <2>4. QED
    BY <1>0, <1>3, <2>1, <2>2, <2>3, SlotsUntouched DEF Kept
<1>7. ASSUME NEW next \in Threads, Park(next) \/ ExitThread(next) PROVE Kept'
  <2>1. PICK error \in Int :
           /\ SwitchTo(next, error) /\ state[next] = "Ready"
           /\ \/ /\ state' = [state EXCEPT ![current] = "Waiting", ![next] = "Running"]
                 /\ error = Refreshed
              \/ state' = [state EXCEPT ![current] = "Terminated", ![next] = "Running"]
    BY <1>0, <1>7 DEF Park, ExitThread, Tables
  <2>2. UNCHANGED tlsVars /\ UNCHANGED sectionVars
    BY <1>7 DEF Park, ExitThread, unshared
  <2>3. /\ ErrorTables' /\ ErrorsInPlace' /\ ThreadTables'
        /\ \A t \in Threads : state'[t] = "Unborn" => state[t] = "Unborn"
    BY <1>0, <2>1, SwitchesError DEF ErrorTables, ThreadTables
  <2>4. QED
    BY <1>0, <1>3, <2>2, <2>3, SlotsUntouched DEF Kept
<1>8. CASE TlsAlloc
  <2>1. SlotsInPlace'
    BY <1>0, <1>8, SlotCalls DEF TlsAlloc, threadVars
  <2>2. QED
    BY <1>1, <1>3, <1>8, <2>1 DEF TlsAlloc
<1>9. ASSUME NEW i \in Slots, TlsFree(i) PROVE Kept'
  <2>1. SlotsInPlace'
    BY <1>0, <1>9, SlotCalls DEF TlsFree, threadVars
  <2>2. QED
    BY <1>1, <1>3, <1>9, <2>1 DEF TlsFree, Refused
<1>10. ASSUME NEW i \in Slots, NEW v \in Values, TlsSetValue(i, v) PROVE Kept'
  <2>1. SlotsInPlace'
    BY <1>0, <1>10, SlotCalls DEF TlsSetValue, threadVars
  <2>2. QED
    BY <1>1, <1>3, <1>10, <2>1 DEF TlsSetValue, Refused
<1>11. ASSUME NEW i \in Slots, TlsGetValue(i) PROVE Kept'
  <2>1. GetSlot(i) \in Int
    BY DEF GetSlot, Refused
  <2>2. QED
    BY <1>1, <1>2, <1>3, <1>11, <2>1 DEF TlsGetValue, unshared
<1>12. CASE CriticalSection
  <2>1. SectionsInPlace'
    BY <1>0, <1>12, SectionCalls DEF CriticalSection
  <2>2. QED
    BY <1>1, <1>2, <1>12, <2>1 DEF CriticalSection
<1>13. QED
  BY <1>4, <1>5, <1>6, <1>7, <1>8, <1>9, <1>10, <1>11, <1>12 DEF Call

LEMMA StepKept == Kept /\ [Next]_vars => Kept'
<1> SUFFICES ASSUME Kept, [Next]_vars PROVE Kept'
  OBVIOUS
<1>1. CASE PebLock \/ Interlocked
  <2>1. UNCHANGED threadVars /\ UNCHANGED tlsVars /\ UNCHANGED sectionVars /\ Keeps
    BY <1>1 DEF PebLock, Interlocked
  <2>2. ErrorTables' /\ ErrorsInPlace'
    BY <2>1, KeptTables, KeepsError DEF ErrorTables, Kept
  <2>3. QED
    BY <2>1, <2>2, SectionsUntouched, SlotsUntouched DEF Kept, ThreadTables, threadVars
<1>2. CASE UNCHANGED vars
  <2>1. /\ UNCHANGED threadVars /\ UNCHANGED tlsVars /\ UNCHANGED sectionVars
        /\ UNCHANGED errorVars
    BY <1>2 DEF vars
  <2>2. QED
    BY <2>1, SectionsUntouched, SlotsUntouched
       DEF Kept, ThreadTables, ErrorTables, ErrorsInPlace, threadVars, errorVars
<1>3. QED
  BY <1>1, <1>2, CallKept DEF Next

(* A thread's last error and TLS values are as it left them, and nobody     *)
(* else is in its critical sections: through every order of switches, ends  *)
(* and creations of threads, and of slots that are freed and used again     *)
(* (switch_to, TlsSlotManager, the critical sections of vnrt-kernel32).     *)
THEOREM ThreadsKeepTheirs == Spec => []ThreadsKeepTheirOwn
<1>1. Kept => ThreadsKeepTheirOwn
  <2>1. Kept => LastErrorIsOwn
    BY DEF Kept, ErrorsInPlace, LastErrorIsOwn, Alive
  <2>2. QED
    BY <2>1 DEF Kept, SlotsInPlace, SectionsInPlace, ThreadsKeepTheirOwn
<1>2. QED
  BY <1>1, InitKept, StepKept, PTL DEF Spec

-----------------------------------------------------------------------------
(* Wildcard.  What the end of a pattern means, symbol by symbol.            *)
Texts ==
    /\ pattern \in Seq(Letters \cup {Match!Any, Match!Star, Match!Dot})
    /\ value \in Seq(Letters \cup {Match!Dot})
P == Len(pattern)
V == Len(value)

Laid(end, i, j) ==
    /\ end \in [i..P -> j..V]
    /\ end[i] = j
    /\ end[P] = V
    /\ \A k \in (i + 1)..P : Match!LiesOver(pattern[k], end[k - 1], end[k])

LEMMA MeansIs ==
    ASSUME NEW i, NEW j
    PROVE  Match!Means(i, j) <=> \E end : Laid(end, i, j)
BY DEF Match!Means, Laid, P, V

LEMMA MeansAtEnd ==
    ASSUME Texts, NEW j \in 0..V
    PROVE  Match!Means(P, j) <=> j = V
<1>1. P \in Nat /\ V \in Nat
  BY LenProperties DEF Texts, P, V
<1>2. ASSUME Match!Means(P, j) PROVE j = V
  BY <1>2, MeansIs DEF Laid
<1>3. ASSUME j = V PROVE Match!Means(P, j)
  <2> DEFINE end == [k \in P..P |-> V]
  <2>1. Laid(end, P, j)
    BY <1>1, <1>3 DEF Laid
  <2> HIDE DEF end
  <2> QED BY <2>1, MeansIs
<1> QED BY <1>2, <1>3

(* The symbol in front lies over a stretch; the rest means what is behind.  *)
LEMMA MeansOneMore ==
    ASSUME Texts, NEW i \in 0..(P - 1), NEW j \in 0..V
    PROVE  Match!Means(i, j)
              <=> \E n \in j..V : Match!LiesOver(pattern[i + 1], j, n) /\ Match!Means(i + 1, n)
<1>1. P \in Nat /\ V \in Nat /\ i \in Nat /\ i + 1 \in (i + 1)..P /\ (i + 1) - 1 = i /\ i # P
  BY LenProperties DEF Texts, P, V
<1>2. ASSUME Match!Means(i, j)
      PROVE  \E n \in j..V : Match!LiesOver(pattern[i + 1], j, n) /\ Match!Means(i + 1, n)
  <2>1. PICK end : Laid(end, i, j)
    BY <1>2, MeansIs
  <2> DEFINE n == end[i + 1]
             rest == [k \in (i + 1)..P |-> end[k]]
  <2>2. end \in [i..P -> j..V] /\ end[i] = j /\ end[P] = V
        /\ \A k \in (i + 1)..P : Match!LiesOver(pattern[k], end[k - 1], end[k])
    BY <2>1 DEF Laid
  <2>3. n \in j..V /\ Match!LiesOver(pattern[i + 1], j, n)
    <3>1. Match!LiesOver(pattern[i + 1], end[(i + 1) - 1], end[i + 1])
      BY <1>1, <2>2
    <3>2. i + 1 \in i..P
      BY <1>1
    <3> QED BY <1>1, <2>2, <3>1, <3>2
  <2>4. rest \in [(i + 1)..P -> n..V]
    <3> DEFINE T == {m \in Nat : i + 1 + m <= P => n <= end[i + 1 + m]}
    <3>1. 0 \in T
      <4>1. i + 1 + 0 = i + 1
        BY <1>1
      <4> QED BY <2>3, <4>1
    <3>2. ASSUME NEW m \in Nat, m \in T PROVE m + 1 \in T
      <4> SUFFICES ASSUME i + 1 + (m + 1) <= P PROVE n <= end[i + 1 + (m + 1)]
        OBVIOUS
      <4> DEFINE k == i + 1 + (m + 1)
      <4>1. k \in (i + 1)..P /\ k - 1 = i + 1 + m /\ i + 1 + m <= P /\ k \in i..P /\ k - 1 \in i..P
        BY <1>1
      <4> HIDE DEF k
      <4>2. Match!LiesOver(pattern[k], end[k - 1], end[k])
        BY <2>2, <4>1
      <4>3. end[k - 1] \in Nat /\ end[k] \in Nat
        BY <2>2, <4>1
      <4>4. end[k - 1] <= end[k]
        <5>1. CASE pattern[k] = Match!Star
          BY <4>2, <5>1 DEF Match!LiesOver
        <5>2. CASE pattern[k] # Match!Star
          <6>1. end[k] = end[k - 1] + 1
            BY <4>2, <5>2 DEF Match!LiesOver
          <6> QED BY <4>3, <6>1
        <5> QED BY <5>1, <5>2
      <4>5. n <= end[k - 1]
        BY <3>2, <4>1
      <4>6. n \in Nat
        BY <2>3
      <4> HIDE DEF n
      <4>7. n <= end[k]
        BY <4>3, <4>4, <4>5, <4>6
      <4> QED BY <4>7 DEF k
    <3>3. Nat \subseteq T
      <4> HIDE DEF T
      <4> QED BY <3>1, <3>2, SetInduction
    <3>4. ASSUME NEW k \in (i + 1)..P PROVE end[k] \in n..V
      <4>1. k - (i + 1) \in Nat /\ i + 1 + (k - (i + 1)) = k /\ k <= P /\ k \in i..P
        BY <1>1
      <4>2. n <= end[k]
        BY <3>3, <4>1
      <4>3. end[k] \in j..V
        BY <2>2, <4>1
      <4> QED BY <2>3, <4>2, <4>3
    <3> QED BY <3>4
  <2>5. Laid(rest, i + 1, n)
    <3>1. rest[i + 1] = n /\ rest[P] = V
      BY <1>1, <2>2
    <3>2. ASSUME NEW k \in (i + 1 + 1)..P PROVE Match!LiesOver(pattern[k], rest[k - 1], rest[k])
      <4>1. k \in (i + 1)..P /\ k - 1 \in (i + 1)..P
        BY <1>1
      <4>2. rest[k] = end[k] /\ rest[k - 1] = end[k - 1]
        BY <4>1
      <4> QED BY <2>2, <4>1, <4>2
    <3> HIDE DEF rest
    <3> QED BY <2>4, <3>1, <3>2 DEF Laid
  <2> HIDE DEF rest, n
  <2> QED BY <2>3, <2>5, MeansIs
<1>3. ASSUME NEW n \in j..V, Match!LiesOver(pattern[i + 1], j, n), Match!Means(i + 1, n)
      PROVE  Match!Means(i, j)
  <2>1. PICK rest : Laid(rest, i + 1, n)
    BY <1>3, MeansIs
  <2> DEFINE end == [k \in i..P |-> IF k = i THEN j ELSE rest[k]]
  <2>2. /\ rest \in [(i + 1)..P -> n..V] /\ rest[i + 1] = n /\ rest[P] = V
        /\ \A k \in (i + 1 + 1)..P : Match!LiesOver(pattern[k], rest[k - 1], rest[k])
    BY <2>1 DEF Laid
  <2>3. ASSUME NEW k \in i..P PROVE end[k] \in j..V
    <3>1. CASE k = i
      BY <3>1
    <3>2. CASE k # i
      <4>1. k \in (i + 1)..P
        BY <1>1, <3>2
      <4>2. rest[k] \in n..V
        BY <2>2, <4>1
      <4>3. rest[k] \in j..V
        BY <4>2
      <4> QED BY <3>2, <4>3
    <3> QED BY <3>1, <3>2
  <2>4. end[i] = j /\ end[P] = V
    BY <1>1, <2>2
  <2>5. ASSUME NEW k \in (i + 1)..P PROVE Match!LiesOver(pattern[k], end[k - 1], end[k])
    <3>1. CASE k = i + 1
      <4>1. end[k - 1] = j /\ end[k] = n
        BY <1>1, <2>2, <3>1
      <4> QED BY <1>3, <3>1, <4>1
    <3>2. CASE k # i + 1
      <4>1. k \in (i + 1 + 1)..P /\ k \in i..P /\ k - 1 \in i..P /\ k # i /\ k - 1 # i
        BY <1>1, <3>2
      <4>2. end[k] = rest[k] /\ end[k - 1] = rest[k - 1]
        BY <4>1
      <4> QED BY <2>2, <4>1, <4>2
    <3> QED BY <3>1, <3>2
  <2>6. end \in [i..P -> j..V]
    BY <2>3
  <2> HIDE DEF end
  <2>7. Laid(end, i, j)
    BY <2>4, <2>5, <2>6 DEF Laid
  <2> QED BY <2>7, MeansIs
<1> QED BY <1>2, <1>3

LEMMA MeansLetter ==
    ASSUME Texts, NEW i \in 0..(P - 1), NEW j \in 0..V, pattern[i + 1] # Match!Star
    PROVE  Match!Means(i, j)
              <=> j < V /\ pattern[i + 1] \in {Match!Any, value[j + 1]} /\ Match!Means(i + 1, j + 1)
<1>1. V \in Nat
  BY LenProperties DEF Texts, V
<1>2. \A n \in j..V : Match!LiesOver(pattern[i + 1], j, n)
         <=> n = j + 1 /\ pattern[i + 1] \in {Match!Any, value[n]}
  BY DEF Match!LiesOver
<1>3. Match!Means(i, j) <=> \E n \in j..V : Match!LiesOver(pattern[i + 1], j, n)
        /\ Match!Means(i + 1, n)
  BY MeansOneMore
<1>4. j + 1 \in j..V <=> j < V
  BY <1>1
<1> QED BY <1>2, <1>3, <1>4

LEMMA MeansStretch ==
    ASSUME Texts, NEW i \in 0..(P - 1), NEW j \in 0..V, pattern[i + 1] = Match!Star
    PROVE  Match!Means(i, j) <=> \E n \in j..V : Match!Means(i + 1, n)
<1>1. V \in Nat
  BY LenProperties DEF Texts, V
<1>2. \A n \in j..V : Match!LiesOver(pattern[i + 1], j, n)
  BY DEF Match!LiesOver
<1> QED BY <1>2, MeansOneMore

(* At the end of the name, only stars mean anything.                        *)
LEMMA OnlyStars ==
    ASSUME Texts, NEW i \in 0..P
    PROVE  Match!Means(i, V) <=> \A k \in (i + 1)..P : pattern[k] = Match!Star
<1>1. P \in Nat /\ V \in Nat
  BY LenProperties DEF Texts, P, V
<1>2. ASSUME Match!Means(i, V), NEW k \in (i + 1)..P PROVE pattern[k] = Match!Star
  <2>1. PICK end : Laid(end, i, V)
    BY <1>2, MeansIs
  <2>2. k - 1 \in i..P /\ k \in i..P
    BY <1>1, <1>2
  <2>3. end[k - 1] = V /\ end[k] = V /\ Match!LiesOver(pattern[k], end[k - 1], end[k])
    BY <1>1, <1>2, <2>1, <2>2 DEF Laid
  <2>4. V # V + 1
    BY <1>1
  <2> QED BY <2>3, <2>4 DEF Match!LiesOver
<1>3. ASSUME \A k \in (i + 1)..P : pattern[k] = Match!Star PROVE Match!Means(i, V)
  <2> DEFINE end == [k \in i..P |-> V]
  <2>1. end \in [i..P -> V..V] /\ end[i] = V /\ end[P] = V
    BY <1>1
  <2>2. ASSUME NEW k \in (i + 1)..P PROVE Match!LiesOver(pattern[k], end[k - 1], end[k])
    <3>1. end[k - 1] = V /\ end[k] = V
      BY <1>1, <2>2
    <3> QED BY <1>1, <1>3, <2>2, <3>1 DEF Match!LiesOver
  <2> HIDE DEF end
  <2>3. Laid(end, i, V)
    BY <2>1, <2>2 DEF Laid
  <2> QED BY <2>3, MeansIs
<1> QED BY <1>2, <1>3

-----------------------------------------------------------------------------
(* The loop.  Behind the last star, what is left of the pattern means what  *)
(* is left of the name exactly if the star may end where it is tried; and   *)
(* whatever the earlier symbols lay over, this star could take it all.      *)
Passed == at.pattern - (star + 1)

SinceStar ==
    /\ star \in 0..(P - 1) /\ pattern[star + 1] = Match!Star
    /\ retry \in 0..V /\ Passed \in Nat /\ at.value = retry + Passed
    /\ Match!Means(star + 1, retry) <=> Match!Means(at.pattern, at.value)
    /\ \A n \in retry..V : Match!Means(star + 1, n) =>
          n + Passed <= V /\ Match!Means(at.pattern, n + Passed)
    /\ Match!Means(0, 0) <=> Match!Means(star, retry)

LoopRight ==
    IF star = Match!None THEN Match!Means(0, 0) <=> Match!Means(at.pattern, at.value)
    ELSE SinceStar

Searching ==
    /\ at \in [pattern : 0..P, value : 0..V]
    /\ LoopRight

WildcardInv ==
    /\ Texts
    /\ IF result = Match!None THEN Searching /\ pattern # Match!EverySpelling
       ELSE result = 1 <=> (pattern = Match!EverySpelling \/ Match!Means(0, 0))

SameTexts == UNCHANGED <<pattern, value>>

LEMMA TextsKept ==
    ASSUME SameTexts
    PROVE  /\ Texts' <=> Texts
           /\ P' = P /\ V' = V
           /\ \A i : \A j : Match!Means(i, j)' <=> Match!Means(i, j)
<1>1. \A i : \A j : Match!Means(i, j)' <=> Match!Means(i, j)
  BY DEF SameTexts, Match!Means, Match!LiesOver
<1> QED BY <1>1 DEF SameTexts, Texts, P, V

(* What the loop reads next.                                                *)
LEMMA ReadsNext ==
    ASSUME Texts, at \in [pattern : 0..P, value : 0..V], at.value < Len(value)
    PROVE  /\ P \in Nat /\ V \in Nat
           /\ at.pattern \in Nat /\ at.value \in 0..(V - 1) /\ at.value + 1 \in 0..V
           /\ \A S : Match!PatternHas(S) <=>
                at.pattern \in 0..(P - 1) /\ pattern[at.pattern + 1] \in S
<1>1. P \in Nat /\ V \in Nat /\ at.pattern \in 0..P /\ at.value \in 0..V
  BY LenProperties DEF Texts, P, V
<1>2. \A S : Match!PatternHas(S) <=> at.pattern < P /\ pattern[at.pattern + 1] \in S
  BY DEF Match!PatternHas, P
<1> QED BY <1>1, <1>2 DEF V

LEMMA NamesHaveNoStar ==
    ASSUME Match!WildcardAssumption, Texts, NEW j \in 1..V
    PROVE  value[j] # Match!Star
<1>1. value[j] \in Letters \cup {Match!Dot}
  BY ElementOfSeq DEF Texts, V
<1> QED BY <1>1 DEF Match!WildcardAssumption, Match!Star, Match!Dot

LEMMA LoopStep ==
    ASSUME Match!WildcardAssumption, Texts, Searching, SameTexts, Match!Step
    PROVE  Searching'
<1> DEFINE p == at.pattern
           v == at.value
<1>1. /\ P \in Nat /\ V \in Nat /\ p \in 0..(P - 1) /\ v \in 0..(V - 1)
      /\ pattern[p + 1] \in {Match!Any, value[v + 1]}
      /\ at' = [pattern |-> p + 1, value |-> v + 1] /\ star' = star /\ retry' = retry
  BY ReadsNext DEF Match!Step, Searching
<1>2. v + 1 \in 1..V /\ p \in Nat /\ v \in Nat /\ v \in 0..V /\ v < V /\ p + 1 \in 0..P
        /\ v + 1 \in 0..V
  BY <1>1
<1>3. pattern[p + 1] # Match!Star
  BY <1>1, <1>2, NamesHaveNoStar DEF Match!Any, Match!Star
<1>4. at' \in [pattern : 0..P, value : 0..V]
  BY <1>1, <1>2
<1>5. at'.pattern = p + 1 /\ at'.value = v + 1
  BY <1>1
<1>6. Match!Means(p, v) <=> Match!Means(p + 1, v + 1)
  BY <1>1, <1>2, <1>3, MeansLetter
<1> HIDE DEF p, v
<1>7. CASE star = Match!None
  <2>1. Match!Means(0, 0) <=> Match!Means(p, v)
    BY <1>7 DEF Searching, LoopRight, p, v
  <2> QED BY <1>1, <1>4, <1>5, <1>6, <1>7, <2>1, TextsKept DEF Searching, LoopRight, Match!None
<1>8. CASE star # Match!None
  <2>1. SinceStar
    BY <1>8 DEF Searching, LoopRight
  <2>2. Passed' = Passed + 1 /\ Passed = p - (star + 1) /\ star \in Nat
    BY <1>1, <1>2, <1>5, <2>1 DEF Passed, SinceStar, p
  <2>3. ASSUME NEW n \in retry..V, Match!Means(star + 1, n)
        PROVE  n + (Passed + 1) <= V /\ Match!Means(p + 1, n + (Passed + 1))
    <3> DEFINE j == n + Passed
    <3>1. j <= V /\ Match!Means(p, j)
      BY <2>1, <2>3 DEF SinceStar, p
    <3>2. j \in 0..V /\ n \in Nat /\ Passed \in Nat
      BY <1>1, <2>1, <3>1 DEF SinceStar
    <3> HIDE DEF j
    <3>3. j < V /\ Match!Means(p + 1, j + 1)
      BY <1>1, <1>3, <3>1, <3>2, MeansLetter
    <3>4. n + (Passed + 1) = j + 1
      BY <3>2 DEF j
    <3> QED BY <1>1, <3>2, <3>3, <3>4
  <2>4. Match!Means(star + 1, retry) <=> Match!Means(p + 1, v + 1)
    BY <1>6, <2>1 DEF SinceStar, p, v
  <2>5. v + 1 = retry + (Passed + 1) /\ Passed + 1 \in Nat
    BY <1>1, <2>1 DEF SinceStar, v
  <2>6. SinceStar'
    BY <1>1, <1>5, <2>1, <2>2, <2>3, <2>4, <2>5, TextsKept DEF SinceStar, SameTexts
  <2> QED BY <1>1, <1>4, <1>8, <2>6, TextsKept DEF Searching, LoopRight, Match!None
<1> QED BY <1>7, <1>8

(* A star the loop starts to try somewhere: what SinceStar says is plain.   *)
LEMMA StarTried ==
    ASSUME Texts, SameTexts, NEW s \in 0..(P - 1), pattern[s + 1] = Match!Star, NEW r \in 0..V,
           star' = s, retry' = r, at' = [pattern |-> s + 1, value |-> r],
           Match!Means(0, 0) <=> Match!Means(s, r)
    PROVE  Searching'
<1>1. P \in Nat /\ V \in Nat
  BY LenProperties DEF Texts, P, V
<1>2. at' \in [pattern : 0..P, value : 0..V] /\ at'.pattern = s + 1 /\ at'.value = r
  BY <1>1
<1>3. Passed' = 0 /\ s # Match!None
  BY <1>1, <1>2 DEF Passed, Match!None
<1>4. \A n \in r..V : n + 0 = n /\ n <= V
  BY <1>1
<1>5. r = r + 0 /\ 0 \in Nat
  BY <1>1
<1>6. SinceStar'
  BY <1>2, <1>3, <1>4, <1>5, TextsKept DEF SinceStar, SameTexts
<1> QED BY <1>2, <1>3, <1>6, TextsKept DEF Searching, LoopRight, Match!None

(* If the last star lies over some stretch, another place the loop has come *)
(* to is at least as far.                                                   *)
LEMMA Further ==
    ASSUME Texts, Searching, star # Match!None, Match!Means(star, retry)
    PROVE  \E n \in at.value..V : Match!Means(at.pattern, n)
<1>1. SinceStar
  BY DEF Searching, LoopRight
<1>2. PICK n \in retry..V : Match!Means(star + 1, n)
  BY <1>1, MeansStretch DEF SinceStar
<1>3. n + Passed <= V /\ Match!Means(at.pattern, n + Passed)
  BY <1>1, <1>2 DEF SinceStar
<1>4. V \in Nat /\ n + Passed \in at.value..V
  BY <1>1, <1>3, LenProperties DEF Texts, V, SinceStar
<1> QED BY <1>3, <1>4

LEMMA StarStep ==
    ASSUME Texts, Searching, SameTexts, Match!SeeStar
    PROVE  Searching'
<1> DEFINE p == at.pattern
           v == at.value
<1>1. /\ P \in Nat /\ V \in Nat /\ p \in 0..(P - 1) /\ v \in 0..(V - 1) /\ v \in 0..V
      /\ pattern[p + 1] = Match!Star
      /\ at' = [at EXCEPT !.pattern = p + 1] /\ star' = p /\ retry' = v
  BY ReadsNext DEF Match!SeeStar, Searching
<1>2. at' = [pattern |-> p + 1, value |-> v]
  BY <1>1 DEF Searching
<1>3. Match!Means(0, 0) <=> Match!Means(p, v)
  <2>1. CASE star = Match!None
    BY <2>1 DEF Searching, LoopRight
  <2>2. CASE star # Match!None
    <3>1. SinceStar
      BY <2>2 DEF Searching, LoopRight
    <3>2. ASSUME Match!Means(p, v) PROVE Match!Means(0, 0)
      <4>1. Match!Means(star + 1, retry)
        BY <3>1, <3>2 DEF SinceStar
      <4>2. retry \in retry..V
        BY <1>1, <3>1 DEF SinceStar
      <4>3. Match!Means(star, retry)
        BY <3>1, <4>1, <4>2, MeansStretch DEF SinceStar
      <4> QED BY <3>1, <4>3 DEF SinceStar
    <3>3. ASSUME Match!Means(0, 0) PROVE Match!Means(p, v)
      <4>1. PICK n \in v..V : Match!Means(p, n)
        BY <2>2, <3>1, <3>3, Further DEF SinceStar
      <4>2. PICK m \in n..V : Match!Means(p + 1, m)
        BY <1>1, <4>1, MeansStretch
      <4>3. m \in v..V
        BY <1>1, <4>1, <4>2
      <4> QED BY <1>1, <4>2, <4>3, MeansStretch
    <3> QED BY <3>2, <3>3
  <2> QED BY <2>1, <2>2
<1> HIDE DEF p, v
<1> QED BY <1>1, <1>2, <1>3, StarTried

LEMMA Differs ==
    ASSUME Texts, Searching, Match!Differ
    PROVE  ~Match!Means(at.pattern, at.value)
<1> DEFINE p == at.pattern
           v == at.value
<1>1. /\ P \in Nat /\ V \in Nat /\ v \in 0..V /\ v < V
      /\ ~(p \in 0..(P - 1) /\ pattern[p + 1] \in {Match!Any, Match!Star, value[v + 1]})
      /\ p \in 0..P
  BY ReadsNext DEF Match!Differ, Searching
<1> HIDE DEF p, v
<1>2. CASE p = P
  BY <1>1, <1>2, MeansAtEnd DEF p, v
<1>3. CASE p # P
  <2>1. p \in 0..(P - 1)
    BY <1>1, <1>3
  <2> QED BY <1>1, <2>1, MeansLetter DEF p, v
<1> QED BY <1>2, <1>3

LEMMA BackStep ==
    ASSUME Texts, Searching, SameTexts, Match!BackToStar
    PROVE  Searching'
<1>1. SinceStar /\ star # Match!None
  BY DEF Match!BackToStar, Searching, LoopRight
<1>2. ~Match!Means(star + 1, retry)
  BY <1>1, Differs DEF Match!BackToStar, SinceStar
<1>3. V \in Nat /\ P \in Nat /\ at.value < V
  BY ReadsNext DEF Match!BackToStar, Match!Differ, Searching, V
<1>4. retry + 1 \in 0..V /\ retry \in Nat
  BY <1>1, <1>3 DEF SinceStar
<1>5. Match!Means(star, retry) <=> Match!Means(star, retry + 1)
  <2>1. Match!Means(star, retry) <=> \E n \in retry..V : Match!Means(star + 1, n)
    BY <1>1, MeansStretch DEF SinceStar
  <2>2. Match!Means(star, retry + 1) <=> \E n \in (retry + 1)..V : Match!Means(star + 1, n)
    BY <1>1, <1>4, MeansStretch DEF SinceStar
  <2>3. \A n : n \in (retry + 1)..V <=> n \in retry..V /\ n # retry
    BY <1>3, <1>4
  <2> QED BY <1>2, <2>1, <2>2, <2>3
<1>6. /\ star' = star /\ retry' = retry + 1
      /\ at' = [pattern |-> star + 1, value |-> retry + 1]
      /\ star \in 0..(P - 1) /\ pattern[star + 1] = Match!Star
      /\ Match!Means(0, 0) <=> Match!Means(star, retry + 1)
  BY <1>1, <1>5 DEF Match!BackToStar, SinceStar
<1> QED BY <1>4, <1>6, StarTried

LEMMA FinishRight ==
    ASSUME Texts, Searching, Match!Finish
    PROVE  result' \in {0, 1} /\ (result' = 1 <=> Match!Means(0, 0))
<1> DEFINE p == at.pattern
<1>1. P \in Nat /\ V \in Nat /\ p \in 0..P /\ at.value = V
  BY LenProperties DEF Match!Finish, Searching, Texts, P, V
<1>2. Match!Means(p, V) <=> \A k \in (p + 1)..P : pattern[k] = Match!Star
  BY <1>1, OnlyStars
<1>3. result' \in {0, 1} /\ (result' = 1 <=> Match!Means(p, V))
  BY <1>2 DEF Match!Finish, P
<1>4. CASE star = Match!None
  BY <1>1, <1>3, <1>4 DEF Searching, LoopRight
<1>5. CASE star # Match!None
  <2>1. SinceStar
    BY <1>5 DEF Searching, LoopRight
  <2>2. ASSUME Match!Means(p, V) PROVE Match!Means(0, 0)
    <3>1. Match!Means(star + 1, retry)
      BY <1>1, <2>1, <2>2 DEF SinceStar
    <3>2. retry \in retry..V
      BY <1>1, <2>1 DEF SinceStar
    <3>3. Match!Means(star, retry)
      BY <2>1, <3>1, <3>2, MeansStretch DEF SinceStar
    <3> QED BY <2>1, <3>3 DEF SinceStar
  <2>3. ASSUME Match!Means(0, 0) PROVE Match!Means(p, V)
    <3>1. PICK n \in at.value..V : Match!Means(p, n)
      BY <1>5, <2>1, <2>3, Further DEF SinceStar
    <3>2. n = V
      BY <1>1, <3>1
    <3> QED BY <3>1, <3>2
  <2> QED BY <1>3, <2>2, <2>3
<1> QED BY <1>4, <1>5

MatchInv == focus = "wildcards" => WildcardInv

(* For any pattern and any name: going back to the last star only, the loop *)
(* finds every match there is and no other (wildcard_matches).              *)
THEOREM MatchesAreFound ==
    Match!WildcardAssumption =>
        (ProcessSpec => [](focus = "wildcards" => Match!MatchesWhatItMeans))
<1> SUFFICES ASSUME Match!WildcardAssumption
             PROVE  ProcessSpec => [](focus = "wildcards" => Match!MatchesWhatItMeans)
  OBVIOUS
<1>1. Match!Init => WildcardInv
  <2> SUFFICES ASSUME Match!Init PROVE WildcardInv
    OBVIOUS
  <2>1. Texts
    BY DEF Match!Init, Match!Of, Texts
  <2>2. at = [pattern |-> 0, value |-> 0] /\ star = Match!None
        /\ result = IF pattern = Match!EverySpelling THEN 1 ELSE Match!None
    BY DEF Match!Init
  <2>3. at \in [pattern : 0..P, value : 0..V] /\ at.pattern = 0 /\ at.value = 0
    <3>1. P \in Nat /\ V \in Nat
      BY <2>1, LenProperties DEF Texts, P, V
    <3>2. 0 \in 0..P /\ 0 \in 0..V
      BY <3>1
    <3> QED BY <2>2, <3>2
  <2>4. Searching
    BY <2>2, <2>3 DEF Searching, LoopRight
  <2> QED BY <2>1, <2>2, <2>4 DEF WildcardInv, Match!None
<1>2. WildcardInv /\ [Match!Next]_(Match!vars) => WildcardInv'
  <2> SUFFICES ASSUME WildcardInv, [Match!Next]_(Match!vars) PROVE WildcardInv'
    OBVIOUS
  <2>1. CASE UNCHANGED Match!vars
    <3>1. SameTexts
      BY <2>1 DEF Match!vars, SameTexts
    <3> QED BY <2>1, <3>1, TextsKept
          DEF Match!vars, SameTexts, WildcardInv, Searching, LoopRight, SinceStar, Passed
  <2>2. CASE Match!Next
    <3>1. /\ Texts /\ Searching /\ pattern # Match!EverySpelling
          /\ result = Match!None /\ SameTexts
      BY <2>2 DEF Match!Next, WildcardInv, SameTexts
    <3>2. Texts' /\ pattern' = pattern /\ (Match!Means(0, 0)' <=> Match!Means(0, 0))
      BY <3>1, TextsKept DEF SameTexts
    <3>3. CASE Match!Step \/ Match!SeeStar \/ Match!BackToStar
      <4>1. result' = Match!None
        BY <3>1, <3>3 DEF Match!Step, Match!SeeStar, Match!BackToStar
      <4>2. Searching'
        BY <3>1, <3>3, LoopStep, StarStep, BackStep
      <4> QED BY <3>1, <3>2, <4>1, <4>2 DEF WildcardInv, Match!None
    <3>4. CASE Match!Fail
      <4>1. ~Match!Means(at.pattern, at.value) /\ star = Match!None /\ result' = 0
        BY <3>1, <3>4, Differs DEF Match!Fail
      <4>2. ~Match!Means(0, 0)
        BY <3>1, <4>1 DEF Searching, LoopRight
      <4> QED BY <3>1, <3>2, <4>1, <4>2 DEF WildcardInv, Match!None
    <3>5. CASE Match!Finish
      <4>1. result' \in {0, 1} /\ (result' = 1 <=> Match!Means(0, 0))
        BY <3>1, <3>5, FinishRight
      <4> QED BY <3>1, <3>2, <4>1 DEF WildcardInv, Match!None
    <3> QED BY <2>2, <3>3, <3>4, <3>5 DEF Match!Next
  <2> QED BY <2>1, <2>2
<1>3. WildcardInv => Match!MatchesWhatItMeans
  BY DEF WildcardInv, Match!MatchesWhatItMeans
<1>4. ProcessInit => MatchInv
  BY <1>1 DEF ProcessInit, Focused, MatchInv
<1>5. MatchInv /\ [ProcessNext]_processVars => MatchInv'
  <2> SUFFICES ASSUME MatchInv, [ProcessNext]_processVars, focus' = "wildcards" PROVE WildcardInv'
    BY DEF MatchInv
  <2>1. focus = "wildcards" /\ [Match!Next]_(Match!vars)
    BY DEF ProcessNext, Focused, processVars, wildcardVars, Match!vars
  <2> QED BY <1>2, <2>1 DEF MatchInv
<1>6. MatchInv => (focus = "wildcards" => Match!MatchesWhatItMeans)
  BY <1>3 DEF MatchInv
<1> QED BY <1>4, <1>5, <1>6, PTL DEF ProcessSpec

-----------------------------------------------------------------------------
(* Folds.  What FoldLeft does with the next element of a sequence, for each *)
(* kind of step and its parameter.  A step along a path is of a mode:       *)
(* "through" follows it, any other drops the components of this name.       *)
Through == "through"
Stepped(mode, sofar, c) ==
    IF mode = Through THEN Path!StepThrough(sofar, c)
    ELSE IF c = mode THEN sofar ELSE Append(sofar, c)

Stepping == "stepping"
Naming == "naming"
Placing == "placing"
Exporting == "exporting"
Adding == "adding"
Folded(kind, with, sofar, x) ==
    IF kind = Stepping THEN Stepped(with, sofar, x)
    ELSE IF kind = Naming THEN
        (IF Load!Key(with, x) \in registry THEN Append(sofar, x) ELSE sofar)
    ELSE IF kind = Placing THEN Load!Place(sofar, Load!Key(with, x))
    ELSE IF kind = Exporting THEN Load!Export(sofar, x, with)
    ELSE Load!WithModule(sofar, x, with)

Latest(s) == Path!Max(s)
Walks(kind, with, base, cs, g, s) ==
    IF s = {} THEN base ELSE Folded(kind, with, g[s \ {Latest(s)}], cs[Latest(s)])
Outcome(kind, with, base, cs) ==
    (CHOOSE g : g = [s \in SUBSET DOMAIN cs |-> Walks(kind, with, base, cs, g, s)])[DOMAIN cs]

LEMMA LatestIs ==
    ASSUME NEW n \in Nat \ {0}
    PROVE  Latest(1..n) = n /\ (1..n) \ {n} = 1..(n - 1) /\ 1..n # {}
<1>1. n \in 1..n /\ \A m \in 1..n : n >= m
  OBVIOUS
<1>2. Latest(1..n) \in 1..n /\ \A m \in 1..n : Latest(1..n) >= m
  BY <1>1 DEF Latest, Path!Max
<1>3. Latest(1..n) = n
  BY <1>1, <1>2
<1>4. \A m : m \in (1..n) \ {n} <=> m \in 1..(n - 1)
  OBVIOUS
<1>5. (1..n) \ {n} = 1..(n - 1)
  BY <1>4
<1> QED BY <1>1, <1>3, <1>5

(* Every set of numbers has a latest, so the fold is defined.               *)
LEMMA LatestIsIn ==
    ASSUME NEW n \in Nat, NEW s \in SUBSET (1..n), s # {}
    PROVE  Latest(s) \in s
<1> DEFINE T == {n - m : m \in s}
<1>1. T \subseteq Nat /\ T # {}
  <2>1. \A m \in s : m \in 1..n /\ n - m \in Nat
    OBVIOUS
  <2> QED BY <2>1
<1>2. PICK k \in T : \A l \in T : k <= l
  BY <1>1, LeastNumber
<1>3. PICK m \in s : k = n - m
  BY <1>2
<1>4. \A l \in s : m >= l
  BY <1>2, <1>3
<1> QED BY <1>3, <1>4 DEF Latest, Path!Max

LEMMA SmallerSets ==
    ASSUME NEW n \in Nat, NEW s \in SUBSET (1..n)
    PROVE  /\ IsFiniteSet(s) /\ Cardinality(s) \in Nat /\ Cardinality(s) <= n
           /\ Cardinality(s) = 0 <=> s = {}
           /\ \A x \in s : s \ {x} \in SUBSET (1..n) /\ Cardinality(s \ {x}) = Cardinality(s) - 1
<1>1. IsFiniteSet(1..n) /\ Cardinality(1..n) = n
  BY FS_Interval
<1>2. IsFiniteSet(s) /\ Cardinality(s) <= n
  BY <1>1, FS_Subset
<1> QED BY <1>2, FS_EmptySet, FS_CardinalityType, FS_RemoveElement

LEMMA WalkExists ==
    ASSUME NEW kind, NEW with, NEW base, NEW cs, NEW n \in Nat
    PROVE  \E g : g = [s \in SUBSET (1..n) |-> Walks(kind, with, base, cs, g, s)]
<1> DEFINE S == 1..n
           T == {m \in Nat : \E g : \A s \in SUBSET S :
                    Cardinality(s) <= m => g[s] = Walks(kind, with, base, cs, g, s)}
<1>1. 0 \in T
  <2> DEFINE g == [s \in SUBSET S |-> base]
  <2>1. ASSUME NEW s \in SUBSET S, Cardinality(s) <= 0 PROVE s = {}
    <3>1. Cardinality(s) \in Nat /\ (Cardinality(s) = 0 <=> s = {})
      BY SmallerSets
    <3> QED BY <2>1, <3>1
  <2>2. \A s \in SUBSET S : Cardinality(s) <= 0 => g[s] = Walks(kind, with, base, cs, g, s)
    BY <2>1 DEF Walks
  <2> HIDE DEF g
  <2> QED BY <2>2
<1>2. ASSUME NEW m \in Nat, m \in T PROVE m + 1 \in T
  <2>1. PICK g : \A s \in SUBSET S : Cardinality(s) <= m => g[s] = Walks(kind, with, base, cs, g, s)
    BY <1>2
  <2> DEFINE h == [s \in SUBSET S |-> Walks(kind, with, base, cs, g, s)]
  <2>2. ASSUME NEW s \in SUBSET S, Cardinality(s) <= m + 1
        PROVE  h[s] = Walks(kind, with, base, cs, h, s)
    <3>1. CASE s = {}
      BY <3>1 DEF Walks
    <3>2. CASE s # {}
      <4> DEFINE t == s \ {Latest(s)}
      <4>1. t \in SUBSET S /\ Cardinality(t) <= m
        <5>1. Latest(s) \in s
          BY <3>2, LatestIsIn
        <5>2. /\ Cardinality(s) \in Nat
              /\ \A x \in s : s \ {x} \in SUBSET S /\ Cardinality(s \ {x}) = Cardinality(s) - 1
          BY SmallerSets
        <5>3. t \in SUBSET S /\ Cardinality(t) = Cardinality(s) - 1
          BY <5>1, <5>2
        <5> HIDE DEF t
        <5> QED BY <2>2, <5>2, <5>3
      <4>2. h[t] = g[t]
        BY <4>1, <2>1
      <4>3. h[s] = Walks(kind, with, base, cs, g, s)
        OBVIOUS
      <4> HIDE DEF h
      <4> QED BY <3>2, <4>2, <4>3 DEF Walks
    <3> QED BY <3>1, <3>2
  <2> HIDE DEF h
  <2> QED BY <2>2
<1>3. n \in T
  <2> HIDE DEF T
  <2> QED BY <1>1, <1>2, SetInduction
<1>4. PICK g : \A s \in SUBSET S : g[s] = Walks(kind, with, base, cs, g, s)
  BY <1>3, SmallerSets
<1> DEFINE h == [s \in SUBSET S |-> g[s]]
<1>5. \A s \in SUBSET S : Walks(kind, with, base, cs, h, s) = Walks(kind, with, base, cs, g, s)
  <2> SUFFICES ASSUME NEW s \in SUBSET S, s # {}
               PROVE  h[s \ {Latest(s)}] = g[s \ {Latest(s)}]
    BY DEF Walks
  <2>1. s \ {Latest(s)} \in SUBSET S
    OBVIOUS
  <2> QED BY <2>1
<1>6. h = [s \in SUBSET S |-> Walks(kind, with, base, cs, h, s)]
  <2>1. h = [s \in SUBSET S |-> Walks(kind, with, base, cs, g, s)]
    BY <1>4
  <2> HIDE DEF h
  <2> QED BY <1>5, <2>1
<1> QED BY <1>6

(* So it goes from element to element.                                      *)
Chain(kind, with, base, cs, u) ==
    u[0] = base /\ \A k \in 1..Len(cs) : u[k] = Folded(kind, with, u[k - 1], cs[k])

LEMMA OutcomeIsAChain ==
    ASSUME NEW kind, NEW with, NEW base, NEW X, NEW cs \in Seq(X)
    PROVE  \E u : Chain(kind, with, base, cs, u) /\ Outcome(kind, with, base, cs) = u[Len(cs)]
<1> DEFINE n == Len(cs)
           g == CHOOSE f : f = [s \in SUBSET (1..n) |-> Walks(kind, with, base, cs, f, s)]
<1>1. n \in Nat /\ DOMAIN cs = 1..n
  BY LenProperties
<1>2. Outcome(kind, with, base, cs) = g[1..n]
  BY <1>1 DEF Outcome
<1>3. g = [s \in SUBSET (1..n) |-> Walks(kind, with, base, cs, g, s)]
  BY <1>1, WalkExists
<1> HIDE DEF g
<1> DEFINE u == [k \in 0..n |-> g[1..k]]
<1>4. u[0] = base
  <2>1. 1..0 = {} /\ {} \in SUBSET (1..n)
    OBVIOUS
  <2>2. g[{}] = base
    BY <1>3, <2>1 DEF Walks
  <2> QED BY <1>1, <2>1, <2>2
<1>5. ASSUME NEW k \in 1..n PROVE u[k] = Folded(kind, with, u[k - 1], cs[k])
  <2>1. k \in Nat \ {0} /\ 1..k \in SUBSET (1..n) /\ k - 1 \in 0..n /\ k \in 0..n
    BY <1>1
  <2>2. g[1..k] = Walks(kind, with, base, cs, g, 1..k)
    BY <1>3, <2>1
  <2>3. g[1..k] = Folded(kind, with, g[1..(k - 1)], cs[k])
    BY <2>1, <2>2, LatestIs DEF Walks
  <2> QED BY <2>1, <2>3
<1>6. u[n] = g[1..n]
  BY <1>1
<1> HIDE DEF u
<1> QED BY <1>2, <1>4, <1>5, <1>6 DEF Chain

-----------------------------------------------------------------------------
(* Paths.  The fold along a path, in each of the modes.                     *)
Along(mode, cs) ==
    IF mode = Through THEN Path!Normalized(cs) ELSE Path!Without(mode, cs)

LEMMA AlongFolds ==
    ASSUME NEW mode, NEW cs, NEW kind, kind = Stepping
    PROVE  Along(mode, cs) = Outcome(kind, mode, <<>>, cs)
<1>1. CASE mode = Through
  <2>1. Path!Normalized(cs) = Outcome(kind, mode, <<>>, cs)
    BY <1>1, Zenon DEF Path!Normalized, Path!FoldLeft, Path!MapThenFoldSet, Outcome, Walks,
                       Folded, Stepped, Latest
  <2> QED BY <1>1, <2>1 DEF Along
<1>2. CASE mode # Through
  <2>1. Path!Without(mode, cs) = Outcome(kind, mode, <<>>, cs)
    BY <1>2, Zenon DEF Path!Without, Path!FoldLeft, Path!MapThenFoldSet, Outcome, Walks,
                       Folded, Stepped, Latest
  <2> QED BY <1>2, <2>1 DEF Along
<1> QED BY <1>1, <1>2

ChainOf(mode, cs, u) ==
    u[0] = <<>> /\ \A k \in 1..Len(cs) : u[k] = Stepped(mode, u[k - 1], cs[k])

LEMMA AlongIsAChain ==
    ASSUME NEW mode, NEW X, NEW cs \in Seq(X)
    PROVE  \E u : ChainOf(mode, cs, u) /\ Along(mode, cs) = u[Len(cs)]
<1>1. PICK kind : kind = Stepping
  OBVIOUS
<1>2. PICK u : Chain(kind, mode, <<>>, cs, u) /\ Outcome(kind, mode, <<>>, cs) = u[Len(cs)]
  BY OutcomeIsAChain
<1>3. ChainOf(mode, cs, u)
  BY <1>1, <1>2 DEF Chain, ChainOf, Folded
<1> QED BY <1>1, <1>2, <1>3, AlongFolds

Follows(mode, cs, n, u) == \A k \in 1..n : u[k] = Stepped(mode, u[k - 1], cs[k])

LEMMA ChainsAgree ==
    ASSUME NEW mode, NEW cs, NEW n \in Nat, NEW u, NEW v,
           u[0] = v[0], Follows(mode, cs, n, u), Follows(mode, cs, n, v)
    PROVE  u[n] = v[n]
<1> DEFINE T == {k \in Nat : k <= n => u[k] = v[k]}
<1>1. 0 \in T
  OBVIOUS
<1>2. ASSUME NEW k \in Nat, k \in T PROVE k + 1 \in T
  <2> SUFFICES ASSUME k + 1 <= n PROVE u[k + 1] = v[k + 1]
    OBVIOUS
  <2>1. k + 1 \in 1..n /\ (k + 1) - 1 = k /\ k <= n
    OBVIOUS
  <2> QED BY <1>2, <2>1 DEF Follows
<1>3. n \in T
  <2> HIDE DEF T
  <2> QED BY <1>1, <1>2, SetInduction
<1> QED BY <1>3

LEMMA AlongNothing ==
    ASSUME NEW mode
    PROVE  Along(mode, <<>>) = <<>>
<1>1. <<>> \in Seq({}) /\ Len(<<>>) = 0
  OBVIOUS
<1>2. PICK u : ChainOf(mode, <<>>, u) /\ Along(mode, <<>>) = u[Len(<<>>)]
  BY <1>1, AlongIsAChain
<1> QED BY <1>1, <1>2 DEF ChainOf

LEMMA AlongAppended ==
    ASSUME NEW mode, NEW X, NEW cs \in Seq(X), NEW c \in X
    PROVE  Along(mode, Append(cs, c)) = Stepped(mode, Along(mode, cs), c)
<1> DEFINE n == Len(cs)
           ds == Append(cs, c)
<1>1. /\ n \in Nat /\ ds \in Seq(X) /\ Len(ds) = n + 1 /\ ds[n + 1] = c
      /\ \A i \in 1..n : ds[i] = cs[i]
  BY AppendProperties, LenProperties
<1> HIDE DEF ds
<1>2. PICK u : ChainOf(mode, cs, u) /\ Along(mode, cs) = u[n]
  BY AlongIsAChain
<1>3. PICK v : ChainOf(mode, ds, v) /\ Along(mode, ds) = v[n + 1]
  BY <1>1, AlongIsAChain
<1>4. u[0] = v[0]
  BY <1>2, <1>3 DEF ChainOf
<1>5. Follows(mode, cs, n, u) /\ Follows(mode, cs, n, v)
  <2>1. \A k \in 1..n : k \in 1..Len(ds) /\ ds[k] = cs[k]
    BY <1>1
  <2> QED BY <1>2, <1>3, <2>1 DEF ChainOf, Follows
<1>6. u[n] = v[n]
  <2> HIDE DEF n
  <2>1. n \in Nat
    BY <1>1
  <2> QED BY <1>4, <1>5, <2>1, ChainsAgree
<1>7. v[n + 1] = Stepped(mode, v[n], c)
  <2>1. n + 1 \in 1..Len(ds) /\ (n + 1) - 1 = n
    BY <1>1
  <2> QED BY <1>1, <1>3, <2>1 DEF ChainOf
<1> QED BY <1>2, <1>3, <1>6, <1>7 DEF ds

(* Sequences are what Append makes of nothing.                              *)
LEMMA AppendInduction ==
    ASSUME NEW X, NEW T, <<>> \in T, \A s \in Seq(X) : \A x \in X : s \in T => Append(s, x) \in T
    PROVE  Seq(X) \subseteq T
<1> DEFINE N == {n \in Nat : \A s \in Seq(X) : Len(s) = n => s \in T}
<1>1. 0 \in N
  BY EmptySeq
<1>2. ASSUME NEW n \in Nat, n \in N PROVE n + 1 \in N
  <2> SUFFICES ASSUME NEW s \in Seq(X), Len(s) = n + 1 PROVE s \in T
    OBVIOUS
  <2>1. s # <<>>
    BY EmptySeq
  <2>2. PICK t \in Seq(X), x \in X : s = Append(t, x)
    BY <2>1, SequenceEmptyOrAppend
  <2>3. Len(t) = n
    BY <2>2, AppendProperties, LenProperties
  <2> QED BY <1>2, <2>2, <2>3
<1>3. Nat \subseteq N
  <2> HIDE DEF N
  <2> QED BY <1>1, <1>2, SetInduction
<1>4. \A s \in Seq(X) : Len(s) \in N
  BY <1>3, LenProperties
<1> QED BY <1>4

-----------------------------------------------------------------------------
(* Names stay, and what a mode drops is gone.                               *)
Droppable == {"", "."}
Modes == {Through} \cup Droppable

LEMMA NamesAreKept ==
    ASSUME Path!PathsAssumption, NEW mode \in Modes, NEW sofar, NEW c \in PathNames
    PROVE  Stepped(mode, sofar, c) = Append(sofar, c)
<1>1. c # "" /\ c # "." /\ c # ".."
  BY DEF Path!PathsAssumption
<1> QED BY <1>1 DEF Stepped, Modes, Droppable, Through, Path!StepThrough

LEMMA SteppedIs ==
    /\ \A s : \A c : Stepped(Through, s, c) = Path!StepThrough(s, c)
    /\ \A m \in Droppable : \A s : \A c :
          Stepped(m, s, c) = IF c = m THEN s ELSE Append(s, c)
BY Zenon DEF Stepped, Through, Droppable

(* A path of names is what it is.                                           *)
LEMMA NamesAlong ==
    ASSUME Path!PathsAssumption, NEW mode \in Modes, NEW cs \in Seq(PathNames)
    PROVE  Along(mode, cs) = cs
<1> DEFINE T == {s \in Seq(PathNames) : Along(mode, s) = s}
<1>1. <<>> \in T
  BY AlongNothing
<1>2. ASSUME NEW s \in Seq(PathNames), NEW x \in PathNames, s \in T PROVE Append(s, x) \in T
  <2>1. Append(s, x) \in Seq(PathNames)
    BY AppendProperties
  <2>2. Along(mode, Append(s, x)) = Append(s, x)
    BY <1>2, AlongAppended, NamesAreKept
  <2> QED BY <2>1, <2>2
<1>3. Seq(PathNames) \subseteq T
  <2> HIDE DEF T
  <2> QED BY <1>1, <1>2, AppendInduction
<1> QED BY <1>3

LEMMA NormalizedNames ==
    ASSUME Path!PathsAssumption, NEW cs \in Seq(Path!Components)
    PROVE  Along(Through, cs) \in Seq(PathNames)
<1> DEFINE T == {s \in Seq(Path!Components) : Along(Through, s) \in Seq(PathNames)}
<1>1. <<>> \in T
  <2>1. Along(Through, <<>>) = <<>>
    BY AlongNothing
  <2> QED BY <2>1, EmptySeq
<1>2. ASSUME NEW s \in Seq(Path!Components), NEW x \in Path!Components, s \in T
      PROVE  Append(s, x) \in T
  <2> DEFINE a == Along(Through, s)
  <2>1. Append(s, x) \in Seq(Path!Components) /\ a \in Seq(PathNames)
    BY <1>2, AppendProperties
  <2>2. Along(Through, Append(s, x)) = Path!StepThrough(a, x)
    <3>1. Along(Through, Append(s, x)) = Stepped(Through, a, x)
      BY AlongAppended
    <3> QED BY <3>1, SteppedIs
  <2> HIDE DEF a
  <2>3. CASE x \in {"", "."}
    BY <2>1, <2>2, <2>3 DEF Path!StepThrough
  <2>4. CASE x = ".."
    <3>1. a # <<>> => Path!Front(a) \in Seq(PathNames)
      <4> SUFFICES ASSUME a # <<>> PROVE Path!Front(a) \in Seq(PathNames)
        OBVIOUS
      <4>1. Len(a) \in Nat /\ Len(a) - 1 \in Int /\ 1 \in Int
        BY <2>1, LenProperties
      <4>2. \A i \in 1..(Len(a) - 1) : a[i] \in PathNames
        BY <2>1, <4>1, ElementOfSeq
      <4> QED BY <4>1, <4>2, SubSeqProperties DEF Path!Front
    <3>2. Path!StepThrough(a, x) = IF a = <<>> THEN a ELSE Path!Front(a)
      BY <2>4 DEF Path!StepThrough
    <3> QED BY <2>1, <2>2, <3>1, <3>2
  <2>5. CASE x \in PathNames
    <3>1. Along(Through, Append(s, x)) = Append(a, x)
      <4>1. Stepped(Through, a, x) = Append(a, x)
        BY <2>5, NamesAreKept DEF Modes
      <4> QED BY <2>2, <4>1, SteppedIs
    <3> QED BY <2>1, <2>5, <3>1, AppendProperties
  <2> QED BY <2>3, <2>4, <2>5 DEF Path!Components
<1>3. Seq(Path!Components) \subseteq T
  <2> HIDE DEF T
  <2> QED BY <1>1, <1>2, AppendInduction
<1> QED BY <1>3

LEMMA DroppedIsGone ==
    ASSUME NEW mode \in Droppable, NEW X, NEW cs \in Seq(X)
    PROVE  Along(mode, cs) \in Seq(X \ {mode})
<1> DEFINE T == {s \in Seq(X) : Along(mode, s) \in Seq(X \ {mode})}
<1>1. <<>> \in T
  <2>1. Along(mode, <<>>) = <<>>
    BY AlongNothing
  <2> QED BY <2>1, EmptySeq
<1>2. ASSUME NEW s \in Seq(X), NEW x \in X, s \in T PROVE Append(s, x) \in T
  <2> DEFINE a == Along(mode, s)
  <2>1. Append(s, x) \in Seq(X) /\ a \in Seq(X \ {mode})
    BY <1>2, AppendProperties
  <2>2. Along(mode, Append(s, x)) = IF x = mode THEN a ELSE Append(a, x)
    <3>1. Along(mode, Append(s, x)) = Stepped(mode, a, x)
      BY AlongAppended
    <3> QED BY <3>1, SteppedIs
  <2> HIDE DEF a
  <2>3. x # mode => Append(a, x) \in Seq(X \ {mode})
    BY <2>1, AppendProperties
  <2> QED BY <2>1, <2>2, <2>3
<1>3. Seq(X) \subseteq T
  <2> HIDE DEF T
  <2> QED BY <1>1, <1>2, AppendInduction
<1> QED BY <1>3

LEMMA AppendedBelongs ==
    ASSUME NEW X, NEW Y, NEW s \in Seq(X), NEW x \in X, Append(s, x) \in Seq(Y)
    PROVE  s \in Seq(Y) /\ x \in Y
<1>1. /\ Len(s) \in Nat /\ Len(Append(s, x)) = Len(s) + 1
      /\ \A i \in 1..Len(s) : Append(s, x)[i] = s[i]
      /\ Append(s, x)[Len(s) + 1] = x
  BY AppendProperties, LenProperties
<1>2. \A i \in 1..(Len(s) + 1) : Append(s, x)[i] \in Y
  BY <1>1, ElementOfSeq
<1>3. \A i \in 1..Len(s) : i \in 1..(Len(s) + 1)
  BY <1>1
<1>4. Len(s) + 1 \in 1..(Len(s) + 1)
  BY <1>1
<1>5. x \in Y /\ \A i \in 1..Len(s) : s[i] \in Y
  BY <1>1, <1>2, <1>3, <1>4
<1>6. SubSeq(s, 1, Len(s)) \in Seq(Y)
  BY <1>1, <1>5, SubSeqProperties
<1> QED BY <1>5, <1>6, SubSeqFull

(* ... and nothing else.                                                    *)
NoParent == Path!Components \ {".."}

LEMMA NothingElseIsGone ==
    ASSUME NEW mode \in Droppable, NEW cs \in Seq(Path!Components), Along(mode, cs) \in Seq(NoParent)
    PROVE  cs \in Seq(NoParent)
<1> DEFINE T == {s \in Seq(Path!Components) : Along(mode, s) \in Seq(NoParent) => s \in Seq(NoParent)}
<1>1. <<>> \in T
  BY EmptySeq
<1>2. ASSUME NEW s \in Seq(Path!Components), NEW x \in Path!Components, s \in T
      PROVE  Append(s, x) \in T
  <2> DEFINE a == Along(mode, s)
  <2>1. Append(s, x) \in Seq(Path!Components)
    BY AppendProperties
  <2> SUFFICES ASSUME Along(mode, Append(s, x)) \in Seq(NoParent) PROVE Append(s, x) \in Seq(NoParent)
    BY <2>1
  <2>2. Along(mode, Append(s, x)) = IF x = mode THEN a ELSE Append(a, x)
    <3>1. Along(mode, Append(s, x)) = Stepped(mode, a, x)
      BY AlongAppended
    <3> QED BY <3>1, SteppedIs
  <2>3. a \in Seq(Path!Components \ {mode})
    BY DroppedIsGone
  <2> HIDE DEF a
  <2>4. a \in Seq(NoParent) /\ x \in NoParent
    <3>1. CASE x = mode
      <4>1. x # ".."
        BY <3>1 DEF Droppable
      <4> QED BY <2>2, <3>1, <4>1 DEF NoParent
    <3>2. CASE x # mode
      <4>1. Append(a, x) \in Seq(NoParent)
        BY <2>2, <3>2
      <4> QED BY <2>3, <4>1, AppendedBelongs
    <3> QED BY <3>1, <3>2
  <2>5. s \in Seq(NoParent)
    BY <1>2, <2>4 DEF a
  <2> QED BY <2>4, <2>5, AppendProperties
<1>3. Seq(Path!Components) \subseteq T
  <2> HIDE DEF T
  <2> QED BY <1>1, <1>2, AppendInduction
<1> QED BY <1>3

(* What is left of a path without the components that mean nothing.         *)
Nothing == ""
Here == "."
Meant(cs) == Along(Here, Along(Nothing, cs))
PlainNames == Path!Components \ Droppable

LEMMA ModesAre ==
    /\ Nothing \in Droppable /\ Here \in Droppable /\ Through \in Modes /\ Droppable \subseteq Modes
    /\ \A x \in Droppable : x = Nothing \/ x = Here
    /\ Nothing # Here
BY Zenon DEF Nothing, Here, Droppable, Modes, Through

LEMMA AlongIsThePath ==
    /\ \A cs : Path!Normalized(cs) = Along(Through, cs)
    /\ \A cs : Path!WithoutEmpty(cs) = Along(Nothing, cs)
    /\ \A cs : Path!Without(".", cs) = Along(Here, cs)
BY Zenon DEF Along, Through, Nothing, Here, Path!WithoutEmpty

LEMMA NamesAmongComponents ==
    ASSUME Path!PathsAssumption
    PROVE  /\ PathNames \subseteq Path!Components /\ PathNames \subseteq PlainNames /\ PathNames \subseteq NoParent
           /\ \A x \in PlainNames : x = ".." \/ x \in PathNames
           /\ \A x \in NoParent : x \in Droppable \/ x \in PathNames
           /\ NoParent \subseteq Path!Components /\ PlainNames \subseteq Path!Components
           /\ ".." \notin NoParent /\ ".." \notin PathNames
BY Zenon DEF Path!PathsAssumption, Path!Components, PlainNames, NoParent, Droppable

LEMMA MeantAppended ==
    ASSUME NEW cs \in Seq(Path!Components), NEW x \in Path!Components
    PROVE  Meant(Append(cs, x)) = IF x \in Droppable THEN Meant(cs) ELSE Append(Meant(cs), x)
<1>1. PICK a : a = Along(Nothing, cs)
  OBVIOUS
<1>2. a \in Seq(Path!Components \ {Nothing})
  BY <1>1, DroppedIsGone, ModesAre
<1>3. a \in Seq(Path!Components)
  <2>1. Path!Components \ {Nothing} \subseteq Path!Components
    OBVIOUS
  <2> QED BY <1>2, <2>1
<1>4. Along(Nothing, Append(cs, x)) = IF x = Nothing THEN a ELSE Append(a, x)
  <2>1. Along(Nothing, Append(cs, x)) = Stepped(Nothing, a, x)
    BY <1>1, AlongAppended
  <2> QED BY <2>1, SteppedIs, ModesAre
<1>5. Along(Here, Append(a, x)) = IF x = Here THEN Along(Here, a) ELSE Append(Along(Here, a), x)
  <2>1. Along(Here, Append(a, x)) = Stepped(Here, Along(Here, a), x)
    BY <1>3, AlongAppended
  <2> QED BY <2>1, SteppedIs, ModesAre
<1> QED BY <1>1, <1>4, <1>5, ModesAre DEF Meant

LEMMA NothingMeant ==
    Meant(<<>>) = <<>>
BY AlongNothing DEF Meant

LEMMA AppendedBehind ==
    ASSUME NEW X, NEW r \in Seq(X), NEW s \in Seq(X), NEW x \in X
    PROVE  r \o Append(s, x) = Append(r \o s, x)
<1>1. <<x>> \in Seq(X) /\ r \o s \in Seq(X)
  BY ConcatProperties
<1>2. Append(s, x) = s \o <<x>> /\ Append(r \o s, x) = (r \o s) \o <<x>>
  BY <1>1, AppendIsConcat
<1>3. (r \o s) \o <<x>> = r \o (s \o <<x>>)
  BY <1>1, ConcatAssociative
<1> QED BY <1>2, <1>3

(* Behind names, a path that never goes up only loses what means nothing.   *)
LEMMA NormalizedBehindNames ==
    ASSUME Path!PathsAssumption, NEW r \in Seq(PathNames), NEW cs \in Seq(NoParent)
    PROVE  Along(Through, r \o cs) = r \o Meant(cs) /\ Meant(cs) \in Seq(PathNames)
<1> DEFINE T == {s \in Seq(NoParent) : Along(Through, r \o s) = r \o Meant(s) /\ Meant(s) \in Seq(PathNames)}
<1>0. r \in Seq(NoParent) /\ Seq(NoParent) \subseteq Seq(Path!Components)
  BY NamesAmongComponents
<1>1. <<>> \in T
  <2>1. <<>> \in Seq(NoParent) /\ <<>> \in Seq(PathNames) /\ r \o <<>> = r
    BY EmptySeq, ConcatEmptySeq
  <2>2. Along(Through, r) = r
    BY NamesAlong, ModesAre
  <2> QED BY <2>1, <2>2, NothingMeant
<1>2. ASSUME NEW s \in Seq(NoParent), NEW x \in NoParent, s \in T PROVE Append(s, x) \in T
  <2>1. PICK k \in Seq(PathNames) : k = Meant(s) /\ Along(Through, r \o s) = r \o k
    BY <1>2
  <2>2. Append(s, x) \in Seq(NoParent) /\ r \o s \in Seq(NoParent)
    BY <1>0, AppendProperties, ConcatProperties
  <2>3. Along(Through, r \o Append(s, x)) = Stepped(Through, r \o k, x)
    <3>1. r \o Append(s, x) = Append(r \o s, x)
      BY <1>0, AppendedBehind
    <3>2. PICK y : y = r \o s
      OBVIOUS
    <3>3. Along(Through, Append(y, x)) = Stepped(Through, Along(Through, y), x)
      BY <2>2, <3>2, AlongAppended
    <3> QED BY <2>1, <3>1, <3>2, <3>3
  <2>4. Meant(Append(s, x)) = IF x \in Droppable THEN k ELSE Append(k, x)
    <3>1. s \in Seq(Path!Components) /\ x \in Path!Components
      BY <1>0, NamesAmongComponents
    <3> QED BY <2>1, <3>1, MeantAppended
  <2>5. CASE x \in Droppable
    <3>1. Stepped(Through, r \o k, x) = r \o k
      BY <2>5, SteppedIs, Zenon DEF Path!StepThrough, Droppable
    <3> QED BY <2>1, <2>2, <2>3, <2>4, <2>5, <3>1
  <2>6. CASE x \in PathNames /\ x \notin Droppable
    <3>1. Stepped(Through, r \o k, x) = Append(r \o k, x)
      BY <2>6, NamesAreKept, ModesAre
    <3>2. r \o Append(k, x) = Append(r \o k, x)
      BY <2>6, AppendedBehind
    <3>3. Append(k, x) \in Seq(PathNames)
      BY <2>6, AppendProperties
    <3> QED BY <2>2, <2>3, <2>4, <2>6, <3>1, <3>2, <3>3
  <2> QED BY <2>5, <2>6, NamesAmongComponents
<1>3. Seq(NoParent) \subseteq T
  <2> HIDE DEF T
  <2> QED BY <1>1, <1>2, AppendInduction
<1> QED BY <1>3

LEMMA HereBehindNames ==
    ASSUME Path!PathsAssumption, NEW r \in Seq(PathNames), NEW cs \in Seq(Path!Components)
    PROVE  Along(Here, r \o cs) = r \o Along(Here, cs)
<1> DEFINE T == {s \in Seq(Path!Components) : Along(Here, r \o s) = r \o Along(Here, s)}
<1>0. r \in Seq(Path!Components)
  BY NamesAmongComponents
<1>1. <<>> \in T
  <2>1. <<>> \in Seq(Path!Components) /\ r \o <<>> = r
    BY EmptySeq, ConcatEmptySeq
  <2>2. Along(Here, r) = r
    BY NamesAlong, ModesAre
  <2> QED BY <2>1, <2>2, AlongNothing
<1>2. ASSUME NEW s \in Seq(Path!Components), NEW x \in Path!Components, s \in T
      PROVE  Append(s, x) \in T
  <2>1. PICK k : k = Along(Here, s) /\ Along(Here, r \o s) = r \o k
    BY <1>2
  <2>2. Append(s, x) \in Seq(Path!Components) /\ r \o s \in Seq(Path!Components)
    BY <1>0, AppendProperties, ConcatProperties
  <2>3. k \in Seq(Path!Components)
    <3>1. k \in Seq(Path!Components \ {Here}) /\ Path!Components \ {Here} \subseteq Path!Components
      BY <2>1, DroppedIsGone, ModesAre
    <3> QED BY <3>1
  <2>4. Along(Here, r \o Append(s, x)) = Stepped(Here, r \o k, x)
    <3>1. r \o Append(s, x) = Append(r \o s, x)
      BY <1>0, AppendedBehind
    <3>2. PICK y : y = r \o s
      OBVIOUS
    <3>3. Along(Here, Append(y, x)) = Stepped(Here, Along(Here, y), x)
      BY <2>2, <3>2, AlongAppended
    <3> QED BY <2>1, <3>1, <3>2, <3>3
  <2>5. Along(Here, Append(s, x)) = Stepped(Here, k, x)
    BY <2>1, AlongAppended
  <2>6. r \o Append(k, x) = Append(r \o k, x)
    BY <1>0, <2>3, AppendedBehind
  <2>7. Stepped(Here, k, x) = IF x = Here THEN k ELSE Append(k, x)
    BY SteppedIs, ModesAre
  <2>8. Stepped(Here, r \o k, x) = IF x = Here THEN r \o k ELSE Append(r \o k, x)
    <3>1. PICK y : y = r \o k
      OBVIOUS
    <3>2. Stepped(Here, y, x) = IF x = Here THEN y ELSE Append(y, x)
      BY SteppedIs, ModesAre
    <3> QED BY <3>1, <3>2
  <2> QED BY <2>2, <2>4, <2>5, <2>6, <2>7, <2>8
<1>3. Seq(Path!Components) \subseteq T
  <2> HIDE DEF T
  <2> QED BY <1>1, <1>2, AppendInduction
<1> QED BY <1>3

-----------------------------------------------------------------------------
(* The root and what lies under it.                                         *)
LEMMA BehindIsAfter ==
    ASSUME NEW X, NEW r \in Seq(X), NEW k \in Seq(X), k # <<>>
    PROVE  Path!IsStrictPrefix(r, r \o k) /\ Path!After(r, r \o k) = k
<1>1. /\ Len(r) \in Nat /\ Len(k) \in Nat /\ Len(k) # 0
      /\ r \o k \in Seq(X) /\ Len(r \o k) = Len(r) + Len(k)
  BY LenProperties, ConcatProperties, EmptySeq
<1>2. Path!After(r, r \o k) = k
  <2>1. /\ Len(r) + 1 \in Len(r) + 1..Len(r) + Len(k) /\ Len(r) + Len(k) \in Len(r) + 1..Len(r) + Len(k)
        /\ (Len(r) + 1) - Len(r) = 1 /\ (Len(r) + Len(k)) - Len(r) = Len(k)
    BY <1>1
  <2>2. SubSeq(r \o k, Len(r) + 1, Len(r) + Len(k)) = SubSeq(k, 1, Len(k))
    BY <2>1, SubSeqOfConcat2
  <2>3. SubSeq(k, 1, Len(k)) = k
    BY SubSeqFull
  <2> QED BY <1>1, <2>2, <2>3 DEF Path!After
<1>3. SubSeq(r, 1, Len(r)) = SubSeq(r \o k, 1, Len(r))
  <2>1. CASE Len(r) = 0
    <3>1. 0 \in Int /\ 1 \in Int /\ 0 < 1
      OBVIOUS
    <3> QED BY <2>1, <3>1, SubSeqEmpty
  <2>2. CASE Len(r) # 0
    <3>1. 1 \in 1..Len(r) /\ Len(r) \in 1..Len(r)
      BY <1>1, <2>2
    <3>2. SubSeq(r \o k, 1, Len(r)) = SubSeq(r, 1, Len(r))
      BY <3>1, SubSeqOfConcat1
    <3> QED BY <3>2
  <2> QED BY <2>1, <2>2
<1>4. r # r \o k /\ Len(r) <= Len(r \o k)
  <2>1. r \o k # r
    BY ConcatEqualIffEmpty
  <2>2. Len(r) <= Len(r) + Len(k)
    BY <1>1
  <2> QED BY <1>1, <2>1, <2>2
<1> QED BY <1>2, <1>3, <1>4 DEF Path!IsStrictPrefix, Path!IsPrefix

LEMMA AfterIsBehind ==
    ASSUME NEW X, NEW r \in Seq(X), NEW e \in Seq(X), Path!IsStrictPrefix(r, e)
    PROVE  Path!After(r, e) \in Seq(X) /\ e = r \o Path!After(r, e)
<1>1. /\ Len(r) \in Nat /\ Len(e) \in Nat /\ Len(r) <= Len(e)
      /\ SubSeq(r, 1, Len(r)) = SubSeq(e, 1, Len(r))
  BY LenProperties DEF Path!IsStrictPrefix, Path!IsPrefix
<1>2. SubSeq(r, 1, Len(r)) = r /\ SubSeq(e, 1, Len(e)) = e
  BY SubSeqFull
<1>3. 1 \in 1..Len(e) + 1 /\ Len(r) \in (1 - 1)..Len(e) /\ Len(e) \in Len(r)..Len(e)
  BY <1>1
<1>4. SubSeq(e, 1, Len(r)) \o SubSeq(e, Len(r) + 1, Len(e)) = SubSeq(e, 1, Len(e))
  BY <1>3, ConcatAdjacentSubSeq
<1>5. SubSeq(e, Len(r) + 1, Len(e)) \in Seq(X)
  <2>1. Len(r) + 1 \in Int /\ Len(e) \in Int /\ \A i \in Len(r) + 1..Len(e) : i \in 1..Len(e)
    BY <1>1
  <2>2. \A i \in Len(r) + 1..Len(e) : e[i] \in X
    BY <2>1, ElementOfSeq
  <2> QED BY <2>1, <2>2, SubSeqProperties
<1> QED BY <1>1, <1>2, <1>4, <1>5 DEF Path!After

Goes(p) ==
    /\ p.drive \in Drives \cup {Path!NoDrive}
    /\ p.rooted \in BOOLEAN
    /\ p.components \in Seq(Path!Components)

LEMMA RootIs ==
    ASSUME Path!PathsAssumption
    PROVE  /\ Root = Path!Rooted(Root.drive, Root.components)
           /\ Root.drive \in Drives /\ Root.drive # Path!NoDrive /\ Root.rooted = TRUE
           /\ Root.components \in Seq(PathNames)
           /\ \A d \in Drives : d # Path!NoDrive
<1>1. Root \in [drive : Drives, rooted : {TRUE}, components : Seq(PathNames)] /\ Path!NoDrive \notin Drives
  BY DEF Path!PathsAssumption
<1>2. PICK d \in Drives, b \in {TRUE},
      c \in Seq(PathNames) : Root = [drive |-> d, rooted |-> b, components |-> c]
  BY <1>1
<1> QED BY <1>1, <1>2 DEF Path!Rooted

LEMMA RefusedStays ==
    Along(Here, Path!Refused) = Path!Refused
<1>1. PICK x : x = "refused"
  OBVIOUS
<1>2. Path!Refused = Append(<<>>, x) /\ x # Here
  BY <1>1 DEF Path!Refused, Here
<1>3. <<>> \in Seq({x}) /\ x \in {x}
  BY EmptySeq
<1>4. Along(Here, Append(<<>>, x)) = Stepped(Here, Along(Here, <<>>), x)
  BY <1>3, AlongAppended
<1>5. Along(Here, <<>>) = <<>>
  BY AlongNothing
<1>6. PICK y : y = <<>>
  OBVIOUS
<1>7. Stepped(Here, y, x) = IF x = Here THEN y ELSE Append(y, x)
  BY SteppedIs, ModesAre
<1> QED BY <1>2, <1>4, <1>5, <1>6, <1>7

(* What is opened has names only.                                           *)
LEMMA ResolveIs ==
    ASSUME Path!PathsAssumption, NEW p, Goes(p), Path!Resolve(p) # Path!Refused
    PROVE  /\ Path!Resolve(p) \in Seq(PathNames) /\ Path!Resolve(p) # <<>>
           /\ Path!Resolve(p) = Along(Here, Path!RelativeGuestPath(p))
           /\ Path!RelativeGuestPath(p) # Path!Refused
<1>1. PICK k : k = Along(Here, Path!RelativeGuestPath(p))
  OBVIOUS
<1>2. Path!Resolve(p) = IF k = <<>> \/ \E i \in DOMAIN k : k[i] = ".." THEN Path!Refused ELSE k
  <2>1. Path!Without(".", Path!RelativeGuestPath(p)) = k
    BY <1>1, AlongIsThePath
  <2> QED BY <2>1 DEF Path!Resolve
<1>3. Path!Resolve(p) = k /\ k # <<>> /\ \A i \in DOMAIN k : k[i] # ".."
  BY <1>2
<1>4. Path!RelativeGuestPath(p) # Path!Refused
  BY <1>1, <1>3, RefusedStays
<1>5. PICK e : e = Along(Nothing, p.components)
  OBVIOUS
<1>6. e \in Seq(Path!Components \ {Nothing})
  BY <1>5, DroppedIsGone, ModesAre DEF Goes
<1>7. Path!RelativeGuestPath(p) = e \/ (/\ Path!IsStrictPrefix(Root.components, e)
                                        /\ Path!RelativeGuestPath(p) = Path!After(Root.components, e))
  BY <1>4, <1>5, AlongIsThePath, Zenon DEF Path!RelativeGuestPath
<1>8. Root.components \in Seq(Path!Components \ {Nothing})
  <2>1. PathNames \subseteq Path!Components \ {Nothing}
    BY NamesAmongComponents, ModesAre DEF PlainNames
  <2> QED BY <2>1, RootIs
<1>9. Path!RelativeGuestPath(p) \in Seq(Path!Components \ {Nothing})
  BY <1>6, <1>7, <1>8, AfterIsBehind
<1>10. k \in Seq((Path!Components \ {Nothing}) \ {Here})
  BY <1>1, <1>9, DroppedIsGone, ModesAre
<1>11. (Path!Components \ {Nothing}) \ {Here} \subseteq PlainNames
  BY ModesAre DEF PlainNames
<1>12. k \in Seq(PlainNames)
  BY <1>10, <1>11
<1>13. k \in Seq(PathNames)
  <2>1. DOMAIN k = 1..Len(k) /\ Len(k) \in Nat
    BY <1>12, LenProperties
  <2>2. \A i \in 1..Len(k) : k[i] \in PathNames
    BY <1>3, <1>12, <2>1, ElementOfSeq, NamesAmongComponents
  <2>3. SubSeq(k, 1, Len(k)) = k
    BY <1>12, SubSeqFull
  <2>4. SubSeq(k, 1, Len(k)) \in Seq(PathNames)
    BY <2>1, <2>2, SubSeqProperties
  <2> QED BY <2>3, <2>4
<1> QED BY <1>1, <1>3, <1>4, <1>13

(* The names under the root, behind those of the root, mean what they are.  *)
LEMMA UnderTheRoot ==
    ASSUME Path!PathsAssumption, NEW k \in Seq(PathNames), k # <<>>
    PROVE  Path!Resolve(Path!Rooted(Root.drive, Root.components \o k)) = k
<1>1. PICK r \in Seq(PathNames) : r = Root.components
  BY RootIs
<1>2. PICK p : p = Path!Rooted(Root.drive, r \o k)
  OBVIOUS
<1>3. p.drive = Root.drive /\ p.rooted = TRUE /\ p.components = r \o k
  BY <1>2 DEF Path!Rooted
<1>4. r \o k \in Seq(PathNames)
  BY ConcatProperties
<1>5. Along(Nothing, r \o k) = r \o k /\ Along(Here, k) = k
  BY <1>4, NamesAlong, ModesAre
<1>6. Path!IsStrictPrefix(r, r \o k) /\ Path!After(r, r \o k) = k
  BY BehindIsAfter
<1>7. Path!RelativeGuestPath(p) = k
  BY <1>1, <1>3, <1>5, <1>6, RootIs, AlongIsThePath, Zenon DEF Path!RelativeGuestPath
<1>8. ~\E i \in DOMAIN k : k[i] = ".."
  <2>1. DOMAIN k = 1..Len(k)
    BY LenProperties
  <2> QED BY <2>1, ElementOfSeq, NamesAmongComponents
<1>9. Path!Resolve(p) = k
  <2>1. Path!Without(".", Path!RelativeGuestPath(p)) = k
    BY <1>5, <1>7, AlongIsThePath
  <2> QED BY <1>8, <2>1 DEF Path!Resolve
<1> QED BY <1>1, <1>2, <1>9

(* A path that opens a file opens it by its full name as well.              *)
LEMMA FullNameOpens ==
    ASSUME Path!PathsAssumption, NEW p, Goes(p), Path!Resolve(p) # Path!Refused
    PROVE  Path!Resolve(Path!AbsolutePath(Root, p)) = Path!Resolve(p)
<1>1. PICK k \in Seq(PathNames), r \in Seq(PathNames), cs \in Seq(Path!Components), e \in Seq(Path!Components) :
         /\ k = Path!Resolve(p) /\ r = Root.components /\ cs = p.components /\ e = Along(Nothing, cs)
  <2>1. Path!Components \ {Nothing} \subseteq Path!Components
    OBVIOUS
  <2>2. Along(Nothing, p.components) \in Seq(Path!Components \ {Nothing})
    BY DroppedIsGone, ModesAre DEF Goes
  <2>3. Along(Nothing, p.components) \in Seq(Path!Components)
    BY <2>1, <2>2
  <2> QED BY <2>3, ResolveIs, RootIs DEF Goes
<1>2. k # <<>> /\ k \in Seq(NoParent) /\ r \in Seq(NoParent)
  <2>1. k # <<>>
    BY <1>1, ResolveIs
  <2> QED BY <2>1, NamesAmongComponents
<1>3. SUFFICES Path!AbsolutePath(Root, p) = Path!Rooted(Root.drive, r \o k)
  <2>1. Path!Resolve(Path!Rooted(Root.drive, r \o k)) = k
    BY <1>1, <1>2, UnderTheRoot
  <2> QED BY <1>1, <2>1
<1>4. CASE p.drive = Path!NoDrive
  <2>1. ~p.rooted /\ Path!RelativeGuestPath(p) = e
    <3>1. Path!RelativeGuestPath(p) = IF p.rooted THEN Path!Refused ELSE e
      BY <1>1, <1>4, AlongIsThePath, Zenon DEF Path!RelativeGuestPath
    <3> QED BY <3>1, ResolveIs
  <2>2. k = Meant(cs)
    BY <1>1, <2>1, ResolveIs DEF Meant
  <2>3. Along(Here, e) \in Seq(NoParent)
    BY <1>1, <1>2, <2>1, ResolveIs
  <2>4. e \in Seq(NoParent)
    BY <2>3, NothingElseIsGone, ModesAre
  <2>5. cs \in Seq(NoParent)
    BY <1>1, <2>4, NothingElseIsGone, ModesAre
  <2>6. Along(Through, r \o cs) = r \o k
    BY <2>2, <2>5, NormalizedBehindNames
  <2>7. Path!AbsolutePath(Root, p) = Path!Rooted(Path!CurrentDrive(Root), Along(Through, r \o cs))
    BY <1>1, <1>4, <2>1, AlongIsThePath, Zenon DEF Path!AbsolutePath
  <2> QED BY <2>6, <2>7, RootIs DEF Path!CurrentDrive
<1>5. CASE p.drive # Path!NoDrive
  <2>1. p.rooted /\ p.drive = Root.drive /\ Path!IsStrictPrefix(r, e)
          /\ Path!RelativeGuestPath(p) = Path!After(r, e)
    <3>1. Path!RelativeGuestPath(p) =
             IF p.rooted /\ p.drive = Root.drive
               /\ Path!IsStrictPrefix(r, e) THEN Path!After(r, e) ELSE Path!Refused
      BY <1>1, <1>5, AlongIsThePath, Zenon DEF Path!RelativeGuestPath
    <3> QED BY <3>1, ResolveIs
  <2>2. PICK a \in Seq(Path!Components) : a = Path!After(r, e) /\ e = r \o a
    <3>1. r \in Seq(Path!Components)
      BY NamesAmongComponents
    <3> QED BY <2>1, <3>1, AfterIsBehind
  <2>3. Along(Here, a) = k
    BY <1>1, <2>1, <2>2, ResolveIs
  <2>4. a \in Seq(NoParent)
    BY <1>2, <2>3, NothingElseIsGone, ModesAre
  <2>5. e \in Seq(NoParent)
    BY <1>2, <2>2, <2>4, ConcatProperties
  <2>6. cs \in Seq(NoParent)
    BY <1>1, <2>5, NothingElseIsGone, ModesAre
  <2>7. Meant(cs) = r \o k
    BY <1>1, <2>2, <2>3, HereBehindNames DEF Meant
  <2>8. Along(Through, cs) = r \o k
    <3>1. <<>> \in Seq(PathNames) /\ <<>> \o cs = cs
      BY EmptySeq, ConcatEmptySeq
    <3>2. Along(Through, <<>> \o cs) = <<>> \o Meant(cs) /\ Meant(cs) \in Seq(PathNames)
      BY <2>6, <3>1, NormalizedBehindNames
    <3>3. <<>> \o Meant(cs) = Meant(cs)
      BY <3>2, ConcatEmptySeq
    <3> QED BY <2>7, <3>1, <3>2, <3>3
  <2>9. Path!AbsolutePath(Root, p) = Path!Rooted(p.drive, Along(Through, cs))
    BY <1>1, <1>5, AlongIsThePath, Zenon DEF Path!AbsolutePath
  <2> QED BY <2>1, <2>8, <2>9
<1> QED BY <1>4, <1>5

(* A full path has a drive and names.                                       *)
Full(f) ==
    \E d \in Drives : \E k \in Seq(PathNames) : f = Path!Rooted(d, k)

LEMMA AbsolutePathIsFull ==
    ASSUME Path!PathsAssumption, NEW here, Goes(here), NEW p, Goes(p)
    PROVE  Full(Path!AbsolutePath(here, p))
<1>1. PICK hs \in Seq(Path!Components), cs \in Seq(Path!Components) : hs = here.components
        /\ cs = p.components
  BY DEF Goes
<1>2. Path!CurrentDrive(here) \in Drives
  <2>1. "C:" \in Drives
    BY Zenon DEF Path!PathsAssumption
  <2> QED BY <2>1 DEF Goes, Path!CurrentDrive
<1>3. hs \o cs \in Seq(Path!Components)
  BY ConcatProperties
<1>4. Along(Through, cs) \in Seq(PathNames) /\ Along(Through, hs \o cs) \in Seq(PathNames)
  BY <1>3, NormalizedNames
<1>5. Path!AbsolutePath(here, p) =
         IF p.drive # Path!NoDrive THEN Path!Rooted(p.drive, Along(Through, cs))
         ELSE IF p.rooted THEN Path!Rooted(Path!CurrentDrive(here), Along(Through, cs))
         ELSE Path!Rooted(Path!CurrentDrive(here), Along(Through, hs \o cs))
  BY <1>1, AlongIsThePath, Zenon DEF Path!AbsolutePath
<1>6. p.drive # Path!NoDrive => p.drive \in Drives
  BY DEF Goes
<1> QED BY <1>2, <1>4, <1>5, <1>6 DEF Full

LEMMA FullIsComplete ==
    ASSUME Path!PathsAssumption, NEW here, NEW f, Full(f)
    PROVE  /\ f.drive \in Drives /\ \A i \in DOMAIN f.components : f.components[i] \in PathNames
           /\ Path!AbsolutePath(here, f) = f
<1>1. PICK d \in Drives, k \in Seq(PathNames) : f = Path!Rooted(d, k)
  BY DEF Full
<1>2. f.drive = d /\ f.components = k
  BY <1>1 DEF Path!Rooted
<1>3. \A i \in DOMAIN k : k[i] \in PathNames
  BY LenProperties, ElementOfSeq
<1>4. d # Path!NoDrive
  BY RootIs
<1>5. Along(Through, k) = k
  BY NamesAlong, ModesAre
<1>6. Path!AbsolutePath(here, f) = Path!Rooted(d, Along(Through, k))
  BY <1>2, <1>4, AlongIsThePath, Zenon DEF Path!AbsolutePath
<1> QED BY <1>1, <1>2, <1>3, <1>5, <1>6

(* What the guest has last used is what the two have made of it.            *)
PathInv ==
    /\ Goes(directory) /\ Goes(path) /\ Full(full)
    /\ resolved # Path!Refused => resolved = Path!Resolve(path)

LEMMA PathsGo ==
    ASSUME Path!PathsAssumption
    PROVE  Goes(Root) /\ Full(Root) /\ Goes(Path!NoPath) /\ \A p \in Path!Paths : Goes(p)
<1>1. Goes(Root) /\ Full(Root)
  <2>1. Root.components \in Seq(Path!Components)
    BY RootIs, NamesAmongComponents
  <2>2. Root.rooted \in BOOLEAN
    BY RootIs
  <2> QED BY <2>1, <2>2, RootIs DEF Goes, Full
<1>2. Goes(Path!NoPath)
  <2>1. <<>> \in Seq(Path!Components)
    BY EmptySeq
  <2> QED BY <2>1 DEF Goes, Path!NoPath
<1>3. ASSUME NEW p \in Path!Paths PROVE Goes(p)
  <2>1. PICK d \in Drives \cup {Path!NoDrive}, b \in BOOLEAN,
             c \in UNION {[1..n -> Path!Components] : n \in 0..MaxComponents} :
           p = [drive |-> d, rooted |-> b, components |-> c]
    BY <1>3 DEF Path!Paths
  <2>2. PICK n \in 0..MaxComponents : c \in [1..n -> Path!Components]
    BY <2>1
  <2>3. n \in Nat
    BY <2>2
  <2>4. c \in Seq(Path!Components)
    BY <2>2, <2>3, IsASeq
  <2> QED BY <2>1, <2>4 DEF Goes
<1> QED BY <1>1, <1>2, <1>3

LEMMA PathStarts ==
    Path!PathsAssumption /\ Path!Init => PathInv
<1> SUFFICES ASSUME Path!PathsAssumption, Path!Init PROVE PathInv
  OBVIOUS
<1> QED BY PathsGo DEF Path!Init, PathInv

LEMMA PathStep ==
    Path!PathsAssumption /\ PathInv /\ [Path!Next]_(Path!vars) => PathInv'
<1> SUFFICES ASSUME Path!PathsAssumption, PathInv, [Path!Next]_(Path!vars) PROVE PathInv'
  OBVIOUS
<1>1. ASSUME NEW p \in Path!Paths, Path!SetCurrentDirectory(p) PROVE PathInv'
  BY <1>1, PathsGo DEF PathInv, Path!SetCurrentDirectory
<1>2. ASSUME NEW p \in Path!Paths, Path!UsePath(p) PROVE PathInv'
  <2>1. Goes(p) /\ Full(Path!AbsolutePath(directory, p))
    BY PathsGo, AbsolutePathIsFull DEF PathInv
  <2> QED BY <1>2, <2>1 DEF PathInv, Path!UsePath
<1>3. CASE UNCHANGED Path!vars
  BY <1>3 DEF PathInv, Path!vars
<1> QED BY <1>1, <1>2, <1>3 DEF Path!Next

LEMMA PathInvTells ==
    Path!PathsAssumption /\ PathInv => Path!NamesMeanFiles
<1> SUFFICES ASSUME Path!PathsAssumption, PathInv PROVE Path!NamesMeanFiles
  OBVIOUS
<1>1. Path!StaysUnderRoot
  <2> SUFFICES ASSUME resolved # Path!Refused
               PROVE  resolved # <<>> /\ \A i \in DOMAIN resolved : resolved[i] \in PathNames
    BY DEF Path!StaysUnderRoot
  <2>1. resolved \in Seq(PathNames) /\ resolved # <<>>
    BY ResolveIs DEF PathInv
  <2> QED BY <2>1, LenProperties, ElementOfSeq
<1>2. Path!FullPathsAreComplete
  BY FullIsComplete DEF PathInv, Path!FullPathsAreComplete
<1>3. Path!FullPathMeansTheSame
  BY FullNameOpens DEF PathInv, Path!FullPathMeansTheSame
<1> QED BY <1>1, <1>2, <1>3 DEF Path!NamesMeanFiles

NamesInv == focus = "paths" => PathInv

(* However long a path is and whatever it is made of: what is opened lies   *)
(* under the root, the full path has names only and is its own full path    *)
(* from any directory, and opens the same file (absolute_windows_path,      *)
(* resolve); and a pattern matches what it means (MatchesAreFound).         *)
THEOREM NamesAlwaysMeanFiles ==
    Path!PathsAssumption /\ Match!WildcardAssumption => (ProcessSpec => []NamesMeanFiles)
<1> SUFFICES ASSUME Path!PathsAssumption, Match!WildcardAssumption
             PROVE  ProcessSpec => []NamesMeanFiles
  OBVIOUS
<1>1. Path!Init => PathInv
  BY PathStarts
<1>2. PathInv /\ [Path!Next]_(Path!vars) => PathInv'
  BY PathStep
<1>3. PathInv => Path!NamesMeanFiles
  BY PathInvTells
<1>4. ProcessInit => NamesInv
  BY <1>1 DEF ProcessInit, Focused, NamesInv
<1>5. NamesInv /\ [ProcessNext]_processVars => NamesInv'
  <2> SUFFICES ASSUME NamesInv, [ProcessNext]_processVars, focus' = "paths" PROVE PathInv'
    BY DEF NamesInv
  <2>1. focus = "paths" /\ [Path!Next]_(Path!vars)
    BY DEF ProcessNext, Focused, processVars, pathVars, Path!vars
  <2> QED BY <1>2, <2>1 DEF NamesInv
<1>6. NamesInv => (focus = "paths" => Path!NamesMeanFiles)
  BY <1>3 DEF NamesInv
<1>7. (focus = "paths" => Path!NamesMeanFiles) /\ (focus = "wildcards" => Match!MatchesWhatItMeans)
        => NamesMeanFiles
  BY DEF NamesMeanFiles
<1>8. ProcessSpec => [](focus = "wildcards" => Match!MatchesWhatItMeans)
  BY MatchesAreFound
<1> QED BY <1>4, <1>5, <1>6, <1>7, <1>8, PTL DEF ProcessSpec

-----------------------------------------------------------------------------
(* The loader.  Its folds: the names a module exports, their places in the  *)
(* function table, the thunks of the table, and the modules.                *)
LEMMA NamesFold ==
    ASSUME NEW module, NEW kind, kind = Naming, kind # Stepping
    PROVE  Load!NamedExports(module) = Outcome(kind, module, <<>>, NameList)
<1> DEFINE g == CHOOSE f : f = [s \in SUBSET DOMAIN NameList |->
                    IF s = {} THEN <<>>
                    ELSE IF Load!Key(module, NameList[Latest(s)]) \in registry
                    THEN Append(f[s \ {Latest(s)}], NameList[Latest(s)]) ELSE f[s \ {Latest(s)}]]
<1>1. Load!NamedExports(module) = g[DOMAIN NameList]
  BY Zenon DEF Load!NamedExports, Load!FoldLeft, Load!MapThenFoldSet, Load!Max, Latest, Path!Max
<1>2. Outcome(kind, module, <<>>, NameList) = g[DOMAIN NameList]
  BY Zenon DEF Outcome, Walks, Folded
<1> QED BY <1>1, <1>2

LEMMA SlotsFold ==
    ASSUME NEW module, NEW kind, kind = Placing, kind # Stepping, kind # Naming
    PROVE  Load!FunctionSlots(module) =
             Outcome(kind, module, Load!OrdinalSlots(module), Load!NamedExports(module))
<1> DEFINE names == Load!NamedExports(module)
           g == CHOOSE f : f = [s \in SUBSET DOMAIN names |->
                    IF s = {} THEN Load!OrdinalSlots(module)
                    ELSE Load!Place(f[s \ {Latest(s)}], Load!Key(module, names[Latest(s)]))]
<1>1. Load!FunctionSlots(module) = g[DOMAIN names]
  BY Zenon DEF Load!FunctionSlots, Load!FoldLeft, Load!MapThenFoldSet, Load!Max, Latest, Path!Max
<1>2. Outcome(kind, module, Load!OrdinalSlots(module), names) = g[DOMAIN names]
  BY Zenon DEF Outcome, Walks, Folded
<1> QED BY <1>1, <1>2

LEMMA ThunksFold ==
    ASSUME NEW table, NEW module, NEW last, NEW kind, kind = Exporting,
           kind # Stepping, kind # Naming, kind # Placing
    PROVE  Load!ModuleImage(table, module, last) =
             Outcome(kind, last, [thunks |-> table, functions |-> <<>>],
                     Load!FunctionSlots(module))
<1> DEFINE slots == Load!FunctionSlots(module)
           g == CHOOSE f : f = [s \in SUBSET DOMAIN slots |->
                    IF s = {} THEN [thunks |-> table, functions |-> <<>>]
                    ELSE Load!Export(f[s \ {Latest(s)}], slots[Latest(s)], last)]
<1>1. Load!ModuleImage(table, module, last) = g[DOMAIN slots]
  BY Zenon DEF Load!ModuleImage, Load!FoldLeft, Load!MapThenFoldSet, Load!Max, Latest, Path!Max
<1>2. Outcome(kind, last, [thunks |-> table, functions |-> <<>>], slots) = g[DOMAIN slots]
  BY Zenon DEF Outcome, Walks, Folded
<1> QED BY <1>1, <1>2

LEMMA ModulesFold ==
    ASSUME NEW table, NEW last, NEW kind, kind = Adding,
           kind # Stepping, kind # Naming, kind # Placing, kind # Exporting
    PROVE  Load!Modules(table, last) =
             Outcome(kind, last, [thunks |-> table, exports |-> <<>>], ModuleList)
<1> DEFINE g == CHOOSE f : f = [s \in SUBSET DOMAIN ModuleList |->
                    IF s = {} THEN [thunks |-> table, exports |-> <<>>]
                    ELSE Load!WithModule(f[s \ {Latest(s)}], ModuleList[Latest(s)], last)]
<1>1. Load!Modules(table, last) = g[DOMAIN ModuleList]
  BY Zenon DEF Load!Modules, Load!FoldLeft, Load!MapThenFoldSet, Load!Max, Latest, Path!Max
<1>2. Outcome(kind, last, [thunks |-> table, exports |-> <<>>], ModuleList) = g[DOMAIN ModuleList]
  BY Zenon DEF Outcome, Walks, Folded
<1> QED BY <1>1, <1>2

(* So each of them goes from element to element.                            *)
LEMMA NamesGo ==
    ASSUME NEW module, NEW X, NameList \in Seq(X)
    PROVE  \E u : /\ u[0] = <<>> /\ Load!NamedExports(module) = u[Len(NameList)]
                  /\ \A k \in 1..Len(NameList) :
                        u[k] = IF Load!Key(module, NameList[k]) \in registry
                               THEN Append(u[k - 1], NameList[k]) ELSE u[k - 1]
<1>1. PICK kind : kind = Naming
  OBVIOUS
<1>2. kind # Stepping
  BY <1>1 DEF Naming, Stepping
<1>3. PICK u : /\ Chain(kind, module, <<>>, NameList, u)
               /\ Outcome(kind, module, <<>>, NameList) = u[Len(NameList)]
  BY OutcomeIsAChain
<1>4. \A k \in 1..Len(NameList) :
        u[k] = IF Load!Key(module, NameList[k]) \in registry
               THEN Append(u[k - 1], NameList[k]) ELSE u[k - 1]
  BY <1>1, <1>2, <1>3 DEF Chain, Folded
<1> QED BY <1>1, <1>2, <1>3, <1>4, NamesFold DEF Chain

LEMMA SlotsGo ==
    ASSUME NEW module, NEW X, NEW names, names = Load!NamedExports(module), names \in Seq(X)
    PROVE  \E u : /\ u[0] = Load!OrdinalSlots(module) /\ Load!FunctionSlots(module) = u[Len(names)]
                  /\ \A k \in 1..Len(names) :
                        u[k] = Load!Place(u[k - 1], Load!Key(module, names[k]))
<1>1. PICK kind : kind = Placing
  OBVIOUS
<1>2. kind # Stepping /\ kind # Naming
  BY <1>1 DEF Placing, Naming, Stepping
<1>3. PICK base : base = Load!OrdinalSlots(module)
  OBVIOUS
<1>4. PICK u : Chain(kind, module, base, names, u) /\ Outcome(kind, module, base, names) = u[Len(names)]
  BY OutcomeIsAChain
<1>5. \A k \in 1..Len(names) : u[k] = Load!Place(u[k - 1], Load!Key(module, names[k]))
  BY <1>1, <1>2, <1>4 DEF Chain, Folded
<1> QED BY <1>1, <1>2, <1>3, <1>4, <1>5, SlotsFold DEF Chain

LEMMA ThunksGo ==
    ASSUME NEW table, NEW module, NEW last, NEW X,
           NEW slots, slots = Load!FunctionSlots(module), slots \in Seq(X)
    PROVE  \E u : /\ u[0] = [thunks |-> table, functions |-> <<>>]
                  /\ Load!ModuleImage(table, module, last) = u[Len(slots)]
                  /\ \A k \in 1..Len(slots) : u[k] = Load!Export(u[k - 1], slots[k], last)
<1>1. PICK kind : kind = Exporting
  OBVIOUS
<1>2. kind # Stepping /\ kind # Naming /\ kind # Placing
  BY <1>1 DEF Exporting, Placing, Naming, Stepping
<1>3. PICK base : base = [thunks |-> table, functions |-> <<>>]
  OBVIOUS
<1>4. PICK u : Chain(kind, last, base, slots, u) /\ Outcome(kind, last, base, slots) = u[Len(slots)]
  BY OutcomeIsAChain
<1>5. \A k \in 1..Len(slots) : u[k] = Load!Export(u[k - 1], slots[k], last)
  BY <1>1, <1>2, <1>4 DEF Chain, Folded
<1> QED BY <1>1, <1>2, <1>3, <1>4, <1>5, ThunksFold DEF Chain

LEMMA ModulesGo ==
    ASSUME NEW table, NEW last, NEW X, ModuleList \in Seq(X)
    PROVE  \E u : /\ u[0] = [thunks |-> table, exports |-> <<>>]
                  /\ Load!Modules(table, last) = u[Len(ModuleList)]
                  /\ \A k \in 1..Len(ModuleList) :
                        u[k] = Load!WithModule(u[k - 1], ModuleList[k], last)
<1>1. PICK kind : kind = Adding
  OBVIOUS
<1>2. kind # Stepping /\ kind # Naming /\ kind # Placing /\ kind # Exporting
  BY <1>1 DEF Adding, Exporting, Placing, Naming, Stepping
<1>3. PICK base : base = [thunks |-> table, exports |-> <<>>]
  OBVIOUS
<1>4. PICK u : /\ Chain(kind, last, base, ModuleList, u)
               /\ Outcome(kind, last, base, ModuleList) = u[Len(ModuleList)]
  BY OutcomeIsAChain
<1>5. \A k \in 1..Len(ModuleList) : u[k] = Load!WithModule(u[k - 1], ModuleList[k], last)
  BY <1>1, <1>2, <1>4 DEF Chain, Folded
<1> QED BY <1>1, <1>2, <1>3, <1>4, <1>5, ModulesFold DEF Chain

-----------------------------------------------------------------------------
(* Numbers up to a bound have a smallest and a greatest.                    *)
LEMMA Extremes ==
    ASSUME NEW n \in Nat, NEW S, S \subseteq 0..n, S # {}
    PROVE  /\ Load!Max(S) \in S /\ \A m \in S : m <= Load!Max(S)
           /\ Load!Min(S) \in S /\ \A m \in S : Load!Min(S) <= m
<1>1. PICK k \in S : \A m \in S : k <= m
  <2>1. S \subseteq Nat
    OBVIOUS
  <2> QED BY <2>1, LeastNumber
<1>2. PICK k2 \in S : \A m \in S : m <= k2
  <2> DEFINE T == {n - m : m \in S}
  <2>1. T \subseteq Nat /\ T # {}
    OBVIOUS
  <2>2. PICK d \in T : \A l \in T : d <= l
    <3> HIDE DEF T
    <3> QED BY <2>1, LeastNumber
  <2>3. PICK m \in S : d = n - m
    BY <2>2
  <2>4. \A l \in S : l <= m
    BY <2>2, <2>3
  <2> QED BY <2>4
<1>3. Load!Min(S) \in S /\ \A m \in S : Load!Min(S) <= m
  BY <1>1 DEF Load!Min
<1>4. Load!Max(S) \in S /\ \A m \in S : Load!Max(S) >= m
  <2>1. \A m \in S : k2 >= m
    BY <1>2
  <2> QED BY <2>1 DEF Load!Max
<1> QED BY <1>3, <1>4

LEMMA KeysAreNoHoles ==
    ASSUME Load!LoaderAssumption, NEW module \in Load!Range(ModuleList), NEW name
    PROVE  Load!Key(module, name) # Load!Hole
<1>1. PICK e : e = ""
  OBVIOUS
<1>2. Load!Hole = Load!Key(e, e)
  BY <1>1, Zenon DEF Load!Hole
<1>3. module # e
  BY <1>1, Zenon DEF Load!LoaderAssumption
<1> QED BY <1>2, <1>3 DEF Load!Key

LEMMA ModulesAre ==
    ASSUME Load!LoaderAssumption
    PROVE  /\ ThunkSlots \in Nat /\ NameList \in Seq(STRING) /\ ModuleList \in Seq(STRING)
           /\ \A i \in 1..Len(ModuleList) : ModuleList[i] \in Load!Range(ModuleList)
<1>1. ThunkSlots \in Nat /\ NameList \in Seq(STRING) /\ ModuleList \in Seq(STRING)
  BY Zenon DEF Load!LoaderAssumption
<1>2. DOMAIN ModuleList = 1..Len(ModuleList)
  BY <1>1, LenProperties
<1>3. \A i \in 1..Len(ModuleList) : ModuleList[i] \in Load!Range(ModuleList)
  BY <1>2, Zenon DEF Load!Range
<1> QED BY <1>1, <1>3

(* What a function table may hold.                                          *)
Slottable(module) ==
    registry \cup {Load!Hole} \cup {Load!Key(module, name) : name \in STRING}

LEMMA OrdinalSlotsAre ==
    ASSUME Load!LoaderAssumption, NEW module
    PROVE  Load!OrdinalSlots(module) \in Seq(Slottable(module))
<1> DEFINE keys == Load!Ordinals(module)
           numbers == {0} \cup {OrdinalOf[key.name] : key \in keys}
<1>1. numbers \subseteq 0..Load!MaxOrdinal /\ numbers # {}
  <2>1. OrdinalOf \in [DOMAIN OrdinalOf -> 1..Load!MaxOrdinal]
    BY Zenon DEF Load!LoaderAssumption
  <2>2. \A key \in keys : key.name \in DOMAIN OrdinalOf
    BY DEF Load!Ordinals
  <2>3. \A key \in keys : OrdinalOf[key.name] \in 1..Load!MaxOrdinal
    BY <2>1, <2>2
  <2>4. Load!MaxOrdinal \in Nat
    BY SMT DEF Load!MaxOrdinal
  <2> HIDE DEF keys
  <2> QED BY <2>3, <2>4
<1>2. PICK count \in Nat : count = Load!Max(numbers)
  <2>1. Load!MaxOrdinal \in Nat
    BY SMT DEF Load!MaxOrdinal
  <2>2. PICK n, S : n \in Nat /\ n = Load!MaxOrdinal /\ S = numbers
    BY <2>1
  <2> HIDE DEF numbers
  <2>3. S \subseteq 0..n /\ S # {}
    BY <1>1, <2>2
  <2>4. n \in Nat
    BY <2>2
  <2>5. Load!Max(S) \in S
    BY <2>3, <2>4, Extremes
  <2>6. Load!Max(S) \in Nat
    <3>1. \A x \in S : x \in Nat
      BY <2>3, <2>4
    <3> QED BY <2>5, <3>1, Zenon
  <2> QED BY <2>2, <2>6, Zenon
<1> DEFINE slot(i) == IF \E key \in keys : OrdinalOf[key.name] = i
                      THEN CHOOSE key \in keys : OrdinalOf[key.name] = i ELSE Load!Hole
<1>3. Load!OrdinalSlots(module) = [i \in 1..count |-> slot(i)]
  BY <1>2, Zenon DEF Load!OrdinalSlots
<1>4. \A i : slot(i) \in Slottable(module)
  <2>1. keys \subseteq registry
    BY DEF Load!Ordinals
  <2> HIDE DEF keys
  <2> QED BY <2>1 DEF Slottable
<1> HIDE DEF slot
<1> QED BY <1>2, <1>3, <1>4

LEMMA NamedExportsAre ==
    ASSUME Load!LoaderAssumption, NEW module
    PROVE  Load!NamedExports(module) \in Seq(STRING)
<1>1. NameList \in Seq(STRING)
  BY ModulesAre
<1> DEFINE n == Len(NameList)
<1>2. n \in Nat /\ \A k \in 1..n : NameList[k] \in STRING
  BY <1>1, LenProperties, ElementOfSeq
<1>3. PICK u : /\ u[0] = <<>> /\ Load!NamedExports(module) = u[n]
               /\ \A k \in 1..n : u[k] = IF Load!Key(module, NameList[k]) \in registry
                                         THEN Append(u[k - 1], NameList[k]) ELSE u[k - 1]
  BY <1>1, NamesGo
<1> HIDE DEF n
<1> DEFINE T == {k \in Nat : k <= n => u[k] \in Seq(STRING)}
<1>4. 0 \in T
  <2>1. <<>> \in Seq(STRING)
    BY EmptySeq
  <2> QED BY <1>3, <2>1
<1>5. ASSUME NEW k \in Nat, k \in T PROVE k + 1 \in T
  <2> SUFFICES ASSUME k + 1 <= n PROVE u[k + 1] \in Seq(STRING)
    OBVIOUS
  <2>1. k + 1 \in 1..n /\ (k + 1) - 1 = k /\ k <= n
    BY <1>2
  <2>2. u[k] \in Seq(STRING) /\ NameList[k + 1] \in STRING
    BY <1>2, <1>5, <2>1
  <2>3. Append(u[k], NameList[k + 1]) \in Seq(STRING)
    BY <2>2, AppendProperties
  <2>4. u[k + 1] = Append(u[k], NameList[k + 1]) \/ u[k + 1] = u[k]
    BY <1>3, <2>1
  <2> QED BY <2>2, <2>3, <2>4
<1>6. n \in T
  <2> HIDE DEF T
  <2> QED BY <1>2, <1>4, <1>5, SetInduction
<1> QED BY <1>2, <1>3, <1>6

PlacedIn(X, slots, key, new) ==
    /\ new \in Seq(X) /\ \E i \in DOMAIN new : new[i] = key
    /\ \A i \in DOMAIN slots : slots[i] # Load!Hole => i \in DOMAIN new /\ new[i] = slots[i]

LEMMA PlaceIs ==
    ASSUME NEW X, NEW slots \in Seq(X), NEW key \in X
    PROVE  PlacedIn(X, slots, key, Load!Place(slots, key))
<1> DEFINE holes == {i \in DOMAIN slots : slots[i] = Load!Hole}
           n == Len(slots)
<1>1. n \in Nat /\ DOMAIN slots = 1..n
  BY LenProperties
<1>2. CASE holes = {}
  <2>1. Load!Place(slots, key) = Append(slots, key)
    BY <1>2 DEF Load!Place
  <2>2. /\ Append(slots, key) \in Seq(X) /\ DOMAIN Append(slots, key) = 1..(n + 1)
        /\ Append(slots, key)[n + 1] = key /\ \A i \in 1..n : Append(slots, key)[i] = slots[i]
    BY <1>1, AppendProperties, LenProperties
  <2>3. n + 1 \in 1..(n + 1) /\ \A i \in 1..n : i \in 1..(n + 1)
    BY <1>1
  <2> HIDE DEF n
  <2> QED BY <1>1, <2>1, <2>2, <2>3 DEF PlacedIn
<1>3. CASE holes # {}
  <2>1. holes \subseteq 0..n
    BY <1>1
  <2>2. PICK h \in holes : h = Load!Min(holes)
    <3> HIDE DEF holes, n
    <3> QED BY <1>1, <1>3, <2>1, Extremes
  <2>3. Load!Place(slots, key) = [slots EXCEPT ![h] = key]
    BY <1>3, <2>2 DEF Load!Place
  <2>4. h \in DOMAIN slots /\ slots[h] = Load!Hole
    OBVIOUS
  <2>5. [slots EXCEPT ![h] = key] \in Seq(X) /\ DOMAIN [slots EXCEPT ![h] = key] = DOMAIN slots
    BY <2>4, ExceptSeq
  <2>6. \A i \in DOMAIN slots : [slots EXCEPT ![h] = key][i] = IF i = h THEN key ELSE slots[i]
    OBVIOUS
  <2> HIDE DEF holes, n
  <2> QED BY <2>3, <2>4, <2>5, <2>6 DEF PlacedIn
<1> QED BY <1>2, <1>3

(* Every name has its place in the function table.                          *)
LEMMA FunctionSlotsAre ==
    ASSUME Load!LoaderAssumption, NEW module \in Load!Range(ModuleList),
           NEW names, names = Load!NamedExports(module)
    PROVE  /\ Load!FunctionSlots(module) \in Seq(Slottable(module))
           /\ \A j \in 1..Len(names) : \E i \in DOMAIN Load!FunctionSlots(module) :
                 Load!FunctionSlots(module)[i] = Load!Key(module, names[j])
<1>1. names \in Seq(STRING)
  BY NamedExportsAre
<1> DEFINE n == Len(names)
           Has(s, j) == \E i \in DOMAIN s : s[i] = Load!Key(module, names[j])
<1>0. PICK X : X = Slottable(module)
  OBVIOUS
<1>2. n \in Nat /\ \A k \in 1..n : Load!Key(module, names[k]) \in X
  <2>1. n \in Nat /\ \A k \in 1..n : names[k] \in STRING
    BY <1>1, LenProperties, ElementOfSeq
  <2> QED BY <1>0, <2>1 DEF Slottable
<1>3. PICK u : /\ u[0] = Load!OrdinalSlots(module) /\ Load!FunctionSlots(module) = u[n]
               /\ \A k \in 1..n : u[k] = Load!Place(u[k - 1], Load!Key(module, names[k]))
  BY <1>1, SlotsGo
<1> HIDE DEF n
<1> DEFINE T == {k \in Nat : k <= n => u[k] \in Seq(X) /\ \A j \in 1..k : Has(u[k], j)}
<1>4. 0 \in T
  <2>1. u[0] \in Seq(X)
    BY <1>0, <1>3, OrdinalSlotsAre
  <2> QED BY <2>1
<1>5. ASSUME NEW k \in Nat, k \in T PROVE k + 1 \in T
  <2> SUFFICES ASSUME k + 1 <= n PROVE u[k + 1] \in Seq(X) /\ \A j \in 1..(k + 1) : Has(u[k + 1], j)
    OBVIOUS
  <2>1. k + 1 \in 1..n /\ (k + 1) - 1 = k /\ k <= n
    BY <1>2
  <2>2. u[k] \in Seq(X) /\ \A j \in 1..k : Has(u[k], j)
    BY <1>5, <2>1
  <2>3. PICK key \in X : key = Load!Key(module, names[k + 1])
    BY <1>2, <2>1
  <2>4. PICK s \in Seq(X) : s = u[k] /\ u[k + 1] = Load!Place(s, key)
    BY <1>3, <2>1, <2>2, <2>3
  <2>5. /\ u[k + 1] \in Seq(X) /\ \E i \in DOMAIN u[k + 1] : u[k + 1][i] = key
        /\ \A i \in DOMAIN u[k] : u[k][i] # Load!Hole =>
              i \in DOMAIN u[k + 1] /\ u[k + 1][i] = u[k][i]
    <3>1. PlacedIn(X, s, key, Load!Place(s, key))
      BY <2>3, <2>4, PlaceIs
    <3> QED BY <2>4, <3>1 DEF PlacedIn
  <2>6. Has(u[k + 1], k + 1)
    BY <2>3, <2>5
  <2>7. ASSUME NEW j \in 1..k PROVE Has(u[k + 1], j)
    <3>1. PICK i \in DOMAIN u[k] : u[k][i] = Load!Key(module, names[j])
      BY <2>2
    <3>2. u[k][i] # Load!Hole
      BY <3>1, KeysAreNoHoles
    <3> QED BY <2>5, <3>1, <3>2
  <2>8. \A j \in 1..(k + 1) : j \in 1..k \/ j = k + 1
    OBVIOUS
  <2> HIDE DEF Has
  <2> QED BY <2>5, <2>6, <2>7, <2>8
<1>6. n \in T
  <2> HIDE DEF T
  <2> QED BY <1>2, <1>4, <1>5, SetInduction
<1>7. u[n] \in Seq(X) /\ \A j \in 1..n : Has(u[n], j)
  BY <1>2, <1>6
<1> QED BY <1>0, <1>3, <1>7 DEF n

-----------------------------------------------------------------------------
(* The thunk table.  It fits its region; what it has it keeps, and a thunk  *)
(* that is new is the only one of its key.                                  *)
Fits(table) == DOMAIN table \subseteq 0..(ThunkSlots - 1)
Overfull(table) == ThunkSlots \in DOMAIN table
Leads(table, address, key) == address \in DOMAIN table /\ table[address] = key
Retains(old, new) == \A a \in DOMAIN old : Leads(new, a, old[a])
Grows(old, new) ==
    /\ Retains(old, new)
    /\ \A a \in DOMAIN new : a \notin DOMAIN old =>
          \A b \in DOMAIN new : new[b] = new[a] => b = a

LEMMA GrowsNot ==
    ASSUME NEW table
    PROVE  Grows(table, table)
BY DEF Grows, Retains, Leads

LEMMA GrowsFurther ==
    ASSUME NEW old, NEW between, NEW new, Grows(old, between), Grows(between, new)
    PROVE  Grows(old, new)
<1>1. \A a \in DOMAIN old : Leads(new, a, old[a])
  BY DEF Grows, Retains, Leads
<1>2. ASSUME NEW a \in DOMAIN new, a \notin DOMAIN old, NEW b \in DOMAIN new, new[b] = new[a]
      PROVE  b = a
  <2>1. CASE a \notin DOMAIN between
    BY <1>2, <2>1 DEF Grows
  <2>2. CASE a \in DOMAIN between /\ b \notin DOMAIN between
    BY <1>2, <2>2 DEF Grows
  <2>3. CASE a \in DOMAIN between /\ b \in DOMAIN between
    <3>1. between[a] = new[a] /\ between[b] = new[b]
      BY <2>3 DEF Grows, Retains, Leads
    <3> QED BY <1>2, <2>3, <3>1 DEF Grows
  <2> QED BY <2>1, <2>2, <2>3
<1> QED BY <1>1, <1>2 DEF Grows, Retains

LEMMA LeadsStill ==
    ASSUME NEW old, NEW new, Retains(old, new), NEW address, NEW key, Leads(old, address, key)
    PROVE  Leads(new, address, key)
BY DEF Retains, Leads

(* A thunk for a key: the one there is, or the next that is free, or none.  *)
Thunked(old, new, address, key) ==
    /\ Grows(old, new) /\ Leads(new, address, key)
    /\ IF address = ThunkSlots THEN Overfull(new) ELSE Fits(new) /\ address \in 0..(ThunkSlots - 1)

LEMMA ThunkIs ==
    ASSUME ThunkSlots \in Nat, NEW table, Fits(table), NEW key, NEW last \in BOOLEAN,
           NEW address, address = Load!ThunkFor(table, key, last),
           NEW new, new = Load!WithThunk(table, address, key)
    PROVE  Thunked(table, new, address, key)
<1>1. /\ DOMAIN new = DOMAIN table \cup {address}
      /\ \A a \in DOMAIN new : new[a] = IF a = address THEN key ELSE table[a]
  BY DEF Load!WithThunk
<1> DEFINE found == Load!ThunksFor(table, key)
<1>2. found = {a \in DOMAIN table : table[a] = key}
  BY DEF Load!ThunksFor
<1>3. CASE found = {}
  <2>1. PICK unused : unused = (0..ThunkSlots) \ DOMAIN table
    OBVIOUS
  <2>2. address = Load!Min(unused)
    BY <1>3, <2>1 DEF Load!ThunkFor, Load!NextFree
  <2>3. unused \subseteq 0..ThunkSlots /\ ThunkSlots \in unused
    BY <2>1 DEF Fits
  <2>4. Load!Min(unused) \in unused
    BY <2>3, Extremes
  <2>5. address \in 0..ThunkSlots /\ address \notin DOMAIN table
    BY <2>1, <2>2, <2>4
  <2>6. Grows(table, new)
    BY <1>1, <1>2, <1>3, <2>5 DEF Grows, Retains, Leads
  <2>7. Leads(new, address, key)
    BY <1>1 DEF Leads
  <2>8. IF address = ThunkSlots THEN Overfull(new) ELSE Fits(new) /\ address \in 0..(ThunkSlots - 1)
    BY <1>1, <2>5 DEF Fits, Overfull
  <2> QED BY <2>6, <2>7, <2>8 DEF Thunked
<1>4. CASE found # {}
  <2>1. found \subseteq 0..(ThunkSlots - 1) /\ found \subseteq 0..ThunkSlots
    BY <1>2 DEF Fits
  <2>2. address = Load!Max(found) \/ address = Load!Min(found)
    BY <1>4 DEF Load!ThunkFor
  <2>3. PICK s : s = found
    OBVIOUS
  <2>4. Load!Max(s) \in s /\ Load!Min(s) \in s
    <3>1. s \subseteq 0..ThunkSlots /\ s # {}
      BY <1>4, <2>1, <2>3
    <3> QED BY <3>1, Extremes
  <2>5. address \in DOMAIN table /\ table[address] = key /\ address \in 0..(ThunkSlots - 1)
    BY <1>2, <2>1, <2>2, <2>3, <2>4
  <2>6. DOMAIN new = DOMAIN table /\ \A a \in DOMAIN new : new[a] = table[a]
    BY <1>1, <2>5
  <2>7. Grows(table, new) /\ Leads(new, address, key)
    BY <2>5, <2>6 DEF Grows, Retains, Leads
  <2>8. address # ThunkSlots /\ Fits(new)
    BY <2>5, <2>6 DEF Fits
  <2> QED BY <2>5, <2>7, <2>8 DEF Thunked
<1> QED BY <1>3, <1>4

-----------------------------------------------------------------------------
(* The image of a module: so far, the functions of the first slots.         *)
FunctionsLead(slots, functions, table, k) ==
    /\ functions \in Seq(Int) /\ Len(functions) = k
    /\ \A i \in 1..k : slots[i] # Load!Hole => Leads(table, functions[i], slots[i])

ImageSoFar(old, slots, made, k) ==
    \E t, f :
        /\ made = [thunks |-> t, functions |-> f]
        /\ Overfull(old) => Overfull(t)
        /\ Overfull(t) \/ (Fits(t) /\ Grows(old, t) /\ FunctionsLead(slots, f, t, k))

LEMMA FunctionsFurther ==
    ASSUME NEW slots, NEW k \in Nat, NEW old, NEW new, NEW f, FunctionsLead(slots, f, old, k),
           Grows(old, new), NEW address \in Int,
           slots[k + 1] # Load!Hole => Leads(new, address, slots[k + 1])
    PROVE  FunctionsLead(slots, Append(f, address), new, k + 1)
<1>1. f \in Seq(Int) /\ Len(f) = k
  BY DEF FunctionsLead
<1>2. PICK g : g = Append(f, address)
  OBVIOUS
<1>3. /\ g \in Seq(Int) /\ Len(g) = k + 1 /\ g[k + 1] = address
      /\ \A i \in 1..k : g[i] = f[i]
  BY <1>1, <1>2, AppendProperties
<1>4. ASSUME NEW i \in 1..(k + 1), slots[i] # Load!Hole PROVE Leads(new, g[i], slots[i])
  <2>1. CASE i = k + 1
    BY <1>3, <1>4, <2>1
  <2>2. CASE i # k + 1
    <3>1. i \in 1..k /\ g[i] = f[i]
      BY <1>3, <2>2
    <3>2. Leads(old, f[i], slots[i])
      BY <1>4, <3>1 DEF FunctionsLead
    <3> QED BY <3>1, <3>2, LeadsStill DEF Grows
  <2> QED BY <2>1, <2>2
<1> QED BY <1>2, <1>3, <1>4 DEF FunctionsLead

LEMMA ExportGoesOn ==
    ASSUME ThunkSlots \in Nat, NEW old, NEW slots, NEW k \in Nat, NEW made,
           ImageSoFar(old, slots, made, k), NEW key, key = slots[k + 1], NEW last \in BOOLEAN
    PROVE  ImageSoFar(old, slots, Load!Export(made, key, last), k + 1)
<1>1. PICK t, f :
        /\ made = [thunks |-> t, functions |-> f]
        /\ Overfull(old) => Overfull(t)
        /\ Overfull(t) \/ (Fits(t) /\ Grows(old, t) /\ FunctionsLead(slots, f, t, k))
  BY DEF ImageSoFar
<1>2. CASE key = Load!Hole
  <2>1. Load!Export(made, key, last) = [thunks |-> t, functions |-> Append(f, -1)]
    BY <1>1, <1>2 DEF Load!Export
  <2>2. FunctionsLead(slots, f, t, k) => FunctionsLead(slots, Append(f, -1), t, k + 1)
    <3>1. Grows(t, t) /\ -1 \in Int
      BY GrowsNot
    <3> QED BY <1>2, <3>1, FunctionsFurther
  <2> QED BY <1>1, <2>1, <2>2 DEF ImageSoFar
<1>3. CASE key # Load!Hole
  <2>1. PICK address : address = Load!ThunkFor(t, key, last)
    OBVIOUS
  <2>2. PICK new : new = Load!WithThunk(t, address, key)
    OBVIOUS
  <2>3. Load!Export(made, key, last) = [thunks |-> new, functions |-> Append(f, address)]
    BY <1>1, <1>3, <2>1, <2>2 DEF Load!Export
  <2>0. Overfull(t) => Overfull(new)
    BY <2>2 DEF Overfull, Load!WithThunk
  <2>4. CASE Overfull(t)
    BY <2>0, <2>3, <2>4 DEF ImageSoFar
  <2>5. CASE Fits(t) /\ Grows(old, t) /\ FunctionsLead(slots, f, t, k)
    <3>1. Thunked(t, new, address, key)
      BY <2>1, <2>2, <2>5, ThunkIs
    <3>2. CASE address = ThunkSlots
      BY <1>1, <2>0, <2>3, <3>1, <3>2 DEF ImageSoFar, Thunked
    <3>3. CASE address # ThunkSlots
      <4>1. Fits(new) /\ address \in Int /\ Grows(t, new) /\ Leads(new, address, key)
        BY <3>1, <3>3 DEF Thunked
      <4>2. Grows(old, new)
        BY <2>5, <4>1, GrowsFurther
      <4>3. FunctionsLead(slots, Append(f, address), new, k + 1)
        BY <2>5, <4>1, FunctionsFurther
      <4> QED BY <1>1, <2>0, <2>3, <4>1, <4>2, <4>3 DEF ImageSoFar
    <3> QED BY <3>2, <3>3
  <2> QED BY <1>1, <2>4, <2>5
<1> QED BY <1>2, <1>3

LEMMA ModuleImageIs ==
    ASSUME Load!LoaderAssumption, NEW table, Overfull(table) \/ Fits(table),
           NEW module \in Load!Range(ModuleList), NEW last \in BOOLEAN,
           NEW slots, slots = Load!FunctionSlots(module)
    PROVE  ImageSoFar(table, slots, Load!ModuleImage(table, module, last), Len(slots))
<1>1. PICK X : X = Slottable(module)
  OBVIOUS
<1>2. slots \in Seq(X)
  <2>1. PICK names : names = Load!NamedExports(module)
    OBVIOUS
  <2> QED BY <1>1, <2>1, FunctionSlotsAre
<1>3. PICK u : /\ u[0] = [thunks |-> table, functions |-> <<>>]
               /\ Load!ModuleImage(table, module, last) = u[Len(slots)]
               /\ \A k \in 1..Len(slots) : u[k] = Load!Export(u[k - 1], slots[k], last)
  BY <1>2, ThunksGo
<1>4. ThunkSlots \in Nat /\ Len(slots) \in Nat
  BY <1>2, ModulesAre, LenProperties
<1> DEFINE n == Len(slots)
           T == {k \in Nat : k <= n => ImageSoFar(table, slots, u[k], k)}
<1>5. 0 \in T
  <2>1. <<>> \in Seq(Int) /\ Len(<<>>) = 0
    BY EmptySeq
  <2>2. FunctionsLead(slots, <<>>, table, 0)
    BY <2>1 DEF FunctionsLead
  <2>3. ImageSoFar(table, slots, u[0], 0)
    BY <1>3, <2>2, GrowsNot DEF ImageSoFar
  <2> QED BY <2>3
<1>6. ASSUME NEW k \in Nat, k \in T PROVE k + 1 \in T
  <2> SUFFICES ASSUME k + 1 <= n PROVE ImageSoFar(table, slots, u[k + 1], k + 1)
    OBVIOUS
  <2>1. k + 1 \in 1..Len(slots) /\ (k + 1) - 1 = k /\ k <= n
    BY <1>4
  <2>2. PICK made, key : made = u[k] /\ key = slots[k + 1]
    OBVIOUS
  <2>3. u[k + 1] = Load!Export(made, key, last)
    BY <1>3, <2>1, <2>2
  <2>4. ImageSoFar(table, slots, made, k)
    BY <1>6, <2>1, <2>2
  <2> QED BY <1>4, <2>2, <2>3, <2>4, ExportGoesOn
<1>7. n \in T
  <2> HIDE DEF T
  <2> QED BY <1>4, <1>5, <1>6, SetInduction
<1> QED BY <1>3, <1>4, <1>7

-----------------------------------------------------------------------------
(* The export table of a module leads from its names to their thunks.       *)
ExportsLead(module, table, e) ==
    \A n \in Load!Range(e.names) : Leads(table, e.functions[n.index], Load!Key(module, n.name))

LEMMA ExportsLeadStill ==
    ASSUME NEW module, NEW old, NEW new, Retains(old, new), NEW e, ExportsLead(module, old, e)
    PROVE  ExportsLead(module, new, e)
BY LeadsStill DEF ExportsLead

LEMMA NamedSlotsAre ==
    ASSUME Load!LoaderAssumption, NEW module \in Load!Range(ModuleList),
           NEW slots, slots = Load!FunctionSlots(module), NEW n \in Load!Range(Load!NamedSlots(module))
    PROVE  n.index \in 1..Len(slots) /\ slots[n.index] = Load!Key(module, n.name)
<1>1. PICK names : names = Load!NamedExports(module)
  OBVIOUS
<1>2. PICK X : X = Slottable(module)
  OBVIOUS
<1>3. slots \in Seq(X) /\ \A j \in 1..Len(names) : \E i \in DOMAIN slots : slots[i] = Load!Key(module, names[j])
  BY <1>1, <1>2, FunctionSlotsAre
<1>4. DOMAIN slots = 1..Len(slots) /\ DOMAIN names = 1..Len(names)
  <2>1. names \in Seq(STRING)
    BY <1>1, NamedExportsAre
  <2> QED BY <1>3, <2>1, LenProperties
<1>5. PICK j \in DOMAIN names :
        n = [name |-> names[j],
             index |-> CHOOSE i \in DOMAIN slots : slots[i] = Load!Key(module, names[j])]
  BY <1>1, Zenon DEF Load!Range, Load!NamedSlots
<1>6. n.name = names[j] /\ n.index = CHOOSE i \in DOMAIN slots : slots[i] = Load!Key(module, names[j])
  BY <1>5
<1>7. n.index \in DOMAIN slots /\ slots[n.index] = Load!Key(module, names[j])
  BY <1>3, <1>4, <1>5, <1>6
<1> QED BY <1>4, <1>6, <1>7

LEMMA NamedSlotsAreNamed ==
    ASSUME Load!LoaderAssumption, NEW module \in Load!Range(ModuleList)
    PROVE  Load!NamedSlots(module) \in Seq([name : STRING, index : Int])
<1>1. PICK names, slots, X, Y :
        /\ names = Load!NamedExports(module) /\ slots = Load!FunctionSlots(module)
        /\ X = Slottable(module) /\ Y = [name : STRING, index : Int]
  OBVIOUS
<1>2. names \in Seq(STRING)
  BY <1>1, NamedExportsAre
<1>3. slots \in Seq(X)
  BY <1>1, FunctionSlotsAre
<1>4. PICK n \in Nat : n = Len(names) /\ DOMAIN names = 1..n
  BY <1>2, LenProperties
<1>5. PICK t : t = Load!NamedSlots(module)
  OBVIOUS
<1>6. DOMAIN t = DOMAIN names /\ \A j \in DOMAIN names : t[j] \in Load!Range(t)
  BY <1>1, <1>5, Zenon DEF Load!NamedSlots, Load!Range
<1> DEFINE index(j) == CHOOSE i \in DOMAIN slots : slots[i] = Load!Key(module, names[j])
<1>7. t = [j \in DOMAIN names |-> [name |-> names[j], index |-> index(j)]]
  BY <1>1, <1>5, Zenon DEF Load!NamedSlots
<1> HIDE DEF index
<1>8. ASSUME NEW j \in 1..n PROVE t[j] \in Y
  <2>1. names[j] \in STRING /\ t[j] = [name |-> names[j], index |-> index(j)]
    BY <1>2, <1>4, <1>7, ElementOfSeq
  <2>2. t[j].index \in 1..Len(slots)
    BY <1>1, <1>4, <1>5, <1>6, NamedSlotsAre
  <2>3. Len(slots) \in Nat
    BY <1>3, LenProperties
  <2> QED BY <1>1, <2>1, <2>2, <2>3
<1>9. t = [j \in 1..n |-> t[j]]
  BY <1>4, <1>7
<1>10. t \in Seq(Y)
  BY <1>4, <1>8, <1>9
<1> QED BY <1>1, <1>5, <1>10

(* The images of the modules so far.                                        *)
Exportable == [functions : Seq(Int), names : Seq([name : STRING, index : Int])]

ModulesLead(e, table, k) ==
    /\ e \in Seq(Exportable) /\ Len(e) = k
    /\ \A m \in 1..k : ExportsLead(ModuleList[m], table, e[m])

ModulesSoFar(old, made, k) ==
    \E t, e :
        /\ made = [thunks |-> t, exports |-> e]
        /\ Overfull(t) \/ (Fits(t) /\ Grows(old, t) /\ ModulesLead(e, t, k))

LEMMA ModulesFurther ==
    ASSUME NEW k \in Nat, NEW old, NEW new, NEW e, ModulesLead(e, old, k), Grows(old, new),
           NEW entry \in Exportable, NEW module, module = ModuleList[k + 1],
           ExportsLead(module, new, entry)
    PROVE  ModulesLead(Append(e, entry), new, k + 1)
<1>1. PICK g, X : g = Append(e, entry) /\ X = Exportable
  OBVIOUS
<1>2. e \in Seq(X) /\ Len(e) = k /\ entry \in X
  BY <1>1 DEF ModulesLead
<1>3. g \in Seq(X) /\ Len(g) = k + 1 /\ g[k + 1] = entry /\ \A i \in 1..k : g[i] = e[i]
  BY <1>1, <1>2, AppendProperties
<1>4. ASSUME NEW m \in 1..(k + 1) PROVE ExportsLead(ModuleList[m], new, g[m])
  <2>1. CASE m = k + 1
    BY <1>3, <2>1
  <2>2. CASE m # k + 1
    <3>1. m \in 1..k /\ g[m] = e[m]
      BY <1>3, <2>2
    <3>2. ExportsLead(ModuleList[m], old, e[m])
      BY <3>1 DEF ModulesLead
    <3> QED BY <3>1, <3>2, ExportsLeadStill DEF Grows
  <2> QED BY <2>1, <2>2
<1> QED BY <1>1, <1>3, <1>4 DEF ModulesLead

LEMMA ModuleGoesOn ==
    ASSUME Load!LoaderAssumption, NEW old, NEW k \in Nat, NEW made, ModulesSoFar(old, made, k),
           NEW module \in Load!Range(ModuleList), module = ModuleList[k + 1], NEW last \in BOOLEAN
    PROVE  ModulesSoFar(old, Load!WithModule(made, module, last), k + 1)
<1>1. PICK t, e :
        /\ made = [thunks |-> t, exports |-> e]
        /\ Overfull(t) \/ (Fits(t) /\ Grows(old, t) /\ ModulesLead(e, t, k))
  BY DEF ModulesSoFar
<1>2. PICK slots : slots = Load!FunctionSlots(module)
  OBVIOUS
<1>3. PICK new : new = Load!ModuleImage(t, module, last)
  OBVIOUS
<1>4. ImageSoFar(t, slots, new, Len(slots))
  <2>1. Overfull(t) \/ Fits(t)
    BY <1>1
  <2> QED BY <1>2, <1>3, <2>1, ModuleImageIs
<1>5. PICK t2, f :
        /\ new = [thunks |-> t2, functions |-> f]
        /\ Overfull(t) => Overfull(t2)
        /\ Overfull(t2) \/ (Fits(t2) /\ Grows(t, t2) /\ FunctionsLead(slots, f, t2, Len(slots)))
  BY <1>4 DEF ImageSoFar
<1>6. PICK entry : entry = [functions |-> f, names |-> Load!NamedSlots(module)]
  OBVIOUS
<1>7. Load!WithModule(made, module, last) = [thunks |-> t2, exports |-> Append(e, entry)]
  <2>1. made.thunks = t /\ made.exports = e /\ new.thunks = t2 /\ new.functions = f
    BY <1>1, <1>5
  <2> QED BY <1>3, <1>6, <2>1, Zenon DEF Load!WithModule
<1>8. CASE Overfull(t2)
  BY <1>7, <1>8 DEF ModulesSoFar
<1>9. CASE ~Overfull(t2) /\ ~Overfull(t)
  <2>1. /\ Fits(t2) /\ Grows(t, t2) /\ FunctionsLead(slots, f, t2, Len(slots))
        /\ Grows(old, t) /\ ModulesLead(e, t, k)
    BY <1>1, <1>5, <1>9
  <2>2. entry \in Exportable
    BY <1>6, <2>1, NamedSlotsAreNamed DEF Exportable, FunctionsLead
  <2>3. ASSUME NEW n \in Load!Range(entry.names)
        PROVE  Leads(t2, entry.functions[n.index], Load!Key(module, n.name))
    <3>1. n \in Load!Range(Load!NamedSlots(module)) /\ entry.functions = f
      BY <1>6, <2>3
    <3>2. n.index \in 1..Len(slots) /\ slots[n.index] = Load!Key(module, n.name)
      BY <1>2, <3>1, NamedSlotsAre
    <3>3. slots[n.index] # Load!Hole
      BY <3>2, KeysAreNoHoles
    <3> QED BY <2>1, <3>1, <3>2, <3>3 DEF FunctionsLead
  <2>4. ExportsLead(module, t2, entry)
    BY <2>3 DEF ExportsLead
  <2>5. ModulesLead(Append(e, entry), t2, k + 1)
    BY <2>1, <2>2, <2>4, ModulesFurther
  <2> QED BY <1>7, <2>1, <2>5, GrowsFurther DEF ModulesSoFar
<1>10. Overfull(t) => Overfull(t2)
  BY <1>5
<1> QED BY <1>8, <1>9, <1>10

(* What initialize_host_modules makes.                                      *)
LEMMA ModulesAreRight ==
    ASSUME Load!LoaderAssumption, NEW table, Overfull(table) \/ Fits(table), NEW last \in BOOLEAN
    PROVE  ModulesSoFar(table, Load!Modules(table, last), Len(ModuleList))
<1>1. ModuleList \in Seq(STRING)
  BY ModulesAre
<1>2. PICK u : /\ u[0] = [thunks |-> table, exports |-> <<>>]
               /\ Load!Modules(table, last) = u[Len(ModuleList)]
               /\ \A k \in 1..Len(ModuleList) :
                     u[k] = Load!WithModule(u[k - 1], ModuleList[k], last)
  BY <1>1, ModulesGo
<1> DEFINE n == Len(ModuleList)
           T == {k \in Nat : k <= n => ModulesSoFar(table, u[k], k)}
<1>3. n \in Nat /\ \A k \in 1..n : ModuleList[k] \in Load!Range(ModuleList)
  BY <1>1, ModulesAre, LenProperties
<1>4. 0 \in T
  <2>1. <<>> \in Seq(Exportable) /\ Len(<<>>) = 0
    BY EmptySeq
  <2>2. ModulesLead(<<>>, table, 0)
    BY <2>1 DEF ModulesLead
  <2>3. ModulesSoFar(table, u[0], 0)
    BY <1>2, <2>2, GrowsNot DEF ModulesSoFar
  <2> QED BY <2>3
<1>5. ASSUME NEW k \in Nat, k \in T PROVE k + 1 \in T
  <2> SUFFICES ASSUME k + 1 <= n PROVE ModulesSoFar(table, u[k + 1], k + 1)
    OBVIOUS
  <2>1. k + 1 \in 1..n /\ (k + 1) - 1 = k /\ k <= n
    BY <1>3
  <2>2. PICK made, module : made = u[k] /\ module = ModuleList[k + 1]
    OBVIOUS
  <2>3. u[k + 1] = Load!WithModule(made, module, last) /\ module \in Load!Range(ModuleList)
    BY <1>2, <1>3, <2>1, <2>2
  <2>4. ModulesSoFar(table, made, k)
    BY <1>5, <2>1, <2>2
  <2> QED BY <2>2, <2>3, <2>4, ModuleGoesOn
<1>6. n \in T
  <2> HIDE DEF T, n
  <2> QED BY <1>3, <1>4, <1>5, SetInduction
<1> QED BY <1>2, <1>3, <1>6

-----------------------------------------------------------------------------
(* The import table of an image: its entries, one after the other.          *)
Places(linked) == {Load!EntryImport(linked, e) : e \in Load!ImportEntries(linked)}
Lists(linked, list, entries) ==
    /\ list \in Seq(Places(linked))
    /\ \A e \in entries : \E i \in 1..Len(list) : list[i] = Load!EntryImport(linked, e)
    /\ \A i \in 1..Len(list) : \E e \in entries : list[i] = Load!EntryImport(linked, e)
    /\ \A i, j \in 1..Len(list) : list[i].iat = list[j].iat => i = j
Apart(linked) ==
    \A d, e \in Load!ImportEntries(linked) :
        Load!EntryImport(linked, d).iat = Load!EntryImport(linked, e).iat => d = e

LEMMA ListsTogether ==
    ASSUME NEW linked, Apart(linked), NEW s, NEW t, NEW A, NEW B,
           A \subseteq Load!ImportEntries(linked), B \subseteq Load!ImportEntries(linked),
           A \cap B = {}, Lists(linked, s, A), Lists(linked, t, B)
    PROVE  Lists(linked, s \o t, A \cup B)
<1>1. PICK X, u : X = Places(linked) /\ u = s \o t
  OBVIOUS
<1>2. PICK m, n : m = Len(s) /\ n = Len(t)
  OBVIOUS
<1>3. s \in Seq(X) /\ t \in Seq(X)
  BY <1>1 DEF Lists
<1>4. /\ u \in Seq(X) /\ Len(u) = m + n /\ m \in Nat /\ n \in Nat
      /\ \A i \in 1..(m + n) : u[i] = IF i <= m THEN s[i] ELSE t[i - m]
  BY <1>1, <1>2, <1>3, ConcatProperties, LenProperties
<1>5. \A i \in 1..m : i \in 1..(m + n) /\ u[i] = s[i]
  BY <1>4
<1>6. \A j \in 1..n : m + j \in 1..(m + n) /\ u[m + j] = t[j]
  BY <1>4
<1>7. \A i \in 1..(m + n) : i \in 1..m \/ \E j \in 1..n : i = m + j
  <2>1. ASSUME NEW i \in 1..(m + n), i \notin 1..m PROVE i - m \in 1..n /\ i = m + (i - m)
    BY <1>4, <2>1
  <2> QED BY <2>1
<1>8. ASSUME NEW e \in A \cup B
      PROVE  \E i \in 1..(m + n) : u[i] = Load!EntryImport(linked, e)
  <2>1. CASE e \in A
    <3>1. PICK i \in 1..m : s[i] = Load!EntryImport(linked, e)
      BY <1>2, <2>1 DEF Lists
    <3> QED BY <1>5, <3>1
  <2>2. CASE e \in B
    <3>1. PICK j \in 1..n : t[j] = Load!EntryImport(linked, e)
      BY <1>2, <2>2 DEF Lists
    <3> QED BY <1>6, <3>1
  <2> QED BY <2>1, <2>2
<1>9. \A i \in 1..m : \E e \in A : s[i] = Load!EntryImport(linked, e)
  BY <1>2 DEF Lists
<1>10. \A j \in 1..n : \E e \in B : t[j] = Load!EntryImport(linked, e)
  BY <1>2 DEF Lists
<1>11. ASSUME NEW i \in 1..(m + n) PROVE \E e \in A \cup B : u[i] = Load!EntryImport(linked, e)
  <2>1. CASE i \in 1..m
    BY <1>5, <1>9, <2>1
  <2>2. ASSUME NEW j \in 1..n, i = m + j PROVE \E e \in A \cup B : u[i] = Load!EntryImport(linked, e)
    BY <1>6, <1>10, <2>2
  <2> QED BY <1>7, <2>1, <2>2
<1>12. \A i \in 1..m, j \in 1..n : s[i].iat # t[j].iat
  <2> SUFFICES ASSUME NEW i \in 1..m, NEW j \in 1..n, s[i].iat = t[j].iat PROVE FALSE
    OBVIOUS
  <2>1. PICK a \in A : s[i] = Load!EntryImport(linked, a)
    BY <1>9
  <2>2. PICK b \in B : t[j] = Load!EntryImport(linked, b)
    BY <1>10
  <2>3. a = b
    <3>1. Load!EntryImport(linked, a).iat = Load!EntryImport(linked, b).iat
      BY <2>1, <2>2
    <3>2. a \in Load!ImportEntries(linked) /\ b \in Load!ImportEntries(linked)
      BY <2>1, <2>2
    <3> QED BY <3>1, <3>2 DEF Apart
  <2> QED BY <2>1, <2>2, <2>3
<1>13. ASSUME NEW i \in 1..(m + n), NEW j \in 1..(m + n), u[i].iat = u[j].iat PROVE i = j
  <2>1. CASE i \in 1..m /\ j \in 1..m
    <3>1. s[i].iat = s[j].iat
      BY <1>5, <1>13, <2>1
    <3> QED BY <1>2, <2>1, <3>1 DEF Lists
  <2>2. ASSUME i \in 1..m, NEW l \in 1..n, j = m + l PROVE FALSE
    BY <1>5, <1>6, <1>12, <1>13, <2>2
  <2>3. ASSUME j \in 1..m, NEW k \in 1..n, i = m + k PROVE FALSE
    BY <1>5, <1>6, <1>12, <1>13, <2>3
  <2>4. ASSUME NEW k \in 1..n, i = m + k, NEW l \in 1..n, j = m + l PROVE i = j
    <3>1. t[k].iat = t[l].iat
      BY <1>6, <1>13, <2>4
    <3> QED BY <1>2, <2>4, <3>1 DEF Lists
  <2> QED BY <1>7, <2>1, <2>2, <2>3, <2>4
<1> QED BY <1>1, <1>4, <1>8, <1>11, <1>13 DEF Lists

-----------------------------------------------------------------------------
(* The thunks of one descriptor.                                            *)
LEMMA LoadCounts ==
    ASSUME NEW S
    PROVE  Load!Cardinality(S) = Cardinality(S)
BY DEF Load!Cardinality, Cardinality

EntriesUpto(linked, k) == {e \in Load!ImportEntries(linked) : e[1] <= k}
EntriesOf(linked, d) == {e \in Load!ImportEntries(linked) : e[1] = d}

LEMMA TableHasAnEnd ==
    ASSUME NEW linked, linked.size \in Nat, NEW table \in Nat, Load!TableEnds(linked, table),
           NEW end, end = Load!EndOfTable(linked, table)
    PROVE  /\ end \in table..(table + linked.size) /\ Load!At(linked, end) = Load!Zero
           /\ \A rva \in table..(end - 1) : Load!At(linked, rva) # Load!Zero
<1> DEFINE S == {x \in table..(table + linked.size) : Load!At(linked, x) = Load!Zero}
<1>1. S \subseteq Nat /\ S # {}
  BY DEF Load!TableEnds
<1>2. PICK x \in S : \A y \in S : x <= y
  BY <1>1, LeastNumber
<1>3. \A rva \in table..(x - 1) : Load!At(linked, rva) # Load!Zero
  BY <1>2
<1>4. x \in table..(table + linked.size) /\ Load!At(linked, x) = Load!Zero
  BY <1>2
<1> QED BY <1>3, <1>4, Zenon DEF Load!EndOfTable

LEMMA DescriptorIsListed ==
    ASSUME NEW linked, Load!ImportsLinked(linked), Load!ImportsParse(linked),
           NEW d \in 1..Len(linked.descriptors),
           NEW list, list = Load!ImportThunks(linked, linked.descriptors[d])
    PROVE  Lists(linked, list, EntriesOf(linked, d))
<1>1. PICK D : D = [module : STRING, first : Nat, original : Nat]
  OBVIOUS
<1>2. linked.size \in Nat /\ linked.descriptors \in Seq(D) /\ Apart(linked)
  BY <1>1 DEF Load!ImportsLinked, Apart
<1>3. DOMAIN linked.descriptors = 1..Len(linked.descriptors)
  BY <1>2, LenProperties
<1>4. PICK descriptor \in D : descriptor = linked.descriptors[d]
  BY <1>2, ElementOfSeq
<1> DEFINE table == Load!Lookup(descriptor)
           end == Load!EndOfTable(linked, table)
           thunk == [entry \in table..(end - 1) |-> Load!ImportThunk(linked, descriptor, entry)]
<1>7. list = [i \in 1..Load!Cardinality(DOMAIN thunk) |-> thunk[table + i - 1]]
  <2>1. list = Load!ImportThunks(linked, descriptor)
    BY <1>4
  <2> QED BY <2>1, Zenon DEF Load!ImportThunks
<1>5. table \in Nat /\ table = Load!Lookup(descriptor)
  BY <1>1, <1>4 DEF Load!Lookup
<1> HIDE DEF table
<1>6. Load!TableEnds(linked, table)
  <2>1. descriptor \in Load!Range(linked.descriptors)
    BY <1>3, <1>4 DEF Load!Range
  <2> QED BY <1>5, <2>1 DEF Load!ImportsParse
<1>8. /\ end \in table..(table + linked.size) /\ Load!At(linked, end) = Load!Zero
      /\ \A rva \in table..(end - 1) : Load!At(linked, rva) # Load!Zero
  BY <1>2, <1>5, <1>6, TableHasAnEnd
<1> HIDE DEF end
<1>9. PICK n \in Nat : n = end - table
  BY <1>2, <1>5, <1>8
<1>10. Load!Cardinality(table..(end - 1)) = n
  <2>1. table \in Int /\ end - 1 \in Int /\ (IF table > end - 1 THEN 0 ELSE (end - 1) - table + 1) = n
    BY <1>2, <1>5, <1>8, <1>9
  <2>2. Cardinality(table..(end - 1)) = n
    BY <2>1, FS_Interval, Zenon
  <2> QED BY <2>2, LoadCounts
<1>11. list = [i \in 1..n |-> thunk[table + i - 1]]
  <2>1. DOMAIN thunk = table..(end - 1)
    OBVIOUS
  <2> QED BY <1>7, <1>10, <2>1, Zenon
<1>12. ASSUME NEW i \in 1..n PROVE thunk[table + i - 1] = Load!EntryImport(linked, <<d, i - 1>>)
  <2>1. table + i - 1 \in table..(end - 1) /\ table + i - 1 = table + (i - 1)
    BY <1>2, <1>5, <1>8, <1>9
  <2>2. PICK entry : entry = table + i - 1
    OBVIOUS
  <2>3. thunk[entry] = Load!ImportThunk(linked, descriptor, entry)
    BY <2>1, <2>2
  <2>4. descriptor.first \in Nat
    BY <1>1, <1>4
  <2>5. descriptor.first + entry - table = descriptor.first + (i - 1)
    BY <1>5, <2>1, <2>2, <2>4
  <2>6. Load!ImportThunk(linked, descriptor, entry) =
          [module |-> descriptor.module, name |-> Load!At(linked, entry)[2],
           iat |-> descriptor.first + (i - 1)]
    BY <1>5, <2>5 DEF Load!ImportThunk
  <2>7. PICK e : e = <<d, i - 1>>
    OBVIOUS
  <2>8. e[1] = d /\ e[2] = i - 1
    BY <2>7
  <2>9. Load!EntryImport(linked, e) =
          [module |-> descriptor.module, name |-> Load!At(linked, table + (i - 1))[2],
           iat |-> descriptor.first + (i - 1)]
    BY <1>4, <1>5, <2>8, Zenon DEF Load!EntryImport
  <2> QED BY <2>1, <2>2, <2>3, <2>6, <2>7, <2>9
<1>13. ASSUME NEW i \in 1..n PROVE <<d, i - 1>> \in EntriesOf(linked, d)
  <2>1. i - 1 \in 0..linked.size
    BY <1>2, <1>5, <1>8, <1>9
  <2>2. ASSUME NEW place \in 0..(i - 1) PROVE Load!At(linked, table + place) # Load!Zero
    <3>1. table + place \in table..(end - 1)
      BY <1>2, <1>5, <1>8, <1>9
    <3> QED BY <1>8, <3>1
  <2>3. PICK e : e = <<d, i - 1>>
    OBVIOUS
  <2>4. e \in (DOMAIN linked.descriptors) \X (0..linked.size) /\ e[1] = d /\ e[2] = i - 1
    BY <1>3, <2>1, <2>3
  <2>5. e \in Load!ImportEntries(linked)
    BY <1>4, <1>5, <2>2, <2>4 DEF Load!ImportEntries
  <2> QED BY <2>3, <2>4, <2>5 DEF EntriesOf
<1>14. ASSUME NEW e \in EntriesOf(linked, d) PROVE \E i \in 1..n : e = <<d, i - 1>>
  <2>1. /\ e \in (DOMAIN linked.descriptors) \X (0..linked.size) /\ e[1] = d
        /\ \A place \in 0..e[2] : Load!At(linked, Load!Lookup(linked.descriptors[e[1]]) + place) # Load!Zero
    BY DEF EntriesOf, Load!ImportEntries
  <2>2. PICK m \in 0..linked.size : e = <<d, m>>
    BY <2>1
  <2>3. \A place \in 0..m : Load!At(linked, table + place) # Load!Zero
    BY <1>4, <1>5, <2>1, <2>2
  <2>4. m < n
    <3> SUFFICES ASSUME n <= m PROVE FALSE
      BY <1>2, <1>9
    <3>1. n \in 0..m /\ table + n = end
      BY <1>2, <1>5, <1>8, <1>9
    <3> QED BY <1>8, <2>3, <3>1
  <2>5. m + 1 \in 1..n /\ (m + 1) - 1 = m
    BY <1>2, <1>9, <2>4
  <2> QED BY <2>2, <2>5
<1> HIDE DEF thunk
<1>15. ASSUME NEW i \in 1..n PROVE list[i] = Load!EntryImport(linked, <<d, i - 1>>)
  BY <1>11, <1>12
<1>16. EntriesOf(linked, d) \subseteq Load!ImportEntries(linked)
  BY DEF EntriesOf
<1>17. list \in Seq(Places(linked)) /\ Len(list) = n
  <2>1. ASSUME NEW i \in 1..n PROVE thunk[table + i - 1] \in Places(linked)
    BY <1>12, <1>13, <1>16 DEF Places
  <2> QED BY <1>9, <1>11, <2>1
<1>18. ASSUME NEW i \in 1..n, NEW j \in 1..n, list[i].iat = list[j].iat PROVE i = j
  <2>1. PICK e, f : e = <<d, i - 1>> /\ f = <<d, j - 1>>
    OBVIOUS
  <2>2. Load!EntryImport(linked, e).iat = Load!EntryImport(linked, f).iat
    BY <1>15, <1>18, <2>1
  <2>3. e \in Load!ImportEntries(linked) /\ f \in Load!ImportEntries(linked)
    BY <1>13, <1>16, <2>1
  <2>4. e = f
    BY <1>2, <2>2, <2>3 DEF Apart
  <2> QED BY <2>1, <2>4
<1>19. \A e \in EntriesOf(linked, d) : \E i \in 1..n : list[i] = Load!EntryImport(linked, e)
  BY <1>14, <1>15
<1>20. \A i \in 1..n : \E e \in EntriesOf(linked, d) : list[i] = Load!EntryImport(linked, e)
  BY <1>13, <1>15
<1> QED BY <1>17, <1>18, <1>19, <1>20 DEF Lists

-----------------------------------------------------------------------------
(* One after the other.                                                     *)
Flat(s, f, i) == IF i = 1 THEN s[i] ELSE f[i - 1] \o s[i]

LEMMA FlatExists ==
    ASSUME NEW n \in Nat, NEW s
    PROVE  \E f : f = [i \in 1..n |-> Flat(s, f, i)]
<1> DEFINE T == {m \in Nat : \E f : \A i \in 1..m : f[i] = Flat(s, f, i)}
<1>1. 0 \in T
  OBVIOUS
<1>2. ASSUME NEW m \in Nat, m \in T PROVE m + 1 \in T
  <2>1. PICK f : \A i \in 1..m : f[i] = Flat(s, f, i)
    BY <1>2
  <2> DEFINE g == [i \in 1..(m + 1) |-> IF i = m + 1 THEN Flat(s, f, i) ELSE f[i]]
  <2>2. \A i \in 1..m : g[i] = f[i]
    OBVIOUS
  <2>3. g[m + 1] = Flat(s, f, m + 1)
    OBVIOUS
  <2> HIDE DEF g
  <2>4. ASSUME NEW i \in 1..(m + 1) PROVE g[i] = Flat(s, f, i)
    <3>1. CASE i = m + 1
      BY <2>3, <3>1
    <3>2. CASE i # m + 1
      <4>1. i \in 1..m
        BY <3>2
      <4> QED BY <2>1, <2>2, <4>1
    <3> QED BY <3>1, <3>2
  <2>5. ASSUME NEW i \in 1..(m + 1) PROVE Flat(s, f, i) = Flat(s, g, i)
    <3>1. i = 1 \/ i - 1 \in 1..m
      OBVIOUS
    <3> QED BY <2>2, <3>1 DEF Flat
  <2>6. \A i \in 1..(m + 1) : g[i] = Flat(s, g, i)
    BY <2>4, <2>5
  <2> QED BY <2>6
<1>3. n \in T
  <2> HIDE DEF T
  <2> QED BY <1>1, <1>2, SetInduction
<1>4. PICK f : \A i \in 1..n : f[i] = Flat(s, f, i)
  BY <1>3
<1> DEFINE g == [i \in 1..n |-> f[i]]
<1>5. \A i \in 1..n : Flat(s, g, i) = Flat(s, f, i)
  <2> SUFFICES ASSUME NEW i \in 1..n, i # 1 PROVE g[i - 1] = f[i - 1]
    BY DEF Flat
  <2>1. i - 1 \in 1..n
    OBVIOUS
  <2> QED BY <2>1
<1>6. g = [i \in 1..n |-> Flat(s, f, i)]
  BY <1>4
<1>7. g = [i \in 1..n |-> Flat(s, g, i)]
  <2> HIDE DEF g
  <2> QED BY <1>5, <1>6
<1> QED BY <1>7

FlatChain(s, n, f) ==
    /\ Load!FlattenSeq(s) = f[n] /\ f[1] = s[1]
    /\ \A i \in 2..n : f[i] = f[i - 1] \o s[i]

LEMMA FlatIsAChain ==
    ASSUME NEW n \in Nat, n # 0, NEW s, Len(s) = n
    PROVE  \E f : FlatChain(s, n, f)
<1> DEFINE f == CHOOSE g : g = [i \in 1..n |-> Flat(s, g, i)]
<1>1. Load!FlattenSeq(s) = f[n]
  <2>1. Len(s) # 0
    OBVIOUS
  <2> QED BY <2>1, Zenon DEF Load!FlattenSeq, Flat
<1>2. f = [i \in 1..n |-> Flat(s, f, i)]
  <2>1. n \in Nat
    OBVIOUS
  <2> QED BY <2>1, FlatExists
<1> HIDE DEF f
<1>3. \A i \in 1..n : f[i] = Flat(s, f, i)
  BY <1>2
<1>4. f[1] = s[1]
  BY <1>3 DEF Flat
<1>5. ASSUME NEW i \in 2..n PROVE f[i] = f[i - 1] \o s[i]
  <2>1. i \in 1..n /\ i # 1
    OBVIOUS
  <2> QED BY <1>3, <2>1 DEF Flat
<1> QED BY <1>1, <1>4, <1>5 DEF FlatChain

LEMMA ImportsAreListed ==
    ASSUME NEW linked, Load!ImportsLinked(linked), Load!ImportsParse(linked)
    PROVE  Lists(linked, Load!Imports(linked), Load!ImportEntries(linked))
<1>1. PICK D : D = [module : STRING, first : Nat, original : Nat]
  OBVIOUS
<1>2. linked.descriptors \in Seq(D) /\ Apart(linked)
  BY <1>1 DEF Load!ImportsLinked, Apart
<1>3. PICK n \in Nat : n = Len(linked.descriptors) /\ DOMAIN linked.descriptors = 1..n
  BY <1>2, LenProperties
<1>4. PICK s : s = [i \in 1..n |-> Load!ImportThunks(linked, linked.descriptors[i])]
  OBVIOUS
<1>5. Load!Imports(linked) = Load!FlattenSeq(s)
  BY <1>3, <1>4, Zenon DEF Load!Imports
<1>6. ASSUME NEW d \in 1..n PROVE Lists(linked, s[d], EntriesOf(linked, d))
  <2>1. s[d] = Load!ImportThunks(linked, linked.descriptors[d])
    BY <1>4
  <2> QED BY <1>3, <2>1, DescriptorIsListed
<1>7. s \in Seq(Seq(Places(linked))) /\ Len(s) = n
  <2>1. PICK X : X = Seq(Places(linked))
    OBVIOUS
  <2>2. \A d \in 1..n : s[d] \in X
    BY <1>6, <2>1 DEF Lists
  <2>3. s \in [1..n -> X]
    BY <1>4, <2>2
  <2> QED BY <1>3, <2>1, <2>3
<1>8. \A e \in Load!ImportEntries(linked) : e[1] \in 1..n
  BY <1>3 DEF Load!ImportEntries
<1>9. CASE n = 0
  <2>1. Load!FlattenSeq(s) = s
    BY <1>7, <1>9, Zenon DEF Load!FlattenSeq
  <2>2. Load!ImportEntries(linked) = {}
    BY <1>8, <1>9
  <2>3. s = <<>>
    BY <1>7, <1>9, EmptySeq
  <2>4. <<>> \in Seq(Places(linked)) /\ Len(<<>>) = 0
    BY EmptySeq
  <2> QED BY <1>5, <2>1, <2>2, <2>3, <2>4 DEF Lists
<1>10. CASE n # 0
  <2>0. PICK f : FlatChain(s, n, f)
    BY <1>3, <1>7, <1>10, FlatIsAChain
  <2>1. /\ Load!FlattenSeq(s) = f[n] /\ f[1] = s[1]
        /\ \A i \in 2..n : f[i] = f[i - 1] \o s[i]
    BY <2>0 DEF FlatChain
  <2> DEFINE T == {k \in Nat : k \in 1..n => Lists(linked, f[k], EntriesUpto(linked, k))}
  <2>2. 0 \in T
    OBVIOUS
  <2>3. ASSUME NEW k \in Nat, k \in T PROVE k + 1 \in T
    <3> SUFFICES ASSUME k + 1 \in 1..n PROVE Lists(linked, f[k + 1], EntriesUpto(linked, k + 1))
      OBVIOUS
    <3>1. PICK d : d = k + 1
      OBVIOUS
    <3>2. Lists(linked, s[d], EntriesOf(linked, d))
      BY <1>6, <3>1
    <3>3. CASE k = 0
      <4>1. EntriesUpto(linked, d) = EntriesOf(linked, d)
        BY <1>3, <1>8, <3>1, <3>3 DEF EntriesUpto, EntriesOf
      <4>2. f[d] = s[d]
        BY <2>1, <3>1, <3>3
      <4> QED BY <3>1, <3>2, <4>1, <4>2
    <3>4. CASE k # 0
      <4>1. k \in 1..n /\ d \in 2..n /\ d - 1 = k
        BY <1>3, <3>1, <3>4
      <4>2. Lists(linked, f[k], EntriesUpto(linked, k))
        BY <2>3, <4>1
      <4>3. f[d] = f[k] \o s[d]
        BY <2>1, <4>1
      <4>4. /\ EntriesUpto(linked, d) = EntriesUpto(linked, k) \cup EntriesOf(linked, d)
            /\ EntriesUpto(linked, k) \cap EntriesOf(linked, d) = {}
        <5>1. \A i \in 1..n : (i <= d <=> i <= k \/ i = d) /\ ~(i <= k /\ i = d)
          BY <1>3, <3>1
        <5> QED BY <1>8, <5>1 DEF EntriesUpto, EntriesOf
      <4>5. /\ EntriesUpto(linked, k) \subseteq Load!ImportEntries(linked)
            /\ EntriesOf(linked, d) \subseteq Load!ImportEntries(linked)
        BY DEF EntriesUpto, EntriesOf
      <4>6. Lists(linked, f[k] \o s[d], EntriesUpto(linked, k) \cup EntriesOf(linked, d))
        BY <1>2, <3>2, <4>2, <4>4, <4>5, ListsTogether
      <4> QED BY <3>1, <4>3, <4>4, <4>6
    <3> QED BY <3>3, <3>4
  <2>4. n \in T
    <3> HIDE DEF T
    <3> QED BY <1>3, <2>2, <2>3, SetInduction
  <2>5. Lists(linked, f[n], EntriesUpto(linked, n))
    BY <1>3, <1>10, <2>4
  <2>6. EntriesUpto(linked, n) = Load!ImportEntries(linked)
    <3>1. \A i \in 1..n : i <= n
      BY <1>3
    <3> QED BY <1>8, <3>1 DEF EntriesUpto
  <2> QED BY <1>5, <2>1, <2>5, <2>6
<1> QED BY <1>9, <1>10

-----------------------------------------------------------------------------
(* What holds of a process on its way.  Once its imports are bound, each of *)
(* their cells leads to its API; so do the export tables, once the modules  *)
(* have images, and whatever address has been given.  Two thunks for one    *)
(* API are both imported, or the host has put one somewhere.                *)
Wanted == Load!Range(image.wants.imports)
KeyOf(w) == Load!Key(w.module, w.name)
BoundIn(m, table, w) ==
    w.iat \in DOMAIN m /\ \E a : m[w.iat] = Load!Thunk(a) /\ Leads(table, a, KeyOf(w))
ImportedAt(m, key, a) == \E w \in Wanted : KeyOf(w) = key /\ m[w.iat][2] = a
ByHost(key) == \E g \in given : g.key = key /\ g.by = "host"
OnePerKey(m, table) ==
    \A a, b \in DOMAIN table : table[a] = table[b] =>
        a = b \/ ByHost(table[a]) \/ (ImportedAt(m, table[a], a) /\ ImportedAt(m, table[a], b))
GivenLead(table) == \A g \in given : Leads(table, g.address, g.key)

Bound ==
    /\ \A w \in Wanted : BoundIn(memory, thunks, w)
    /\ OnePerKey(memory, thunks) /\ GivenLead(thunks)
    /\ Fits(thunks) \/ (phase = "modules" /\ Overfull(thunks))
    /\ phase # "modules" => ModulesLead(exports, thunks, Len(ModuleList))

Afterwards == {"modules", "tls", "protect", "enter", "running"}
LoaderInv ==
    /\ image \in Images
    /\ phase \in {"map", "bind"} => given = {}
    /\ phase = "bind" => Load!ImportsParse(image)
    /\ phase \in Afterwards => Bound

LEMMA ThunkLeads ==
    ASSUME NEW a
    PROVE  Load!Thunk(a)[1] = "thunk" /\ Load!Thunk(a)[2] = a
BY DEF Load!Thunk

(* More thunks leave everything as it was.                                  *)
LEMMA BoundStill ==
    ASSUME NEW m, NEW old, NEW new, Retains(old, new), NEW w, BoundIn(m, old, w)
    PROVE  BoundIn(m, new, w)
<1>1. w.iat \in DOMAIN m
  BY DEF BoundIn
<1>3. PICK a : m[w.iat] = Load!Thunk(a) /\ Leads(old, a, KeyOf(w))
  BY DEF BoundIn
<1>2. Leads(new, a, KeyOf(w))
  BY <1>3, LeadsStill
<1> QED BY <1>1, <1>2, <1>3 DEF BoundIn

LEMMA OnePerKeyStill ==
    ASSUME NEW m, NEW old, NEW new, Grows(old, new), OnePerKey(m, old)
    PROVE  OnePerKey(m, new)
<1> SUFFICES ASSUME NEW a \in DOMAIN new, NEW b \in DOMAIN new, new[a] = new[b], a # b
             PROVE  \/ ByHost(new[a])
                    \/ ImportedAt(m, new[a], a) /\ ImportedAt(m, new[a], b)
  BY DEF OnePerKey
<1>1. a \in DOMAIN old /\ b \in DOMAIN old
  BY DEF Grows
<1>2. old[a] = new[a] /\ old[b] = new[b]
  BY <1>1 DEF Grows, Retains, Leads
<1> QED BY <1>1, <1>2 DEF OnePerKey

LEMMA ModulesLeadStill ==
    ASSUME NEW old, NEW new, Retains(old, new), NEW e, NEW k, ModulesLead(e, old, k)
    PROVE  ModulesLead(e, new, k)
BY ExportsLeadStill DEF ModulesLead

LEMMA GivenLeadStill ==
    ASSUME NEW old, NEW new, Retains(old, new), GivenLead(old)
    PROVE  GivenLead(new)
BY LeadsStill DEF GivenLead

LEMMA WantedAre ==
    ASSUME Load!LoaderAssumption, image \in Images
    PROVE  /\ Load!ImportsLinked(image) /\ Wanted = Places(image)
           /\ image.tls # Load!NoTls => \A w \in Wanted : w.iat # image.tls.index
<1>1. Load!ImportsLinked(image)
  BY DEF Load!LoaderAssumption
<1>2. Wanted = Places(image)
  BY <1>1 DEF Load!ImportsLinked, Wanted, Places
<1>3. image.tls # Load!NoTls => \A w \in Wanted : w.iat # image.tls.index
  BY <1>1, <1>2 DEF Load!ImportsLinked, Places
<1> QED BY <1>1, <1>2, <1>3

-----------------------------------------------------------------------------
(* The actions.                                                             *)
LEMMA MapImageStep ==
    ASSUME LoaderInv, Load!MapImage
    PROVE  LoaderInv'
<1>1. image' = image /\ given' = given /\ given = {}
  BY DEF LoaderInv, Load!MapImage
<1>2. \/ phase' = "failed"
      \/ phase' = "bind" /\ Load!ImportsParse(image)
  BY DEF Load!MapImage, Load!Fails, Load!Parses
<1>3. phase' \notin Afterwards
  BY <1>2 DEF Afterwards
<1>4. Load!ImportsParse(image) => Load!ImportsParse(image')
  BY <1>1
<1> QED BY <1>1, <1>2, <1>3, <1>4 DEF LoaderInv

(* What bind_imports makes of a list of imports.                            *)
BindsTo(list, m, table, old) ==
    /\ table = [a \in 0..(Len(list) - 1) |-> Load!Key(list[a + 1].module, list[a + 1].name)]
    /\ m = [rva \in DOMAIN old |->
                LET here == {i \in DOMAIN list : list[i].iat = rva}
                IN IF here = {} THEN old[rva] ELSE Load!Thunk(Load!Max(here) - 1)]

LEMMA BindingIs ==
    ASSUME NEW X, NEW list \in Seq(X), NEW old, NEW m, NEW table, BindsTo(list, m, table, old),
           \A i, j \in 1..Len(list) : list[i].iat = list[j].iat => i = j,
           \A i \in 1..Len(list) : list[i].iat \in DOMAIN old
    PROVE  /\ DOMAIN table = 0..(Len(list) - 1)
           /\ DOMAIN m = DOMAIN old
           /\ \A i \in 1..Len(list) : /\ m[list[i].iat] = Load!Thunk(i - 1)
                                      /\ Leads(table, i - 1, KeyOf(list[i]))
<1>1. PICK n \in Nat : n = Len(list) /\ DOMAIN list = 1..n
  BY LenProperties
<1>2. ASSUME NEW i \in 1..n PROVE m[list[i].iat] = Load!Thunk(i - 1)
  <2> DEFINE here == {j \in DOMAIN list : list[j].iat = list[i].iat}
  <2>1. here \subseteq 0..n /\ here # {} /\ \A j \in here : j = i
    BY <1>1
  <2>2. list[i].iat \in DOMAIN old
    BY <1>1
  <2>3. m[list[i].iat] = IF here = {} THEN old[list[i].iat] ELSE Load!Thunk(Load!Max(here) - 1)
    BY <2>2, Zenon DEF BindsTo
  <2>4. PICK s : s = here
    OBVIOUS
  <2> HIDE DEF here
  <2>5. Load!Max(s) \in s
    BY <1>1, <2>1, <2>4, Extremes
  <2>6. Load!Max(here) = i
    BY <2>1, <2>4, <2>5
  <2> QED BY <2>1, <2>3, <2>6
<1>3. DOMAIN table = 0..(n - 1)
  BY <1>1 DEF BindsTo
<1>4. ASSUME NEW i \in 1..n PROVE Leads(table, i - 1, KeyOf(list[i]))
  <2>1. PICK a \in 0..(n - 1) : a = i - 1 /\ a + 1 = i
    BY <1>1
  <2>2. table[a] = Load!Key(list[a + 1].module, list[a + 1].name)
    BY <1>1, <2>1 DEF BindsTo
  <2>3. table[a] = KeyOf(list[i])
    BY <2>1, <2>2 DEF KeyOf
  <2> QED BY <1>3, <2>1, <2>3 DEF Leads
<1>5. DOMAIN m = DOMAIN old
  BY DEF BindsTo
<1> QED BY <1>1, <1>2, <1>3, <1>4, <1>5

LEMMA BindImportsStep ==
    ASSUME Load!LoaderAssumption, LoaderInv, Load!BindImports
    PROVE  LoaderInv'
<1>1. image' = image /\ given' = {} /\ image \in Images /\ Load!ImportsParse(image)
  BY DEF LoaderInv, Load!BindImports
<1>2. CASE phase' = "failed"
  BY <1>1, <1>2 DEF LoaderInv, Afterwards
<1>3. CASE phase' # "failed"
  <2>1. PICK list : list = Load!Imports(image)
    OBVIOUS
  <2>2. /\ phase' = "modules" /\ \A i \in DOMAIN list : Load!Writable(list[i].iat)
        /\ BindsTo(list, memory', thunks', memory)
    BY <1>3, <2>1, Zenon DEF Load!BindImports, Load!Fails, BindsTo
  <2>3. PICK X : X = Places(image)
    OBVIOUS
  <2>4. Load!ImportsLinked(image) /\ Wanted = X
    BY <1>1, <2>3, WantedAre
  <2>5. Lists(image, list, Load!ImportEntries(image))
    BY <1>1, <2>1, <2>4, ImportsAreListed
  <2>6. PICK n \in Nat : n = Len(list) /\ DOMAIN list = 1..n
    BY <2>5, LenProperties DEF Lists
  <2>7. list \in Seq(X) /\ \A i, j \in 1..n : list[i].iat = list[j].iat => i = j
    BY <2>3, <2>5, <2>6 DEF Lists
  <2>8. \A i \in 1..n : list[i].iat \in DOMAIN memory
    BY <2>2, <2>6 DEF Load!Writable
  <2>9. PICK m, table : m = memory' /\ table = thunks'
    OBVIOUS
  <2>10. /\ DOMAIN table = 0..(n - 1) /\ DOMAIN m = DOMAIN memory
         /\ \A i \in 1..n : m[list[i].iat] = Load!Thunk(i - 1) /\ Leads(table, i - 1, KeyOf(list[i]))
    <3>1. BindsTo(list, m, table, memory)
      BY <2>2, <2>9
    <3> QED BY <2>6, <2>7, <2>8, <3>1, BindingIs
  <2>11. ASSUME NEW w \in Wanted PROVE BoundIn(m, table, w)
    <3>1. PICK e \in Load!ImportEntries(image) : w = Load!EntryImport(image, e)
      BY <2>3, <2>4 DEF Places
    <3>2. PICK i \in 1..n : list[i] = w
      BY <2>5, <2>6, <3>1 DEF Lists
    <3> QED BY <2>8, <2>10, <3>2 DEF BoundIn
  <2>12. ASSUME NEW a \in DOMAIN table PROVE ImportedAt(m, table[a], a)
    <3>1. PICK i \in 1..n : a = i - 1
      <4>1. a + 1 \in 1..n /\ a = (a + 1) - 1
        BY <2>6, <2>10
      <4> QED BY <4>1
    <3>2. list[i] \in Wanted
      BY <2>4, <2>6, <2>7, ElementOfSeq
    <3>3. m[list[i].iat] = Load!Thunk(a) /\ table[a] = KeyOf(list[i])
      BY <2>10, <3>1 DEF Leads
    <3>4. m[list[i].iat][2] = a
      BY <3>3, ThunkLeads
    <3> QED BY <3>2, <3>3, <3>4 DEF ImportedAt
  <2>13. OnePerKey(m, table)
    BY <2>12 DEF OnePerKey
  <2>14. Fits(table) \/ Overfull(table)
    <3>1. ThunkSlots \in Nat
      BY ModulesAre
    <3>2. CASE n <= ThunkSlots
      BY <2>6, <2>10, <3>1, <3>2 DEF Fits
    <3>3. CASE ThunkSlots < n
      BY <2>6, <2>10, <3>1, <3>3 DEF Overfull
    <3> QED BY <2>6, <3>1, <3>2, <3>3
  <2>15. Bound'
    <3>1. Wanted' = Wanted
      BY <1>1 DEF Wanted
    <3>2. \A w \in Wanted' : BoundIn(memory', thunks', w)
      BY <2>9, <2>11, <3>1
    <3>3. OnePerKey(memory, thunks)'
      <4> SUFFICES ASSUME NEW a \in DOMAIN table, NEW b \in DOMAIN table, table[a] = table[b]
                   PROVE  ImportedAt(memory, thunks[a], a)' /\ ImportedAt(memory, thunks[a], b)'
        BY <2>9 DEF OnePerKey
      <4>1. ImportedAt(m, table[a], a) /\ ImportedAt(m, table[a], b)
        BY <2>12
      <4> QED BY <2>9, <3>1, <4>1 DEF ImportedAt
    <3>4. GivenLead(thunks)'
      BY <1>1 DEF GivenLead
    <3>5. Fits(thunks') \/ Overfull(thunks')
      BY <2>9, <2>14
    <3> QED BY <2>2, <3>2, <3>3, <3>4, <3>5 DEF Bound, BoundIn, Leads, Fits, Overfull, KeyOf
  <2> QED BY <1>1, <2>2, <2>15 DEF LoaderInv
<1> QED BY <1>2, <1>3
(* The thunks are more than before, the cells of the imports are the same.  *)
LEMMA BoundFurther ==
    ASSUME Bound, image' = image, exports' = exports, given \subseteq given', phase # "modules",
           DOMAIN memory' = DOMAIN memory, \A w \in Wanted : memory'[w.iat] = memory[w.iat],
           Retains(thunks, thunks'), Fits(thunks'), GivenLead(thunks)',
           OnePerKey(memory, thunks)'
    PROVE  Bound'
<1>1. Wanted' = Wanted
  BY DEF Wanted
<1>2. PICK old, new, m : old = thunks /\ new = thunks' /\ m = memory
  OBVIOUS
<1>3. ASSUME NEW w \in Wanted PROVE BoundIn(memory', thunks', w)
  <2>1. BoundIn(m, old, w)
    BY <1>2 DEF Bound
  <2>2. BoundIn(m, new, w)
    BY <1>2, <2>1, BoundStill
  <2> QED BY <1>2, <2>2 DEF BoundIn
<1>4. \A w \in Wanted : BoundIn(memory, thunks, w)'
  BY <1>3 DEF BoundIn, Leads, KeyOf
<1>5. ModulesLead(exports', thunks', Len(ModuleList))
  <2>1. ModulesLead(exports, old, Len(ModuleList))
    BY <1>2 DEF Bound
  <2>2. ModulesLead(exports, new, Len(ModuleList))
    BY <1>2, <2>1, ModulesLeadStill
  <2> QED BY <1>2, <2>2
<1>6. ModulesLead(exports, thunks, Len(ModuleList))'
  BY <1>5 DEF ModulesLead, ExportsLead, Leads
<1>7. Fits(thunks)'
  BY DEF Fits
<1> QED BY <1>1, <1>4, <1>6, <1>7 DEF Bound

(* One thunk for an API stays one, if cells and gifts are what they were.   *)
LEMMA OnePerKeyFurther ==
    ASSUME NEW table, OnePerKey(memory, table), image' = image, given \subseteq given',
           \A w \in Wanted : memory'[w.iat] = memory[w.iat], thunks' = table
    PROVE  OnePerKey(memory, thunks)'
<1>1. Wanted' = Wanted
  BY DEF Wanted
<1> SUFFICES ASSUME NEW a \in DOMAIN table, NEW b \in DOMAIN table, table[a] = table[b], a # b
             PROVE  \/ ByHost(thunks[a])'
                    \/ ImportedAt(memory, thunks[a], a)' /\ ImportedAt(memory, thunks[a], b)'
  BY DEF OnePerKey
<1>2. \/ ByHost(table[a])
      \/ ImportedAt(memory, table[a], a) /\ ImportedAt(memory, table[a], b)
  BY DEF OnePerKey
<1>3. ASSUME NEW key, key = table[a], ByHost(key) PROVE ByHost(thunks[a])'
  BY <1>3 DEF ByHost
<1>4. ASSUME NEW x, ImportedAt(memory, table[a], x) PROVE ImportedAt(memory, thunks[a], x)'
  BY <1>1, <1>4 DEF ImportedAt
<1> QED BY <1>2, <1>3, <1>4

LEMMA ModulesStep ==
    ASSUME Load!LoaderAssumption, LoaderInv, Load!InitializeHostModules
    PROVE  LoaderInv'
<1>1. image' = image /\ given' = given /\ image \in Images /\ phase = "modules" /\ Bound
  BY DEF LoaderInv, Load!InitializeHostModules, Afterwards
<1>2. CASE phase' = "failed"
  BY <1>1, <1>2 DEF LoaderInv, Afterwards
<1>3. CASE phase' # "failed"
  <2>1. PICK last, made :
          /\ last \in BOOLEAN /\ made = Load!Modules(thunks, last)
          /\ ThunkSlots \notin DOMAIN made.thunks
          /\ thunks' = made.thunks /\ exports' = made.exports /\ phase' = "tls"
          /\ memory' = memory
    BY <1>3, Zenon DEF Load!InitializeHostModules, Load!Fails
  <2>2. PICK old : old = thunks
    OBVIOUS
  <2>3. ModulesSoFar(old, made, Len(ModuleList))
    <3>1. Overfull(old) \/ Fits(old)
      BY <1>1, <2>2 DEF Bound
    <3> QED BY <2>1, <2>2, <3>1, ModulesAreRight
  <2>4. PICK t, e :
          /\ made = [thunks |-> t, exports |-> e]
          /\ Overfull(t) \/ (Fits(t) /\ Grows(old, t) /\ ModulesLead(e, t, Len(ModuleList)))
    BY <2>3 DEF ModulesSoFar
  <2>5. thunks' = t /\ exports' = e /\ ~Overfull(t)
    BY <2>1, <2>4 DEF Overfull
  <2>6. Fits(t) /\ Grows(old, t) /\ ModulesLead(e, t, Len(ModuleList)) /\ Retains(old, t)
    BY <2>4, <2>5 DEF Grows
  <2>7. PICK m : m = memory
    OBVIOUS
  <2>8. OnePerKey(m, t) /\ GivenLead(t) /\ \A w \in Wanted : BoundIn(m, t, w)
    <3>1. OnePerKey(m, old) /\ GivenLead(old) /\ \A w \in Wanted : BoundIn(m, old, w)
      BY <1>1, <2>2, <2>7 DEF Bound
    <3> QED BY <2>6, <3>1, OnePerKeyStill, GivenLeadStill, BoundStill
  <2>9. Wanted' = Wanted
    BY <1>1 DEF Wanted
  <2>10. (\A w \in Wanted : BoundIn(memory, thunks, w))'
    BY <2>1, <2>5, <2>7, <2>8, <2>9 DEF BoundIn, Leads, KeyOf
  <2>11. OnePerKey(memory, thunks)'
    BY <1>1, <2>1, <2>5, <2>7, <2>8, OnePerKeyFurther
  <2>12. GivenLead(thunks)'
    BY <1>1, <2>5, <2>8 DEF GivenLead, Leads
  <2>13. ModulesLead(exports, thunks, Len(ModuleList))'
    BY <2>5, <2>6 DEF ModulesLead, ExportsLead, Leads
  <2>14. Fits(thunks)'
    BY <2>5, <2>6 DEF Fits
  <2>15. Bound'
    BY <2>10, <2>11, <2>12, <2>13, <2>14 DEF Bound
  <2> QED BY <1>1, <2>1, <2>15 DEF LoaderInv
<1> QED BY <1>2, <1>3

(* Nothing of it changes.                                                   *)
LEMMA BoundStays ==
    ASSUME LoaderInv, phase \in Afterwards, phase # "modules", phase' \in Afterwards,
           image' = image, exports' = exports, given' = given, thunks' = thunks,
           DOMAIN memory' = DOMAIN memory,
           \A w \in Wanted : memory'[w.iat] = memory[w.iat]
    PROVE  LoaderInv'
<1>1. image \in Images /\ Bound
  BY DEF LoaderInv
<1>2. PICK table : table = thunks
  OBVIOUS
<1>3. OnePerKey(memory, table) /\ GivenLead(table) /\ Fits(table)
  BY <1>1, <1>2 DEF Bound
<1>4. OnePerKey(memory, thunks)'
  BY <1>2, <1>3, OnePerKeyFurther
<1>5. GivenLead(thunks)'
  BY <1>2, <1>3 DEF GivenLead, Leads
<1>6. Retains(thunks, thunks') /\ Fits(thunks')
  BY <1>2, <1>3, GrowsNot DEF Grows, Fits
<1>7. Bound'
  BY <1>1, <1>4, <1>5, <1>6, BoundFurther
<1> QED BY <1>1, <1>7 DEF LoaderInv, Afterwards

LEMMA TlsStep ==
    ASSUME Load!LoaderAssumption, LoaderInv, Load!InitializeStaticTls
    PROVE  LoaderInv'
<1>1. image' = image /\ given' = given /\ image \in Images /\ phase = "tls"
  BY DEF LoaderInv, Load!InitializeStaticTls
<1>2. CASE phase' = "failed"
  BY <1>1, <1>2 DEF LoaderInv, Afterwards
<1>3. CASE phase' # "failed"
  <2>1. /\ phase' = "protect" /\ exports' = exports /\ thunks' = thunks
        /\ \/ memory' = memory
           \/ /\ image.tls # Load!NoTls
              /\ memory' = [memory EXCEPT ![image.tls.index] = Load!Word(0)]
    BY <1>3, Zenon DEF Load!InitializeStaticTls, Load!Fails
  <2>2. ASSUME NEW w \in Wanted PROVE memory'[w.iat] = memory[w.iat]
    <3>1. CASE memory' = memory
      BY <3>1
    <3>2. CASE /\ image.tls # Load!NoTls
               /\ memory' = [memory EXCEPT ![image.tls.index] = Load!Word(0)]
      <4>1. w.iat # image.tls.index
        BY <1>1, <3>2, WantedAre
      <4>2. w.iat \in DOMAIN memory
        BY <1>1 DEF LoaderInv, Afterwards, Bound, BoundIn
      <4> QED BY <3>2, <4>1, <4>2
    <3> QED BY <2>1, <3>1, <3>2
  <2>3. phase \in Afterwards /\ phase # "modules" /\ phase' \in Afterwards
    BY <1>1, <2>1 DEF Afterwards
  <2>4. DOMAIN memory' = DOMAIN memory
    BY <2>1
  <2> QED BY <1>1, <2>1, <2>2, <2>3, <2>4, BoundStays
<1> QED BY <1>2, <1>3

LEMMA QuietStep ==
    ASSUME LoaderInv, Load!ProtectImage \/ Load!Enter \/ Load!AdvanceTlsCallbacks
    PROVE  LoaderInv'
<1>1. /\ image' = image /\ given' = given /\ memory' = memory /\ thunks' = thunks
      /\ exports' = exports
  BY DEF Load!ProtectImage, Load!Enter, Load!AdvanceTlsCallbacks, Load!Fails
<1>2. CASE phase' = "failed"
  BY <1>1, <1>2 DEF LoaderInv, Afterwards
<1>3. CASE phase' # "failed"
  <2>1. phase \in {"protect", "enter", "running"} /\ phase' \in {"enter", "running"}
    BY <1>3 DEF Load!ProtectImage, Load!Enter, Load!AdvanceTlsCallbacks, Load!Fails
  <2>2. phase \in Afterwards /\ phase # "modules" /\ phase' \in Afterwards
    BY <2>1 DEF Afterwards
  <2> QED BY <1>1, <2>2, BoundStays
<1> QED BY <1>2, <1>3

LEMMA GetProcAddressStep ==
    ASSUME Load!LoaderAssumption, LoaderInv, NEW module, NEW name, Load!GetProcAddress(module, name)
    PROVE  LoaderInv'
<1> DEFINE key == Load!Key(module, name)
<1>1. /\ image' = image /\ memory' = memory /\ exports' = exports
      /\ phase = "running" /\ image \in Images /\ Bound
  BY DEF LoaderInv, Load!GetProcAddress, Afterwards
<1>2. CASE phase' = "failed"
  BY <1>1, <1>2 DEF LoaderInv, Afterwards
<1>3. CASE phase' = phase /\ thunks' = thunks /\ given' = given
  <2>1. phase \in Afterwards /\ phase # "modules"
    BY <1>1 DEF Afterwards
  <2> QED BY <1>1, <1>3, <2>1, BoundStays
<1>4. ASSUME NEW last \in BOOLEAN, NEW address, address = Load!ThunkFor(thunks, key, last),
             address # ThunkSlots, thunks' = Load!WithThunk(thunks, address, key),
             given' = given \cup {[address |-> address, key |-> key, by |-> "guest"]},
             phase' = phase
      PROVE  LoaderInv'
  <2>1. PICK old, new, k, m : old = thunks /\ new = thunks' /\ k = key /\ m = memory
    OBVIOUS
  <2> HIDE DEF key
  <2>2. Fits(old) /\ OnePerKey(m, old) /\ GivenLead(old)
    BY <1>1, <2>1 DEF Bound
  <2>3. Thunked(old, new, address, k)
    <3>1. ThunkSlots \in Nat
      BY ModulesAre
    <3> QED BY <1>4, <2>1, <2>2, <3>1, ThunkIs
  <2>4. Grows(old, new) /\ Leads(new, address, k) /\ Fits(new) /\ Retains(old, new)
    BY <1>4, <2>3 DEF Thunked, Grows
  <2>5. OnePerKey(m, new) /\ GivenLead(new)
    BY <2>2, <2>4, OnePerKeyStill, GivenLeadStill
  <2>6. OnePerKey(memory, thunks)'
    BY <1>1, <1>4, <2>1, <2>5, OnePerKeyFurther
  <2>7. GivenLead(thunks)'
    <3> SUFFICES ASSUME NEW g \in given' PROVE Leads(new, g.address, g.key)
      BY <2>1 DEF GivenLead, Leads
    <3>1. CASE g \in given
      BY <2>5, <3>1 DEF GivenLead
    <3>2. CASE g = [address |-> address, key |-> key, by |-> "guest"]
      BY <2>1, <2>4, <3>2
    <3> QED BY <1>4, <3>1, <3>2
  <2>8. Bound'
    BY <1>1, <1>4, <2>1, <2>4, <2>6, <2>7, BoundFurther
  <2> QED BY <1>1, <1>4, <2>8 DEF LoaderInv
<1> QED BY <1>2, <1>3, <1>4, Zenon DEF Load!GetProcAddress

LEMMA RegisterStep ==
    ASSUME LoaderInv, NEW address, NEW key, Load!RegisterImportThunk(address, key)
    PROVE  LoaderInv'
<1>1. /\ image' = image /\ memory' = memory /\ exports' = exports /\ phase' = phase
      /\ phase = "running" /\ image \in Images /\ Bound
      /\ address \in (0..(ThunkSlots - 1)) \ DOMAIN thunks
      /\ thunks' = Load!WithThunk(thunks, address, key)
      /\ given' = given \cup {[address |-> address, key |-> key, by |-> "host"]}
  BY DEF LoaderInv, Load!RegisterImportThunk, Afterwards
<1>2. PICK old, new : old = thunks /\ new = thunks'
  OBVIOUS
<1>3. Fits(old) /\ OnePerKey(memory, old) /\ GivenLead(old)
  BY <1>1, <1>2 DEF Bound
<1>4. /\ DOMAIN new = DOMAIN old \cup {address} /\ address \notin DOMAIN old
      /\ new[address] = key /\ \A a \in DOMAIN old : new[a] = old[a]
  BY <1>1, <1>2 DEF Load!WithThunk
<1>5. Retains(old, new) /\ Fits(new) /\ Leads(new, address, key)
  BY <1>1, <1>3, <1>4 DEF Retains, Fits, Leads
<1>6. GivenLead(thunks)'
  <2> SUFFICES ASSUME NEW g \in given' PROVE Leads(new, g.address, g.key)
    BY <1>2 DEF GivenLead, Leads
  <2>1. CASE g \in given
    BY <1>3, <1>5, <2>1, GivenLeadStill DEF GivenLead
  <2>2. CASE g = [address |-> address, key |-> key, by |-> "host"]
    BY <1>5, <2>2
  <2> QED BY <1>1, <2>1, <2>2
<1>7. OnePerKey(memory, thunks)'
  <2>1. Wanted' = Wanted
    BY <1>1 DEF Wanted
  <2> SUFFICES ASSUME NEW a \in DOMAIN new, NEW b \in DOMAIN new, new[a] = new[b], a # b
               PROVE  \/ ByHost(thunks[a])'
                      \/ ImportedAt(memory, thunks[a], a)' /\ ImportedAt(memory, thunks[a], b)'
    BY <1>2 DEF OnePerKey
  <2>2. PICK k : k = new[a] /\ k = thunks'[a]
    BY <1>2
  <2>3. CASE a = address \/ b = address
    <3>1. k = key
      BY <1>4, <2>2, <2>3
    <3>2. [address |-> address, key |-> key, by |-> "host"] \in given'
      BY <1>1
    <3> QED BY <2>2, <3>1, <3>2 DEF ByHost
  <2>4. CASE a \in DOMAIN old /\ b \in DOMAIN old
    <3>1. old[a] = k /\ old[b] = k
      BY <1>4, <2>2, <2>4
    <3>2. ByHost(k) \/ (ImportedAt(memory, k, a) /\ ImportedAt(memory, k, b))
      BY <1>3, <2>4, <3>1 DEF OnePerKey
    <3>3. CASE ByHost(k)
      BY <1>1, <2>2, <3>3 DEF ByHost
    <3>4. CASE ImportedAt(memory, k, a) /\ ImportedAt(memory, k, b)
      BY <1>1, <2>1, <2>2, <3>4 DEF ImportedAt
    <3> QED BY <3>2, <3>3, <3>4
  <2> QED BY <1>4, <2>3, <2>4
<1>8. Bound'
  BY <1>1, <1>2, <1>5, <1>6, <1>7, BoundFurther
<1> QED BY <1>1, <1>8 DEF LoaderInv
-----------------------------------------------------------------------------
LEMMA LoaderStarts ==
    Load!Init => LoaderInv
BY DEF Load!Init, LoaderInv, Afterwards

LEMMA LoaderStep ==
    Load!LoaderAssumption /\ LoaderInv /\ [Load!Next]_(Load!vars) => LoaderInv'
<1> SUFFICES ASSUME Load!LoaderAssumption, LoaderInv, [Load!Next]_(Load!vars) PROVE LoaderInv'
  OBVIOUS
<1>1. CASE UNCHANGED Load!vars
  <2>1. /\ image' = image /\ phase' = phase /\ memory' = memory /\ thunks' = thunks
        /\ exports' = exports /\ given' = given
    BY <1>1 DEF Load!vars
  <2>2. CASE phase \in Afterwards /\ phase # "modules"
    BY <2>1, <2>2, BoundStays
  <2>3. CASE phase = "modules"
    <3>1. PICK table : table = thunks
      OBVIOUS
    <3>2. image \in Images /\ Bound
      BY <2>3 DEF LoaderInv, Afterwards
    <3>3. OnePerKey(memory, table)
      BY <3>1, <3>2 DEF Bound
    <3>4. OnePerKey(memory, thunks)'
      BY <2>1, <3>1, <3>3, OnePerKeyFurther
    <3>5. GivenLead(thunks)'
      BY <2>1, <3>2 DEF Bound, GivenLead, Leads
    <3>6. (\A w \in Wanted : BoundIn(memory, thunks, w))'
      BY <2>1, <3>2 DEF Bound, BoundIn, Leads, KeyOf, Wanted
    <3>7. (Fits(thunks) \/ (phase = "modules" /\ Overfull(thunks)))'
      BY <2>1, <3>2 DEF Bound, Fits, Overfull
    <3>8. Bound'
      BY <2>1, <2>3, <3>4, <3>5, <3>6, <3>7 DEF Bound
    <3> QED BY <2>1, <2>3, <3>2, <3>8 DEF LoaderInv
  <2>4. CASE phase \notin Afterwards
    <3>1. Load!ImportsParse(image) => Load!ImportsParse(image')
      BY <2>1
    <3> QED BY <2>1, <2>4, <3>1 DEF LoaderInv
  <2> QED BY <2>2, <2>3, <2>4
<1>2. ASSUME NEW module, NEW name, Load!GetProcAddress(module, name) PROVE LoaderInv'
  BY <1>2, GetProcAddressStep
<1>3. ASSUME NEW address, NEW key, Load!RegisterImportThunk(address, key) PROVE LoaderInv'
  BY <1>3, RegisterStep
<1>4. CASE Load!MapImage
  BY <1>4, MapImageStep
<1>5. CASE Load!BindImports
  BY <1>5, BindImportsStep
<1>6. CASE Load!InitializeHostModules
  BY <1>6, ModulesStep
<1>7. CASE Load!InitializeStaticTls
  BY <1>7, TlsStep
<1>8. CASE Load!ProtectImage \/ Load!Enter \/ Load!AdvanceTlsCallbacks
  BY <1>8, QuietStep
<1> QED BY <1>1, <1>2, <1>3, <1>4, <1>5, <1>6, <1>7, <1>8 DEF Load!Next

(* So every address a guest may have leads to its API.                      *)
LEMMA AddressesLead ==
    ASSUME ModuleList \in Seq(STRING), Bound, phase # "modules",
           NEW key \in Load!Keys, NEW a \in Load!Addresses(key)
    PROVE  Leads(thunks, a, key)
<1>1. key = Load!Key(key.module, key.name)
  BY DEF Load!Keys, Load!Key
<1>2. CASE a \in Load!Imported(key)
  <2>1. PICK w \in Wanted : KeyOf(w) = key /\ a = memory[w.iat][2]
    BY <1>2 DEF Load!Imported, Wanted, KeyOf
  <2>2. PICK b : memory[w.iat] = Load!Thunk(b) /\ Leads(thunks, b, KeyOf(w))
    BY DEF Bound, BoundIn
  <2> QED BY <2>1, <2>2, ThunkLeads
<1>3. CASE a \in Load!Exported(key)
  <2>1. PICK m \in DOMAIN ModuleList : /\ ModuleList[m] = key.module
                                       /\ \E n \in Load!Range(exports[m].names) :
                                             n.name = key.name /\ a = exports[m].functions[n.index]
    BY <1>3, Zenon DEF Load!Exported
  <2>2. PICK n \in Load!Range(exports[m].names) :
          n.name = key.name /\ a = exports[m].functions[n.index]
    BY <2>1
  <2>3. m \in 1..Len(ModuleList)
    BY LenProperties
  <2>4. ExportsLead(ModuleList[m], thunks, exports[m])
    BY <2>3 DEF Bound, ModulesLead
  <2>5. Leads(thunks, a, Load!Key(ModuleList[m], n.name))
    BY <2>2, <2>4 DEF ExportsLead
  <2> QED BY <1>1, <2>1, <2>2, <2>5
<1>4. CASE a \in Load!Given(key)
  BY <1>4 DEF Load!Given, Bound, GivenLead
<1> QED BY <1>2, <1>3, <1>4 DEF Load!Addresses

LEMMA ImportedAgain ==
    ASSUME NEW key, NEW a, ImportedAt(memory, key, a)
    PROVE  a \in Load!Imported(key)
BY DEF ImportedAt, Load!Imported, Wanted, KeyOf

LEMMA LoaderInvTells ==
    Load!LoaderAssumption /\ LoaderInv =>
        Load!AddressesLeadToTheirApi /\ Load!OneAddressPerApi
<1> SUFFICES ASSUME Load!LoaderAssumption, LoaderInv, Load!Loaded
             PROVE  Load!AddressesLeadToTheirApi /\ Load!OneAddressPerApi
  BY DEF Load!AddressesLeadToTheirApi, Load!OneAddressPerApi
<1>1. Bound /\ phase # "modules" /\ ModuleList \in Seq(STRING) /\ ThunkSlots \in Nat
  BY ModulesAre DEF LoaderInv, Afterwards, Load!Loaded
<1>2. ASSUME NEW key \in Load!Keys, NEW a \in Load!Addresses(key)
      PROVE  a \in DOMAIN thunks /\ thunks[a] = key
  BY <1>1, <1>2, AddressesLead DEF Leads
<1>3. Load!AddressesLeadToTheirApi
  <2>1. ASSUME NEW w \in Load!Range(image.wants.imports) PROVE memory[w.iat][1] = "thunk"
    <3>1. PICK a : memory[w.iat] = Load!Thunk(a)
      BY <1>1 DEF Bound, BoundIn, Wanted
    <3> QED BY <3>1, ThunkLeads
  <2>2. ASSUME NEW key \in Load!Keys, NEW a \in Load!Addresses(key)
        PROVE  a \in DOMAIN thunks /\ Load!Handler(thunks[a]) = Load!Handler(key)
    BY <1>2
  <2> QED BY <2>1, <2>2 DEF Load!AddressesLeadToTheirApi
<1>4. ASSUME NEW key \in Load!Keys, ~(Load!Cardinality(Load!Addresses(key)) <= 1),
             ~(Load!Cardinality(Load!Imported(key)) > 1)
      PROVE  \E g \in given : g.key = key /\ g.by = "host"
  <2>1. PICK a \in Load!Addresses(key), b \in Load!Addresses(key) : a # b
    <3> SUFFICES ASSUME \A a, b \in Load!Addresses(key) : a = b PROVE FALSE
      OBVIOUS
    <3>1. Load!Addresses(key) = {} \/ \E a : Load!Addresses(key) = {a}
      OBVIOUS
    <3>2. Cardinality(Load!Addresses(key)) \in {0, 1}
      BY <3>1, FS_EmptySet, FS_Singleton
    <3> QED BY <1>4, <3>2, LoadCounts
  <2>2. a \in DOMAIN thunks /\ thunks[a] = key /\ b \in DOMAIN thunks /\ thunks[b] = key
    BY <1>2, <2>1
  <2>3. ByHost(key) \/ (ImportedAt(memory, key, a) /\ ImportedAt(memory, key, b))
    BY <1>1, <2>1, <2>2 DEF Bound, OnePerKey
  <2>4. ~(ImportedAt(memory, key, a) /\ ImportedAt(memory, key, b))
    <3> SUFFICES ASSUME ImportedAt(memory, key, a), ImportedAt(memory, key, b) PROVE FALSE
      OBVIOUS
    <3>1. PICK S : S = Load!Imported(key)
      OBVIOUS
    <3>2. {a, b} \subseteq S
      BY <3>1, ImportedAgain
    <3>3. S \subseteq 0..(ThunkSlots - 1)
      <4>1. ASSUME NEW x \in S PROVE x \in DOMAIN thunks
        BY <1>2, <3>1 DEF Load!Addresses
      <4> QED BY <1>1, <4>1 DEF Bound, Fits
    <3>4. IsFiniteSet(S) /\ Cardinality(S) \in Nat
      <4>1. IsFiniteSet(0..(ThunkSlots - 1))
        BY <1>1, FS_Interval
      <4> QED BY <3>3, <4>1, FS_Subset, FS_CardinalityType
    <3>5. Cardinality({a, b}) = 2
      <4>1. PICK B : B = {b}
        OBVIOUS
      <4>2. Cardinality(B) = 1 /\ IsFiniteSet(B) /\ a \notin B
        BY <2>1, <4>1, FS_Singleton
      <4>3. Cardinality(B \cup {a}) = 1 + 1
        BY <4>2, FS_AddElement
      <4>4. B \cup {a} = {a, b}
        BY <4>1
      <4> QED BY <4>3, <4>4
    <3>6. 2 <= Cardinality(S)
      BY <3>2, <3>4, <3>5, FS_Subset
    <3> QED BY <1>4, <3>1, <3>4, <3>6, LoadCounts
  <2> QED BY <2>3, <2>4 DEF ByHost
<1>5. Load!OneAddressPerApi
  BY <1>4 DEF Load!OneAddressPerApi
<1> QED BY <1>3, <1>5

LoadingInv == focus = "loader" => LoaderInv

(* Whatever an image imports and whichever APIs the host has: an address    *)
(* the guest gets by import table, export table or GetProcAddress calls     *)
(* that API, and an API has one address unless the image imports it twice   *)
(* or the host has put it somewhere (bind_imports, next_free_host_thunk,    *)
(* initialize_host_module_image, resolve_host_api).                         *)
THEOREM AddressesAlwaysLead ==
    Load!LoaderAssumption => (ProcessSpec => []AddressesLeadToTheirApi)
<1> SUFFICES ASSUME Load!LoaderAssumption PROVE ProcessSpec => []AddressesLeadToTheirApi
  OBVIOUS
<1>1. LoaderInv /\ [Load!Next]_(Load!vars) => LoaderInv'
  BY LoaderStep
<1>2. LoaderInv => Load!AddressesLeadToTheirApi /\ Load!OneAddressPerApi
  BY LoaderInvTells
<1>3. ProcessInit => LoadingInv
  BY LoaderStarts DEF ProcessInit, Focused, LoadingInv
<1>4. LoadingInv /\ [ProcessNext]_processVars => LoadingInv'
  <2> SUFFICES ASSUME LoadingInv, [ProcessNext]_processVars, focus' = "loader" PROVE LoaderInv'
    BY DEF LoadingInv
  <2>1. focus = "loader" /\ [Load!Next]_(Load!vars)
    BY DEF ProcessNext, Focused, processVars, loaderVars, Load!vars
  <2> QED BY <1>1, <2>1 DEF LoadingInv
<1>5. LoadingInv => AddressesLeadToTheirApi
  BY <1>2 DEF LoadingInv, AddressesLeadToTheirApi
<1> QED BY <1>3, <1>4, <1>5, PTL DEF ProcessSpec
=============================================================================
