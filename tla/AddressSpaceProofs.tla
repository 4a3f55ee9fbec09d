------------------------ MODULE AddressSpaceProofs --------------------------
(***************************************************************************)
(* Proofs about AddressSpace: pages have one owner and blocks keep apart,   *)
(* for every layout that leaves the regions room, every number of heaps,    *)
(* blocks, regions and threads, and every size.                             *)
(***************************************************************************)
EXTENDS AddressSpace, FiniteSetTheorems, WellFoundedInduction, TLAPS

-----------------------------------------------------------------------------
(* Induction.  A property of numbers is the set T of those that have it.    *)
LEMMA Least ==
    ASSUME NEW T, T \subseteq Nat, T # {}
    PROVE  \E n \in T : \A m \in T : n <= m
<1>1. PICK n \in T : \A m \in T : <<m, n>> \notin OpToRel(<, Nat)
  BY NatLessThanWellFounded, WFMin
<1>2. \A m \in T : ~(m < n)
  BY <1>1 DEF OpToRel
<1> QED BY <1>2

LEMMA SetInduction ==
    ASSUME NEW T, 0 \in T, \A n \in Nat : n \in T => n + 1 \in T
    PROVE  Nat \subseteq T
<1> SUFFICES ASSUME Nat \ T # {} PROVE FALSE
  OBVIOUS
<1>1. PICK n \in Nat \ T : \A m \in Nat \ T : n <= m
  BY Least
<1>2. n # 0 /\ n - 1 \in Nat /\ n - 1 \in T
  BY <1>1
<1> QED BY <1>1, <1>2

(* What MapThenSumSet computes: each step of its recursion takes the element*)
(* that CHOOSE picks first, but the sum is the same in any order.           *)
First(s) == CHOOSE x \in s : TRUE
Adds(g, s) == IF s = {} THEN 0 ELSE First(s).size + g[s \ {First(s)}]
SumsUp(g, S) == \A s \in SUBSET S : g[s] = Adds(g, s)

LEMMA SmallerSets ==
    ASSUME NEW S, IsFiniteSet(S), NEW s \in SUBSET S
    PROVE  /\ Cardinality(s) \in Nat /\ (Cardinality(s) = 0 <=> s = {})
           /\ Cardinality(s) <= Cardinality(S)
           /\ \A x \in s : s \ {x} \in SUBSET S /\ Cardinality(s \ {x}) = Cardinality(s) - 1
<1>1. IsFiniteSet(s) /\ Cardinality(s) <= Cardinality(S)
  BY FS_Subset
<1>2. Cardinality(s) \in Nat /\ (Cardinality(s) = 0 <=> s = {})
  BY <1>1, FS_EmptySet, FS_CardinalityType
<1>3. \A x \in s : Cardinality(s \ {x}) = Cardinality(s) - 1
  BY <1>1, FS_RemoveElement
<1> QED BY <1>1, <1>2, <1>3

LEMMA FirstIsIn ==
    ASSUME NEW s, s # {}
    PROVE  First(s) \in s
BY DEF First

LEMMA SumExists ==
    ASSUME NEW S, IsFiniteSet(S)
    PROVE  \E g : g = [s \in SUBSET S |-> Adds(g, s)]
<1> DEFINE T == {n \in Nat : \E g : \A s \in SUBSET S : Cardinality(s) <= n => g[s] = Adds(g, s)}
<1>1. 0 \in T
  <2> DEFINE g == [s \in SUBSET S |-> 0]
  <2>1. \A s \in SUBSET S : Cardinality(s) <= 0 => s = {}
    BY SmallerSets
  <2>2. \A s \in SUBSET S : Cardinality(s) <= 0 => g[s] = Adds(g, s)
    BY <2>1 DEF Adds
  <2> HIDE DEF g
  <2> QED BY <2>2
<1>2. ASSUME NEW n \in Nat, n \in T
      PROVE  n + 1 \in T
  <2>1. PICK g : \A s \in SUBSET S : Cardinality(s) <= n => g[s] = Adds(g, s)
    BY <1>2
  <2> DEFINE h == [s \in SUBSET S |-> Adds(g, s)]
  <2>2. ASSUME NEW s \in SUBSET S, Cardinality(s) <= n + 1
        PROVE  h[s] = Adds(h, s)
    <3>1. CASE s = {}
      BY <3>1 DEF Adds
    <3>2. CASE s # {}
      <4> DEFINE t == s \ {First(s)}
      <4>1. t \in SUBSET S /\ Cardinality(t) <= n
        BY <2>2, <3>2, FirstIsIn, SmallerSets
      <4>2. h[t] = g[t]
        BY <4>1, <2>1
      <4> QED BY <3>2, <4>2 DEF Adds
    <3> QED BY <3>1, <3>2
  <2> HIDE DEF h
  <2> QED BY <2>2
<1>3. Nat \subseteq T
  <2> HIDE DEF T
  <2> QED BY <1>1, <1>2, SetInduction
<1>4. PICK g : \A s \in SUBSET S : Cardinality(s) <= Cardinality(S) => g[s] = Adds(g, s)
  <2>1. Cardinality(S) \in T
    BY <1>3, FS_CardinalityType
  <2> QED BY <2>1
<1>5. \A s \in SUBSET S : g[s] = Adds(g, s)
  BY <1>4, SmallerSets
<1> DEFINE h == [s \in SUBSET S |-> g[s]]
<1>6. \A s \in SUBSET S : Adds(h, s) = Adds(g, s)
  BY FirstIsIn DEF Adds
<1>7. h = [s \in SUBSET S |-> Adds(h, s)]
  BY <1>5, <1>6
<1> QED BY <1>7

LEMMA SumsAgree ==
    ASSUME NEW S, IsFiniteSet(S), NEW g, NEW h, SumsUp(g, S), SumsUp(h, S)
    PROVE  \A s \in SUBSET S : g[s] = h[s]
<1> DEFINE T == {n \in Nat : \A s \in SUBSET S : Cardinality(s) <= n => g[s] = h[s]}
<1>1. 0 \in T
  <2>1. \A s \in SUBSET S : Cardinality(s) <= 0 => s = {}
    BY SmallerSets
  <2> QED BY <2>1 DEF SumsUp, Adds
<1>2. ASSUME NEW n \in Nat, n \in T
      PROVE  n + 1 \in T
  <2>1. ASSUME NEW s \in SUBSET S, Cardinality(s) <= n + 1
        PROVE  g[s] = h[s]
    <3>1. CASE s = {}
      BY <3>1 DEF SumsUp, Adds
    <3>2. CASE s # {}
      <4>1. s \ {First(s)} \in SUBSET S /\ Cardinality(s \ {First(s)}) <= n
        BY <2>1, <3>2, FirstIsIn, SmallerSets
      <4>2. g[s \ {First(s)}] = h[s \ {First(s)}]
        BY <4>1, <1>2
      <4> QED BY <3>2, <4>2 DEF SumsUp, Adds
    <3> QED BY <3>1, <3>2
  <2> QED BY <2>1
<1>3. Nat \subseteq T
  <2> HIDE DEF T
  <2> QED BY <1>1, <1>2, SetInduction
<1>4. \A s \in SUBSET S : Cardinality(s) \in T
  BY <1>3, SmallerSets
<1> QED BY <1>4, SmallerSets

LEMMA TotalIsSum ==
    ASSUME NEW S, IsFiniteSet(S)
    PROVE  \E g : SumsUp(g, S) /\ \A s \in SUBSET S : TotalSize(s) = g[s]
<1> DEFINE Sum(s) == CHOOSE g : g = [t \in SUBSET s |-> Adds(g, t)]
<1>1. ASSUME NEW s \in SUBSET S
      PROVE  TotalSize(s) = Sum(s)[s] /\ SumsUp(Sum(s), s)
  <2>1. TotalSize(s) = Sum(s)[s]
    BY DEF TotalSize, MapThenSumSet, MapThenFoldSet, Adds, First
  <2>2. IsFiniteSet(s)
    BY FS_Subset
  <2>3. Sum(s) = [t \in SUBSET s |-> Adds(Sum(s), t)]
    BY <2>2, SumExists
  <2>4. SumsUp(Sum(s), s)
    <3> HIDE DEF Sum
    <3> QED BY <2>3 DEF SumsUp
  <2> QED BY <2>1, <2>4
<1> HIDE DEF Sum
<1>2. SumsUp(Sum(S), S)
  BY <1>1
<1>3. ASSUME NEW s \in SUBSET S
      PROVE  TotalSize(s) = Sum(S)[s]
  <2>1. SumsUp(Sum(S), s) /\ IsFiniteSet(s)
    BY <1>2, FS_Subset DEF SumsUp
  <2> QED BY <2>1, <1>1, SumsAgree
<1> QED BY <1>2, <1>3

InAnyOrder(g, S) ==
    \A s \in SUBSET S : g[s] \in Nat /\ \A x \in s : g[s] = x.size + g[s \ {x}]

LEMMA AnyOrder ==
    ASSUME NEW S, IsFiniteSet(S), \A b \in S : b.size \in Nat, NEW g, SumsUp(g, S)
    PROVE  InAnyOrder(g, S)
<1> DEFINE T == {n \in Nat : \A s \in SUBSET S : Cardinality(s) <= n =>
                    g[s] \in Nat /\ \A x \in s : g[s] = x.size + g[s \ {x}]}
<1>1. 0 \in T
  <2>1. \A s \in SUBSET S : Cardinality(s) <= 0 => s = {}
    BY SmallerSets
  <2> QED BY <2>1 DEF SumsUp, Adds
<1>2. ASSUME NEW n \in Nat, n \in T
      PROVE  n + 1 \in T
  <2>1. ASSUME NEW s \in SUBSET S, Cardinality(s) <= n + 1
        PROVE  g[s] \in Nat /\ \A x \in s : g[s] = x.size + g[s \ {x}]
    <3>1. CASE s = {}
      BY <3>1 DEF SumsUp, Adds
    <3>2. CASE s # {}
      <4> DEFINE y == First(s)
      <4>1. y \in s
        BY <3>2, FirstIsIn
      <4> HIDE DEF y
      <4>2. g[s] = y.size + g[s \ {y}]
        BY <3>2 DEF SumsUp, Adds, y
      <4>3. s \ {y} \in SUBSET S /\ Cardinality(s \ {y}) <= n
        BY <2>1, <4>1, SmallerSets
      <4>4. g[s \ {y}] \in Nat /\ \A x \in s \ {y} : g[s \ {y}] = x.size + g[(s \ {y}) \ {x}]
        BY <4>3, <1>2
      <4>5. ASSUME NEW x \in s, x # y
            PROVE  g[s] = x.size + g[s \ {x}]
        <5>1. s \ {x} \in SUBSET S /\ Cardinality(s \ {x}) <= n
          BY <2>1, SmallerSets
        <5>2. g[s \ {x}] = y.size + g[(s \ {x}) \ {y}] /\ g[s \ {x}] \in Nat
          BY <5>1, <4>1, <4>5, <1>2
        <5>3. g[s \ {y}] = x.size + g[(s \ {y}) \ {x}]
          BY <4>4, <4>5
        <5>4. (s \ {x}) \ {y} = (s \ {y}) \ {x}
          OBVIOUS
        <5>5. (s \ {x}) \ {y} \in SUBSET S /\ Cardinality((s \ {x}) \ {y}) <= n
          <6>1. y \in s \ {x}
            BY <4>1, <4>5
          <6>2. /\ (s \ {x}) \ {y} \in SUBSET S
                /\ Cardinality((s \ {x}) \ {y}) = Cardinality(s \ {x}) - 1
            <7> DEFINE u == s \ {x}
            <7>1. u \in SUBSET S /\ y \in u
              BY <5>1, <6>1
            <7> HIDE DEF u
            <7>2. u \ {y} \in SUBSET S /\ Cardinality(u \ {y}) = Cardinality(u) - 1
              BY <7>1, SmallerSets
            <7> QED BY <7>2 DEF u
          <6>3. Cardinality(s \ {x}) \in Nat
            BY <5>1, SmallerSets
          <6> QED BY <5>1, <6>2, <6>3
        <5>6. g[(s \ {x}) \ {y}] \in Nat
          BY <5>5, <1>2
        <5>7. x.size \in Nat /\ y.size \in Nat
          BY <4>1
        <5> DEFINE a == g[(s \ {x}) \ {y}]
                   p == x.size
                   q == y.size
        <5>8. g[s \ {x}] = q + a /\ g[s] = q + (p + a)
          BY <4>2, <5>2, <5>3, <5>4
        <5>9. p \in Nat /\ q \in Nat /\ a \in Nat
          BY <5>6, <5>7
        <5> HIDE DEF a, p, q
        <5>10. q + (p + a) = p + (q + a)
          BY <5>9
        <5> QED BY <5>8, <5>10 DEF p
      <4>6. g[s] \in Nat
        BY <4>1, <4>2, <4>4
      <4> QED BY <4>2, <4>5, <4>6
    <3> QED BY <3>1, <3>2
  <2> QED BY <2>1
<1>3. Nat \subseteq T
  <2> HIDE DEF T
  <2> QED BY <1>1, <1>2, SetInduction
<1> SUFFICES ASSUME NEW s \in SUBSET S
             PROVE  g[s] \in Nat /\ \A x \in s : g[s] = x.size + g[s \ {x}]
  BY DEF InAnyOrder
<1>4. Cardinality(s) \in T /\ Cardinality(s) <= Cardinality(s)
  BY <1>3, SmallerSets
<1> QED BY <1>4

LEMMA TotalFacts ==
    ASSUME NEW S, IsFiniteSet(S), \A b \in S : b.size \in Nat
    PROVE  /\ TotalSize({}) = 0 /\ TotalSize(S) \in Nat
           /\ \A x \in S : TotalSize(S) = x.size + TotalSize(S \ {x}) /\ TotalSize(S \ {x}) \in Nat
<1>1. PICK g : SumsUp(g, S) /\ \A s \in SUBSET S : TotalSize(s) = g[s]
  BY TotalIsSum
<1>2. InAnyOrder(g, S)
  BY <1>1, AnyOrder
<1>3. g[{}] = 0
  BY <1>1 DEF SumsUp, Adds
<1>4. S \in SUBSET S /\ {} \in SUBSET S /\ \A x \in S : S \ {x} \in SUBSET S
  OBVIOUS
<1>5. TotalSize(S) = g[S] /\ TotalSize({}) = g[{}] /\ \A x \in S : TotalSize(S \ {x}) = g[S \ {x}]
  BY <1>1, <1>4
<1>6. g[S] \in Nat /\ \A x \in S : g[S] = x.size + g[S \ {x}] /\ g[S \ {x}] \in Nat
  BY <1>2, <1>4 DEF InAnyOrder
<1> QED BY <1>3, <1>5, <1>6

LEMMA TotalGrows ==
    ASSUME NEW S, IsFiniteSet(S), \A b \in S : b.size \in Nat, NEW R \in SUBSET S
    PROVE  TotalSize(R) <= TotalSize(S) /\ TotalSize(R) \in Nat
<1> DEFINE T == {n \in Nat : \A s \in SUBSET S : R \subseteq s /\ Cardinality(s) <= n =>
                    TotalSize(R) <= TotalSize(s)}
<1>1. ASSUME NEW s \in SUBSET S
      PROVE  /\ TotalSize(s) \in Nat
             /\ \A x \in s : TotalSize(s) = x.size + TotalSize(s \ {x}) /\ TotalSize(s \ {x}) \in Nat
  <2>1. IsFiniteSet(s) /\ \A b \in s : b.size \in Nat
    BY FS_Subset
  <2> QED BY <2>1, TotalFacts
<1>2. 0 \in T
  <2>1. \A s \in SUBSET S : Cardinality(s) <= 0 => s = {}
    BY SmallerSets
  <2>2. \A s \in SUBSET S : R \subseteq s /\ Cardinality(s) <= 0 => R = s
    BY <2>1
  <2> QED BY <2>2, <1>1
<1>3. ASSUME NEW n \in Nat, n \in T
      PROVE  n + 1 \in T
  <2>1. ASSUME NEW s \in SUBSET S, R \subseteq s, Cardinality(s) <= n + 1
        PROVE  TotalSize(R) <= TotalSize(s)
    <3>1. CASE R = s
      BY <3>1, <1>1
    <3>2. CASE R # s
      <4>1. PICK x \in s : x \notin R
        BY <2>1, <3>2
      <4>2. s \ {x} \in SUBSET S /\ R \subseteq s \ {x} /\ Cardinality(s \ {x}) <= n
        BY <2>1, <4>1, SmallerSets
      <4>3. TotalSize(R) <= TotalSize(s \ {x})
        BY <4>2, <1>3
      <4>4. TotalSize(s) = x.size + TotalSize(s \ {x}) /\ TotalSize(s \ {x}) \in Nat /\ x.size \in Nat
        BY <1>1
      <4>5. TotalSize(R) \in Nat
        BY <1>1
      <4> QED BY <4>3, <4>4, <4>5
    <3> QED BY <3>1, <3>2
  <2> QED BY <2>1
<1>4. Nat \subseteq T
  <2> HIDE DEF T
  <2> QED BY <1>2, <1>3, SetInduction
<1>5. Cardinality(S) \in T /\ Cardinality(S) <= Cardinality(S)
  BY <1>4, FS_CardinalityType
<1> QED BY <1>1, <1>5

-----------------------------------------------------------------------------
(* Pages and bytes.                                                         *)
LEMMA Division ==
    ASSUME NEW n \in Nat, NEW d \in Nat, d > 0
    PROVE  n \div d \in Nat /\ (n \div d) * d <= n /\ n < (n \div d) * d + d
OBVIOUS

LEMMA PageFacts ==
    ASSUME NEW a \in Nat, NEW k \in Nat
    PROVE  /\ PageOf(a) \in Nat
           /\ a < k * PageSize => PageOf(a) < k
           /\ k * PageSize <= a => k <= PageOf(a)
<1> DEFINE q == a \div PageSize
<1>1. PageSize \in Nat /\ PageSize > 0
  BY LayoutAssumption
<1>2. q \in Nat /\ q * PageSize <= a /\ a < q * PageSize + PageSize
  BY <1>1, Division
<1> HIDE DEF q
<1>3. ASSUME a < k * PageSize, k <= q PROVE FALSE
  <2>1. k * PageSize <= q * PageSize
    BY <1>1, <1>2, <1>3
  <2>2. q * PageSize \in Nat /\ k * PageSize \in Nat
    BY <1>1, <1>2
  <2> QED BY <1>2, <1>3, <2>1, <2>2
<1>4. ASSUME k * PageSize <= a, q < k PROVE FALSE
  <2>1. (q + 1) * PageSize <= k * PageSize
    BY <1>1, <1>2, <1>4
  <2>2. (q + 1) * PageSize = q * PageSize + PageSize
    BY <1>1, <1>2
  <2>3. q * PageSize \in Nat /\ k * PageSize \in Nat
    BY <1>1, <1>2
  <2> QED BY <1>1, <1>2, <1>4, <2>1, <2>2, <2>3
<1> QED BY <1>2, <1>3, <1>4 DEF PageOf, q

LEMMA PageMonotone ==
    ASSUME NEW a \in Nat, NEW b \in Nat, a <= b
    PROVE  PageOf(a) <= PageOf(b)
<1> DEFINE k == PageOf(a)
<1>1. PageSize \in Nat /\ PageSize > 0
  BY LayoutAssumption
<1>2. k \in Nat /\ k * PageSize <= a
  BY <1>1, Division DEF PageOf
<1>3. k * PageSize \in Nat
  BY <1>1, <1>2
<1>4. k * PageSize <= b
  BY <1>2, <1>3
<1> HIDE DEF k
<1>5. k <= PageOf(b)
  BY <1>2, <1>4, PageFacts
<1> QED BY <1>5 DEF k

LEMMA AlignFacts ==
    ASSUME NEW v \in Nat, NEW d \in Nat, d > 0
    PROVE  /\ AlignUp(v, d) \in Nat /\ v <= AlignUp(v, d)
           /\ \E q \in Nat : AlignUp(v, d) = q * d
           /\ \A k \in Nat : v <= k * d => AlignUp(v, d) <= k * d
<1> DEFINE q == (v + d - 1) \div d
<1>1. v + d - 1 \in Nat
  OBVIOUS
<1>2. q \in Nat /\ q * d <= v + d - 1 /\ v + d - 1 < q * d + d
  BY <1>1, Division
<1>3. AlignUp(v, d) = q * d
  BY DEF AlignUp
<1> HIDE DEF q
<1>4. q * d \in Nat
  BY <1>2
<1>5. v <= q * d
  BY <1>2, <1>4
<1>6. ASSUME NEW k \in Nat, v <= k * d, k < q PROVE FALSE
  <2>1. (k + 1) * d <= q * d
    BY <1>2, <1>6
  <2>2. (k + 1) * d = k * d + d /\ k * d \in Nat
    OBVIOUS
  <2> QED BY <1>2, <1>4, <1>6, <2>1, <2>2
<1>7. \A k \in Nat : v <= k * d => q <= k
  BY <1>2, <1>6
<1>8. \A k \in Nat : q <= k => q * d <= k * d
  BY <1>2
<1> QED BY <1>2, <1>3, <1>4, <1>5, <1>7, <1>8

LEMMA ArenaFacts ==
    ASSUME arena.cursor \in Nat, NEW size \in Nat
    PROVE  /\ AllocationSize(size) \in Nat /\ size <= AllocationSize(size) /\ 1 <= AllocationSize(size)
           /\ ArenaEnd(size) = arena.cursor + AllocationSize(size)
           /\ RequiredEnd(size) \in Nat
           /\ \A a \in Nat : a < ArenaEnd(size) => PageOf(a) < RequiredEnd(size)
           /\ \A k \in Nat : ArenaEnd(size) <= k * PageSize => RequiredEnd(size) <= k
<1>1. PageSize \in Nat /\ PageSize > 0 /\ Granularity \in Nat /\ Granularity > 0
  BY LayoutAssumption
<1>2. AllocationSize(size) \in Nat /\ size <= AllocationSize(size) /\ 1 <= AllocationSize(size)
  <2> DEFINE v == IF size = 0 THEN 1 ELSE size
  <2>1. v \in Nat /\ 1 <= v /\ size <= v
    OBVIOUS
  <2>2. AllocationSize(size) = AlignUp(v, Granularity)
    BY DEF AllocationSize
  <2> HIDE DEF v
  <2>3. AlignUp(v, Granularity) \in Nat /\ v <= AlignUp(v, Granularity)
    BY <1>1, <2>1, AlignFacts
  <2> QED BY <2>1, <2>2, <2>3
<1> DEFINE e == ArenaEnd(size)
<1>3. e \in Nat /\ e = arena.cursor + AllocationSize(size)
  BY <1>2 DEF ArenaEnd
<1> HIDE DEF e
<1>4. PICK q \in Nat : AlignUp(e, PageSize) = q * PageSize
  BY <1>1, <1>3, AlignFacts
<1>5. e <= q * PageSize /\ \A k \in Nat : e <= k * PageSize => q * PageSize <= k * PageSize
  <2>1. /\ e <= AlignUp(e, PageSize)
        /\ \A k \in Nat : e <= k * PageSize => AlignUp(e, PageSize) <= k * PageSize
    BY <1>1, <1>3, AlignFacts
  <2> QED BY <1>4, <2>1
<1>6. q * PageSize \in Nat /\ q * PageSize < (q + 1) * PageSize
  BY <1>1
<1>7. PageOf(q * PageSize) = q
  <2>1. PageOf(q * PageSize) \in Nat /\ q <= PageOf(q * PageSize) /\ PageOf(q * PageSize) < q + 1
    BY <1>6, PageFacts
  <2> QED BY <2>1
<1>8. RequiredEnd(size) = q
  BY <1>4, <1>7 DEF RequiredEnd, e
<1>9. ASSUME NEW a \in Nat, a < e
      PROVE  PageOf(a) < q
  BY <1>3, <1>5, <1>6, <1>9, PageFacts
<1>10. ASSUME NEW k \in Nat, e <= k * PageSize
       PROVE  q <= k
  <2>1. q * PageSize <= k * PageSize /\ k * PageSize \in Nat
    BY <1>1, <1>5, <1>10
  <2>2. k * PageSize < (k + 1) * PageSize /\ k + 1 \in Nat
    BY <1>1
  <2>3. (k + 1) * PageSize \in Nat
    BY <1>1
  <2>4. q * PageSize < (k + 1) * PageSize
    BY <1>6, <2>1, <2>2, <2>3
  <2>5. PageOf(q * PageSize) < k + 1
    BY <1>6, <2>2, <2>4, PageFacts
  <2> QED BY <1>7, <2>5
<1> QED BY <1>2, <1>3, <1>8, <1>9, <1>10 DEF e

-----------------------------------------------------------------------------
(* The invariant, part by part: the counters, the heaps and what each of    *)
(* them may hold ...                                                        *)
Arena == HeapBase..(arena.mappedEnd - 1)

Counters ==
    /\ arena \in [cursor: Nat, mappedEnd: HeapBase..HeapLimit]
    /\ HeapBase * PageSize <= arena.cursor
    /\ nextHeap \in Nat /\ DOMAIN heaps \subseteq 0..(nextHeap - 1) /\ ProcessHeap \in DOMAIN heaps
    /\ \A h \in DOMAIN heaps : heaps[h].maximum \in Nat
    /\ \A a \in DOMAIN globals : globals[a] \in Nat
    /\ nextWorker \in Nat /\ calls \in 0..MaxCalls
    /\ image \subseteq Nat /\ guestChanged \subseteq Nat

(* ... the owners of pages, who have claimed different ones, and mapped     *)
(* ones ...                                                                 *)
Claims(owners, mapped) ==
    /\ \A o, q \in owners : o # q => o.pages \cap q.pages = {}
    /\ \A o \in owners : o.pages \subseteq mapped

Claimed ==
    /\ Mapped \subseteq Nat /\ \A p \in Mapped : protection[p] \in Permissions
    /\ Claims(Owners, Mapped)

(* ... the regions, one after the other ...                                 *)
Regional ==
    /\ nextRegion \in HeapLimit..VirtualLimit
    /\ \A b \in DOMAIN regions :
          b \in HeapLimit..VirtualLimit /\ regions[b] \in [size: Nat \ {0}, committed: SUBSET Nat]
    /\ RegionsMatchMemory

(* ... the blocks, which lie behind each other in the arena and end where   *)
(* the next one will begin; so do those that were freed ...                 *)
Placed ==
    /\ allocations \subseteq Blocks /\ IsFiniteSet(allocations)
    /\ \A b \in allocations :
          /\ b.heap \in DOMAIN heaps
          /\ HeapBase * PageSize <= b.address
          /\ b.address + AllocationSize(b.size) <= arena.cursor
          /\ PagesOfBytes(b.address, b.size) \subseteq Arena
    /\ \A a \in freed : a \in Nat /\ a < arena.cursor
    /\ BlocksDisjoint /\ FreedStaysFree /\ HeapsWithinMaximum

(* ... and the pages of the arena, writable, and executable where a block   *)
(* of an executable heap lies, except those the guest has protected.        *)
Usable ==
    /\ \A p \in Arena \ guestChanged : protection[p] \in {READ_WRITE, ALL}
    /\ \A b \in allocations : heaps[b.heap].executable =>
          \A p \in PagesOfBytes(b.address, b.size) \ guestChanged : protection[p] = ALL

Inv == Counters /\ Claimed /\ Regional /\ Placed /\ Usable

(* Who owns what: an owner may claim pages that are not mapped, a new owner *)
(* too, and one that goes leaves all others what they have.                 *)
LEMMA ClaimGrows ==
    ASSUME NEW S, NEW M, Claims(S, M), NEW o \in S, NEW N, N \cap M = {},
           NEW n, n.pages = o.pages \cup N, NEW R, R \subseteq (S \ {o}) \cup {n}
    PROVE  Claims(R, M \cup N)
BY DEF Claims

LEMMA ClaimAdded ==
    ASSUME NEW S, NEW M, Claims(S, M), NEW N, N \cap M = {},
           NEW n, n.pages = N, NEW R, R \subseteq S \cup {n}
    PROVE  Claims(R, M \cup N)
BY DEF Claims

LEMMA ClaimDropped ==
    ASSUME NEW S, NEW M, Claims(S, M), NEW o \in S, NEW R, R \subseteq S \ {o}
    PROVE  Claims(R, M \ o.pages)
BY DEF Claims

-----------------------------------------------------------------------------
(* What every call does beside its own work.                                *)
Ticks ==
    /\ calls < MaxCalls /\ calls' = calls + 1 /\ UNCHANGED image
    /\ freed' = freed \cup ({b.address : b \in allocations} \ {b.address : b \in allocations'})

LEMMA BlocksAreSound ==
    ASSUME Placed, NEW h
    PROVE  /\ IsFiniteSet(BlocksOf(h)) /\ \A b \in BlocksOf(h) : b.size \in Nat
           /\ LiveSize(h) \in Nat
<1>1. IsFiniteSet(BlocksOf(h))
  BY FS_Subset DEF Placed, BlocksOf
<1>2. \A b \in BlocksOf(h) : b.size \in Nat
  BY DEF Placed, BlocksOf, Blocks
<1> QED BY <1>1, <1>2, TotalFacts DEF LiveSize

(* Heaps come and go, and blocks go.                                        *)
LEMMA BlocksGo ==
    ASSUME Inv, Ticks, UNCHANGED <<protection, arena, regionVars, threadVars, guestChanged>>,
           allocations' \subseteq allocations,
           nextHeap' \in Nat, DOMAIN heaps' \subseteq 0..(nextHeap' - 1), ProcessHeap \in DOMAIN heaps',
           \A h \in DOMAIN heaps' : heaps'[h].maximum \in Nat,
           \A h \in DOMAIN heaps' : \/ h \in DOMAIN heaps /\ heaps'[h] = heaps[h]
                                    \/ \A b \in allocations' : b.heap # h,
           \A b \in allocations' : b.heap \in DOMAIN heaps',
           \A a \in DOMAIN globals' : globals'[a] \in Nat
    PROVE  Inv'
<1>1. Counters'
  BY LayoutAssumption DEF Inv, Counters, Ticks, threadVars
<1>2. Claimed' /\ Regional'
  BY DEF Inv, Claimed, Owners, Mapped, Regional, RegionsMatchMemory, Ticks, regionVars, threadVars
<1>3. Arena' = Arena
  BY DEF Arena
<1>4. ASSUME NEW h \in DOMAIN heaps'
      PROVE  heaps'[h].maximum = 0 \/ LiveSize(h)' <= heaps'[h].maximum
  <2>1. TotalSize({}) = 0
    BY FS_EmptySet, TotalFacts
  <2>2. CASE \A b \in allocations' : b.heap # h
    <3>1. BlocksOf(h)' = {}
      BY <2>2 DEF BlocksOf
    <3> QED BY <3>1, <2>1 DEF LiveSize
  <2>3. CASE h \in DOMAIN heaps /\ heaps'[h] = heaps[h]
    <3>1. BlocksOf(h)' \in SUBSET BlocksOf(h)
      BY DEF BlocksOf
    <3>2. LiveSize(h)' <= LiveSize(h) /\ LiveSize(h)' \in Nat /\ LiveSize(h) \in Nat
      BY <3>1, BlocksAreSound, TotalGrows DEF Inv, LiveSize
    <3>3. heaps[h].maximum = 0 \/ LiveSize(h) <= heaps[h].maximum
      BY <2>3 DEF Inv, Placed, HeapsWithinMaximum
    <3> QED BY <3>2, <3>3, <2>3 DEF Inv, Counters
  <2> QED BY <2>2, <2>3
<1>5. HeapsWithinMaximum'
  BY <1>4 DEF HeapsWithinMaximum
<1>6. IsFiniteSet(allocations')
  BY FS_Subset DEF Inv, Placed
<1>7. /\ \A a \in freed' : a \in Nat /\ a < arena.cursor
      /\ FreedStaysFree'
  <2>1. \A b \in allocations : b.address \in Nat /\ b.address < arena.cursor
    <3> SUFFICES ASSUME NEW b \in allocations
                 PROVE  b.address \in Nat /\ b.address < arena.cursor
      OBVIOUS
    <3>1. b.address \in Nat /\ b.size \in Nat /\ b.address + AllocationSize(b.size) <= arena.cursor
      BY DEF Inv, Placed, Blocks
    <3>2. AllocationSize(b.size) \in Nat /\ 1 <= AllocationSize(b.size) /\ arena.cursor \in Nat
      BY <3>1, ArenaFacts DEF Inv, Counters
    <3> QED BY <3>1, <3>2
  <2>2. freed \cap {b.address : b \in allocations} = {}
    BY DEF Inv, Placed, FreedStaysFree
  <2> QED BY <2>1, <2>2 DEF Inv, Placed, FreedStaysFree, Ticks
<1>8. Placed'
  BY <1>3, <1>5, <1>6, <1>7 DEF Inv, Placed, BlocksDisjoint
<1>9. Usable'
  BY <1>3 DEF Inv, Usable
<1> QED BY <1>1, <1>2, <1>8, <1>9 DEF Inv

LEMMA FreeingIsSound ==
    ASSUME Inv, Ticks
    PROVE  /\ \A initial, executable : \A maximum \in Maximums :
                 HeapCreate(initial, maximum, executable) => Inv'
           /\ \A h \in DOMAIN heaps : HeapDestroy(h) => Inv'
           /\ \A b \in allocations : HeapFree(b.heap, b) => Inv'
           /\ \A a \in DOMAIN globals : GlobalLock(a) \/ GlobalUnlock(a) \/ GlobalFree(a) => Inv'
<1>1. /\ nextHeap \in Nat /\ DOMAIN heaps \subseteq 0..(nextHeap - 1) /\ ProcessHeap \in DOMAIN heaps
      /\ \A h \in DOMAIN heaps : heaps[h].maximum \in Nat
      /\ \A a \in DOMAIN globals : globals[a] \in Nat
      /\ \A b \in allocations : b.heap \in DOMAIN heaps
  BY DEF Inv, Counters, Placed
<1>2. ASSUME NEW initial, NEW executable, NEW maximum \in Maximums,
             HeapCreate(initial, maximum, executable)
      PROVE  Inv'
  <2>1. /\ UNCHANGED <<protection, arena, allocations, globals, regionVars, threadVars, guestChanged>>
        /\ nextHeap' = nextHeap + 1
        /\ DOMAIN heaps' = DOMAIN heaps \cup {nextHeap}
        /\ \A h \in DOMAIN heaps' : heaps'[h] =
              IF h = nextHeap THEN [maximum |-> maximum, executable |-> executable] ELSE heaps[h]
    BY <1>2 DEF HeapCreate
  <2>2. nextHeap \notin DOMAIN heaps
    BY <1>1
  <2>3. nextHeap' \in Nat /\ DOMAIN heaps' \subseteq 0..(nextHeap' - 1)
    BY <1>1, <2>1
  <2>4. \A h \in DOMAIN heaps' : heaps'[h].maximum \in Nat
    BY <1>1, <2>1, LayoutAssumption
  <2> QED BY <1>1, <2>1, <2>2, <2>3, <2>4, BlocksGo
<1>3. ASSUME NEW h \in DOMAIN heaps, HeapDestroy(h)
      PROVE  Inv'
  <2>1. /\ UNCHANGED <<protection, arena, nextHeap, globals, regionVars, threadVars, guestChanged>>
        /\ h # ProcessHeap /\ DOMAIN heaps' = DOMAIN heaps \ {h}
        /\ \A g \in DOMAIN heaps' : heaps'[g] = heaps[g]
        /\ allocations' = {b \in allocations : b.heap # h}
    BY <1>3 DEF HeapDestroy
  <2> QED BY <1>1, <2>1, BlocksGo
<1>4. ASSUME NEW b \in allocations, HeapFree(b.heap, b)
      PROVE  Inv'
  BY <1>1, <1>4, BlocksGo DEF HeapFree
<1>5. ASSUME NEW a \in DOMAIN globals, NEW n \in Nat, globals' = [globals EXCEPT ![a] = n],
             UNCHANGED <<protection, arena, heaps, allocations, nextHeap, regionVars, threadVars,
                         guestChanged>>
      PROVE  Inv'
  <2>1. \A c \in DOMAIN globals' : globals'[c] \in Nat
    BY <1>1, <1>5
  <2> QED BY <1>1, <1>5, <2>1, BlocksGo
<1>6. ASSUME NEW a \in DOMAIN globals, GlobalLock(a)
      PROVE  Inv'
  <2>1. globals[a] + 1 \in Nat
    BY <1>1
  <2> QED BY <2>1, <1>5, <1>6 DEF GlobalLock
<1>7. ASSUME NEW a \in DOMAIN globals, GlobalUnlock(a)
      PROVE  Inv'
  <2>1. globals[a] - 1 \in Nat
    BY <1>1, <1>7 DEF GlobalUnlock
  <2> QED BY <2>1, <1>5, <1>7 DEF GlobalUnlock
<1>8. ASSUME NEW a \in DOMAIN globals, GlobalFree(a)
      PROVE  Inv'
  <2>1. \A c \in DOMAIN globals' : globals'[c] \in Nat
    BY <1>1, <1>8 DEF GlobalFree
  <2> QED BY <1>1, <1>8, <2>1, BlocksGo DEF GlobalFree
<1> QED BY <1>2, <1>3, <1>4, <1>6, <1>7, <1>8

-----------------------------------------------------------------------------
(* Pages.  A call that changes no heap leaves the arena's pages as they     *)
(* are, unless the guest protects them.                                     *)
ArenaOwner == [kind |-> "arena", id |-> 0, pages |-> Arena]
RegionOwner(b) == [kind |-> "region", id |-> b, pages |-> regions[b].committed]

LEMMA PagesChange ==
    ASSUME Inv, Ticks, UNCHANGED heapVars, Claimed', Regional', nextWorker' \in Nat,
           guestChanged \subseteq guestChanged', guestChanged' \subseteq Nat,
           \A p \in Arena \ guestChanged' : protection'[p] = protection[p]
    PROVE  Inv'
<1>1. Counters'
  BY LayoutAssumption DEF Inv, Counters, Ticks, heapVars
<1>2. freed' = freed /\ Arena' = Arena
  BY DEF Ticks, heapVars, Arena
<1>3. HeapsWithinMaximum'
  BY DEF Inv, Placed, HeapsWithinMaximum, LiveSize, BlocksOf, heapVars
<1>4. Placed'
  BY <1>2, <1>3 DEF Inv, Placed, BlocksDisjoint, FreedStaysFree, heapVars
<1>5. Usable'
  <2>1. \A b \in allocations : PagesOfBytes(b.address, b.size) \subseteq Arena
    BY DEF Inv, Placed
  <2> QED BY <1>2, <2>1 DEF Inv, Usable, heapVars
<1> QED BY <1>1, <1>4, <1>5 DEF Inv

(* The pages of the arena are below those of the regions, and mapped; those *)
(* of a region are between its limits.                                      *)
LEMMA Layout ==
    ASSUME Inv
    PROVE  /\ Arena \subseteq Mapped /\ Arena \subseteq HeapBase..(HeapLimit - 1)
           /\ \A b \in DOMAIN regions : Run(b, regions[b].size) \subseteq HeapLimit..(nextRegion - 1)
           /\ nextRegion \in HeapLimit..VirtualLimit
           /\ HeapBase \in Nat /\ HeapLimit \in Nat /\ VirtualLimit \in Nat
<1>1. HeapBase \in Nat /\ HeapLimit \in Nat /\ VirtualLimit \in Nat
  BY LayoutAssumption
<1>2. Arena \subseteq Mapped
  <2>1. ArenaOwner \in Owners /\ ArenaOwner.pages = Arena
    BY DEF Owners, ArenaOwner, Arena
  <2> QED BY <2>1 DEF Inv, Claimed, Claims
<1>3. Arena \subseteq HeapBase..(HeapLimit - 1)
  BY <1>1 DEF Arena, Inv, Counters
<1>4. \A b \in DOMAIN regions : Run(b, regions[b].size) \subseteq HeapLimit..(nextRegion - 1)
  BY <1>1 DEF Inv, Regional, RegionsMatchMemory, Run
<1> QED BY <1>1, <1>2, <1>3, <1>4 DEF Inv, Regional

LEMMA MapPagesFacts ==
    ASSUME NEW N, NEW permissions \in Permissions, protection' = MapPages(N, permissions),
           Claimed, N \subseteq Nat
    PROVE  /\ Mapped' = Mapped \cup N
           /\ \A p \in Mapped' : protection'[p] = IF p \in N THEN permissions ELSE protection[p]
           /\ Mapped' \subseteq Nat /\ \A p \in Mapped' : protection'[p] \in Permissions
BY DEF MapPages, Mapped, Claimed

(* A region is added at the end of the others, where nothing is mapped.     *)
LEMMA AddRegionIsSound ==
    ASSUME Inv, Ticks, NEW n \in Nat \ {0}, NEW committed, Reserve(n), AddRegion(n, committed),
           NEW N, committed = N, N = {} \/ N = Run(nextRegion, n),
           Mapped' = Mapped \cup N, Mapped' \subseteq Nat,
           \A p \in Mapped' : protection'[p] \in Permissions,
           \A p \in Mapped : protection'[p] = protection[p]
    PROVE  Inv'
<1>1. /\ Arena \subseteq Mapped /\ Arena \subseteq HeapBase..(HeapLimit - 1)
      /\ \A b \in DOMAIN regions : Run(b, regions[b].size) \subseteq HeapLimit..(nextRegion - 1)
      /\ nextRegion \in HeapLimit..VirtualLimit
      /\ HeapBase \in Nat /\ HeapLimit \in Nat /\ VirtualLimit \in Nat
  BY Layout
<1>2. /\ UNCHANGED <<heapVars, threadVars, guestChanged>>
      /\ nextRegion' = nextRegion + n /\ nextRegion + n <= VirtualLimit
      /\ Run(nextRegion, n) \cap Mapped = {}
      /\ DOMAIN regions' = DOMAIN regions \cup {nextRegion}
      /\ \A b \in DOMAIN regions' : regions'[b] =
            IF b = nextRegion THEN [size |-> n, committed |-> committed] ELSE regions[b]
  BY DEF AddRegion, Reserve
<1>3. nextRegion \notin DOMAIN regions
  BY <1>1 DEF Inv, Regional, RegionsMatchMemory
<1>4. \A b \in DOMAIN regions :
         /\ b \in HeapLimit..VirtualLimit /\ regions[b] \in [size: Nat \ {0}, committed: SUBSET Nat]
         /\ b + regions[b].size <= nextRegion
         /\ regions[b].committed = Run(b, regions[b].size) \cap Mapped
         /\ \A c \in DOMAIN regions : b < c => b + regions[b].size <= c
  BY DEF Inv, Regional, RegionsMatchMemory
<1>5. \A b \in DOMAIN regions : Run(b, regions[b].size) \cap Run(nextRegion, n) = {}
  BY <1>1 DEF Run
<1>6. N \cap Mapped = {} /\ Run(nextRegion, n) \cap Mapped' = N
  BY <1>2
<1>7. RegionsMatchMemory'
  <2>1. ASSUME NEW b \in DOMAIN regions
        PROVE  /\ b + regions'[b].size <= nextRegion'
               /\ regions'[b].committed = Run(b, regions'[b].size) \cap Mapped'
               /\ \A c \in DOMAIN regions' : b < c => b + regions'[b].size <= c
    <3>1. regions'[b] = regions[b]
      BY <1>2, <1>3
    <3>2. b + regions[b].size <= nextRegion /\ regions[b].size \in Nat /\ b \in Nat
      BY <1>1, <1>4
    <3>3. b + regions[b].size <= nextRegion + n
      BY <1>1, <3>2
    <3>4. Run(b, regions[b].size) \cap Mapped' = Run(b, regions[b].size) \cap Mapped
      BY <1>5
    <3>5. \A c \in DOMAIN regions' : b < c => b + regions[b].size <= c
      BY <1>2, <1>4, <3>2
    <3> QED BY <1>2, <1>4, <3>1, <3>3, <3>4, <3>5
  <2>2. /\ nextRegion + regions'[nextRegion].size <= nextRegion'
        /\ regions'[nextRegion].committed = Run(nextRegion, regions'[nextRegion].size) \cap Mapped'
    BY <1>1, <1>2, <1>6
  <2>3. \A c \in DOMAIN regions' : ~(nextRegion < c)
    <3>1. ASSUME NEW c \in DOMAIN regions PROVE ~(nextRegion < c)
      <4>1. c \in Int /\ nextRegion \in Int /\ c + regions[c].size <= nextRegion
        BY <1>1, <1>4
      <4> DEFINE k == regions[c].size
      <4>2. k \in Nat /\ k # 0
        BY <1>4
      <4> HIDE DEF k
      <4>3. c + k <= nextRegion
        BY <4>1 DEF k
      <4> QED BY <4>1, <4>2, <4>3
    <3>2. ~(nextRegion < nextRegion)
      BY <1>1
    <3> QED BY <1>2, <3>1, <3>2
  <2> QED BY <1>2, <2>1, <2>2, <2>3 DEF RegionsMatchMemory
<1>8. Regional'
  <2>1. nextRegion' \in HeapLimit..VirtualLimit
    BY <1>1, <1>2
  <2>2. committed \in SUBSET Nat
    BY <1>1 DEF Run
  <2>3. [size |-> n, committed |-> committed] \in [size: Nat \ {0}, committed: SUBSET Nat]
    BY <2>2
  <2>4. \A b \in DOMAIN regions' :
           b \in HeapLimit..VirtualLimit /\ regions'[b] \in [size: Nat \ {0}, committed: SUBSET Nat]
    <3> DEFINE R == [size: Nat \ {0}, committed: SUBSET Nat]
               r == [size |-> n, committed |-> committed]
    <3>1. r \in R /\ \A b \in DOMAIN regions : b \in HeapLimit..VirtualLimit /\ regions[b] \in R
      BY <2>3, <1>4
    <3>2. \A b \in DOMAIN regions' : regions'[b] = IF b = nextRegion THEN r ELSE regions[b]
      BY <1>2
    <3> HIDE DEF R, r
    <3>3. \A b \in DOMAIN regions' : b \in HeapLimit..VirtualLimit /\ regions'[b] \in R
      BY <3>1, <3>2, <1>1, <1>2
    <3> QED BY <3>3 DEF R
  <2> QED BY <1>7, <2>1, <2>4 DEF Regional
<1>9. Claimed'
  <2>1. Claims(Owners, Mapped)
    BY DEF Inv, Claimed
  <2> DEFINE o == [kind |-> "region", id |-> nextRegion, pages |-> N]
  <2>2. o.pages = N
    OBVIOUS
  <2>3. Owners' \subseteq Owners \cup {o}
    <3>1. \A b \in DOMAIN regions' : regions'[b].committed =
             IF b = nextRegion THEN N ELSE regions[b].committed
      BY <1>2
    <3> QED BY <1>2, <3>1 DEF Owners, Ticks, heapVars, threadVars
  <2> HIDE DEF o
  <2>4. Claims(Owners', Mapped \cup N)
    BY <1>6, <2>1, <2>2, <2>3, ClaimAdded
  <2> QED BY <2>4 DEF Claimed
<1>10. \A p \in Arena \ guestChanged' : protection'[p] = protection[p]
  BY <1>1
<1> QED BY <1>2, <1>8, <1>9, <1>10, PagesChange DEF Inv, Counters, threadVars

(* Reserving maps nothing; allocating maps the pages of the new region.     *)
LEMMA NewRegionsAreSound ==
    ASSUME Inv, Ticks, NEW n \in PageRuns, NEW permissions \in Permissions
    PROVE  VirtualReserve(n) \/ VirtualAlloc(n, permissions) => Inv'
<1>1. n \in Nat \ {0}
  BY LayoutAssumption
<1>2. Claimed /\ Mapped \subseteq Nat /\ \A p \in Mapped : protection[p] \in Permissions
  BY DEF Inv, Claimed
<1>3. ASSUME VirtualReserve(n)
      PROVE  Inv'
  <2>1. Reserve(n) /\ AddRegion(n, {}) /\ protection' = protection
    BY <1>3 DEF VirtualReserve
  <2>2. /\ Mapped' = Mapped \cup {} /\ Mapped' \subseteq Nat
        /\ \A p \in Mapped' : protection'[p] \in Permissions
        /\ \A p \in Mapped : protection'[p] = protection[p]
    BY <1>2, <2>1 DEF Mapped
  <2> QED BY <1>1, <2>1, <2>2, AddRegionIsSound
<1>4. ASSUME VirtualAlloc(n, permissions)
      PROVE  Inv'
  <2> DEFINE N == nextRegion..(nextRegion + n - 1)
  <2>1. /\ N = Run(nextRegion, n) /\ Reserve(n) /\ AddRegion(n, N)
        /\ protection' = MapPages(N, permissions)
    BY <1>4 DEF VirtualAlloc, Run
  <2>2. N \subseteq Nat /\ N \cap Mapped = {}
    <3>1. nextRegion \in Nat
      BY Layout
    <3> QED BY <1>1, <3>1, <2>1 DEF Reserve
  <2> HIDE DEF N
  <2>3. /\ Mapped' = Mapped \cup N /\ Mapped' \subseteq Nat
        /\ \A p \in Mapped' : protection'[p] \in Permissions
        /\ \A p \in Mapped' : protection'[p] = IF p \in N THEN permissions ELSE protection[p]
    BY <1>1, <1>2, <2>1, <2>2, MapPagesFacts
  <2>4. \A p \in Mapped : protection'[p] = protection[p]
    BY <2>2, <2>3
  <2> QED BY <1>1, <2>1, <2>3, <2>4, AddRegionIsSound
<1> QED BY <1>3, <1>4

(* Regions are kept apart by more than their order.                         *)
LEMMA RegionsApart ==
    ASSUME Inv, NEW b \in DOMAIN regions, NEW c \in DOMAIN regions, b # c
    PROVE  Run(b, regions[b].size) \cap Run(c, regions[c].size) = {}
<1> DEFINE k == regions[b].size
           m == regions[c].size
<1>1. /\ b \in Nat /\ c \in Nat /\ k \in Nat /\ m \in Nat
      /\ b < c => b + k <= c
      /\ c < b => c + m <= b
  BY Layout DEF Inv, Regional, RegionsMatchMemory
<1> HIDE DEF k, m
<1>2. Run(b, k) \cap Run(c, m) = {}
  BY <1>1 DEF Run
<1> QED BY <1>2 DEF k, m

(* Committing claims the pages of the run that are not committed yet.       *)
LEMMA CommittingIsSound ==
    ASSUME Inv, Ticks, NEW b \in DOMAIN regions, NEW first \in HeapLimit..VirtualLimit,
           NEW n \in PageRuns, NEW permissions \in Protections,
           VirtualCommit(b, first, n, permissions)
    PROVE  Inv'
<1> DEFINE old == regions[b].committed
           fresh == Run(first, n) \ old
<1>1. n \in Nat \ {0} /\ permissions \in Permissions
  BY LayoutAssumption
<1>2. /\ InRegion(b, first, n) /\ fresh \cap Mapped = {} /\ Run(first, n) \cap old \subseteq Mapped
      /\ regions' = [regions EXCEPT ![b].committed = old \cup Run(first, n)]
      /\ protection' = MapPages(Run(first, n), permissions)
      /\ UNCHANGED <<heapVars, nextRegion, threadVars, guestChanged>>
  BY DEF VirtualCommit
<1>3. \A c \in DOMAIN regions :
         /\ c \in HeapLimit..VirtualLimit /\ regions[c] \in [size: Nat \ {0}, committed: SUBSET Nat]
         /\ c + regions[c].size <= nextRegion
         /\ regions[c].committed = Run(c, regions[c].size) \cap Mapped
         /\ \A d \in DOMAIN regions : c < d => c + regions[c].size <= d
  BY DEF Inv, Regional, RegionsMatchMemory
<1>4. HeapLimit \in Nat /\ VirtualLimit \in Nat /\ Run(first, n) \subseteq Nat
  <2>1. first \in Nat /\ HeapLimit \in Nat /\ VirtualLimit \in Nat
    BY Layout
  <2> QED BY <1>1, <2>1 DEF Run
<1>5. Run(first, n) \subseteq Run(b, regions[b].size)
  <2> DEFINE k == regions[b].size
  <2>1. b \in Nat /\ k \in Nat /\ b <= first /\ first + n <= b + k
    BY <1>2, <1>3, <1>4 DEF InRegion
  <2> HIDE DEF k
  <2>2. Run(first, n) \subseteq Run(b, k)
    BY <1>1, <1>4, <2>1 DEF Run
  <2> QED BY <2>2 DEF k
<1>6. /\ Mapped' = Mapped \cup Run(first, n) /\ Mapped' \subseteq Nat
      /\ \A p \in Mapped' : protection'[p] \in Permissions
      /\ \A p \in Mapped' : protection'[p] =
            IF p \in Run(first, n) THEN permissions ELSE protection[p]
  BY <1>1, <1>2, <1>4, MapPagesFacts DEF Inv
<1>7. /\ DOMAIN regions' = DOMAIN regions
      /\ \A c \in DOMAIN regions :
            /\ regions'[c].size = regions[c].size
            /\ regions'[c].committed =
                  IF c = b THEN old \cup Run(first, n) ELSE regions[c].committed
            /\ regions'[c] \in [size: Nat \ {0}, committed: SUBSET Nat]
  <2>1. old \cup Run(first, n) \subseteq Nat
    BY <1>3, <1>4
  <2> HIDE DEF old
  <2> QED BY <1>2, <1>3, <2>1
<1>8. RegionsMatchMemory'
  <2>1. ASSUME NEW c \in DOMAIN regions
        PROVE  regions'[c].committed = Run(c, regions[c].size) \cap Mapped'
    <3>1. CASE c = b
      BY <3>1, <1>3, <1>5, <1>6, <1>7
    <3>2. CASE c # b
      <4>1. Run(c, regions[c].size) \cap Run(first, n) = {}
        BY <3>2, <1>5, RegionsApart
      <4> QED BY <3>2, <4>1, <1>3, <1>6, <1>7
    <3> QED BY <3>1, <3>2
  <2> QED BY <1>2, <1>3, <1>7, <2>1 DEF RegionsMatchMemory
<1>9. Regional'
  BY <1>2, <1>3, <1>7, <1>8 DEF Regional, Inv
<1>10. Claimed'
  <2> DEFINE o == RegionOwner(b)
             w == [kind |-> "region", id |-> b, pages |-> old \cup Run(first, n)]
  <2>1. Claims(Owners, Mapped) /\ o \in Owners
    BY DEF Inv, Claimed, Owners, RegionOwner
  <2>2. w.pages = o.pages \cup fresh
    BY DEF RegionOwner
  <2>3. Owners' \subseteq (Owners \ {o}) \cup {w}
    <3> HIDE DEF old
    <3> QED BY <1>2, <1>7 DEF Owners, RegionOwner, Ticks, heapVars, threadVars
  <2> HIDE DEF o, w, fresh
  <2>4. Claims(Owners', Mapped \cup fresh)
    BY <1>2, <2>1, <2>2, <2>3, ClaimGrows
  <2>5. Mapped' = Mapped \cup fresh
    BY <1>2, <1>6 DEF fresh
  <2> QED BY <1>6, <2>4, <2>5 DEF Claimed
<1>11. \A p \in Arena \ guestChanged' : protection'[p] = protection[p]
  <2>1. \A p \in Arena : p \in Mapped /\ p \notin Run(first, n)
    <3>1. Arena \subseteq Mapped /\ Arena \subseteq HeapBase..(HeapLimit - 1)
          /\ Run(b, regions[b].size) \subseteq HeapLimit..(nextRegion - 1) /\ HeapLimit \in Nat
      BY Layout
    <3>2. \A p \in Arena : p < HeapLimit /\ p \in Int
      BY <3>1
    <3>3. \A p \in Run(first, n) : HeapLimit <= p /\ p \in Int
      BY <3>1, <1>5
    <3> QED BY <3>1, <3>2, <3>3
  <2> QED BY <2>1, <1>6
<1> QED BY <1>2, <1>9, <1>10, <1>11, PagesChange DEF Inv, Counters, threadVars

(* Releasing a region unmaps what it has committed, and nothing else.       *)
LEMMA ReleasingIsSound ==
    ASSUME Inv, Ticks, NEW b \in DOMAIN regions, VirtualFree(b)
    PROVE  Inv'
<1> DEFINE gone == regions[b].committed
<1>1. /\ Mapped' = Mapped \ gone
      /\ \A p \in Mapped' : protection'[p] = protection[p]
      /\ DOMAIN regions' = DOMAIN regions \ {b}
      /\ \A c \in DOMAIN regions' : regions'[c] = regions[c]
      /\ UNCHANGED <<heapVars, nextRegion, threadVars, guestChanged>>
  BY DEF VirtualFree, Mapped
<1>2. \A c \in DOMAIN regions :
         /\ c \in HeapLimit..VirtualLimit /\ regions[c] \in [size: Nat \ {0}, committed: SUBSET Nat]
         /\ c + regions[c].size <= nextRegion
         /\ regions[c].committed = Run(c, regions[c].size) \cap Mapped
         /\ \A d \in DOMAIN regions : c < d => c + regions[c].size <= d
  BY DEF Inv, Regional, RegionsMatchMemory
<1>3. RegionsMatchMemory'
  <2>1. ASSUME NEW c \in DOMAIN regions, c # b
        PROVE  regions[c].committed = Run(c, regions[c].size) \cap Mapped'
    <3>1. Run(c, regions[c].size) \cap Run(b, regions[b].size) = {}
      BY <2>1, RegionsApart
    <3> QED BY <3>1, <1>1, <1>2
  <2> QED BY <1>1, <1>2, <2>1 DEF RegionsMatchMemory
<1>4. Regional'
  BY <1>1, <1>2, <1>3 DEF Regional, Inv
<1>5. Claimed'
  <2> DEFINE o == RegionOwner(b)
  <2>1. Claims(Owners, Mapped) /\ o \in Owners /\ o.pages = gone
    BY DEF Inv, Claimed, Owners, RegionOwner
  <2>2. Owners' \subseteq Owners \ {o}
    BY <1>1 DEF Owners, RegionOwner, Ticks, heapVars, threadVars
  <2> HIDE DEF o
  <2>3. Claims(Owners', Mapped \ gone)
    BY <2>1, <2>2, ClaimDropped
  <2> QED BY <1>1, <2>3 DEF Inv, Claimed
<1>6. \A p \in Arena \ guestChanged' : protection'[p] = protection[p]
  <2>1. gone \subseteq Run(b, regions[b].size)
    BY <1>2
  <2>2. Arena \subseteq Mapped /\ Arena \subseteq HeapBase..(HeapLimit - 1)
        /\ Run(b, regions[b].size) \subseteq HeapLimit..(nextRegion - 1) /\ HeapLimit \in Nat
    BY Layout
  <2>3. \A p \in Arena : p < HeapLimit /\ p \in Int
    BY <2>2
  <2>4. \A p \in Run(b, regions[b].size) : HeapLimit <= p /\ p \in Int
    BY <2>2
  <2>5. \A p \in Arena : p \notin gone
    <3> HIDE DEF gone
    <3> QED BY <2>1, <2>2, <2>3, <2>4
  <2> QED BY <1>1, <2>2, <2>5
<1> QED BY <1>1, <1>4, <1>5, <1>6, PagesChange DEF Inv, Counters, threadVars

(* Protecting changes no page's owner.                                      *)
LEMMA ProtectingIsSound ==
    ASSUME Inv, Ticks, NEW first \in HeapBase..VirtualLimit, NEW n \in PageRuns,
           NEW permissions \in Protections, VirtualProtect(first, n, permissions)
    PROVE  Inv'
<1>1. /\ permissions \in Permissions /\ protection' = MapPages(Run(first, n), permissions)
      /\ Run(first, n) \subseteq Mapped /\ guestChanged' = guestChanged \cup Run(first, n)
      /\ UNCHANGED <<heapVars, regionVars, threadVars>>
  BY LayoutAssumption DEF VirtualProtect
<1>2. Mapped \subseteq Nat
  BY DEF Inv, Claimed
<1>3. /\ Mapped' = Mapped
      /\ \A p \in Mapped : protection'[p] \in Permissions
      /\ \A p \in Mapped : protection'[p] =
            IF p \in Run(first, n) THEN permissions ELSE protection[p]
  <2>1. Run(first, n) \subseteq Nat
    BY <1>1, <1>2
  <2>2. /\ Mapped' = Mapped \cup Run(first, n)
        /\ \A p \in Mapped' : protection'[p] \in Permissions
        /\ \A p \in Mapped' : protection'[p] =
              IF p \in Run(first, n) THEN permissions ELSE protection[p]
    BY <1>1, <2>1, MapPagesFacts DEF Inv
  <2>3. Mapped' = Mapped
    BY <1>1, <2>2
  <2> QED BY <2>2, <2>3
<1>4. Owners' = Owners
  BY <1>1 DEF Owners, Ticks, heapVars, regionVars, threadVars
<1>5. Claimed'
  BY <1>3, <1>4 DEF Inv, Claimed
<1>6. Regional'
  BY <1>1, <1>3 DEF Inv, Regional, RegionsMatchMemory, regionVars
<1>7. \A p \in Arena \ guestChanged' : protection'[p] = protection[p]
  BY Layout, <1>1, <1>3
<1>8. guestChanged' \subseteq Nat
  BY <1>1, <1>2 DEF Inv, Counters
<1> QED BY <1>1, <1>5, <1>6, <1>7, <1>8, PagesChange DEF Inv, Counters, threadVars

(* Where CreateThread maps: outside the heaps and the regions, and only     *)
(* where nothing is mapped yet, however far it gets.                        *)
LEMMA WorkerFacts ==
    ASSUME NEW index \in Nat, NEW n \in Nat \ {0}
    PROVE  /\ MapWorker(index, n) \subseteq Nat /\ MapWorker(index, n) \cap Mapped = {}
           /\ MapWorker(index, n) \cap HeapBase..(VirtualLimit - 1) = {}
<1>1. /\ VirtualLimit \in Nat /\ StackBase \in Nat /\ TebBase \in Nat /\ WorkerStackPages \in Nat
      /\ WorkerTlsBase \in Nat /\ HeapBase \in Nat /\ WorkerStackPages > 0 /\ HeapBase < VirtualLimit
  BY LayoutAssumption
<1> DEFINE start == VirtualLimit + index * WorkerStackPages
<1>2. start \in Nat /\ VirtualLimit + index <= start
  <2> DEFINE k == index * WorkerStackPages
  <2>1. k \in Nat /\ index <= k
    BY <1>1
  <2> HIDE DEF k
  <2>2. VirtualLimit + k \in Nat /\ VirtualLimit + index <= VirtualLimit + k
    BY <1>1, <2>1
  <2> QED BY <2>2 DEF k
<1>3. StackFits(index, n) <=> start + n <= StackBase
  BY DEF StackFits
<1>4. StackOf(index, n) = Run(start, n)
  BY DEF StackOf
<1>5. CASE ~StackFits(index, n)
  BY <1>5 DEF MapWorker
<1>6. CASE StackFits(index, n)
  <2>1. index \in 0..(StackBase - VirtualLimit) /\ start < StackBase
    <3> HIDE DEF start
    <3> QED BY <1>1, <1>2, <1>3, <1>6
  <2>2. WorkerTlsBase + index < HeapBase /\ TebBase - (index + 1) >= VirtualLimit
    BY <2>1, WorkersAssumption
  <2> HIDE DEF start
  <2>3. StackOf(index, n) \subseteq Nat /\ StackOf(index, n) \cap HeapBase..(VirtualLimit - 1) = {}
    BY <1>1, <1>2, <1>4 DEF Run
  <2>4. /\ TebOf(index) \cup TlsOf(index) \subseteq Nat
        /\ (TebOf(index) \cup TlsOf(index)) \cap HeapBase..(VirtualLimit - 1) = {}
    BY <1>1, <2>2 DEF TebOf, TlsOf
  <2> QED BY <2>3, <2>4 DEF MapWorker
<1> QED BY <1>5, <1>6

LEMMA ThreadsAreSound ==
    ASSUME Inv, Ticks, NEW n \in PageRuns, CreateThread(n)
    PROVE  Inv'
<1> DEFINE made == MapWorker(nextWorker, n)
           w == [kind |-> "worker", id |-> nextWorker, pages |-> made]
<1>1. nextWorker \in Nat /\ n \in Nat \ {0} /\ READ_WRITE \in Permissions
  BY LayoutAssumption DEF Inv, Counters, READ_WRITE, Permissions
<1>2. made \subseteq Nat /\ made \cap Mapped = {} /\ made \cap HeapBase..(VirtualLimit - 1) = {}
  BY <1>1, WorkerFacts
<1>3. /\ nextWorker' = nextWorker + 1
      /\ protection' = MapPages(made, READ_WRITE)
      /\ workers' \subseteq workers \cup {[index |-> nextWorker, pages |-> made]}
      /\ UNCHANGED <<heapVars, regionVars, guestChanged>>
  BY DEF CreateThread
<1>4. w.pages = made /\ Owners' \subseteq Owners \cup {w}
  <2> HIDE DEF made
  <2> QED BY <1>3 DEF Owners, Ticks, heapVars, regionVars
<1> HIDE DEF made, w
<1>5. /\ Mapped' = Mapped \cup made /\ Mapped' \subseteq Nat
      /\ \A p \in Mapped' : protection'[p] \in Permissions
      /\ \A p \in Mapped' : protection'[p] = IF p \in made THEN READ_WRITE ELSE protection[p]
  BY <1>1, <1>2, <1>3, MapPagesFacts DEF Inv
<1>6. Claimed'
  <2>1. Claims(Owners', Mapped \cup made)
    BY <1>2, <1>4, ClaimAdded DEF Inv, Claimed
  <2> QED BY <1>5, <2>1 DEF Claimed
<1>7. /\ \A b \in DOMAIN regions : Run(b, regions[b].size) \cap made = {}
      /\ Arena \subseteq Mapped /\ Arena \cap made = {}
  <2>1. /\ Arena \subseteq Mapped
        /\ \A b \in DOMAIN regions : Run(b, regions[b].size) \subseteq HeapLimit..(nextRegion - 1)
        /\ nextRegion \in HeapLimit..VirtualLimit
        /\ HeapBase \in Nat /\ HeapLimit \in Nat /\ VirtualLimit \in Nat
    BY Layout
  <2>2. HeapLimit..(nextRegion - 1) \subseteq HeapBase..(VirtualLimit - 1)
    BY <2>1, LayoutAssumption
  <2> QED BY <1>2, <2>1, <2>2
<1>8. Regional'
  BY <1>3, <1>5, <1>7 DEF Inv, Regional, RegionsMatchMemory, regionVars
<1>9. \A p \in Arena \ guestChanged' : protection'[p] = protection[p]
  BY <1>5, <1>7
<1>10. nextWorker' \in Nat
  BY <1>1, <1>3
<1> QED BY <1>3, <1>6, <1>8, <1>9, <1>10, PagesChange DEF Inv, Counters

-----------------------------------------------------------------------------
(* Blocks.  The arena grows by the pages the new block reaches, and these   *)
(* and no others are mapped.                                                *)
LEMMA ArenaGrows ==
    ASSUME Inv, NEW size \in Nat, NEW executable, ArenaAllocate(size, executable)
    PROVE  /\ arena' \in [cursor: Nat, mappedEnd: HeapBase..HeapLimit]
           /\ arena'.cursor = arena.cursor + AllocationSize(size)
           /\ Arena' = Arena \cup NewPages(size) /\ NewPages(size) \subseteq HeapBase..(HeapLimit - 1)
           /\ NewPages(size) \cap Mapped = {} /\ NewPages(size) \cap Arena = {}
           /\ Mapped' = Mapped \cup NewPages(size)
           /\ \A p \in Mapped' : protection'[p] =
                 IF executable /\ p \in ExecutablePages(size) THEN ALL
                 ELSE IF p \in NewPages(size) THEN READ_WRITE
                 ELSE protection[p]
           /\ PagesOfBytes(arena.cursor, size) \subseteq Arena' \cap ExecutablePages(size)
<1> DEFINE top == arena.mappedEnd
           req == RequiredEnd(size)
<1>1. /\ HeapBase \in Nat /\ HeapLimit \in Nat /\ arena.cursor \in Nat
      /\ HeapBase * PageSize <= arena.cursor
      /\ arena.mappedEnd \in HeapBase..HeapLimit
  BY LayoutAssumption DEF Inv, Counters
<1>2. /\ ArenaEnd(size) <= HeapLimit * PageSize
      /\ NewPages(size) \cap Mapped = {}
      /\ arena' = [cursor |-> ArenaEnd(size),
                   mappedEnd |-> IF RequiredEnd(size) > arena.mappedEnd THEN RequiredEnd(size)
                                 ELSE arena.mappedEnd]
  BY DEF ArenaAllocate
<1>3. /\ Mapped' = Mapped \cup NewPages(size)
      /\ \A p \in Mapped' : protection'[p] =
            IF executable /\ p \in ExecutablePages(size) THEN ALL
            ELSE IF p \in NewPages(size) THEN READ_WRITE
            ELSE protection[p]
  BY DEF ArenaAllocate, Mapped
<1>4. /\ AllocationSize(size) \in Nat /\ size <= AllocationSize(size) /\ 1 <= AllocationSize(size)
      /\ ArenaEnd(size) = arena.cursor + AllocationSize(size)
      /\ req \in Nat /\ req <= HeapLimit
      /\ \A a \in Nat : a < ArenaEnd(size) => PageOf(a) < req
  BY <1>1, <1>2, ArenaFacts
<1>5. NewPages(size) = top..(req - 1) /\ ExecutablePages(size) = PageOf(arena.cursor)..(req - 1)
  BY DEF NewPages, ExecutablePages
<1>6. top \in HeapBase..HeapLimit /\ Arena = HeapBase..(top - 1)
  BY <1>1 DEF Arena
<1>7. Arena' = HeapBase..((IF req > top THEN req ELSE top) - 1)
  BY <1>2 DEF Arena
<1>8. arena' \in [cursor: Nat, mappedEnd: HeapBase..HeapLimit]
  <2>1. ArenaEnd(size) \in Nat
    BY <1>1, <1>4
  <2>2. (IF req > top THEN req ELSE top) \in HeapBase..HeapLimit
    <3> HIDE DEF req, top
    <3> QED BY <1>1, <1>4, <1>6
  <2> QED BY <1>2, <2>1, <2>2
<1>9. PagesOfBytes(arena.cursor, size) \subseteq (HeapBase..(req - 1)) \cap ExecutablePages(size)
  <2>1. CASE size = 0
    BY <2>1 DEF PagesOfBytes
  <2>2. CASE size # 0
    <3> DEFINE q == PageOf(arena.cursor)
               r == PageOf(arena.cursor + size - 1)
    <3>1. arena.cursor + size - 1 \in Nat /\ arena.cursor + size - 1 < ArenaEnd(size)
      BY <1>1, <1>4, <2>2
    <3>2. q \in Nat /\ HeapBase <= q
      BY <1>1, PageFacts
    <3>3. r \in Nat /\ r < req
      BY <1>4, <3>1, PageFacts
    <3>4. PagesOfBytes(arena.cursor, size) = q..r
      BY <2>2 DEF PagesOfBytes
    <3>5. ExecutablePages(size) = q..(req - 1)
      BY <1>5
    <3> HIDE DEF q, r, req
    <3> QED BY <1>1, <1>4, <3>2, <3>3, <3>4, <3>5
  <2> QED BY <2>1, <2>2
<1> HIDE DEF req, top
<1>10. /\ Arena' = Arena \cup NewPages(size) /\ NewPages(size) \subseteq HeapBase..(HeapLimit - 1)
       /\ NewPages(size) \cap Arena = {} /\ HeapBase..(req - 1) \subseteq Arena'
  BY <1>1, <1>4, <1>5, <1>6, <1>7
<1> QED BY <1>2, <1>3, <1>4, <1>8, <1>9, <1>10

(* The pages of a block that was there, and what is known of its place.     *)
LEMMA BlockFacts ==
    ASSUME Inv, NEW b \in allocations
    PROVE  /\ b.heap \in DOMAIN heaps /\ b.address \in Nat /\ b.size \in Nat
           /\ HeapBase * PageSize <= b.address
           /\ b.address + AllocationSize(b.size) <= arena.cursor /\ b.address < arena.cursor
           /\ \A a \in Bytes(b) : a < arena.cursor
           /\ PagesOfBytes(b.address, b.size) \subseteq Arena
<1>1. /\ b.heap \in DOMAIN heaps /\ b.address \in Nat /\ b.size \in Nat
      /\ HeapBase * PageSize <= b.address
      /\ b.address + AllocationSize(b.size) <= arena.cursor
      /\ PagesOfBytes(b.address, b.size) \subseteq Arena
  BY DEF Inv, Placed, Blocks
<1> DEFINE k == AllocationSize(b.size)
<1>2. k \in Nat /\ b.size <= k /\ 1 <= k /\ arena.cursor \in Nat /\ b.address + k <= arena.cursor
  BY <1>1, ArenaFacts DEF Inv, Counters
<1> HIDE DEF k
<1>3. b.address < arena.cursor
  BY <1>1, <1>2
<1>4. \A a \in Bytes(b) : a < arena.cursor
  BY <1>1, <1>2 DEF Bytes
<1> QED BY <1>1, <1>3, <1>4

(* The heap of the new block, without the block it replaces, has room for   *)
(* it; other heaps lose blocks at most.                                     *)
LEMMA MaximumKept ==
    ASSUME Inv, NEW h \in DOMAIN heaps, NEW size \in Nat, NEW kept \in SUBSET allocations,
           allocations' = Insert(h, arena.cursor, size, kept), heaps' = heaps,
           \/ heaps[h].maximum = 0
           \/ TotalSize({b \in kept : b.heap = h}) + size <= heaps[h].maximum
    PROVE  HeapsWithinMaximum'
<1> DEFINE new == [heap |-> h, address |-> arena.cursor, size |-> size]
           K == {b \in kept : b.heap = h}
<1>1. allocations' = kept \cup {new}
  BY DEF Insert
<1>2. new \notin K
  <2>1. arena.cursor \in Nat /\ \A b \in allocations : b.address \in Nat /\ b.address < arena.cursor
    BY BlockFacts DEF Inv, Counters
  <2>2. \A b \in kept : b.address # arena.cursor
    BY <2>1
  <2> QED BY <2>2
<1>3. new.heap = h /\ new.size = size
  OBVIOUS
<1> HIDE DEF new
<1>4. BlocksOf(h)' = K \cup {new} /\ (K \cup {new}) \ {new} = K
  BY <1>1, <1>2, <1>3 DEF BlocksOf
<1>5. IsFiniteSet(K \cup {new}) /\ \A b \in K \cup {new} : b.size \in Nat
  <2>1. IsFiniteSet(allocations) /\ \A b \in allocations : b.size \in Nat
    BY BlockFacts DEF Inv, Placed
  <2>2. IsFiniteSet(K)
    BY <2>1, FS_Subset
  <2> QED BY <1>3, <2>1, <2>2, FS_AddElement
<1>6. TotalSize(K \cup {new}) = size + TotalSize(K) /\ TotalSize(K) \in Nat
  <2> DEFINE U == K \cup {new}
  <2>1. IsFiniteSet(U) /\ (\A b \in U : b.size \in Nat) /\ new \in U /\ U \ {new} = K
    BY <1>4, <1>5
  <2> HIDE DEF U
  <2>2. TotalSize(U) = new.size + TotalSize(U \ {new}) /\ TotalSize(U \ {new}) \in Nat
    BY <2>1, TotalFacts
  <2> QED BY <1>3, <2>1, <2>2 DEF U
<1>7. heaps[h].maximum = 0 \/ LiveSize(h)' <= heaps[h].maximum
  <2>1. LiveSize(h)' = TotalSize(K \cup {new})
    BY <1>4 DEF LiveSize
  <2>2. heaps[h].maximum = 0 \/ TotalSize(K) + size <= heaps[h].maximum
    OBVIOUS
  <2> HIDE DEF K
  <2>3. size + TotalSize(K) = TotalSize(K) + size
    BY <1>6
  <2> QED BY <1>6, <2>1, <2>2, <2>3
<1>8. ASSUME NEW g \in DOMAIN heaps, g # h
      PROVE  heaps[g].maximum = 0 \/ LiveSize(g)' <= heaps[g].maximum
  <2>1. BlocksOf(g)' \in SUBSET BlocksOf(g)
    BY <1>1, <1>3, <1>8 DEF BlocksOf
  <2>2. LiveSize(g)' <= LiveSize(g) /\ LiveSize(g)' \in Nat /\ LiveSize(g) \in Nat
    BY <2>1, BlocksAreSound, TotalGrows DEF Inv, LiveSize
  <2>3. heaps[g].maximum = 0 \/ LiveSize(g) <= heaps[g].maximum
    BY DEF Inv, Placed, HeapsWithinMaximum
  <2> QED BY <2>2, <2>3 DEF Inv, Counters
<1> QED BY <1>7, <1>8 DEF HeapsWithinMaximum

(* The new block lies behind all that were ever given, in mapped pages.     *)
LEMMA BlockPlaced ==
    ASSUME Inv, Ticks, NEW h \in DOMAIN heaps, NEW size \in Nat, NEW kept \in SUBSET allocations,
           ArenaAllocate(size, heaps[h].executable),
           allocations' = Insert(h, arena.cursor, size, kept), heaps' = heaps,
           \/ heaps[h].maximum = 0
           \/ TotalSize({b \in kept : b.heap = h}) + size <= heaps[h].maximum
    PROVE  Placed'
<1> DEFINE new == [heap |-> h, address |-> arena.cursor, size |-> size]
           k == AllocationSize(size)
           s == IF size = 0 THEN 1 ELSE size
<1>1. /\ arena'.cursor = arena.cursor + k /\ Arena \subseteq Arena'
      /\ PagesOfBytes(arena.cursor, size) \subseteq Arena'
  BY ArenaGrows
<1>2. arena.cursor \in Nat /\ HeapBase * PageSize <= arena.cursor /\ DOMAIN heaps \subseteq Nat
  BY DEF Inv, Counters
<1>3. k \in Nat /\ 1 <= k
  BY <1>2, ArenaFacts
<1>4. allocations' = kept \cup {new}
  BY DEF Insert
<1>5. /\ new \in Blocks /\ new.heap = h /\ new.address = arena.cursor /\ new.size = size
      /\ Bytes(new) = arena.cursor..(arena.cursor + s - 1)
  BY <1>2 DEF Blocks, Bytes
<1>6. s \in Nat /\ 1 <= s
  OBVIOUS
<1> HIDE DEF new, s
<1>7. \A b \in kept :
         /\ b \in Blocks /\ b.heap \in DOMAIN heaps /\ b.address \in Nat /\ b.size \in Nat
         /\ HeapBase * PageSize <= b.address
         /\ b.address + AllocationSize(b.size) <= arena.cursor /\ b.address < arena.cursor
         /\ \A a \in Bytes(b) : a < arena.cursor
         /\ PagesOfBytes(b.address, b.size) \subseteq Arena
  BY BlockFacts DEF Inv, Placed
<1>8. allocations' \subseteq Blocks /\ IsFiniteSet(allocations')
  <2>1. IsFiniteSet(kept)
    BY FS_Subset DEF Inv, Placed
  <2> QED BY <1>4, <1>5, <1>7, <2>1, FS_AddElement
<1>9. ASSUME NEW b \in allocations'
      PROVE  /\ b.heap \in DOMAIN heaps'
             /\ HeapBase * PageSize <= b.address
             /\ b.address + AllocationSize(b.size) <= arena'.cursor
             /\ PagesOfBytes(b.address, b.size) \subseteq Arena'
  <2>1. CASE b = new
    <3>1. b.address + AllocationSize(b.size) = arena.cursor + k
      BY <2>1, <1>5
    <3>2. arena.cursor + k <= arena.cursor + k
      BY <1>2, <1>3
    <3> QED BY <2>1, <1>1, <1>2, <1>5, <3>1, <3>2
  <2>2. CASE b \in kept
    <3> DEFINE e == b.address + AllocationSize(b.size)
    <3>1. e \in Nat /\ e <= arena.cursor
      <4>1. AllocationSize(b.size) \in Nat
        BY <2>2, <1>2, <1>7, ArenaFacts
      <4> QED BY <2>2, <4>1, <1>7
    <3>2. e <= arena'.cursor
      <4> HIDE DEF e, k
      <4> QED BY <1>1, <1>2, <1>3, <3>1
    <3> QED BY <2>2, <1>1, <1>7, <3>2
  <2> QED BY <1>4, <2>1, <2>2
<1>10. \A a \in freed' : a \in Nat /\ a < arena'.cursor
  <2>1. \A a \in freed' : a \in Nat /\ a < arena.cursor
    <3>1. \A b \in allocations : b.address \in Nat /\ b.address < arena.cursor
      BY BlockFacts
    <3> QED BY <3>1 DEF Ticks, Inv, Placed
  <2> HIDE DEF k
  <2> QED BY <1>1, <1>2, <1>3, <2>1
<1>11. BlocksDisjoint'
  <2>1. \A a \in Bytes(new) : arena.cursor <= a /\ a \in Nat
    BY <1>2, <1>5, <1>6
  <2>2. \A b \in kept : Bytes(b) \subseteq Nat
    BY <1>7 DEF Bytes
  <2>3. \A b \in kept : Bytes(new) \cap Bytes(b) = {}
    BY <1>2, <1>7, <2>1, <2>2
  <2>4. \A b, c \in kept : b # c => Bytes(b) \cap Bytes(c) = {}
    BY DEF Inv, Placed, BlocksDisjoint
  <2> QED BY <1>4, <2>3, <2>4 DEF BlocksDisjoint
<1>12. FreedStaysFree'
  <2>1. \A a \in freed : a \in Nat /\ a < arena.cursor
    BY DEF Inv, Placed
  <2>2. \A b \in kept : b.address \notin freed
    BY DEF Inv, Placed, FreedStaysFree
  <2>3. \A b \in allocations' : b.address \notin freed
    BY <1>2, <1>4, <1>5, <2>1, <2>2
  <2> QED BY <2>3 DEF FreedStaysFree, Ticks
<1>13. HeapsWithinMaximum'
  BY MaximumKept
<1> QED BY <1>8, <1>9, <1>10, <1>11, <1>12, <1>13 DEF Placed

LEMMA BlockUsable ==
    ASSUME Inv, NEW h \in DOMAIN heaps, NEW size \in Nat, NEW kept \in SUBSET allocations,
           ArenaAllocate(size, heaps[h].executable),
           allocations' = Insert(h, arena.cursor, size, kept), heaps' = heaps,
           guestChanged' = guestChanged
    PROVE  Usable'
<1> DEFINE new == [heap |-> h, address |-> arena.cursor, size |-> size]
<1>1. /\ Arena' = Arena \cup NewPages(size) /\ NewPages(size) \cap Arena = {}
      /\ Mapped' = Mapped \cup NewPages(size)
      /\ \A p \in Mapped' : protection'[p] =
            IF heaps[h].executable /\ p \in ExecutablePages(size) THEN ALL
            ELSE IF p \in NewPages(size) THEN READ_WRITE
            ELSE protection[p]
      /\ PagesOfBytes(arena.cursor, size) \subseteq Arena' \cap ExecutablePages(size)
  BY ArenaGrows
<1>2. Arena \subseteq Mapped
  BY Layout
<1>3. \A p \in Arena' \ guestChanged' : protection'[p] \in {READ_WRITE, ALL}
  BY <1>1, <1>2 DEF Inv, Usable
<1>4. allocations' = kept \cup {new} /\ new.heap = h
      /\ PagesOfBytes(new.address, new.size) \subseteq Arena' \cap ExecutablePages(size)
  BY <1>1 DEF Insert
<1> HIDE DEF new
<1>5. \A b \in kept : /\ PagesOfBytes(b.address, b.size) \subseteq Arena
                      /\ heaps[b.heap].executable =>
                            \A p \in PagesOfBytes(b.address, b.size) \ guestChanged :
                                protection[p] = ALL
  BY BlockFacts DEF Inv, Usable
<1>6. ASSUME NEW b \in allocations', heaps[b.heap].executable,
             NEW p \in PagesOfBytes(b.address, b.size) \ guestChanged
      PROVE  protection'[p] = ALL
  <2>1. CASE b = new
    BY <2>1, <1>1, <1>2, <1>4, <1>6
  <2>2. CASE b \in kept
    BY <2>2, <1>1, <1>2, <1>5, <1>6
  <2> QED BY <1>4, <2>1, <2>2
<1> QED BY <1>3, <1>6 DEF Usable

(* What HeapAlloc, HeapReAlloc, LocalAlloc and GlobalAlloc have in common.  *)
LEMMA AllocationIsSound ==
    ASSUME Inv, Ticks, NEW h \in DOMAIN heaps, NEW size \in Nat, NEW kept \in SUBSET allocations,
           ArenaAllocate(size, heaps[h].executable),
           allocations' = Insert(h, arena.cursor, size, kept), heaps' = heaps,
           \/ heaps[h].maximum = 0
           \/ TotalSize({b \in kept : b.heap = h}) + size <= heaps[h].maximum,
           \A a \in DOMAIN globals' : globals'[a] \in Nat,
           UNCHANGED <<nextHeap, regionVars, threadVars, guestChanged>>
    PROVE  Inv'
<1> DEFINE N == NewPages(size)
<1>1. /\ arena' \in [cursor: Nat, mappedEnd: HeapBase..HeapLimit]
      /\ arena'.cursor = arena.cursor + AllocationSize(size)
      /\ Arena' = Arena \cup N /\ N \subseteq HeapBase..(HeapLimit - 1) /\ N \cap Mapped = {}
      /\ Mapped' = Mapped \cup N
      /\ \A p \in Mapped' : protection'[p] =
            IF heaps[h].executable /\ p \in ExecutablePages(size) THEN ALL
            ELSE IF p \in N THEN READ_WRITE
            ELSE protection[p]
  BY ArenaGrows
<1> HIDE DEF N
<1>2. Counters'
  <2> DEFINE k == AllocationSize(size)
             least == HeapBase * PageSize
  <2>1. arena.cursor \in Nat /\ least <= arena.cursor
    BY DEF Inv, Counters
  <2>2. k \in Nat
    BY <2>1, ArenaFacts
  <2>3. least \in Nat
    BY LayoutAssumption
  <2>4. least <= arena'.cursor
    <3> HIDE DEF k, least
    <3>1. least <= arena.cursor + k
      BY <2>1, <2>2, <2>3
    <3> QED BY <1>1, <3>1 DEF k
  <2>5. calls' \in 0..MaxCalls
    BY LayoutAssumption DEF Inv, Counters, Ticks
  <2> QED BY <1>1, <2>4, <2>5 DEF Inv, Counters, Ticks, threadVars
<1>3. Claimed'
  <2> DEFINE n == [kind |-> "arena", id |-> 0, pages |-> Arena \cup N]
  <2>1. Claims(Owners, Mapped) /\ ArenaOwner \in Owners
    BY DEF Inv, Claimed, Owners, ArenaOwner, Arena
  <2>2. n.pages = ArenaOwner.pages \cup N
    BY DEF ArenaOwner
  <2>3. Owners' \subseteq (Owners \ {ArenaOwner}) \cup {n}
    <3>1. HeapBase..(arena'.mappedEnd - 1) = Arena \cup N
      BY <1>1 DEF Arena
    <3>2. image' = image /\ regions' = regions /\ workers' = workers
      BY DEF Ticks, regionVars, threadVars
    <3> DEFINE others == {[kind |-> "start-up", id |-> 0, pages |-> StartupPages],
                          [kind |-> "image", id |-> 0, pages |-> image]}
                  \cup {[kind |-> "region", id |-> b, pages |-> regions[b].committed] :
                            b \in DOMAIN regions}
                  \cup {[kind |-> "worker", id |-> w.index, pages |-> w.pages] : w \in workers}
    <3>3. Owners' = others \cup {n}
      BY <3>1, <3>2 DEF Owners
    <3>4. others \subseteq Owners \ {ArenaOwner}
      BY DEF Owners, ArenaOwner
    <3> QED BY <3>3, <3>4
  <2> HIDE DEF n
  <2>4. Claims(Owners', Mapped \cup N)
    BY <1>1, <2>1, <2>2, <2>3, ClaimGrows
  <2>5. Mapped' \subseteq Nat
    BY <1>1, LayoutAssumption DEF Inv, Claimed
  <2>6. ALL \in Permissions /\ READ_WRITE \in Permissions
    BY DEF ALL, READ_WRITE, Permissions
  <2>7. \A p \in Mapped' : protection'[p] \in Permissions
    BY <1>1, <2>6 DEF Inv, Claimed
  <2> QED BY <1>1, <2>4, <2>5, <2>7 DEF Claimed
<1>4. Regional'
  <2>1. \A b \in DOMAIN regions : Run(b, regions[b].size) \cap N = {}
    <3>1. /\ HeapBase \in Nat /\ HeapLimit \in Nat
          /\ \A b \in DOMAIN regions : Run(b, regions[b].size) \subseteq HeapLimit..(nextRegion - 1)
      BY Layout
    <3>2. \A p \in N : p < HeapLimit /\ p \in Int
      BY <1>1, <3>1
    <3>3. \A b \in DOMAIN regions : \A p \in Run(b, regions[b].size) : HeapLimit <= p /\ p \in Int
      BY <3>1
    <3> QED BY <3>1, <3>2, <3>3
  <2> QED BY <1>1, <2>1 DEF Inv, Regional, RegionsMatchMemory, regionVars
<1>5. Placed'
  BY BlockPlaced
<1>6. Usable'
  BY BlockUsable
<1> QED BY <1>2, <1>3, <1>4, <1>5, <1>6 DEF Inv

LEMMA AllocatingIsSound ==
    ASSUME Inv, Ticks, NEW size \in BlockSizes
    PROVE  /\ \A h \in DOMAIN heaps : HeapAlloc(h, size) => Inv'
           /\ LocalAlloc(size) \/ GlobalAlloc(size) => Inv'
           /\ \A b \in allocations : HeapReAlloc(b.heap, b, size) => Inv'
<1>1. /\ size \in Nat /\ ProcessHeap \in DOMAIN heaps
      /\ \A h \in DOMAIN heaps : heaps[h].maximum \in Nat
      /\ \A a \in DOMAIN globals : globals[a] \in Nat
  BY LayoutAssumption DEF Inv, Counters
<1>2. ASSUME NEW h \in DOMAIN heaps, HeapAllocate(h, size)
      PROVE  \/ heaps[h].maximum = 0
             \/ TotalSize({b \in allocations : b.heap = h}) + size <= heaps[h].maximum
  <2>1. LiveSize(h) \in Nat /\ LiveSize(h) = TotalSize({b \in allocations : b.heap = h})
    BY BlocksAreSound DEF Inv, LiveSize, BlocksOf
  <2>2. LiveSize(h) - 0 + size = LiveSize(h) + size
    BY <1>1, <2>1
  <2> QED BY <1>2, <2>1, <2>2 DEF HeapAllocate, EnsureCapacity
<1>3. ASSUME NEW h \in DOMAIN heaps, HeapAlloc(h, size)
      PROVE  Inv'
  <2>1. /\ HeapAllocate(h, size) /\ ArenaAllocate(size, heaps[h].executable)
        /\ allocations' = Insert(h, arena.cursor, size, allocations)
        /\ UNCHANGED <<heaps, nextHeap, globals, regionVars, threadVars, guestChanged>>
    BY <1>3 DEF HeapAlloc, HeapAllocate
  <2> QED BY <1>1, <1>2, <2>1, AllocationIsSound
<1>4. ASSUME GlobalAlloc(size)
      PROVE  Inv'
  <2>1. /\ HeapAllocate(ProcessHeap, size)
        /\ ArenaAllocate(size, heaps[ProcessHeap].executable)
        /\ allocations' = Insert(ProcessHeap, arena.cursor, size, allocations)
        /\ UNCHANGED <<heaps, nextHeap, regionVars, threadVars, guestChanged>>
    BY <1>4 DEF GlobalAlloc, HeapAllocate
  <2>2. \A a \in DOMAIN globals' : globals'[a] \in Nat
    BY <1>1, <1>4 DEF GlobalAlloc
  <2> QED BY <1>1, <1>2, <2>1, <2>2, AllocationIsSound
<1>5. ASSUME NEW b \in allocations, HeapReAlloc(b.heap, b, size)
      PROVE  Inv'
  <2> DEFINE h == b.heap
             kept == allocations \ {b}
  <2>1. /\ EnsureCapacity(h, b.size, size) /\ ArenaAllocate(size, heaps[h].executable)
        /\ allocations' = Insert(h, arena.cursor, size, kept)
        /\ UNCHANGED <<heaps, nextHeap, globals, regionVars, threadVars, guestChanged>>
    BY <1>5 DEF HeapReAlloc
  <2>2. h \in DOMAIN heaps /\ b.size \in Nat
    BY BlockFacts
  <2>3. TotalSize(BlocksOf(h)) = b.size + TotalSize(BlocksOf(h) \ {b})
        /\ TotalSize(BlocksOf(h) \ {b}) \in Nat
    <3>1. IsFiniteSet(BlocksOf(h)) /\ (\A c \in BlocksOf(h) : c.size \in Nat) /\ b \in BlocksOf(h)
      BY BlocksAreSound DEF Inv, BlocksOf
    <3> QED BY <3>1, TotalFacts
  <2>4. BlocksOf(h) \ {b} = {c \in kept : c.heap = h}
    BY DEF BlocksOf
  <2>5. heaps[h].maximum = 0 \/ TotalSize({c \in kept : c.heap = h}) + size <= heaps[h].maximum
    <3> DEFINE k == b.size
               t == TotalSize(BlocksOf(h) \ {b})
    <3>1. k \in Nat /\ t \in Nat /\ LiveSize(h) = k + t
      BY <2>2, <2>3 DEF LiveSize
    <3>2. heaps[h].maximum = 0 \/ LiveSize(h) - k + size <= heaps[h].maximum
      BY <2>1 DEF EnsureCapacity
    <3> HIDE DEF k, t, h, kept
    <3>3. LiveSize(h) - k + size = t + size
      BY <1>1, <3>1
    <3> QED BY <2>4, <3>2, <3>3 DEF t
  <2> HIDE DEF h, kept
  <2>6. kept \in SUBSET allocations
    BY DEF kept
  <2> QED BY <1>1, <2>1, <2>2, <2>5, <2>6, AllocationIsSound
<1> QED BY <1>1, <1>3, <1>4, <1>5 DEF LocalAlloc

-----------------------------------------------------------------------------
LEMMA InitIsSound == Init => Inv
<1> SUFFICES ASSUME Init PROVE Inv
  OBVIOUS
<1>1. /\ HeapBase \in Nat /\ HeapLimit \in Nat /\ VirtualLimit \in Nat /\ PageSize \in Nat
      /\ HeaderSize \in Nat /\ HeapBase < HeapLimit /\ HeapLimit < VirtualLimit
      /\ StackBase \in Nat /\ StackPages \in Nat /\ TebBase \in Nat /\ MaxCalls \in Nat
      /\ ProcessData \subseteq Nat /\ HostModules \subseteq Nat /\ Images \subseteq SUBSET Nat
  BY LayoutAssumption
<1>2. image \in SUBSET Nat /\ image \cap StartupPages = {} /\ StartupPages \subseteq Nat
  BY <1>1 DEF Init, StartupPages
<1>3. /\ arena = [cursor |-> HeapBase * PageSize + HeaderSize, mappedEnd |-> HeapBase]
      /\ heaps = [h \in {ProcessHeap} |-> [maximum |-> 0, executable |-> FALSE]]
      /\ allocations = {} /\ nextHeap = 1 /\ DOMAIN globals = {} /\ DOMAIN regions = {}
      /\ nextRegion = HeapLimit /\ workers = {} /\ nextWorker = 0
      /\ guestChanged = {} /\ freed = {} /\ calls = 0
  BY DEF Init, ProcessHeap
<1>4. Arena = {}
  <2>1. HeapBase..(HeapBase - 1) = {}
    BY <1>1
  <2> QED BY <1>3, <2>1 DEF Arena
<1>5. Counters
  <2> DEFINE least == HeapBase * PageSize
  <2>1. least \in Nat
    BY <1>1
  <2>2. least + HeaderSize \in Nat /\ least <= least + HeaderSize
    <3> HIDE DEF least
    <3> QED BY <1>1, <2>1
  <2>3. arena.cursor = least + HeaderSize /\ arena.mappedEnd = HeapBase
        /\ arena \in [cursor: Nat, mappedEnd: HeapBase..HeapLimit]
    BY <1>1, <1>3, <2>2
  <2> HIDE DEF least
  <2>4. least <= arena.cursor
    BY <2>2, <2>3
  <2> QED BY <1>1, <1>2, <1>3, <2>3, <2>4 DEF Counters, least, ProcessHeap
<1>6. Claimed
  <2>1. Mapped = image \cup StartupPages /\ \A p \in Mapped : protection[p] \in {READ, READ_WRITE}
    BY DEF Init, Mapped
  <2>2. READ \in Permissions /\ READ_WRITE \in Permissions
    BY DEF READ, READ_WRITE, Permissions
  <2>3. Owners = {[kind |-> "start-up", id |-> 0, pages |-> StartupPages],
                  [kind |-> "image", id |-> 0, pages |-> image],
                  [kind |-> "arena", id |-> 0, pages |-> {}]}
    BY <1>3, <1>4 DEF Owners, Arena
  <2>4. Claims(Owners, Mapped)
    <3> DEFINE o == [kind |-> "start-up", id |-> 0, pages |-> StartupPages]
               q == [kind |-> "image", id |-> 0, pages |-> image]
               r == [kind |-> "arena", id |-> 0, pages |-> {}]
    <3>1. Owners = {o, q, r} /\ o.pages = StartupPages /\ q.pages = image /\ r.pages = {}
      BY <2>3
    <3> HIDE DEF o, q, r
    <3> QED BY <1>2, <2>1, <3>1 DEF Claims
  <2> QED BY <1>2, <2>1, <2>2, <2>4 DEF Claimed
<1>7. Regional
  BY <1>1, <1>3 DEF Regional, RegionsMatchMemory
<1>8. Placed
  <2>1. HeapsWithinMaximum
    BY <1>3 DEF HeapsWithinMaximum
  <2> QED BY <1>3, <2>1, FS_EmptySet DEF Placed, BlocksDisjoint, FreedStaysFree
<1>9. Usable
  BY <1>3, <1>4 DEF Usable
<1> QED BY <1>5, <1>6, <1>7, <1>8, <1>9 DEF Inv

LEMMA NextIsSound == Inv /\ [Next]_vars => Inv'
<1> SUFFICES ASSUME Inv, [Next]_vars PROVE Inv'
  OBVIOUS
<1>1. CASE Next
  <2>1. Ticks
    BY <1>1 DEF Next, Ticks
  <2>2. CASE HeapCall
    BY <2>1, <2>2, FreeingIsSound, AllocatingIsSound DEF HeapCall, LocalFree
  <2>3. CASE GlobalCall
    BY <2>1, <2>3, FreeingIsSound, AllocatingIsSound DEF GlobalCall
  <2>4. CASE VirtualCall
    <3>1. CASE \/ \E n \in PageRuns : VirtualReserve(n)
               \/ \E n \in PageRuns, permissions \in Protections : VirtualAlloc(n, permissions)
      <4>1. ASSUME NEW n \in PageRuns, VirtualReserve(n)
            PROVE  Inv'
        <5>1. ALL \in Permissions
          BY DEF ALL, Permissions
        <5> QED BY <2>1, <4>1, <5>1, NewRegionsAreSound
      <4> QED BY <2>1, <3>1, <4>1, NewRegionsAreSound, LayoutAssumption
    <3>2. CASE \E b \in DOMAIN regions, first \in HeapLimit..VirtualLimit, n \in PageRuns,
                  permissions \in Protections : VirtualCommit(b, first, n, permissions)
      BY <2>1, <3>2, CommittingIsSound
    <3>3. CASE \E b \in DOMAIN regions : VirtualFree(b)
      BY <2>1, <3>3, ReleasingIsSound
    <3>4. CASE \E first \in HeapBase..VirtualLimit, n \in PageRuns,
                  permissions \in Protections : VirtualProtect(first, n, permissions)
      BY <2>1, <3>4, ProtectingIsSound
    <3> QED BY <2>4, <3>1, <3>2, <3>3, <3>4 DEF VirtualCall
  <2>5. CASE ThreadCall
    BY <2>1, <2>5, ThreadsAreSound DEF ThreadCall
  <2> QED BY <1>1, <2>2, <2>3, <2>4, <2>5 DEF Next
<1>2. CASE UNCHANGED vars
  <2>1. Counters' /\ Claimed' /\ Regional'
    BY <1>2 DEF Inv, Counters, Claimed, Owners, Mapped, Regional, RegionsMatchMemory, vars,
                heapVars, regionVars, threadVars
  <2>2. Arena' = Arena /\ HeapsWithinMaximum'
    BY <1>2 DEF Arena, Inv, Placed, HeapsWithinMaximum, LiveSize, BlocksOf, vars, heapVars
  <2>3. Placed' /\ Usable'
    BY <1>2, <2>2 DEF Inv, Placed, Usable, BlocksDisjoint, FreedStaysFree, vars, heapVars
  <2> QED BY <2>1, <2>3 DEF Inv
<1> QED BY <1>1, <1>2

LEMMA InvHolds == Spec => []Inv
BY InitIsSound, NextIsSound, PTL DEF Spec

(* Every variable has its type in every reachable state.                    *)
THEOREM TypeCorrect == Spec => []TypeOK
<1>1. ASSUME Inv PROVE TypeOK
  <2>1. Mapped \subseteq Nat /\ \A p \in Mapped : protection[p] \in Permissions
    BY <1>1 DEF Inv, Claimed
  <2>2. arena \in [cursor: Nat, mappedEnd: Nat]
    <3>1. HeapBase..HeapLimit \subseteq Nat /\ arena \in [cursor: Nat, mappedEnd: HeapBase..HeapLimit]
      BY <1>1, LayoutAssumption DEF Inv, Counters
    <3> QED BY <3>1
  <2>3. allocations \subseteq Blocks /\ freed \subseteq Nat /\ nextRegion \in HeapLimit..VirtualLimit
    BY <1>1 DEF Inv, Placed, Regional
  <2> QED BY <1>1, <2>1, <2>2, <2>3 DEF Inv, Counters, TypeOK
<1> QED BY <1>1, InvHolds, PTL

(* Every page in use has one owner and is mapped; the tables of the regions *)
(* agree with what is mapped, so VirtualFree never stops halfway.           *)
THEOREM PagesStayAccountedFor == Spec => []PagesAccountedFor
<1>1. ASSUME Inv PROVE PagesAccountedFor
  BY <1>1 DEF Inv, Claimed, Claims, Regional, Placed, Arena, PagesAccountedFor, PagesHaveOneOwner
<1> QED BY <1>1, InvHolds, PTL

(* Blocks share no byte, are never given twice, can be used as their heap   *)
(* promises, and stay within its maximum.                                   *)
THEOREM BlocksStayApart == Spec => []BlocksKeepApart
<1>1. ASSUME Inv, NEW b \in allocations, PagesOfBytes(b.address, b.size) \cap guestChanged = {}
      PROVE  /\ IsMemoryWritable(b.address, b.size) /\ IsMemoryReadable(b.address, b.size)
             /\ b.size > 0 /\ heaps[b.heap].executable =>
                   \A a \in Bytes(b) : IsMemoryExecutable(a)
  <2> DEFINE pages == PagesOfBytes(b.address, b.size)
  <2>1. pages \subseteq Arena \ guestChanged /\ Arena \subseteq Mapped
    BY <1>1, BlockFacts, Layout
  <2>2. \A p \in pages : p \in Mapped /\ protection[p] \in {READ_WRITE, ALL}
    BY <1>1, <2>1 DEF Inv, Usable
  <2>3. IsMemoryWritable(b.address, b.size) /\ IsMemoryReadable(b.address, b.size)
    BY <2>2 DEF IsMemoryWritable, IsMemoryReadable, READ_WRITE, ALL
  <2>4. ASSUME b.size > 0, heaps[b.heap].executable, NEW a \in Bytes(b)
        PROVE  IsMemoryExecutable(a)
    <3> DEFINE x == b.address
               k == b.size
    <3>1. x \in Nat /\ k \in Nat /\ a \in x..(x + k - 1) /\ pages = PageOf(x)..PageOf(x + k - 1)
      BY <1>1, <2>4, BlockFacts DEF Bytes, PagesOfBytes
    <3> HIDE DEF x, k, pages
    <3>2. a \in Nat /\ x + k - 1 \in Nat /\ x <= a /\ a <= x + k - 1
      BY <3>1
    <3>3. /\ PageOf(x) <= PageOf(a) /\ PageOf(a) <= PageOf(x + k - 1)
          /\ PageOf(x) \in Nat /\ PageOf(a) \in Nat /\ PageOf(x + k - 1) \in Nat
      BY <3>1, <3>2, PageMonotone, PageFacts
    <3>4. PageOf(a) \in pages
      BY <3>1, <3>3
    <3>5. protection[PageOf(a)] = ALL
      BY <1>1, <2>1, <2>4, <3>4 DEF Inv, Usable, pages
    <3> QED BY <2>2, <3>4, <3>5 DEF IsMemoryExecutable, ALL
  <2> QED BY <2>3, <2>4
<1>2. ASSUME Inv PROVE BlocksKeepApart
  BY <1>1, <1>2 DEF Inv, Placed, BlocksKeepApart, BlocksAreUsable
<1> QED BY <1>2, InvHolds, PTL
=============================================================================
