--------------------------- MODULE ServicesProofs -----------------------------
(***************************************************************************)
(* Proofs about what the host does when the guest calls it, for any         *)
(* instance of it: the objects of Direct3D 9 are counted as they are        *)
(* referred to and the GPU shows what was unlocked last; files and searches *)
(* implement FileContract; a call fills the guest's buffer as it says; and  *)
(* mmioDescend finds the chunks of a RIFF file.                             *)
(***************************************************************************)
EXTENDS Services, FiniteSetTheorems, SequenceTheorems, WellFoundedInduction, TLAPS

-----------------------------------------------------------------------------
(* Induction.  A property of numbers is the set T of those that have it.    *)
LEMMA LeastNumber ==
    ASSUME NEW T, T \subseteq Nat, T # {}
    PROVE  \E n \in T : \A m \in T : n <= m
<1>1. PICK n \in T : \A m \in T : <<m, n>> \notin OpToRel(<, Nat)
  BY NatLessThanWellFounded, WFMin
<1>2. \A m \in T : ~(m < n)
  BY <1>1 DEF OpToRel
<1> QED BY <1>2

LEMMA SetInduction ==
    ASSUME NEW T, 0 \in T, \A n \in Nat : n \in T => n + 1 \in T
    PROVE  Nat \subseteq T
<1> SUFFICES ASSUME Nat \ T # {} PROVE FALSE
  OBVIOUS
<1>1. PICK n \in Nat \ T : \A m \in Nat \ T : n <= m
  BY LeastNumber
<1>2. n # 0 /\ n - 1 \in Nat /\ n - 1 \in T
  BY <1>1
<1> QED BY <1>1, <1>2

-----------------------------------------------------------------------------
(* An instance counts with its own operator.                                *)
LEMMA CountIs ==
    ASSUME NEW S
    PROVE  D3d!Cardinality(S) = Cardinality(S)
BY DEF D3d!Cardinality, Cardinality

(* Objects and textures are numbered from 1 up.                             *)
Numbered(f) ==
    /\ Cardinality(DOMAIN f) \in Nat
    /\ DOMAIN f = 1..Cardinality(DOMAIN f)

LEMMA NothingIsNumbered ==
    ASSUME NEW f, DOMAIN f = {}
    PROVE  Numbered(f)
BY FS_EmptySet DEF Numbered

LEMMA OneMore ==
    ASSUME NEW n \in Nat \ {0}
    PROVE  n \notin 1..(n - 1) /\ 1..(n - 1) \cup {n} = 1..n
OBVIOUS

Lengthened(g, f, n, v) ==
    /\ Numbered(g) /\ Cardinality(DOMAIN g) = n /\ n \notin DOMAIN f
    /\ DOMAIN g = DOMAIN f \cup {n} /\ DOMAIN g = 1..n
    /\ g[n] = v /\ \A x \in DOMAIN f : g[x] = f[x]

LEMMA OneMoreIsNumbered ==
    ASSUME NEW f, Numbered(f), NEW v, NEW n, n = Cardinality(DOMAIN f) + 1,
           NEW g, g = D3d!Put(f, n, v)
    PROVE  Lengthened(g, f, n, v)
<1>1. n \in Nat \ {0} /\ DOMAIN f = 1..(n - 1)
  BY DEF Numbered
<1>2. DOMAIN g = DOMAIN f \cup {n} /\ g[n] = v
  BY DEF D3d!Put
<1>3. n \notin DOMAIN f /\ DOMAIN g = 1..n
  BY <1>1, <1>2, OneMore
<1>4. \A x \in DOMAIN f : g[x] = f[x]
  BY <1>3 DEF D3d!Put
<1>5. Cardinality(1..n) = n
  BY <1>1, FS_Interval
<1>6. Cardinality(DOMAIN g) = n /\ Numbered(g)
  BY <1>1, <1>3, <1>5 DEF Numbered
<1> QED BY <1>2, <1>3, <1>4, <1>6 DEF Lengthened

-----------------------------------------------------------------------------
(* Direct3D9.                                                               *)
Kinds == D3d!Resources \cup {"d3d9", "device"}
Objects ==
    [kind : Kinds, count : 0..MaxWord, parent : Nat, width : 0..MaxWord, height : 0..MaxWord,
     pitch : 0..MaxWord, bytes : 0..MaxWord, gpuLow : Nat, gpuHigh : Nat]

(* Every object is older than those made from it.                           *)
Grown ==
    /\ Numbered(objects) /\ objects \in [D3d!Ids -> Objects] /\ D3d!NextId <= MaxObjects + 1
    /\ held \in [D3d!Ids -> 0..MaxReferences] /\ bits \in [D3d!Ids -> Nat]
    /\ \A o \in D3d!Ids :
          /\ objects[o].parent < o
          /\ objects[o].kind # "d3d9" => objects[o].parent \in D3d!Ids
          /\ objects[o].kind \in {"vertex buffer", "index buffer"} =>
                objects[o].width \in 1..MaxAllocation

(* The textures on the GPU, each with an id of its own.                     *)
OnGpu(o) == o \in D3d!Ids /\ objects[o].kind = "texture" /\ hasGpu
Shown ==
    /\ hasGpu \in BOOLEAN
    /\ Numbered(textures) /\ textures \in [DOMAIN textures -> [length : Nat, contents : Int]]
    /\ \A o \in D3d!Ids : OnGpu(o) =>
          /\ D3d!GpuTexture(o) \in DOMAIN textures
          /\ textures[D3d!GpuTexture(o)] = [length |-> objects[o].bytes, contents |-> unlocked[o]]
          /\ objects[o].bytes # 0
          /\ o \in DOMAIN unlocked
    /\ \A o \in D3d!Ids : ~OnGpu(o) => D3d!GpuTexture(o) = 0
    /\ \A o, p \in D3d!Ids : (OnGpu(o) /\ OnGpu(p) /\ D3d!GpuTexture(o) = D3d!GpuTexture(p)) => o = p

Locked == lock \in [first : Nat, size : Nat, length : Nat] /\ D3d!LockStaysInside

Inv == Grown /\ D3d!CountsAddUp /\ Shown /\ Locked

-----------------------------------------------------------------------------
LEMMA IdsAre ==
    ASSUME Grown
    PROVE  /\ D3d!NextId \in Nat \ {0} /\ D3d!Ids = 1..(D3d!NextId - 1) /\ 0 \notin D3d!Ids
                /\ D3d!NextId \notin D3d!Ids
           /\ \A o \in D3d!Ids : /\ o \in Nat /\ o < D3d!NextId /\ objects[o] \in Objects
                                 /\ objects[o].parent \in Nat /\ objects[o].parent < o
<1> DEFINE n == Cardinality(D3d!Ids)
<1>1. n \in Nat /\ D3d!Ids = 1..n
  BY DEF Grown, Numbered, D3d!Ids
<1>2. D3d!NextId = n + 1
  BY CountIs DEF D3d!NextId
<1> HIDE DEF n
<1>3. D3d!NextId - 1 = n /\ D3d!NextId \in Nat \ {0}
  BY <1>1, <1>2
<1>4. \A o \in D3d!Ids : objects[o] \in Objects /\ objects[o].parent < o
  BY DEF Grown
<1>5. \A o \in D3d!Ids : objects[o].parent \in Nat
  BY <1>4 DEF Objects
<1> QED BY <1>1, <1>2, <1>3, <1>4, <1>5

(* Children are objects, and no more than there are.                        *)
LEMMA ChildrenCounted ==
    ASSUME Grown, NEW o
    PROVE  /\ IsFiniteSet(D3d!Ids) /\ IsFiniteSet(D3d!Children(o))
           /\ Cardinality(D3d!Children(o)) \in 0..(D3d!NextId - 1) /\ D3d!NextId \in Nat \ {0}
<1>1. Cardinality(D3d!Ids) \in Nat /\ D3d!Ids = 1..Cardinality(D3d!Ids)
  BY DEF Grown, Numbered
<1>2. IsFiniteSet(D3d!Ids)
  BY <1>1, FS_Interval
<1>3. D3d!Children(o) \in SUBSET D3d!Ids
  BY DEF D3d!Children
<1>4. IsFiniteSet(D3d!Children(o)) /\ Cardinality(D3d!Children(o)) <= Cardinality(D3d!Ids)
  BY <1>2, <1>3, FS_Subset
<1> QED BY CountIs, <1>1, <1>2, <1>4, FS_CardinalityType DEF D3d!NextId

(* A count that changes with the references changes nothing else.           *)
LEMMA CountMoves ==
    ASSUME D3d!Direct3DAssumption, Grown, D3d!CountsAddUp, Shown,
           NEW o \in D3d!Ids, NEW n \in 0..MaxWord, NEW m \in 0..MaxReferences,
           n - objects[o].count = m - held[o],
           objects' = [objects EXCEPT ![o].count = n], held' = [held EXCEPT ![o] = m],
           UNCHANGED <<bits, hasGpu, textures, unlocked>>
    PROVE  Grown' /\ D3d!CountsAddUp' /\ Shown'
<1>1. D3d!Ids' = D3d!Ids
  BY DEF D3d!Ids
<1>2. \A x \in D3d!Ids : /\ objects[x] \in Objects
                         /\ objects'[x] = IF x = o THEN [objects[o] EXCEPT !.count = n] ELSE objects[x]
                         /\ held'[x] = IF x = o THEN m ELSE held[x]
  BY DEF Grown, D3d!Ids
<1> DEFINE Recounted(x, c) ==
             /\ objects'[x] \in Objects /\ objects'[x].kind = objects[x].kind
             /\ objects'[x].parent = objects[x].parent
             /\ objects'[x].width = objects[x].width /\ objects'[x].bytes = objects[x].bytes
             /\ objects'[x].gpuLow = objects[x].gpuLow
             /\ objects'[x].gpuHigh = objects[x].gpuHigh
             /\ objects'[x].count = c
<1>3. \A x \in D3d!Ids : Recounted(x, IF x = o THEN n ELSE objects[x].count)
  <2>1. Recounted(o, n)
    BY <1>2 DEF Objects
  <2>2. ASSUME NEW x \in D3d!Ids, x # o PROVE Recounted(x, objects[x].count)
    BY <1>2, <2>2 DEF Objects
  <2> HIDE DEF Recounted
  <2> QED BY <2>1, <2>2
<1>4. Grown'
  <2>1. objects' \in [D3d!Ids -> Objects]
    BY <1>3, <1>1 DEF D3d!Ids
  <2>2. Numbered(objects') /\ D3d!NextId' <= MaxObjects + 1
    BY CountIs, <1>1 DEF Grown, Numbered, D3d!Ids, D3d!NextId
  <2>3. held' \in [D3d!Ids -> 0..MaxReferences] /\ bits' \in [D3d!Ids -> Nat]
    BY DEF Grown
  <2>4. \A x \in D3d!Ids' :
            /\ objects'[x].parent < x
            /\ objects'[x].kind # "d3d9" => objects'[x].parent \in D3d!Ids'
            /\ objects'[x].kind \in {"vertex buffer", "index buffer"} =>
                  objects'[x].width \in 1..MaxAllocation
    <3> SUFFICES ASSUME NEW x \in D3d!Ids
                 PROVE  /\ objects'[x].parent < x
                        /\ objects'[x].kind # "d3d9" => objects'[x].parent \in D3d!Ids
                        /\ objects'[x].kind \in {"vertex buffer", "index buffer"} =>
                              objects'[x].width \in 1..MaxAllocation
      BY <1>1
    <3>1. /\ objects'[x].kind = objects[x].kind /\ objects'[x].parent = objects[x].parent
          /\ objects'[x].width = objects[x].width
      BY <1>3
    <3>2. /\ objects[x].parent < x
          /\ objects[x].kind # "d3d9" => objects[x].parent \in D3d!Ids
          /\ objects[x].kind \in {"vertex buffer", "index buffer"} =>
                objects[x].width \in 1..MaxAllocation
      BY DEF Grown
    <3> QED BY <3>1, <3>2
  <2> QED BY <1>1, <2>1, <2>2, <2>3, <2>4 DEF Grown
<1>5. \A x \in D3d!Ids : D3d!Children(x)' = D3d!Children(x)
  BY <1>1, <1>3 DEF D3d!Children
<1>6. D3d!CountsAddUp'
  <2> SUFFICES ASSUME NEW x \in D3d!Ids
               PROVE  objects'[x].count = held'[x] + Cardinality(D3d!Children(x))
    BY CountIs, <1>1, <1>5 DEF D3d!CountsAddUp, D3d!Children
  <2>1. objects[x].count = held[x] + Cardinality(D3d!Children(x))
    BY CountIs DEF D3d!CountsAddUp
  <2>2. Cardinality(D3d!Children(x)) \in Nat
    BY ChildrenCounted
  <2>3. held[x] \in Nat /\ objects[x].count \in Nat
    <3>1. objects[x] \in Objects /\ held[x] \in 0..MaxReferences
      BY <1>2 DEF Grown
    <3> QED BY <3>1 DEF Objects
  <2> QED BY <1>2, <1>3, <2>1, <2>2, <2>3 DEF D3d!Direct3DAssumption
<1>7. Shown'
  <2>1. \A x \in D3d!Ids : D3d!GpuTexture(x)' = D3d!GpuTexture(x) /\ OnGpu(x)' = OnGpu(x)
    BY <1>1, <1>3 DEF D3d!GpuTexture, OnGpu
  <2>2. \A x \in D3d!Ids' : D3d!GpuTexture(x)' = D3d!GpuTexture(x) /\ OnGpu(x)' = OnGpu(x)
          /\ objects'[x].bytes = objects[x].bytes
    BY <1>1, <1>3, <2>1
  <2> QED BY <1>1, <2>2 DEF Shown
<1> QED BY <1>4, <1>6, <1>7

-----------------------------------------------------------------------------
(* A new object.                                                            *)
Refers(object) == object.kind \notin {"d3d9", "surface"}
Adds(object) ==
    /\ D3d!NextId <= MaxObjects
    /\ objects' = D3d!Put(IF Refers(object) THEN D3d!AddRefTo(object.parent, objects) ELSE objects,
                      D3d!NextId, object)
    /\ bits' = D3d!Put(bits, D3d!NextId, 0)
    /\ held' = D3d!Put(held, D3d!NextId, 1)

(* What an object must be like to come next.                                *)
Fitting(object) ==
    /\ object \in Objects /\ object.count = 1
    /\ IF object.kind = "d3d9" THEN object.parent = 0 ELSE object.parent \in D3d!Ids
    /\ object.kind \in {"vertex buffer", "index buffer"} => object.width \in 1..MaxAllocation

(* The words that Direct3D9 never changes.                                  *)
Alike(a, b) ==
    /\ a.kind = b.kind /\ a.parent = b.parent
    /\ a.width = b.width /\ a.bytes = b.bytes /\ a.gpuLow = b.gpuLow /\ a.gpuHigh = b.gpuHigh

LEMMA CountsFit ==
    ASSUME D3d!Direct3DAssumption, Grown, D3d!CountsAddUp, NEW o \in D3d!Ids
    PROVE  /\ objects[o].count \in Nat /\ held[o] \in 0..MaxReferences
           /\ objects[o].count = held[o] + Cardinality(D3d!Children(o))
           /\ objects[o].count <= held[o] + D3d!NextId - 1
<1>1. objects[o] \in Objects /\ held[o] \in 0..MaxReferences
  BY DEF Grown
<1>2. objects[o].count \in 0..MaxWord
  BY <1>1 DEF Objects
<1>3. objects[o].count = held[o] + Cardinality(D3d!Children(o))
  BY CountIs DEF D3d!CountsAddUp
<1>4. Cardinality(D3d!Children(o)) \in 0..(D3d!NextId - 1) /\ D3d!NextId \in Nat
  BY ChildrenCounted
<1> QED BY <1>1, <1>2, <1>3, <1>4 DEF D3d!Direct3DAssumption

LEMMA ObjectAdded ==
    ASSUME D3d!Direct3DAssumption, Grown, D3d!CountsAddUp, NEW object, Fitting(object), Adds(object)
    PROVE  /\ Grown' /\ D3d!Ids' = D3d!Ids \cup {D3d!NextId} /\ D3d!NextId \notin D3d!Ids
           /\ objects'[D3d!NextId] = object
           /\ \A x \in D3d!Ids : /\ objects[x] \in Objects /\ objects'[x] \in Objects
                                 /\ Alike(objects'[x], objects[x])
                                 /\ objects'[x].count = IF Refers(object) /\ x = object.parent
                                                        THEN objects[x].count + 1 ELSE objects[x].count
                                 /\ held'[x] = held[x]
           /\ held'[D3d!NextId] = 1
<1> DEFINE table == IF Refers(object) THEN D3d!AddRefTo(object.parent, objects) ELSE objects
<1>1. Numbered(objects) /\ DOMAIN held = D3d!Ids /\ DOMAIN bits = D3d!Ids
        /\ D3d!Ids = 1..(D3d!NextId - 1)
      /\ D3d!NextId \in Nat \ {0}
  BY IdsAre DEF Grown
<1>2. DOMAIN table = D3d!Ids
  BY DEF D3d!AddRefTo, D3d!Ids
<1>3. Numbered(table) /\ D3d!NextId = Cardinality(DOMAIN table) + 1
  BY CountIs, <1>1, <1>2 DEF Numbered, D3d!NextId, D3d!Ids
<1>4. /\ D3d!Ids' = D3d!Ids \cup {D3d!NextId} /\ D3d!Ids' = 1..D3d!NextId
           /\ D3d!NextId \notin D3d!Ids /\ Numbered(objects')
      /\ objects'[D3d!NextId] = object /\ \A x \in D3d!Ids : objects'[x] = table[x]
      /\ Cardinality(D3d!Ids') = D3d!NextId
  <2> HIDE DEF table
  <2>1. objects' = D3d!Put(table, D3d!NextId, object)
    BY DEF Adds, table
  <2>2. /\ Numbered(objects') /\ D3d!NextId \notin DOMAIN table
        /\ DOMAIN objects' = DOMAIN table \cup {D3d!NextId} /\ DOMAIN objects' = 1..D3d!NextId
        /\ objects'[D3d!NextId] = object /\ \A x \in DOMAIN table : objects'[x] = table[x]
        /\ Cardinality(DOMAIN objects') = D3d!NextId
    <3> DEFINE more == objects'
    <3>1. more = D3d!Put(table, D3d!NextId, object)
      BY <2>1
    <3> HIDE DEF more
    <3>2. Lengthened(more, table, D3d!NextId, object)
      BY <1>3, <3>1, OneMoreIsNumbered
    <3> QED BY <3>2 DEF more, Lengthened
  <2>3. D3d!Ids' = DOMAIN objects'
    BY DEF D3d!Ids
  <2> QED BY <1>2, <2>2, <2>3
<1>5. \A x \in D3d!Ids : held'[x] = held[x] /\ bits'[x] = bits[x]
  BY <1>1, <1>4 DEF Adds, D3d!Put
<1>6. /\ DOMAIN held' = D3d!Ids' /\ held'[D3d!NextId] = 1
      /\ DOMAIN bits' = D3d!Ids' /\ bits'[D3d!NextId] = 0
  BY <1>1, <1>4 DEF Adds, D3d!Put
<1>7. ASSUME NEW x \in D3d!Ids
      PROVE  /\ objects[x] \in Objects /\ objects'[x] \in Objects
             /\ Alike(objects'[x], objects[x])
             /\ objects'[x].count = IF Refers(object) /\ x = object.parent
                                    THEN objects[x].count + 1 ELSE objects[x].count
  <2>1. objects[x] \in Objects
    BY DEF Grown
  <2>2. CASE ~(Refers(object) /\ x = object.parent)
    <3>1. table[x] = objects[x]
      BY <2>2 DEF D3d!AddRefTo, D3d!Ids
    <3> QED BY <1>4, <2>1, <2>2, <3>1 DEF Alike
  <2>3. CASE Refers(object) /\ x = object.parent
    <3>1. table[x] = [objects[x] EXCEPT !.count = D3d!Least(objects[x].count + 1, MaxWord)]
      BY <2>3 DEF D3d!AddRefTo, D3d!Ids
    <3>2. /\ objects[x].count \in Nat /\ held[x] \in 0..MaxReferences
          /\ objects[x].count <= held[x] + D3d!NextId - 1
      BY CountsFit
    <3>3. objects[x].count + 1 <= MaxWord
      BY <1>1, <3>2 DEF Adds, D3d!Direct3DAssumption
    <3>4. D3d!Least(objects[x].count + 1, MaxWord) = objects[x].count + 1
      BY <3>2, <3>3 DEF D3d!Least, D3d!Direct3DAssumption
    <3>5. objects[x].count + 1 \in 0..MaxWord
      BY <3>2, <3>3 DEF D3d!Direct3DAssumption
    <3>6. objects'[x] = [objects[x] EXCEPT !.count = objects[x].count + 1]
      BY <1>4, <3>1, <3>4
    <3>7. objects'[x] \in Objects /\ Alike(objects'[x], objects[x])
          /\ objects'[x].count = objects[x].count + 1
      BY <2>1, <3>5, <3>6 DEF Objects, Alike
    <3> QED BY <2>1, <2>3, <3>7
  <2> QED BY <2>2, <2>3
<1>8. Grown'
  <2>1. D3d!NextId' <= MaxObjects + 1
    BY CountIs, <1>1, <1>4 DEF Adds, D3d!NextId, D3d!Direct3DAssumption
  <2>2. objects' \in [D3d!Ids' -> Objects]
    <3>1. objects' = [x \in D3d!Ids' |-> objects'[x]]
      BY DEF Adds, D3d!Put, D3d!Ids
    <3> QED BY <1>4, <1>7, <3>1 DEF Fitting
  <2>3. held' \in [D3d!Ids' -> 0..MaxReferences] /\ bits' \in [D3d!Ids' -> Nat]
    <3>1. held' = [x \in D3d!Ids' |-> held'[x]] /\ bits' = [x \in D3d!Ids' |-> bits'[x]]
      BY <1>6 DEF Adds, D3d!Put
    <3>2. \A x \in D3d!Ids : held[x] \in 0..MaxReferences /\ bits[x] \in Nat
      BY DEF Grown
    <3>3. 1 \in 0..MaxReferences
      BY DEF D3d!Direct3DAssumption
    <3> QED BY <1>4, <1>5, <1>6, <3>1, <3>2, <3>3
  <2>4. \A x \in D3d!Ids' :
            /\ objects'[x].parent < x
            /\ objects'[x].kind # "d3d9" => objects'[x].parent \in D3d!Ids'
            /\ objects'[x].kind \in {"vertex buffer", "index buffer"} =>
                  objects'[x].width \in 1..MaxAllocation
    <3>1. ASSUME NEW x \in D3d!Ids
          PROVE  /\ objects'[x].parent < x
                 /\ objects'[x].kind # "d3d9" => objects'[x].parent \in D3d!Ids'
                 /\ objects'[x].kind \in {"vertex buffer", "index buffer"} =>
                       objects'[x].width \in 1..MaxAllocation
      <4>1. Alike(objects'[x], objects[x])
        BY <1>7
      <4> QED BY <1>4, <4>1 DEF Grown, Alike
    <3>2. /\ object.parent < D3d!NextId
          /\ object.kind # "d3d9" => object.parent \in D3d!Ids'
          /\ object.kind \in {"vertex buffer", "index buffer"} => object.width \in 1..MaxAllocation
      <4>1. object.parent = 0 \/ object.parent \in D3d!Ids
        BY DEF Fitting
      <4>2. object.kind # "d3d9" => object.parent \in D3d!Ids
        BY DEF Fitting
      <4>3. object.kind \in {"vertex buffer", "index buffer"} => object.width \in 1..MaxAllocation
        BY DEF Fitting
      <4>4. object.parent < D3d!NextId
        BY <1>1, <4>1
      <4> QED BY <1>4, <4>2, <4>3, <4>4
    <3>3. D3d!Ids' = D3d!Ids \cup {D3d!NextId} /\ objects'[D3d!NextId] = object
      BY <1>4
    <3> QED BY <3>1, <3>2, <3>3
  <2> QED BY <1>4, <2>1, <2>2, <2>3, <2>4 DEF Grown
<1> QED BY <1>4, <1>5, <1>6, <1>7, <1>8

LEMMA CountsAdded ==
    ASSUME D3d!Direct3DAssumption, Grown, D3d!CountsAddUp, NEW object, Fitting(object), Adds(object)
    PROVE  D3d!CountsAddUp'
<1>1. /\ Grown' /\ D3d!Ids' = D3d!Ids \cup {D3d!NextId} /\ D3d!NextId \notin D3d!Ids
      /\ objects'[D3d!NextId] = object /\ held'[D3d!NextId] = 1
      /\ \A x \in D3d!Ids : /\ objects[x] \in Objects /\ Alike(objects'[x], objects[x])
                            /\ objects'[x].count = IF Refers(object) /\ x = object.parent
                                                   THEN objects[x].count + 1 ELSE objects[x].count
                            /\ held'[x] = held[x]
  BY ObjectAdded
<1>2. \A x \in D3d!Ids : objects'[x].parent = objects[x].parent /\ objects'[x].kind = objects[x].kind
  BY <1>1 DEF Alike
<1> DEFINE After(o) == {c \in D3d!Ids' : objects'[c].parent = o /\ objects'[c].kind # "surface"}
           Counted(o) == objects'[o].count = held'[o] + Cardinality(After(o))
<1>3. ASSUME NEW o \in D3d!Ids PROVE Counted(o)
  <2>1. /\ objects[o].count \in Nat /\ held[o] \in 0..MaxReferences
        /\ objects[o].count = held[o] + Cardinality(D3d!Children(o))
    BY CountsFit
  <2>2. IsFiniteSet(D3d!Children(o)) /\ D3d!NextId \notin D3d!Children(o)
          /\ Cardinality(D3d!Children(o)) \in Nat
    <3>1. Cardinality(D3d!Children(o)) \in 0..(D3d!NextId - 1)
      BY ChildrenCounted
    <3>2. D3d!NextId \notin D3d!Children(o)
      BY <1>1 DEF D3d!Children
    <3>3. IsFiniteSet(D3d!Children(o)) /\ D3d!NextId \in Nat
      BY ChildrenCounted
    <3> QED BY <3>1, <3>2, <3>3
  <2>3. CASE Refers(object) /\ o = object.parent
    <3>1. After(o) = D3d!Children(o) \cup {D3d!NextId}
      BY <1>1, <1>2, <2>3 DEF D3d!Children, Refers
    <3>2. Cardinality(D3d!Children(o) \cup {D3d!NextId}) = Cardinality(D3d!Children(o)) + 1
      BY <2>2, FS_AddElement
    <3>3. objects'[o].count = objects[o].count + 1 /\ held'[o] = held[o]
      BY <1>1, <2>3
    <3> HIDE DEF After
    <3> QED BY <2>1, <2>2, <3>1, <3>2, <3>3
  <2>4. CASE ~(Refers(object) /\ o = object.parent)
    <3>1. object.kind = "d3d9" => object.parent # o
      <4>1. o # 0
        BY IdsAre
      <4> QED BY <4>1 DEF Fitting
    <3>2. After(o) = D3d!Children(o)
      BY <1>1, <1>2, <2>4, <3>1 DEF D3d!Children, Refers
    <3>3. objects'[o].count = objects[o].count /\ held'[o] = held[o]
      BY <1>1, <2>4
    <3> HIDE DEF After
    <3> QED BY <2>1, <3>2, <3>3
  <2> QED BY <2>3, <2>4
<1>4. Counted(D3d!NextId)
  <2>1. \A c \in D3d!Ids : objects[c].parent # D3d!NextId
    <3> TAKE c \in D3d!Ids
    <3>1. objects[c].parent < c /\ D3d!Ids = 1..(D3d!NextId - 1) /\ D3d!NextId \in Nat
            /\ objects[c].parent \in Nat
      BY IdsAre
    <3> QED BY <3>1
  <2>2. object.parent # D3d!NextId
    <3>1. object.parent = 0 \/ object.parent \in D3d!Ids
      BY DEF Fitting
    <3> QED BY <1>1, <3>1, IdsAre
  <2>3. After(D3d!NextId) = {}
    BY <1>1, <1>2, <2>1, <2>2
  <2>4. Cardinality(After(D3d!NextId)) = 0
    BY <2>3, FS_EmptySet
  <2>5. objects'[D3d!NextId].count = 1 /\ held'[D3d!NextId] = 1
    BY <1>1 DEF Fitting
  <2> HIDE DEF After
  <2> QED BY <2>4, <2>5
<1>5. \A o \in D3d!Ids' : Counted(o)
  <2> HIDE DEF Counted
  <2> QED BY <1>1, <1>3, <1>4
<1> QED BY CountIs, <1>5 DEF D3d!CountsAddUp, D3d!Children

(* A new object that is not on the GPU.                                     *)
LEMMA OffGpuAdded ==
    ASSUME D3d!Direct3DAssumption, Grown, D3d!CountsAddUp, Shown, NEW object, Fitting(object),
           Adds(object),
           NEW n, n = D3d!NextId,
           object.gpuLow = 0, object.gpuHigh = 0, ~(object.kind = "texture" /\ hasGpu),
           UNCHANGED <<hasGpu, textures>>,
           \A x \in D3d!Ids : x \in DOMAIN unlocked => x \in DOMAIN unlocked'
             /\ unlocked'[x] = unlocked[x]
    PROVE  Shown'
<1>1. /\ D3d!Ids' = D3d!Ids \cup {n} /\ n \notin D3d!Ids /\ objects'[n] = object
      /\ \A x \in D3d!Ids : Alike(objects'[x], objects[x])
  BY ObjectAdded
<1>2. \A x \in D3d!Ids : D3d!GpuTexture(x)' = D3d!GpuTexture(x) /\ OnGpu(x)' = OnGpu(x)
                     /\ objects'[x].bytes = objects[x].bytes
  BY <1>1 DEF Alike, D3d!GpuTexture, OnGpu
<1>3. ~OnGpu(n)' /\ D3d!GpuTexture(n)' = 0
  <2>1. 0 + 0 * HalfWord = 0
    BY DEF D3d!Direct3DAssumption
  <2> QED BY <1>1, <2>1 DEF OnGpu, D3d!GpuTexture
<1> DEFINE Right(o) == /\ D3d!GpuTexture(o) \in DOMAIN textures
                       /\ textures[D3d!GpuTexture(o)] = [length |-> objects[o].bytes,
                          contents |-> unlocked[o]]
                       /\ objects[o].bytes # 0
                       /\ o \in DOMAIN unlocked
<1>4. \A o \in D3d!Ids : OnGpu(o) => Right(o)
  BY DEF Shown
<1>5. ASSUME NEW o \in D3d!Ids, OnGpu(o) PROVE Right(o)'
  <2>1. Right(o)
    BY <1>4, <1>5
  <2>2. o \in DOMAIN unlocked' /\ unlocked'[o] = unlocked[o]
    BY <2>1
  <2> QED BY <1>2, <2>1, <2>2
<1>6. \A o \in D3d!Ids' : OnGpu(o)' => Right(o)'
  <2> HIDE DEF Right
  <2> QED BY <1>1, <1>2, <1>3, <1>5
<1>7. \A o \in D3d!Ids' : (~OnGpu(o))' => D3d!GpuTexture(o)' = 0
  BY <1>1, <1>2, <1>3 DEF Shown
<1>8. \A o, p \in D3d!Ids' : (OnGpu(o)' /\ OnGpu(p)' /\ D3d!GpuTexture(o)' = D3d!GpuTexture(p)') =>
        o = p
  BY <1>1, <1>2, <1>3 DEF Shown
<1>9. (hasGpu \in BOOLEAN)' /\ Numbered(textures)'
        /\ (textures \in [DOMAIN textures -> [length : Nat, contents : Int]])'
  BY DEF Shown
<1> QED BY <1>6, <1>7, <1>8, <1>9 DEF Shown

(* A new texture, and one on the GPU for it.                                *)
LEMMA OnGpuAdded ==
    ASSUME D3d!Direct3DAssumption, Grown, D3d!CountsAddUp, Shown, NEW object, Fitting(object),
           Adds(object),
           NEW n, n = D3d!NextId,
           object.gpuLow + object.gpuHigh * HalfWord = D3d!NextTexture,
           object.kind = "texture", hasGpu, object.bytes # 0, UNCHANGED hasGpu,
           textures' = D3d!Put(textures, D3d!NextTexture, [length |-> object.bytes, contents |-> -1]),
           unlocked' = D3d!Put(unlocked, n, -1)
    PROVE  Shown'
<1>1. /\ D3d!Ids' = D3d!Ids \cup {n} /\ n \notin D3d!Ids /\ objects'[n] = object
      /\ \A x \in D3d!Ids : Alike(objects'[x], objects[x])
  BY ObjectAdded
<1>2. \A x \in D3d!Ids : D3d!GpuTexture(x)' = D3d!GpuTexture(x) /\ OnGpu(x)' = OnGpu(x)
                     /\ objects'[x].bytes = objects[x].bytes
  BY <1>1 DEF Alike, D3d!GpuTexture, OnGpu
<1>3. OnGpu(n)' /\ D3d!GpuTexture(n)' = D3d!NextTexture /\ objects'[n].bytes = object.bytes
  BY <1>1 DEF OnGpu, D3d!GpuTexture
<1> DEFINE new == [length |-> object.bytes, contents |-> -1]
<1>4. Lengthened(textures', textures, D3d!NextTexture, new)
  <2> DEFINE more == textures'
  <2>1. more = D3d!Put(textures, D3d!NextTexture, new) /\ Numbered(textures)
        /\ D3d!NextTexture = Cardinality(DOMAIN textures) + 1
    BY CountIs DEF Shown, D3d!NextTexture
  <2> HIDE DEF more, new
  <2>2. Lengthened(more, textures, D3d!NextTexture, new)
    BY <2>1, OneMoreIsNumbered
  <2> QED BY <2>2 DEF more
<1>5. /\ DOMAIN textures' = DOMAIN textures \cup {D3d!NextTexture}
           /\ D3d!NextTexture \notin DOMAIN textures
      /\ textures'[D3d!NextTexture] = new /\ \A t \in DOMAIN textures : textures'[t] = textures[t]
      /\ Numbered(textures')
  BY <1>4 DEF Lengthened
<1>6. /\ n \in DOMAIN unlocked' /\ unlocked'[n] = -1
      /\ \A x \in D3d!Ids : x \in DOMAIN unlocked => x \in DOMAIN unlocked'
           /\ unlocked'[x] = unlocked[x]
  BY <1>1 DEF D3d!Put
<1> DEFINE Right(o) == /\ D3d!GpuTexture(o) \in DOMAIN textures
                       /\ textures[D3d!GpuTexture(o)] = [length |-> objects[o].bytes,
                          contents |-> unlocked[o]]
                       /\ objects[o].bytes # 0
                       /\ o \in DOMAIN unlocked
<1>7. \A o \in D3d!Ids : OnGpu(o) => Right(o)
  BY DEF Shown
<1>8. ASSUME NEW o \in D3d!Ids, OnGpu(o) PROVE Right(o)' /\ D3d!GpuTexture(o)' \in DOMAIN textures
  <2>1. Right(o)
    BY <1>7, <1>8
  <2>2. o \in DOMAIN unlocked' /\ unlocked'[o] = unlocked[o]
    BY <1>6, <2>1
  <2>3. textures'[D3d!GpuTexture(o)] = textures[D3d!GpuTexture(o)]
    BY <1>5, <2>1
  <2> QED BY <1>2, <1>5, <2>1, <2>2, <2>3
<1>9. Right(n)'
  BY <1>3, <1>5, <1>6
<1>10. \A o \in D3d!Ids' : OnGpu(o)' => Right(o)'
  <2> HIDE DEF Right
  <2> QED BY <1>1, <1>2, <1>8, <1>9
<1>11. \A o \in D3d!Ids' : (~OnGpu(o))' => D3d!GpuTexture(o)' = 0
  BY <1>1, <1>2, <1>3 DEF Shown
<1>12. \A o, p \in D3d!Ids' : (OnGpu(o)' /\ OnGpu(p)'
         /\ D3d!GpuTexture(o)' = D3d!GpuTexture(p)') => o = p
  <2>1. \A o \in D3d!Ids : OnGpu(o) => D3d!GpuTexture(o)' \in DOMAIN textures
    <3> HIDE DEF Right
    <3> QED BY <1>8
  <2>2. \A o, p \in D3d!Ids : (OnGpu(o) /\ OnGpu(p) /\ D3d!GpuTexture(o) = D3d!GpuTexture(p)) => o = p
    BY DEF Shown
  <2> QED BY <1>1, <1>2, <1>3, <1>5, <2>1, <2>2
<1>13. textures' \in [DOMAIN textures' -> [length : Nat, contents : Int]]
  <2>1. object.bytes \in Nat
    BY DEF Fitting, Objects, D3d!Direct3DAssumption
  <2>2. new \in [length : Nat, contents : Int]
    BY <2>1
  <2>3. textures' = [t \in DOMAIN textures' |-> textures'[t]]
    BY DEF D3d!Put
  <2>4. \A t \in DOMAIN textures : textures[t] \in [length : Nat, contents : Int]
    BY DEF Shown
  <2> HIDE DEF new
  <2> QED BY <1>5, <2>2, <2>3, <2>4
<1> QED BY <1>5, <1>10, <1>11, <1>12, <1>13 DEF Shown

-----------------------------------------------------------------------------
(* The methods, by what they do to the objects.                             *)
LEMMA HandsOut ==
    ASSUME D3d!Direct3DAssumption, Inv, NEW o \in D3d!Ids, D3d!HandOut(o), UNCHANGED hasGpu
    PROVE  Inv'
<1>1. Grown /\ D3d!CountsAddUp /\ Shown /\ Locked
  BY DEF Inv
<1>2. /\ objects[o].count \in Nat /\ held[o] \in 0..MaxReferences /\ held[o] < MaxReferences
      /\ objects[o].count <= held[o] + D3d!NextId - 1
  BY <1>1, CountsFit DEF D3d!HandOut
<1>3. D3d!NextId \in Nat \ {0} /\ MaxReferences \in Nat /\ MaxObjects \in Nat /\ MaxWord \in Nat
      /\ MaxObjects + MaxReferences <= MaxWord
  BY <1>1, IdsAre DEF D3d!Direct3DAssumption
<1>4. D3d!NextId <= MaxObjects + 1
  BY <1>1 DEF Inv, Grown
<1> DEFINE n == objects[o].count + 1
           m == held[o] + 1
<1>5. n \in 0..MaxWord /\ m \in 0..MaxReferences
  BY <1>2, <1>3, <1>4
<1>6. D3d!Least(objects[o].count + 1, MaxWord) = n
  BY <1>2, <1>3, <1>5 DEF D3d!Least
<1>7. objects' = [objects EXCEPT ![o].count = n] /\ held' = [held EXCEPT ![o] = m]
  BY <1>6 DEF D3d!HandOut, D3d!AddRefTo
<1>8. n - objects[o].count = m - held[o]
  BY <1>2
<1>9. UNCHANGED <<bits, hasGpu, textures, unlocked, lock>>
  BY DEF D3d!HandOut
<1>10. Grown' /\ D3d!CountsAddUp' /\ Shown'
  <2> HIDE DEF n, m
  <2> QED BY <1>1, <1>5, <1>7, <1>8, <1>9, CountMoves
<1>11. Locked'
  BY <1>1, <1>9 DEF Locked, D3d!LockStaysInside
<1> QED BY <1>10, <1>11 DEF Inv

LEMMA Releases ==
    ASSUME D3d!Direct3DAssumption, Inv, NEW o \in D3d!Held, D3d!Release(o), UNCHANGED hasGpu
    PROVE  Inv'
<1>1. Grown /\ D3d!CountsAddUp /\ Shown /\ Locked /\ o \in D3d!Ids /\ held[o] > 0
  BY DEF Inv, D3d!Held
<1>2. /\ objects[o].count \in Nat /\ held[o] \in 0..MaxReferences
      /\ objects[o].count = held[o] + Cardinality(D3d!Children(o))
      /\ Cardinality(D3d!Children(o)) \in Nat
  <2>1. Cardinality(D3d!Children(o)) \in 0..(D3d!NextId - 1)
    BY <1>1, ChildrenCounted
  <2>2. D3d!NextId \in Nat
    BY <1>1, IdsAre
  <2> QED BY <1>1, <2>1, <2>2, CountsFit
<1>3. objects[o] \in Objects
  BY <1>1, IdsAre
<1>4. objects[o].count \in 0..MaxWord /\ MaxReferences \in Nat /\ MaxWord \in Nat
  BY <1>3 DEF Objects, D3d!Direct3DAssumption
<1> DEFINE n == objects[o].count - 1
           m == held[o] - 1
<1>5. n \in 0..MaxWord /\ m \in 0..MaxReferences /\ n - objects[o].count = m - held[o]
  BY <1>1, <1>2, <1>4
<1>6. objects[o].count # 0
  BY <1>1, <1>2
<1>7. objects' = [objects EXCEPT ![o].count = n] /\ held' = [held EXCEPT ![o] = m]
  BY <1>6 DEF D3d!Release
<1>8. UNCHANGED <<bits, hasGpu, textures, unlocked, lock>>
  BY DEF D3d!Release
<1>9. Grown' /\ D3d!CountsAddUp' /\ Shown'
  <2> HIDE DEF n, m
  <2> QED BY <1>1, <1>5, <1>7, <1>8, CountMoves
<1>10. Locked'
  BY <1>1, <1>8 DEF Locked, D3d!LockStaysInside
<1> QED BY <1>9, <1>10 DEF Inv

(* Objects that are not on the GPU: factories, devices, buffers, surfaces,  *)
(* and textures where there is no GPU.                                      *)
LEMMA AddsOffGpu ==
    ASSUME D3d!Direct3DAssumption, Inv, NEW object, Fitting(object), Adds(object),
           object.gpuLow = 0, object.gpuHigh = 0, ~(object.kind = "texture" /\ hasGpu),
           UNCHANGED <<hasGpu, textures, lock>>,
           \/ UNCHANGED unlocked
           \/ unlocked' = D3d!Put(unlocked, D3d!NextId, -1)
    PROVE  Inv'
<1>1. Grown /\ D3d!CountsAddUp /\ Shown /\ Locked
  BY DEF Inv
<1>2. PICK n : n = D3d!NextId
  OBVIOUS
<1>3. \A x \in D3d!Ids : x \in DOMAIN unlocked => x \in DOMAIN unlocked' /\ unlocked'[x] = unlocked[x]
  <2>1. D3d!NextId \notin D3d!Ids
    BY <1>1, IdsAre
  <2> QED BY <2>1 DEF D3d!Put
<1>4. Shown'
  BY <1>1, <1>2, <1>3, OffGpuAdded
<1>5. Grown' /\ D3d!CountsAddUp'
  BY <1>1, ObjectAdded, CountsAdded
<1>6. Locked'
  BY <1>1 DEF Locked, D3d!LockStaysInside
<1> QED BY <1>4, <1>5, <1>6 DEF Inv

LEMMA Added ==
    ASSUME NEW object, NEW parent, object.parent = parent,
           \/ Refers(object) /\ D3d!AddObject(object, parent, TRUE)
           \/ ~Refers(object) /\ D3d!AddObject(object, parent, FALSE)
    PROVE  Adds(object)
BY DEF D3d!AddObject, Adds

(* What a new object says of itself.                                        *)
LEMMA NewObjects ==
    ASSUME D3d!Direct3DAssumption, NEW kind \in Kinds, NEW parent \in Nat
    PROVE  LET object == D3d!ComObject(kind, parent) IN
           /\ object \in Objects /\ object.kind = kind /\ object.parent = parent
           /\ object.count = 1 /\ object.gpuLow = 0 /\ object.gpuHigh = 0 /\ object.bytes = 0
<1>1. MaxWord \in Nat /\ 1 \in 0..MaxWord /\ 0 \in 0..MaxWord
  BY DEF D3d!Direct3DAssumption
<1> QED BY <1>1 DEF D3d!ComObject, Objects

LEMMA CreatesFactory ==
    ASSUME D3d!Direct3DAssumption, Inv, D3d!Direct3DCreate9, UNCHANGED hasGpu
    PROVE  Inv'
<1> DEFINE object == D3d!ComObject("d3d9", D3d!None)
<1>1. object \in Objects /\ object.kind = "d3d9" /\ object.parent = 0
      /\ object.count = 1 /\ object.gpuLow = 0 /\ object.gpuHigh = 0
  BY NewObjects DEF Kinds, D3d!None
<1>2. objects' = D3d!Put(objects, D3d!NextId, object)
      /\ D3d!NextId <= MaxObjects /\ bits' = D3d!Put(bits, D3d!NextId, 0)
           /\ held' = D3d!Put(held, D3d!NextId, 1)
      /\ UNCHANGED <<textures, unlocked, lock>>
  BY DEF D3d!Direct3DCreate9
<1> HIDE DEF object
<1>3. Fitting(object) /\ ~Refers(object)
  BY <1>1 DEF Fitting, Refers
<1>4. Adds(object)
  BY <1>2, <1>3 DEF Adds
<1> QED BY <1>1, <1>2, <1>3, <1>4, AddsOffGpu

LEMMA CreatesDevice ==
    ASSUME D3d!Direct3DAssumption, Inv, NEW d3d \in D3d!Ids,
           NEW width \in Sizes \cup {0}, NEW height \in Sizes \cup {0},
           D3d!CreateDevice(d3d, width, height), UNCHANGED hasGpu
    PROVE  Inv'
<1> DEFINE size == D3d!PresentSize(width, height)
           device == [D3d!ComObject("device", d3d) EXCEPT !.width = size.width, !.height = size.height]
<1>1. d3d \in D3d!Ids /\ d3d \in Nat
  BY IdsAre DEF Inv
<1>2. size.width \in 0..MaxWord /\ size.height \in 0..MaxWord
  BY DEF D3d!PresentSize, D3d!Direct3DAssumption
<1>3. D3d!AddObject(device, d3d, TRUE) /\ UNCHANGED <<textures, unlocked, lock>>
  BY DEF D3d!CreateDevice
<1>4. /\ device \in Objects /\ device.kind = "device" /\ device.parent = d3d /\ device.count = 1
      /\ device.gpuLow = 0 /\ device.gpuHigh = 0
  <2> DEFINE com == D3d!ComObject("device", d3d)
  <2>1. /\ com \in Objects /\ com.kind = "device" /\ com.parent = d3d /\ com.count = 1
        /\ com.gpuLow = 0 /\ com.gpuHigh = 0
    BY <1>1, NewObjects DEF Kinds
  <2>2. device = [com EXCEPT !.width = size.width, !.height = size.height]
    OBVIOUS
  <2> HIDE DEF com, size, device
  <2> QED BY <1>2, <2>1, <2>2 DEF Objects
<1> HIDE DEF device
<1>5. Fitting(device) /\ Refers(device)
  BY <1>1, <1>4 DEF Fitting, Refers
<1>6. Adds(device)
  BY <1>3, <1>4, <1>5, Added
<1> QED BY <1>3, <1>4, <1>5, <1>6, AddsOffGpu

LEMMA LengthsFit ==
    ASSUME D3d!Direct3DAssumption, NEW n \in Sizes, n # 0, n <= MaxAllocation
    PROVE  n \in 0..MaxWord /\ n \in 1..MaxAllocation
<1>1. n \in 0..MaxWord /\ MaxWord \in Nat /\ MaxAllocation \in Nat
  BY DEF D3d!Direct3DAssumption
<1>2. n \in Nat
  BY <1>1
<1>3. n >= 1
  BY <1>2
<1> QED BY <1>1, <1>2, <1>3

LEMMA CreatesBuffer ==
    ASSUME D3d!Direct3DAssumption, Inv, NEW device \in D3d!Ids, NEW bytes \in Sizes,
           NEW kind \in {"vertex buffer", "index buffer"},
           D3d!CreateBuffer(device, bytes, kind), UNCHANGED hasGpu
    PROVE  Inv'
<1>1. device \in D3d!Ids /\ device \in Nat
  BY IdsAre DEF Inv
<1>2. bytes \in 0..MaxWord /\ bytes \in 1..MaxAllocation
  BY LengthsFit DEF D3d!CreateBuffer
<1> DEFINE buffer == [D3d!ComObject(kind, device) EXCEPT !.width = bytes]
<1>3. D3d!AddObject(buffer, device, TRUE) /\ UNCHANGED <<textures, unlocked, lock>>
  BY DEF D3d!CreateBuffer
<1>4. /\ buffer \in Objects /\ buffer.kind = kind /\ buffer.parent = device /\ buffer.count = 1
      /\ buffer.gpuLow = 0 /\ buffer.gpuHigh = 0 /\ buffer.width = bytes
  <2> DEFINE com == D3d!ComObject(kind, device)
  <2>1. /\ com \in Objects /\ com.kind = kind /\ com.parent = device /\ com.count = 1
        /\ com.gpuLow = 0 /\ com.gpuHigh = 0
    BY <1>1, NewObjects DEF Kinds, D3d!Resources
  <2>2. buffer = [com EXCEPT !.width = bytes]
    OBVIOUS
  <2> HIDE DEF com, buffer
  <2> QED BY <1>2, <2>1, <2>2 DEF Objects
<1> HIDE DEF buffer
<1>5. Fitting(buffer) /\ Refers(buffer)
  BY <1>1, <1>2, <1>4 DEF Fitting, Refers
<1>6. Adds(buffer)
  BY <1>3, <1>4, <1>5, Added
<1> QED BY <1>3, <1>4, <1>5, <1>6, AddsOffGpu

(* An image has as many bytes as its memory, and if that is to be had, the  *)
(* products were not cut off.                                               *)
LEMMA ImagesAre ==
    ASSUME D3d!Direct3DAssumption, NEW kind \in Kinds, NEW device \in Nat,
           NEW width \in 0..MaxWord, NEW height \in 0..MaxWord,
           NEW image, image = D3d!Image(kind, device, width, height)
    PROVE  /\ image \in Objects /\ image.kind = kind /\ image.parent = device /\ image.count = 1
           /\ image.gpuLow = 0 /\ image.gpuHigh = 0
           /\ (width # 0 /\ height # 0 /\ image.bytes <= MaxAllocation) =>
                 image.bytes = D3d!PackedLength(width, height) /\ image.bytes # 0
<1> DEFINE com == D3d!ComObject(kind, device)
           pitch == D3d!SaturatingMul(width, 4)
           bytes == D3d!SaturatingMul(pitch, height)
<1>1. /\ com \in Objects /\ com.kind = kind /\ com.parent = device /\ com.count = 1
      /\ com.gpuLow = 0 /\ com.gpuHigh = 0
  BY NewObjects
<1>2. pitch \in 0..MaxWord /\ bytes \in 0..MaxWord
  <2>1. \A m, n \in 0..MaxWord : m * n \in Nat
    BY DEF D3d!Direct3DAssumption
  <2>2. \A n \in Nat : D3d!Least(n, MaxWord) \in 0..MaxWord
    BY DEF D3d!Least, D3d!Direct3DAssumption
  <2>3. width * 4 \in Nat
    BY DEF D3d!Direct3DAssumption
  <2>4. pitch \in 0..MaxWord
    BY <2>2, <2>3 DEF D3d!SaturatingMul
  <2> HIDE DEF pitch
  <2> QED BY <2>1, <2>2, <2>4 DEF D3d!SaturatingMul
<1>3. image = [com EXCEPT !.width = width, !.height = height, !.pitch = pitch, !.bytes = bytes]
  BY DEF D3d!Image
<1>4. (width # 0 /\ height # 0 /\ bytes <= MaxAllocation) =>
         bytes = D3d!PackedLength(width, height) /\ bytes # 0
  BY DEF D3d!SaturatingMul, D3d!Least, D3d!PackedLength, D3d!Direct3DAssumption
<1> HIDE DEF com, pitch, bytes
<1>5. /\ image \in Objects /\ image.kind = com.kind /\ image.parent = com.parent
      /\ image.count = com.count /\ image.gpuLow = com.gpuLow /\ image.gpuHigh = com.gpuHigh
      /\ image.bytes = bytes
  BY <1>1, <1>2, <1>3 DEF Objects
<1> QED BY <1>1, <1>4, <1>5

LEMMA GivesBackBuffer ==
    ASSUME D3d!Direct3DAssumption, Inv, NEW device \in D3d!Ids, D3d!GetBackBuffer(device),
           UNCHANGED hasGpu
    PROVE  Inv'
<1>1. device \in Nat /\ objects[device] \in Objects
  BY IdsAre DEF Inv
<1>2. objects[device].width \in 0..MaxWord /\ objects[device].height \in 0..MaxWord
  BY <1>1 DEF Objects
<1>3. PICK image : image = D3d!Image("surface", device, objects[device].width, objects[device].height)
  OBVIOUS
<1>4. D3d!AddObject(image, device, FALSE) /\ UNCHANGED <<textures, unlocked, lock>>
  BY <1>3 DEF D3d!GetBackBuffer
<1>5. /\ image \in Objects /\ image.kind = "surface" /\ image.parent = device /\ image.count = 1
      /\ image.gpuLow = 0 /\ image.gpuHigh = 0
  <2>1. "surface" \in Kinds
    BY DEF Kinds, D3d!Resources
  <2> QED BY <1>1, <1>2, <1>3, <2>1, ImagesAre
<1>6. Fitting(image) /\ ~Refers(image)
  BY <1>5 DEF Fitting, Refers
<1>7. Adds(image)
  BY <1>4, <1>5, <1>6, Added
<1> QED BY <1>4, <1>5, <1>6, <1>7, AddsOffGpu

(* The two words of an id make the id.                                      *)
LEMMA IdInWords ==
    ASSUME D3d!Direct3DAssumption, NEW n \in Nat
    PROVE  /\ n % HalfWord \in Nat /\ n \div HalfWord \in Nat
           /\ (n % HalfWord) + (n \div HalfWord) * HalfWord = n
BY DEF D3d!Direct3DAssumption

LEMMA CreatesTexture ==
    ASSUME D3d!Direct3DAssumption, Inv, NEW device \in D3d!Ids, NEW width \in Sizes,
           NEW height \in Sizes,
           D3d!CreateTexture(device, width, height), UNCHANGED hasGpu
    PROVE  Inv'
<1>1. device \in Nat /\ Grown /\ D3d!CountsAddUp /\ Shown /\ Locked
  BY IdsAre DEF Inv
<1>2. width \in 0..MaxWord /\ height \in 0..MaxWord
  BY DEF D3d!Direct3DAssumption
<1>3. PICK image : image = D3d!Image("texture", device, width, height)
  OBVIOUS
<1> DEFINE onGpu == [image EXCEPT !.gpuLow = D3d!NextTexture % HalfWord,
                                  !.gpuHigh = D3d!NextTexture \div HalfWord]
<1>4. /\ width # 0 /\ height # 0 /\ image.bytes <= MaxAllocation
      /\ \/ hasGpu /\ D3d!CreateGpuTexture(width, height) /\ D3d!AddObject(onGpu, device, TRUE)
         \/ ~hasGpu /\ UNCHANGED textures /\ D3d!AddObject(image, device, TRUE)
      /\ unlocked' = D3d!Put(unlocked, D3d!NextId, -1) /\ UNCHANGED lock
  BY <1>3 DEF D3d!CreateTexture
<1>5. /\ image \in Objects /\ image.kind = "texture" /\ image.parent = device /\ image.count = 1
      /\ image.gpuLow = 0 /\ image.gpuHigh = 0
      /\ image.bytes = D3d!PackedLength(width, height) /\ image.bytes # 0
  <2>1. "texture" \in Kinds
    BY DEF Kinds, D3d!Resources
  <2> QED BY <1>1, <1>2, <1>3, <1>4, <2>1, ImagesAre
<1>6. CASE ~hasGpu /\ UNCHANGED textures /\ D3d!AddObject(image, device, TRUE)
  <2>1. Fitting(image) /\ Refers(image)
    BY <1>5 DEF Fitting, Refers
  <2>2. Adds(image)
    BY <1>5, <1>6, <2>1, Added
  <2> QED BY <1>4, <1>5, <1>6, <2>1, <2>2, AddsOffGpu
<1>7. CASE hasGpu /\ D3d!CreateGpuTexture(width, height) /\ D3d!AddObject(onGpu, device, TRUE)
  <2>1. PICK low \in Nat, high \in Nat :
           /\ low = D3d!NextTexture % HalfWord /\ high = D3d!NextTexture \div HalfWord
           /\ low + high * HalfWord = D3d!NextTexture
    <3>1. D3d!NextTexture \in Nat
      BY CountIs, <1>1 DEF D3d!NextTexture, Shown, Numbered
    <3>2. /\ D3d!NextTexture % HalfWord \in Nat /\ D3d!NextTexture \div HalfWord \in Nat
          /\ (D3d!NextTexture % HalfWord) + (D3d!NextTexture \div HalfWord) * HalfWord = D3d!NextTexture
      BY <3>1, IdInWords
    <3> QED BY <3>2
  <2>2. PICK object : object = [image EXCEPT !.gpuLow = low, !.gpuHigh = high]
    OBVIOUS
  <2>3. D3d!AddObject(object, device, TRUE)
    BY <1>7, <2>1, <2>2
  <2>4. /\ object \in Objects /\ object.kind = "texture" /\ object.parent = device /\ object.count = 1
        /\ object.bytes = image.bytes /\ object.gpuLow = low /\ object.gpuHigh = high
    BY <1>5, <2>2 DEF Objects
  <2>5. Fitting(object) /\ Refers(object)
    BY <2>4 DEF Fitting, Refers
  <2>6. Adds(object)
    BY <2>3, <2>4, <2>5, Added
  <2>7. textures' = D3d!Put(textures, D3d!NextTexture, [length |-> object.bytes, contents |-> -1])
    BY <1>5, <1>7, <2>4 DEF D3d!CreateGpuTexture
  <2>8. PICK n : n = D3d!NextId
    OBVIOUS
  <2>9. Shown'
    <3>1. object.bytes # 0 /\ unlocked' = D3d!Put(unlocked, n, -1)
          /\ object.gpuLow + object.gpuHigh * HalfWord = D3d!NextTexture
      BY <1>4, <1>5, <2>1, <2>4, <2>8
    <3> QED BY <1>1, <1>7, <2>4, <2>5, <2>6, <2>7, <2>8, <3>1, OnGpuAdded
  <2>10. Grown' /\ D3d!CountsAddUp'
    BY <1>1, <2>5, <2>6, ObjectAdded, CountsAdded
  <2>11. Locked'
    BY <1>1, <1>4 DEF Locked, D3d!LockStaysInside
  <2> QED BY <2>9, <2>10, <2>11 DEF Inv
<1> QED BY <1>4, <1>6, <1>7

LEMMA Writes ==
    ASSUME D3d!Direct3DAssumption, Inv, NEW o \in D3d!Ids, D3d!GuestWrites(o), UNCHANGED hasGpu
    PROVE  Inv'
<1>1. UNCHANGED <<objects, textures, held, unlocked, lock>>
  BY DEF D3d!GuestWrites
<1>2. bits' \in [D3d!Ids -> Nat]
  <2>1. bits \in [D3d!Ids -> Nat]
    BY DEF Inv, Grown
  <2> QED BY <2>1 DEF D3d!GuestWrites
<1>3. Grown'
  BY CountIs, <1>1, <1>2 DEF Inv, Grown, D3d!Ids, D3d!NextId
<1>4. D3d!CountsAddUp'
  BY CountIs, <1>1 DEF Inv, D3d!CountsAddUp, D3d!Children, D3d!Ids
<1>5. Shown'
  BY <1>1 DEF Inv, Shown, OnGpu, D3d!GpuTexture, D3d!Ids
<1>6. Locked'
  BY <1>1 DEF Inv, Locked, D3d!LockStaysInside
<1> QED BY <1>3, <1>4, <1>5, <1>6 DEF Inv

(* What is unlocked is shown, and nothing else changes on the GPU.          *)
LEMMA Unlocks ==
    ASSUME D3d!Direct3DAssumption, Inv, NEW o \in D3d!Ids, D3d!UnlockRect(o), UNCHANGED hasGpu
    PROVE  Inv'
<1>1. UNCHANGED <<objects, bits, held, lock>> /\ unlocked' = D3d!Put(unlocked, o, bits[o])
        /\ D3d!Ids' = D3d!Ids
  BY DEF D3d!UnlockRect, D3d!Ids
<1>2. Grown' /\ D3d!CountsAddUp' /\ Locked'
  BY CountIs, <1>1 DEF Inv, Grown, D3d!Ids, D3d!NextId, D3d!CountsAddUp, D3d!Children, Locked,
                       D3d!LockStaysInside
<1>3. \A x \in D3d!Ids : OnGpu(x)' = OnGpu(x) /\ D3d!GpuTexture(x)' = D3d!GpuTexture(x)
  BY <1>1 DEF OnGpu, D3d!GpuTexture, D3d!Ids
<1>4. /\ \A x \in D3d!Ids : x \in DOMAIN unlocked => x \in DOMAIN unlocked'
      /\ \A x \in D3d!Ids : x # o => unlocked'[x] = IF x \in DOMAIN unlocked THEN unlocked[x] ELSE unlocked'[x]
      /\ o \in DOMAIN unlocked' /\ unlocked'[o] = bits[o]
  BY <1>1 DEF D3d!Put
<1> DEFINE Right(x) == /\ D3d!GpuTexture(x) \in DOMAIN textures
                       /\ textures[D3d!GpuTexture(x)] = [length |-> objects[x].bytes,
                          contents |-> unlocked[x]]
                       /\ objects[x].bytes # 0
                       /\ x \in DOMAIN unlocked
<1>5. /\ \A x \in D3d!Ids : OnGpu(x) => Right(x)
      /\ \A x \in D3d!Ids : ~OnGpu(x) => D3d!GpuTexture(x) = 0
      /\ \A x, p \in D3d!Ids : (OnGpu(x) /\ OnGpu(p) /\ D3d!GpuTexture(x) = D3d!GpuTexture(p)) => x = p
      /\ Numbered(textures) /\ hasGpu \in BOOLEAN
      /\ textures \in [DOMAIN textures -> [length : Nat, contents : Int]]
      /\ bits[o] \in Int
  <2>1. bits[o] \in Int
    <3>1. bits \in [D3d!Ids -> Nat]
      BY DEF Inv, Grown
    <3> QED BY <3>1
  <2> QED BY <2>1 DEF Inv, Shown
<1> DEFINE id == D3d!GpuTexture(o)
<1>6. CASE ~OnGpu(o)
  <2>1. UNCHANGED textures
    BY <1>5, <1>6 DEF D3d!UnlockRect
  <2>2. ASSUME NEW x \in D3d!Ids, OnGpu(x) PROVE Right(x)'
    <3>1. x # o /\ Right(x)
      BY <1>5, <1>6, <2>2
    <3> QED BY <1>1, <1>3, <1>4, <2>1, <3>1
  <2>3. \A x \in D3d!Ids' : OnGpu(x)' => Right(x)'
    <3> HIDE DEF Right
    <3> QED BY <1>1, <1>3, <2>2
  <2>4. Shown'
    BY <1>1, <1>3, <1>5, <2>1, <2>3 DEF Shown
  <2> QED BY <1>2, <2>4 DEF Inv
<1>7. CASE OnGpu(o)
  <2>1. Right(o) /\ id \in Nat \ {0}
    BY <1>5, <1>7 DEF Numbered
  <2>2. textures' = [textures EXCEPT ![id].contents = bits[o]]
    BY <2>1 DEF D3d!UnlockRect, D3d!WriteGpuTexture
  <2>3. DOMAIN textures' = DOMAIN textures /\ Numbered(textures')
    BY <1>5, <2>2 DEF Numbered
  <2>4. textures'[id] = [length |-> objects[o].bytes, contents |-> bits[o]]
    <3>1. textures[id] = [length |-> objects[o].bytes, contents |-> unlocked[o]]
      BY <2>1
    <3> HIDE DEF Right, id
    <3>2. id \in DOMAIN textures
      BY <2>1 DEF Right, id
    <3> QED BY <2>2, <3>1, <3>2
  <2>5. \A t \in DOMAIN textures : t # id => textures'[t] = textures[t]
    BY <2>2
  <2>6. textures' \in [DOMAIN textures' -> [length : Nat, contents : Int]]
    <3>1. textures[id].length \in Nat /\ textures[id].length = objects[o].bytes
      BY <1>5, <2>1
    <3>2. textures'[id] \in [length : Nat, contents : Int]
      BY <1>5, <2>4, <3>1
    <3>3. \A t \in DOMAIN textures' : textures'[t] \in [length : Nat, contents : Int]
      BY <1>5, <2>3, <2>5, <3>2
    <3>4. textures' = [t \in DOMAIN textures' |-> textures'[t]]
      BY <2>2
    <3> QED BY <3>3, <3>4
  <2>7. ASSUME NEW x \in D3d!Ids, OnGpu(x) PROVE Right(x)'
    <3>1. CASE x = o
      BY <1>1, <1>3, <1>4, <2>1, <2>3, <2>4, <3>1
    <3>2. CASE x # o
      <4>1. Right(x) /\ D3d!GpuTexture(x) # id
        BY <1>5, <1>7, <2>7, <3>2
      <4>2. textures'[D3d!GpuTexture(x)] = textures[D3d!GpuTexture(x)]
        BY <2>5, <4>1
      <4> QED BY <1>1, <1>3, <1>4, <2>3, <3>2, <4>1, <4>2
    <3> QED BY <3>1, <3>2
  <2>8. \A x \in D3d!Ids' : OnGpu(x)' => Right(x)'
    <3> HIDE DEF Right
    <3> QED BY <1>1, <1>3, <2>7
  <2>9. Shown'
    BY <1>1, <1>3, <1>5, <2>3, <2>6, <2>8 DEF Shown
  <2> QED BY <1>2, <2>9 DEF Inv
<1> QED BY <1>6, <1>7

LEMMA SizesAre ==
    ASSUME D3d!Direct3DAssumption
    PROVE  /\ \A n \in Sizes \cup {0} : n \in Nat
           /\ \A n \in 1..MaxAllocation : n \in Nat /\ n < MaxWord
BY DEF D3d!Direct3DAssumption

LEMMA RangesInside ==
    ASSUME D3d!Direct3DAssumption, NEW offset \in Nat, NEW size \in Nat, NEW whole \in Nat,
           whole < MaxWord, D3d!InBuffer(offset, size, whole)
    PROVE  LET len == IF size = 0 THEN whole - offset ELSE size
           IN len \in Nat /\ offset + len <= whole
BY DEF D3d!InBuffer, D3d!Least, D3d!Direct3DAssumption

(* A range that is locked lies inside, as no sum is cut off.                *)
LEMMA Locks ==
    ASSUME D3d!Direct3DAssumption, Inv, NEW o \in D3d!Of({"vertex buffer", "index buffer"}),
           NEW offset \in Sizes \cup {0}, NEW size \in Sizes \cup {0},
           D3d!LockBuffer(o, offset, size), UNCHANGED hasGpu
    PROVE  Inv'
<1>1. UNCHANGED <<objects, bits, textures, held, unlocked>>
  BY DEF D3d!LockBuffer
<1>2. o \in D3d!Ids /\ objects[o].kind \in {"vertex buffer", "index buffer"}
  BY DEF D3d!Of, D3d!Held
<1> DEFINE whole == objects[o].width
           len == IF size = 0 THEN whole - offset ELSE size
<1>3. whole \in Nat /\ whole < MaxWord /\ offset \in Nat /\ size \in Nat
  <2>1. whole \in 1..MaxAllocation
    BY <1>2 DEF Inv, Grown
  <2> QED BY <2>1, SizesAre
<1>4. lock' = IF D3d!InBuffer(offset, size, whole)
              THEN [first |-> offset, size |-> len, length |-> whole] ELSE lock
  BY DEF D3d!LockBuffer
<1> HIDE DEF whole
<1>5. D3d!InBuffer(offset, size, whole) => len \in Nat /\ offset + len <= whole
  BY <1>3, RangesInside
<1> HIDE DEF len
<1>6. Locked'
  <2>1. CASE D3d!InBuffer(offset, size, whole)
    <3>1. lock' = [first |-> offset, size |-> len, length |-> whole]
      BY <1>4, <2>1
    <3>2. whole \in Nat
      BY <1>3
    <3> QED BY <1>3, <1>5, <2>1, <3>1, <3>2 DEF Locked, D3d!LockStaysInside
  <2>2. CASE ~D3d!InBuffer(offset, size, whole)
    BY <1>4, <2>2 DEF Inv, Locked, D3d!LockStaysInside
  <2> QED BY <2>1, <2>2
<1>7. Grown' /\ D3d!CountsAddUp' /\ Shown'
  BY CountIs, <1>1 DEF Inv, Grown, D3d!Ids, D3d!NextId, D3d!CountsAddUp, D3d!Children, Shown,
                       OnGpu, D3d!GpuTexture
<1> QED BY <1>6, <1>7 DEF Inv

LEMMA InvStutters ==
    ASSUME Inv, UNCHANGED <<objects, bits, hasGpu, textures, held, unlocked, lock>>
    PROVE  Inv'
BY CountIs DEF Inv, Grown, D3d!Ids, D3d!NextId, D3d!CountsAddUp, D3d!Children, Shown, OnGpu,
               D3d!GpuTexture, Locked, D3d!LockStaysInside

LEMMA InvInit ==
    ASSUME D3d!Direct3DAssumption, D3d!Init
    PROVE  Inv
<1>1. DOMAIN objects = {} /\ DOMAIN textures = {} /\ D3d!Ids = {}
  BY DEF D3d!Init, D3d!Ids
<1>2. Numbered(objects) /\ Numbered(textures)
  BY <1>1, NothingIsNumbered
<1>3. D3d!NextId = 1
  BY CountIs, <1>1, FS_EmptySet DEF D3d!NextId
<1>4. Grown
  BY <1>1, <1>2, <1>3 DEF D3d!Init, Grown, D3d!Direct3DAssumption
<1>5. D3d!CountsAddUp /\ Shown
  BY CountIs, <1>1, <1>2 DEF D3d!Init, D3d!CountsAddUp, Shown
<1>6. Locked
  BY DEF D3d!Init, Locked, D3d!LockStaysInside
<1> QED BY <1>4, <1>5, <1>6 DEF Inv

LEMMA QueriesKeep ==
    ASSUME D3d!QueryMethod
    PROVE  UNCHANGED <<objects, bits, textures, held, unlocked, lock>>
BY DEF D3d!QueryMethod, D3d!Stub, D3d!GetDisplayMode, D3d!GetDeviceCaps9, D3d!GetDeviceCaps,
       D3d!GetLevelDesc,
       D3d!GetSurfaceDesc, D3d!LockRect, D3d!Report

LEMMA InvKept ==
    ASSUME D3d!Direct3DAssumption, Inv, [D3d!Next]_(D3d!vars)
    PROVE  Inv'
<1>1. CASE UNCHANGED D3d!vars
  BY <1>1, InvStutters DEF D3d!vars
<1>2. CASE D3d!Next
  <2> USE <1>2 DEF D3d!Next
  <2>1. UNCHANGED hasGpu /\ D3d!Method
    OBVIOUS
  <2>2. \A kinds : D3d!Of(kinds) \subseteq D3d!Ids /\ D3d!Held \subseteq D3d!Ids
    BY DEF D3d!Of, D3d!Held
  <2>3. CASE D3d!Direct3DCreate9
    BY <2>1, <2>3, CreatesFactory
  <2>4. CASE \E d3d \in D3d!Of({"d3d9"}), width,
             height \in Sizes \cup {0} : D3d!CreateDevice(d3d, width, height)
    BY <2>1, <2>2, <2>4, CreatesDevice
  <2>5. CASE \E device \in D3d!Of({"device"}), width,
             height \in Sizes : D3d!CreateTexture(device, width, height)
    BY <2>1, <2>2, <2>5, CreatesTexture
  <2>6. CASE \E device \in D3d!Of({"device"}), length \in Sizes,
             kind \in {"vertex buffer", "index buffer"} :
                D3d!CreateBuffer(device, length, kind)
    BY <2>1, <2>2, <2>6, CreatesBuffer
  <2>7. CASE \E device \in D3d!Of({"device"}) : D3d!GetBackBuffer(device)
    BY <2>1, <2>2, <2>7, GivesBackBuffer
  <2>8. CASE \E o \in D3d!Held : D3d!QueryInterface(o) \/ D3d!AddRef(o)
    <3>1. PICK o \in D3d!Held : D3d!HandOut(o)
      BY <2>8 DEF D3d!QueryInterface, D3d!AddRef
    <3> QED BY <2>1, <2>2, <3>1, HandsOut
  <2>9. CASE \E o \in D3d!Held : D3d!Release(o)
    BY <2>1, <2>9, Releases
  <2>10. CASE \E o \in D3d!Of(D3d!Resources \cup {"device"}) : D3d!GetParent(o)
    <3>1. PICK o \in D3d!Of(D3d!Resources \cup {"device"}) : D3d!GetParent(o)
      BY <2>10
    <3>2. o \in D3d!Ids /\ objects[o].kind # "d3d9"
      BY DEF D3d!Of, D3d!Held, D3d!Resources
    <3>3. objects[o].parent \in D3d!Ids
      BY <3>2 DEF Inv, Grown
    <3>4. D3d!HandOut(objects[o].parent)
      BY <3>1 DEF D3d!GetParent
    <3>5. PICK p \in D3d!Ids : p = objects[o].parent
      BY <3>3
    <3> QED BY <2>1, <3>4, <3>5, HandsOut
  <2>11. CASE \E o \in D3d!Of({"texture"}) : D3d!GetSurfaceLevel(o)
    <3>1. PICK o \in D3d!Of({"texture"}) : D3d!HandOut(o)
      BY <2>11 DEF D3d!GetSurfaceLevel
    <3> QED BY <2>1, <2>2, <3>1, HandsOut
  <2>12. CASE \E o \in D3d!Of({"texture", "surface"}) : D3d!GuestWrites(o)
    BY <2>1, <2>2, <2>12, Writes
  <2>13. CASE \E o \in D3d!Of({"texture", "surface"}) : D3d!UnlockRect(o)
    BY <2>1, <2>2, <2>13, Unlocks
  <2>14. CASE \E o \in D3d!Of({"vertex buffer", "index buffer"}), offset, size \in Sizes \cup {0} :
                D3d!LockBuffer(o, offset, size)
    BY <2>1, <2>14, Locks
  <2>15. CASE D3d!QueryMethod
    BY <2>1, <2>15, QueriesKeep, InvStutters
  <2> QED BY <2>1, <2>3, <2>4, <2>5, <2>6, <2>7, <2>8, <2>9, <2>10, <2>11, <2>12, <2>13, <2>14,
             <2>15
          DEF D3d!Method
<1> QED BY <1>1, <1>2

ResourcesInv == focus = "direct3d" => Inv

(* The count of an object is the references to it, so that nothing in use   *)
(* reaches 0; an upload has the size the GPU wants and is shown, and that   *)
(* of no other texture; what LockBuffer gives out lies in the memory of the *)
(* buffer (add_ref and its callers, unlock_rect, lock_buffer).              *)
THEOREM ResourcesStayCoherent ==
    D3d!Direct3DAssumption => (ServicesSpec => []ResourcesCoherent)
<1> SUFFICES ASSUME D3d!Direct3DAssumption PROVE ServicesSpec => []ResourcesCoherent
  OBVIOUS
<1>1. Inv => D3d!UploadsAreAccepted
  <2> SUFFICES ASSUME Inv, NEW o \in D3d!Ids, D3d!GpuTexture(o) # 0
               PROVE  /\ D3d!GpuTexture(o) \in DOMAIN textures
                      /\ textures[D3d!GpuTexture(o)].length = objects[o].bytes
    BY DEF D3d!UploadsAreAccepted
  <2>1. OnGpu(o)
    BY DEF Inv, Shown
  <2>2. D3d!GpuTexture(o) \in DOMAIN textures
        /\ textures[D3d!GpuTexture(o)] = [length |-> objects[o].bytes, contents |-> unlocked[o]]
    BY <2>1 DEF Inv, Shown
  <2> QED BY <2>2
<1>2. Inv => D3d!GpuShowsLastUnlock
  <2> SUFFICES ASSUME Inv, NEW o \in D3d!Ids, objects[o].kind = "texture", hasGpu
               PROVE  textures[D3d!GpuTexture(o)].contents = unlocked[o]
    BY DEF D3d!GpuShowsLastUnlock, D3d!GpuTexture
  <2>1. textures[D3d!GpuTexture(o)] = [length |-> objects[o].bytes, contents |-> unlocked[o]]
    BY DEF Inv, Shown, OnGpu
  <2> QED BY <2>1
<1>3. ResourcesInv => ResourcesCoherent
  BY <1>1, <1>2 DEF ResourcesInv, ResourcesCoherent, Inv, Locked, D3d!ResourcesCoherent
<1>4. ServicesInit => ResourcesInv
  BY InvInit DEF ServicesInit, Focused, ResourcesInv
<1>5. ResourcesInv /\ [ServicesNext]_servicesVars => ResourcesInv'
  <2> SUFFICES ASSUME ResourcesInv, [ServicesNext]_servicesVars, focus' = "direct3d" PROVE Inv'
    BY DEF ResourcesInv
  <2>1. focus = "direct3d" /\ [D3d!Next]_(D3d!vars)
    BY DEF ServicesNext, Focused, servicesVars, direct3dVars, D3d!vars
  <2> QED BY <2>1, InvKept DEF ResourcesInv
<1> QED BY <1>3, <1>4, <1>5, PTL DEF ServicesSpec

-----------------------------------------------------------------------------
(* Files.  What the guest sees depends on the disk and the open files.      *)
FileBytes == Bytes \cup {ZeroByte}

OpenFiles ==
    [path : Spellings, kind : {"stream", "buffered", "directory"}, bytes : Seq(FileBytes),
     cursor : Nat, length : Nat, readable : BOOLEAN, writable : BOOLEAN, dirty : BOOLEAN]

Dirty(fs, f) == {h \in DOMAIN fs : fs[h].dirty /\ Fold(fs[h].path) = f}
Spelled(d, f) == {p \in DOMAIN d : Fold(p) = f}

SeenIn(d, fs, f) ==
    IF Dirty(fs, f) # {} THEN fs[CHOOSE h \in Dirty(fs, f) : TRUE].bytes
    ELSE IF Spelled(d, f) # {} THEN d[CHOOSE p \in Spelled(d, f) : TRUE]
    ELSE <<-1>>

ContentsIn(d, fs) == [f \in FileApi!Names |-> SeenIn(d, fs, f)]

OpenedIn(fs) ==
    [h \in {g \in DOMAIN fs : fs[g].kind # "directory"} |->
        [file |-> Fold(fs[h].path), position |-> fs[h].cursor]]

(* What an open file holds, and how it depends on the disk.                 *)
Holds(d, e) == IF e.kind = "stream" THEN d[e.path] ELSE e.bytes

Backs(d, e) ==
    /\ e \in OpenFiles
    /\ e.kind = "directory" => ~e.readable
    /\ e.writable => e.kind = "buffered"
    /\ e.dirty => e.writable
    /\ e.kind # "directory" => e.path \in DOMAIN d
    /\ e.kind = "buffered" /\ ~e.dirty => e.bytes = d[e.path]
    /\ e.kind = "stream" => e.length = Len(d[e.path])

(* No name is there in two spellings.                                       *)
OneSpelling(there) == \A p, q \in there : Fold(p) = Fold(q) => p = q

Stored(d) ==
    /\ DOMAIN d \subseteq Spellings /\ OneSpelling(DOMAIN d)
    /\ \A p \in DOMAIN d : d[p] \in Seq(FileBytes)

Exclusive(fs) ==
    \A g, h \in DOMAIN fs : Fold(fs[g].path) = Fold(fs[h].path) /\ fs[g].writable => g = h

Backed(d, fs) ==
    /\ Stored(d)
    /\ \A h \in DOMAIN fs : Backs(d, fs[h])
    /\ Exclusive(fs)

LEMMA SeenDirty ==
    ASSUME NEW d, NEW fs, Backed(d, fs), NEW h \in DOMAIN fs,
           fs[h].dirty = TRUE
    PROVE  SeenIn(d, fs, Fold(fs[h].path)) = fs[h].bytes
<1> DEFINE f == Fold(fs[h].path)
<1>1. \A g \in Dirty(fs, f) : g = h
  <2> SUFFICES ASSUME NEW g \in Dirty(fs, f) PROVE g = h
    OBVIOUS
  <2>1. g \in DOMAIN fs /\ Fold(fs[g].path) = Fold(fs[h].path) /\ fs[h].writable
    BY DEF Dirty, Backed, Backs
  <2> QED BY <2>1 DEF Backed, Exclusive
<1>2. h \in Dirty(fs, f)
  BY DEF Dirty
<1>3. (CHOOSE g \in Dirty(fs, f) : TRUE) = h
  BY <1>1, <1>2
<1> QED BY <1>2, <1>3 DEF SeenIn

Clean(fs, p) == \A h \in DOMAIN fs : Fold(fs[h].path) = Fold(p) => ~fs[h].dirty

LEMMA SeenClean ==
    ASSUME NEW d, NEW fs, Backed(d, fs), NEW p \in DOMAIN d, Clean(fs, p)
    PROVE  SeenIn(d, fs, Fold(p)) = d[p]
<1>1. Dirty(fs, Fold(p)) = {}
  BY DEF Dirty, Clean
<1>2. Spelled(d, Fold(p)) = {p}
  BY DEF Spelled, Backed, Stored, OneSpelling
<1>3. (CHOOSE q \in {p} : TRUE) = p
  OBVIOUS
<1> QED BY <1>1, <1>2, <1>3 DEF SeenIn

LEMMA SeenAbsent ==
    ASSUME NEW d, NEW fs, NEW p, Clean(fs, p), Spelled(d, Fold(p)) = {}
    PROVE  SeenIn(d, fs, Fold(p)) = <<-1>>
<1>1. Dirty(fs, Fold(p)) = {}
  BY DEF Dirty, Clean
<1> QED BY <1>1 DEF SeenIn

LEMMA SeenHere ==
    ASSUME NEW d, NEW fs, Backed(d, fs), NEW h \in DOMAIN fs,
           fs[h].kind # "directory"
    PROVE  SeenIn(d, fs, Fold(fs[h].path)) = Holds(d, fs[h])
<1>1. Backs(d, fs[h])
  BY DEF Backed
<1>2. CASE fs[h].dirty
  <2>1. fs[h].dirty = TRUE /\ fs[h].kind # "stream"
    BY <1>1, <1>2 DEF Backs, OpenFiles
  <2> QED BY <2>1, SeenDirty DEF Holds
<1>3. CASE ~fs[h].dirty
  <2>1. Clean(fs, fs[h].path)
    <3> SUFFICES ASSUME NEW g \in DOMAIN fs, Fold(fs[g].path) = Fold(fs[h].path), fs[g].dirty
                 PROVE  FALSE
      BY DEF Clean
    <3>1. fs[g].writable
      BY DEF Backed, Backs
    <3> QED BY <1>3, <3>1 DEF Backed, Exclusive
  <2>2. fs[h].path \in Spellings /\ fs[h].path \in DOMAIN d
    BY <1>1 DEF Backs, OpenFiles
  <2>3. SeenIn(d, fs, Fold(fs[h].path)) = d[fs[h].path]
    BY <2>1, <2>2, SeenClean
  <2>4. Holds(d, fs[h]) = d[fs[h].path]
    BY <1>1, <1>3 DEF Holds, Backs, OpenFiles
  <2> QED BY <2>3, <2>4
<1> QED BY <1>2, <1>3

(* A change of one file is seen of no other.                                *)
SeesSame(d, fs, dd, ffs, f) ==
    /\ Dirty(ffs, f) = Dirty(fs, f) /\ \A h \in Dirty(fs, f) : ffs[h].bytes = fs[h].bytes
    /\ Spelled(dd, f) = Spelled(d, f) /\ \A p \in Spelled(d, f) : dd[p] = d[p]

LEMMA SeenAlike ==
    ASSUME NEW d, NEW fs, NEW dd, NEW ffs, NEW f, SeesSame(d, fs, dd, ffs, f)
    PROVE  SeenIn(dd, ffs, f) = SeenIn(d, fs, f)
<1>1. Dirty(fs, f) # {} => (CHOOSE h \in Dirty(fs, f) : TRUE) \in Dirty(fs, f)
  OBVIOUS
<1>2. Spelled(d, f) # {} => (CHOOSE p \in Spelled(d, f) : TRUE) \in Spelled(d, f)
  OBVIOUS
<1> QED BY <1>1, <1>2 DEF SeenIn, SeesSame

-----------------------------------------------------------------------------
(* What the guest sees after one change of the disk or the open files.      *)
Moved(fs, h, n) == [fs EXCEPT ![h].cursor = n]
OpenedAfterMove(fs, h, n) ==
    IF fs[h].kind = "directory" THEN OpenedIn(fs) ELSE [OpenedIn(fs) EXCEPT ![h].position = n]

LEMMA CursorMoves ==
    ASSUME NEW d, NEW fs, Backed(d, fs), NEW h \in DOMAIN fs, NEW n \in Nat,
           NEW ffs, ffs = Moved(fs, h, n)
    PROVE  /\ Backed(d, ffs) /\ ContentsIn(d, ffs) = ContentsIn(d, fs)
           /\ OpenedIn(ffs) = OpenedAfterMove(fs, h, n)
<1>1. DOMAIN ffs = DOMAIN fs /\ \A g \in DOMAIN fs : g # h => ffs[g] = fs[g]
  BY DEF Moved
<1>2. ffs[h] = [fs[h] EXCEPT !.cursor = n]
  BY DEF Moved
<1>3. \A g \in DOMAIN fs : Backs(d, ffs[g])
  <2> SUFFICES ASSUME NEW g \in DOMAIN fs PROVE Backs(d, ffs[g])
    OBVIOUS
  <2>1. CASE g # h
    BY <1>1, <2>1 DEF Backed
  <2>2. CASE g = h
    <3> DEFINE e == fs[h]
    <3>1. Backs(d, e)
      BY DEF Backed
    <3> HIDE DEF e
    <3>2. Backs(d, [e EXCEPT !.cursor = n])
      BY <3>1 DEF Backs, OpenFiles
    <3> QED BY <1>2, <2>2, <3>2 DEF e
  <2> QED BY <2>1, <2>2
<1>4. \A g \in DOMAIN fs :
        /\ ffs[g].path = fs[g].path /\ ffs[g].writable = fs[g].writable
        /\ ffs[g].dirty = fs[g].dirty /\ ffs[g].bytes = fs[g].bytes
        /\ ffs[g].kind = fs[g].kind /\ ffs[g].cursor = IF g = h THEN n ELSE fs[g].cursor
  <2> SUFFICES ASSUME NEW g \in DOMAIN fs
               PROVE  /\ ffs[g].path = fs[g].path /\ ffs[g].writable = fs[g].writable
                      /\ ffs[g].dirty = fs[g].dirty /\ ffs[g].bytes = fs[g].bytes
                      /\ ffs[g].kind = fs[g].kind
                      /\ ffs[g].cursor = IF g = h THEN n ELSE fs[g].cursor
    OBVIOUS
  <2>1. fs[g] \in OpenFiles
    BY DEF Backed, Backs
  <2> QED BY <1>1, <1>2, <2>1 DEF OpenFiles
<1>5. Exclusive(ffs)
  BY <1>1, <1>4 DEF Backed, Exclusive
<1>6. Backed(d, ffs)
  BY <1>1, <1>3, <1>5 DEF Backed
<1>7. \A f : SeenIn(d, ffs, f) = SeenIn(d, fs, f)
  <2> SUFFICES ASSUME NEW f PROVE SeenIn(d, ffs, f) = SeenIn(d, fs, f)
    OBVIOUS
  <2>1. SeesSame(d, fs, d, ffs, f)
    BY <1>1, <1>4 DEF Dirty, SeesSame
  <2> QED BY <2>1, SeenAlike
<1>8. ContentsIn(d, ffs) = ContentsIn(d, fs)
  BY <1>7 DEF ContentsIn
<1>9. {g \in DOMAIN ffs : ffs[g].kind # "directory"} = {g \in DOMAIN fs : fs[g].kind # "directory"}
  BY <1>1, <1>4
<1>10. ASSUME fs[h].kind = "directory" PROVE OpenedIn(ffs) = OpenedIn(fs)
  BY <1>4, <1>9, <1>10 DEF OpenedIn
<1>11. ASSUME fs[h].kind # "directory"
       PROVE  OpenedIn(ffs) = [OpenedIn(fs) EXCEPT ![h].position = n]
  BY <1>4, <1>9, <1>11 DEF OpenedIn
<1> QED BY <1>6, <1>8, <1>10, <1>11 DEF OpenedAfterMove

(* The buffer of a handle that writes is filled.                            *)
Filled(fs, h, b) == [fs EXCEPT ![h].bytes = b, ![h].dirty = TRUE]

LEMMA FilledIs ==
    ASSUME NEW e \in OpenFiles, NEW b \in Seq(FileBytes),
           NEW x, x = [e EXCEPT !.bytes = b, !.dirty = TRUE]
    PROVE  /\ x.path = e.path /\ x.kind = e.kind /\ x.cursor = e.cursor
           /\ x.writable = e.writable /\ x.bytes = b /\ x.dirty = TRUE
           /\ x \in OpenFiles
BY DEF OpenFiles

LEMMA BufferFills ==
    ASSUME NEW d, NEW fs, Backed(d, fs), NEW h \in DOMAIN fs,
           fs[h].writable, NEW b \in Seq(FileBytes),
           NEW ffs, ffs = Filled(fs, h, b)
    PROVE  /\ Backed(d, ffs) /\ OpenedIn(ffs) = OpenedIn(fs)
           /\ ContentsIn(d, ffs) = [ContentsIn(d, fs) EXCEPT ![Fold(fs[h].path)] = b]
<1>1. DOMAIN ffs = DOMAIN fs /\ \A g \in DOMAIN fs : g # h => ffs[g] = fs[g]
  BY DEF Filled
<1>2. ffs[h] = [fs[h] EXCEPT !.bytes = b, !.dirty = TRUE]
  BY DEF Filled
<1> DEFINE e == fs[h]
<1>3. Backs(d, e) /\ e.writable
  BY DEF Backed
<1>4. /\ Backs(d, ffs[h]) /\ ffs[h].path = e.path /\ ffs[h].kind = e.kind
      /\ ffs[h].cursor = e.cursor /\ ffs[h].writable = e.writable
      /\ ffs[h].bytes = b /\ ffs[h].dirty = TRUE
  <2> HIDE DEF e
  <2>1. ffs[h] = [e EXCEPT !.bytes = b, !.dirty = TRUE]
    BY <1>2 DEF e
  <2>2. e \in OpenFiles
    BY <1>3 DEF Backs
  <2>3. /\ ffs[h].path = e.path /\ ffs[h].kind = e.kind /\ ffs[h].cursor = e.cursor
        /\ ffs[h].writable = e.writable /\ ffs[h].bytes = b /\ ffs[h].dirty = TRUE
        /\ ffs[h] \in OpenFiles
    BY <2>1, <2>2, FilledIs
  <2>4. e.writable /\ e.kind = "buffered" /\ e.path \in DOMAIN d
    BY <1>3 DEF Backs
  <2>5. /\ ffs[h].writable /\ ffs[h].kind = "buffered" /\ ffs[h].path \in DOMAIN d
        /\ ffs[h].dirty /\ ffs[h] \in OpenFiles
    BY <2>3, <2>4
  <2>6. Backs(d, ffs[h])
    BY <2>5 DEF Backs
  <2> QED BY <2>3, <2>6
<1> HIDE DEF e
<1>5. \A g \in DOMAIN fs : Backs(d, ffs[g])
  BY <1>1, <1>4 DEF Backed
<1>6. Exclusive(ffs)
  BY <1>1, <1>4 DEF Backed, Exclusive, e
<1>7. Backed(d, ffs)
  BY <1>1, <1>5, <1>6 DEF Backed
<1>8. SeenIn(d, ffs, Fold(e.path)) = b
  <2>1. h \in DOMAIN ffs /\ ffs[h].dirty = TRUE
    BY <1>1, <1>4
  <2>2. SeenIn(d, ffs, Fold(ffs[h].path)) = ffs[h].bytes
    BY <1>7, <2>1, SeenDirty
  <2> QED BY <1>4, <2>2
<1>9. \A f \in FileApi!Names : f # Fold(e.path) => SeenIn(d, ffs, f) = SeenIn(d, fs, f)
  <2> SUFFICES ASSUME NEW f, f # Fold(e.path) PROVE SeenIn(d, ffs, f) = SeenIn(d, fs, f)
    OBVIOUS
  <2>1. SeesSame(d, fs, d, ffs, f)
    BY <1>1, <1>4 DEF Dirty, SeesSame, e
  <2> QED BY <2>1, SeenAlike
<1>10. ContentsIn(d, ffs) = [ContentsIn(d, fs) EXCEPT ![Fold(e.path)] = b]
  BY <1>8, <1>9 DEF ContentsIn
<1>11. {g \in DOMAIN ffs : ffs[g].kind # "directory"} = {g \in DOMAIN fs : fs[g].kind # "directory"}
  BY <1>1, <1>4 DEF e
<1>12. OpenedIn(ffs) = OpenedIn(fs)
  BY <1>1, <1>4, <1>11 DEF OpenedIn, e
<1> QED BY <1>7, <1>10, <1>12 DEF e

Stores(dd, d, p, c) ==
    /\ Stored(dd) /\ DOMAIN dd = DOMAIN d \cup {p} /\ dd[p] = c
    /\ \A q \in DOMAIN d : q # p => dd[q] = d[q]

(* Nothing on the disk has another spelling of the name.                    *)
Spells(d, p) == p \in Spellings /\ OneSpelling(DOMAIN d \cup {p})

LEMMA StoredMore ==
    ASSUME NEW d, Stored(d), NEW p, Spells(d, p), NEW c \in Seq(FileBytes)
    PROVE  Stores(FileApi!Put(d, p, c), d, p, c)
BY DEF FileApi!Put, Stored, Stores, Spells

LEMMA SpelledAlike ==
    ASSUME NEW d, NEW dd, NEW p,
           DOMAIN dd \ {p} = DOMAIN d \ {p}, \A q \in DOMAIN d \ {p} : dd[q] = d[q],
           NEW f, f # Fold(p)
    PROVE  Spelled(dd, f) = Spelled(d, f) /\ \A q \in Spelled(d, f) : dd[q] = d[q]
<1>1. \A q \in Spelled(d, f) : q # p
  BY DEF Spelled
<1>2. \A q \in Spelled(dd, f) : q # p
  BY DEF Spelled
<1> QED BY <1>1, <1>2 DEF Spelled

(* The disk changes where no handle looks.                                  *)
Unopened(fs, p) == \A h \in DOMAIN fs : Fold(fs[h].path) # Fold(p)

LEMMA DiskGrows ==
    ASSUME NEW d, NEW fs, Backed(d, fs), NEW p, Spells(d, p),
           Unopened(fs, p), NEW c \in Seq(FileBytes), NEW dd, dd = FileApi!Put(d, p, c)
    PROVE  /\ Backed(dd, fs)
           /\ ContentsIn(dd, fs) = [ContentsIn(d, fs) EXCEPT ![Fold(p)] = c]
<1>1. /\ Stored(dd) /\ DOMAIN dd = DOMAIN d \cup {p} /\ dd[p] = c
      /\ \A q \in DOMAIN d : q # p => dd[q] = d[q]
  <2>1. Stores(FileApi!Put(d, p, c), d, p, c)
    BY StoredMore DEF Backed
  <2> QED BY <2>1 DEF Stores
<1>2. \A h \in DOMAIN fs : Backs(dd, fs[h])
  <2> SUFFICES ASSUME NEW h \in DOMAIN fs PROVE Backs(dd, fs[h])
    OBVIOUS
  <2>1. Backs(d, fs[h]) /\ fs[h].path # p
    BY DEF Backed, Unopened
  <2>2. fs[h].kind # "directory" => dd[fs[h].path] = d[fs[h].path] /\ fs[h].path \in DOMAIN dd
    BY <1>1, <2>1 DEF Backs
  <2> QED BY <2>1, <2>2 DEF Backs
<1>3. Backed(dd, fs)
  BY <1>1, <1>2 DEF Backed
<1>4. SeenIn(dd, fs, Fold(p)) = c
  <2>1. Clean(fs, p)
    BY DEF Clean, Unopened
  <2> QED BY <1>1, <1>3, <2>1, SeenClean
<1>5. \A f \in FileApi!Names : f # Fold(p) => SeenIn(dd, fs, f) = SeenIn(d, fs, f)
  <2> SUFFICES ASSUME NEW f, f # Fold(p) PROVE SeenIn(dd, fs, f) = SeenIn(d, fs, f)
    OBVIOUS
  <2>1. Spelled(dd, f) = Spelled(d, f) /\ \A q \in Spelled(d, f) : dd[q] = d[q]
    BY <1>1, SpelledAlike
  <2>2. SeesSame(d, fs, dd, fs, f)
    BY <2>1 DEF SeesSame
  <2> QED BY <2>2, SeenAlike
<1>6. ContentsIn(dd, fs) = [ContentsIn(d, fs) EXCEPT ![Fold(p)] = c]
  BY <1>4, <1>5 DEF ContentsIn
<1> QED BY <1>3, <1>6

LEMMA DiskShrinks ==
    ASSUME NEW d, NEW fs, Backed(d, fs), NEW p \in DOMAIN d,
           Unopened(fs, p), NEW dd, dd = FileApi!Without(d, p)
    PROVE  /\ Backed(dd, fs)
           /\ ContentsIn(dd, fs) = [ContentsIn(d, fs) EXCEPT ![Fold(p)] = <<-1>>]
<1>1. /\ DOMAIN dd = DOMAIN d \ {p} /\ p \notin DOMAIN dd
      /\ \A q \in DOMAIN d : q # p => dd[q] = d[q]
  BY DEF FileApi!Without
<1>2. Stored(dd)
  BY <1>1 DEF Backed, Stored, OneSpelling
<1>3. \A h \in DOMAIN fs : Backs(dd, fs[h])
  <2> SUFFICES ASSUME NEW h \in DOMAIN fs PROVE Backs(dd, fs[h])
    OBVIOUS
  <2>1. Backs(d, fs[h]) /\ fs[h].path # p
    BY DEF Backed, Unopened
  <2>2. fs[h].kind # "directory" => dd[fs[h].path] = d[fs[h].path] /\ fs[h].path \in DOMAIN dd
    BY <1>1, <2>1 DEF Backs
  <2> QED BY <2>1, <2>2 DEF Backs
<1>4. Backed(dd, fs)
  BY <1>2, <1>3 DEF Backed
<1>5. SeenIn(dd, fs, Fold(p)) = <<-1>>
  <2>1. Clean(fs, p)
    BY DEF Clean, Unopened
  <2>2. Spelled(dd, Fold(p)) = {}
    BY <1>1 DEF Spelled, Backed, Stored, OneSpelling
  <2> QED BY <2>1, <2>2, SeenAbsent
<1>6. \A f \in FileApi!Names : f # Fold(p) => SeenIn(dd, fs, f) = SeenIn(d, fs, f)
  <2> SUFFICES ASSUME NEW f, f # Fold(p) PROVE SeenIn(dd, fs, f) = SeenIn(d, fs, f)
    OBVIOUS
  <2>1. Spelled(dd, f) = Spelled(d, f) /\ \A q \in Spelled(d, f) : dd[q] = d[q]
    BY <1>1, SpelledAlike
  <2>2. SeesSame(d, fs, dd, fs, f)
    BY <2>1 DEF SeesSame
  <2> QED BY <2>2, SeenAlike
<1>7. ContentsIn(dd, fs) = [ContentsIn(d, fs) EXCEPT ![Fold(p)] = <<-1>>]
  BY <1>5, <1>6 DEF ContentsIn
<1> QED BY <1>4, <1>7

(* The buffer of a handle goes to the disk.                                 *)
Cleaned(fs, h) == [fs EXCEPT ![h].dirty = FALSE]

WithFlushed(d, fs, h) == FileApi!Put(d, fs[h].path, fs[h].bytes)

LooksTheSame(d, fs, dd, ffs) ==
    /\ Backed(dd, ffs) /\ OpenedIn(ffs) = OpenedIn(fs)
    /\ ContentsIn(dd, ffs) = ContentsIn(d, fs) /\ DOMAIN dd = DOMAIN d

LEMMA BufferFlushes ==
    ASSUME NEW d, NEW fs, Backed(d, fs), NEW h \in DOMAIN fs,
           fs[h].dirty = TRUE, NEW ffs, ffs = Cleaned(fs, h),
           NEW dd, dd = WithFlushed(d, fs, h)
    PROVE  LooksTheSame(d, fs, dd, ffs)
<1>1. DOMAIN ffs = DOMAIN fs /\ \A g \in DOMAIN fs : g # h => ffs[g] = fs[g]
  BY DEF Cleaned
<1>2. ffs[h] = [fs[h] EXCEPT !.dirty = FALSE]
  BY DEF Cleaned
<1> DEFINE e == fs[h]
<1>3. Backs(d, e) /\ e.dirty = TRUE
  BY DEF Backed
<1>4. /\ e.path \in Spellings /\ e.path \in DOMAIN d /\ e.kind = "buffered" /\ e.writable
      /\ e.bytes \in Seq(FileBytes)
  <2> HIDE DEF e
  <2> QED BY <1>3 DEF Backs, OpenFiles
<1>5. /\ Stored(dd) /\ DOMAIN dd = DOMAIN d /\ dd[e.path] = e.bytes
      /\ \A q \in DOMAIN d : q # e.path => dd[q] = d[q]
  <2>1. Stored(d) /\ dd = FileApi!Put(d, e.path, e.bytes)
    BY DEF Backed, WithFlushed
  <2> HIDE DEF e
  <2>2. Spells(d, e.path)
    <3>1. DOMAIN d \cup {e.path} = DOMAIN d
      BY <1>4
    <3> QED BY <1>4, <2>1, <3>1 DEF Spells, Stored
  <2>3. Stores(FileApi!Put(d, e.path, e.bytes), d, e.path, e.bytes)
    BY <1>4, <2>1, <2>2, StoredMore
  <2> QED BY <1>4, <2>1, <2>3 DEF Stores
<1>6. /\ Backs(dd, ffs[h]) /\ ffs[h].path = e.path /\ ffs[h].kind = e.kind
      /\ ffs[h].cursor = e.cursor /\ ffs[h].writable = e.writable
      /\ ffs[h].bytes = e.bytes /\ ffs[h].dirty = FALSE
  <2> HIDE DEF e
  <2>1. ffs[h] = [e EXCEPT !.dirty = FALSE]
    BY <1>2 DEF e
  <2>2. e \in OpenFiles
    BY <1>3 DEF Backs
  <2>3. /\ ffs[h].path = e.path /\ ffs[h].kind = e.kind /\ ffs[h].cursor = e.cursor
        /\ ffs[h].writable = e.writable /\ ffs[h].bytes = e.bytes /\ ffs[h].dirty = FALSE
        /\ ffs[h] \in OpenFiles
    BY <2>1, <2>2 DEF OpenFiles
  <2>4. Backs(dd, ffs[h])
    BY <1>4, <1>5, <2>3 DEF Backs
  <2> QED BY <2>3, <2>4
<1>7. \A g \in DOMAIN fs : g # h => fs[g].path # e.path
  BY <1>4 DEF Backed, Exclusive
<1> HIDE DEF e
<1>8. \A g \in DOMAIN fs : Backs(dd, ffs[g])
  <2> SUFFICES ASSUME NEW g \in DOMAIN fs, g # h PROVE Backs(dd, ffs[g])
    BY <1>6
  <2>1. Backs(d, fs[g]) /\ fs[g].path # e.path /\ ffs[g] = fs[g]
    BY <1>1, <1>7 DEF Backed
  <2>2. fs[g].kind # "directory" => dd[fs[g].path] = d[fs[g].path] /\ fs[g].path \in DOMAIN dd
    BY <1>5, <2>1 DEF Backs
  <2>3. Backs(dd, fs[g])
    BY <2>1, <2>2 DEF Backs
  <2> QED BY <2>1, <2>3
<1>9. Backed(dd, ffs)
  <2>1. Exclusive(ffs)
    BY <1>1, <1>6 DEF Backed, Exclusive, e
  <2> QED BY <1>1, <1>5, <1>8, <2>1 DEF Backed
<1>10. SeenIn(dd, ffs, Fold(e.path)) = SeenIn(d, fs, Fold(e.path))
  <2>1. SeenIn(d, fs, Fold(e.path)) = e.bytes
    BY <1>3, SeenDirty DEF e
  <2>2. h \in DOMAIN ffs /\ ffs[h].kind # "directory" /\ Holds(dd, ffs[h]) = e.bytes
    BY <1>1, <1>4, <1>6 DEF Holds
  <2>3. SeenIn(dd, ffs, Fold(ffs[h].path)) = Holds(dd, ffs[h])
    BY <1>9, <2>2, SeenHere
  <2> QED BY <1>6, <2>1, <2>2, <2>3
<1>11. \A f : f # Fold(e.path) => SeenIn(dd, ffs, f) = SeenIn(d, fs, f)
  <2> SUFFICES ASSUME NEW f, f # Fold(e.path) PROVE SeenIn(dd, ffs, f) = SeenIn(d, fs, f)
    OBVIOUS
  <2>1. Spelled(dd, f) = Spelled(d, f) /\ \A q \in Spelled(d, f) : dd[q] = d[q]
    BY <1>4, <1>5, SpelledAlike
  <2>2. Dirty(ffs, f) = Dirty(fs, f) /\ \A g \in Dirty(fs, f) : ffs[g].bytes = fs[g].bytes
    BY <1>1, <1>6 DEF Dirty, e
  <2>3. SeesSame(d, fs, dd, ffs, f)
    BY <2>1, <2>2 DEF SeesSame
  <2> QED BY <2>3, SeenAlike
<1>12. ContentsIn(dd, ffs) = ContentsIn(d, fs)
  BY <1>10, <1>11 DEF ContentsIn
<1>13. {g \in DOMAIN ffs : ffs[g].kind # "directory"} = {g \in DOMAIN fs : fs[g].kind # "directory"}
  BY <1>1, <1>6 DEF e
<1>14. OpenedIn(ffs) = OpenedIn(fs)
  BY <1>1, <1>6, <1>13 DEF OpenedIn, e
<1> QED BY <1>5, <1>9, <1>12, <1>14 DEF LooksTheSame

(* A handle that has nothing to write goes.                                 *)
OpenedAfterGoing(fs, h) ==
    IF fs[h].kind = "directory" THEN OpenedIn(fs)
    ELSE [g \in DOMAIN OpenedIn(fs) \ {h} |-> OpenedIn(fs)[g]]

LEMMA HandleGoes ==
    ASSUME NEW d, NEW fs, Backed(d, fs), NEW h \in DOMAIN fs, fs[h].dirty = FALSE,
           NEW ffs, ffs = FileApi!Without(fs, h)
    PROVE  /\ Backed(d, ffs) /\ ContentsIn(d, ffs) = ContentsIn(d, fs)
           /\ OpenedIn(ffs) = OpenedAfterGoing(fs, h)
<1>1. DOMAIN ffs = DOMAIN fs \ {h} /\ \A g \in DOMAIN ffs : ffs[g] = fs[g]
  BY DEF FileApi!Without
<1>2. Backed(d, ffs)
  BY <1>1 DEF Backed, Exclusive
<1>3. \A f : SeenIn(d, ffs, f) = SeenIn(d, fs, f)
  <2> SUFFICES ASSUME NEW f PROVE SeenIn(d, ffs, f) = SeenIn(d, fs, f)
    OBVIOUS
  <2>1. Dirty(ffs, f) = Dirty(fs, f) /\ \A g \in Dirty(fs, f) : ffs[g].bytes = fs[g].bytes
    BY <1>1 DEF Dirty
  <2>2. SeesSame(d, fs, d, ffs, f)
    BY <2>1 DEF SeesSame
  <2> QED BY <2>2, SeenAlike
<1>4. ContentsIn(d, ffs) = ContentsIn(d, fs)
  BY <1>3 DEF ContentsIn
<1>5. ASSUME fs[h].kind = "directory" PROVE OpenedIn(ffs) = OpenedIn(fs)
  <2>1. {g \in DOMAIN ffs : ffs[g].kind # "directory"}
           = {g \in DOMAIN fs : fs[g].kind # "directory"}
    BY <1>1, <1>5
  <2> QED BY <1>1, <2>1 DEF OpenedIn
<1>6. ASSUME fs[h].kind # "directory"
      PROVE  OpenedIn(ffs) = [g \in DOMAIN OpenedIn(fs) \ {h} |-> OpenedIn(fs)[g]]
  <2>1. {g \in DOMAIN ffs : ffs[g].kind # "directory"}
           = {g \in DOMAIN fs : fs[g].kind # "directory"} \ {h}
    BY <1>1
  <2> QED BY <1>1, <2>1 DEF OpenedIn
<1> QED BY <1>2, <1>4, <1>5, <1>6 DEF OpenedAfterGoing

(* And one comes.                                                           *)
Alone(fs, e) ==
    \A g \in DOMAIN fs : Fold(fs[g].path) = Fold(e.path) => ~fs[g].writable /\ ~e.writable

Fits(d, fs, e) == Backs(d, e) /\ e.dirty = FALSE /\ Alone(fs, e)

OpenedAfterComing(fs, h, e) ==
    IF e.kind = "directory" THEN OpenedIn(fs)
    ELSE [g \in DOMAIN OpenedIn(fs) \cup {h} |->
            IF g = h THEN [file |-> Fold(e.path), position |-> e.cursor] ELSE OpenedIn(fs)[g]]

LEMMA HandleComes ==
    ASSUME NEW d, NEW fs, Backed(d, fs), NEW h, h \notin DOMAIN fs,
           NEW e, Fits(d, fs, e),
           NEW ffs, ffs = FileApi!Put(fs, h, e)
    PROVE  /\ Backed(d, ffs) /\ ContentsIn(d, ffs) = ContentsIn(d, fs)
           /\ OpenedIn(ffs) = OpenedAfterComing(fs, h, e)
<1>1. DOMAIN ffs = DOMAIN fs \cup {h} /\ ffs[h] = e /\ \A g \in DOMAIN fs : ffs[g] = fs[g]
  BY DEF FileApi!Put
<1>2. Backed(d, ffs)
  <2>1. \A g \in DOMAIN ffs : Backs(d, ffs[g])
    BY <1>1 DEF Backed, Fits
  <2>2. Exclusive(ffs)
    BY <1>1 DEF Backed, Exclusive, Alone, Fits
  <2> QED BY <2>1, <2>2 DEF Backed
<1>3. \A f : SeenIn(d, ffs, f) = SeenIn(d, fs, f)
  <2> SUFFICES ASSUME NEW f PROVE SeenIn(d, ffs, f) = SeenIn(d, fs, f)
    OBVIOUS
  <2>1. Dirty(ffs, f) = Dirty(fs, f) /\ \A g \in Dirty(fs, f) : ffs[g].bytes = fs[g].bytes
    BY <1>1 DEF Dirty, Fits
  <2>2. SeesSame(d, fs, d, ffs, f)
    BY <2>1 DEF SeesSame
  <2> QED BY <2>2, SeenAlike
<1>4. ContentsIn(d, ffs) = ContentsIn(d, fs)
  BY <1>3 DEF ContentsIn
<1>5. ASSUME e.kind = "directory" PROVE OpenedIn(ffs) = OpenedIn(fs)
  <2>1. {g \in DOMAIN ffs : ffs[g].kind # "directory"}
           = {g \in DOMAIN fs : fs[g].kind # "directory"}
    BY <1>1, <1>5
  <2> QED BY <1>1, <2>1 DEF OpenedIn
<1>6. ASSUME e.kind # "directory"
      PROVE  OpenedIn(ffs) = [g \in DOMAIN OpenedIn(fs) \cup {h} |->
                         IF g = h THEN [file |-> Fold(e.path), position |-> e.cursor]
                         ELSE OpenedIn(fs)[g]]
  <2>1. {g \in DOMAIN ffs : ffs[g].kind # "directory"}
           = {g \in DOMAIN fs : fs[g].kind # "directory"} \cup {h}
    BY <1>1, <1>6
  <2>2. DOMAIN OpenedIn(fs) = {g \in DOMAIN fs : fs[g].kind # "directory"}
    BY DEF OpenedIn
  <2> QED BY <1>1, <2>1, <2>2 DEF OpenedIn
<1> QED BY <1>2, <1>4, <1>5, <1>6 DEF OpenedAfterComing

-----------------------------------------------------------------------------
(* What the guest sees of the files that there are.                         *)
LEMMA SeenIs ==
    /\ FileApi!SeenContents = ContentsIn(disk, files)
    /\ FileApi!SeenContents' = ContentsIn(disk', files')
    /\ FileApi!FileHandles = OpenedIn(files)
    /\ FileApi!FileHandles' = OpenedIn(files')
<1>1. /\ \A f : FileApi!Seen(f) = SeenIn(disk, files, f)
      /\ \A f : FileApi!Seen(f)' = SeenIn(disk', files', f)
  BY DEF FileApi!Seen, FileApi!DirtyOn, FileApi!SpelledOnDisk, FileApi!Opened, SeenIn, Dirty,
         Spelled
<1>2. /\ FileApi!SeenContents = ContentsIn(disk, files)
      /\ FileApi!SeenContents' = ContentsIn(disk', files')
  BY <1>1 DEF FileApi!SeenContents, ContentsIn
<1>3. FileApi!FileHandles = OpenedIn(files) /\ FileApi!FileHandles' = OpenedIn(files')
  BY DEF FileApi!FileHandles, FileApi!Opened, OpenedIn
<1> QED BY <1>2, <1>3

Answers == [bytes : Seq(FileBytes), number : Nat]

FilesInv ==
    /\ Backed(disk, files) /\ got \in Answers
    /\ directories \subseteq Spellings \ DOMAIN disk
    /\ OneSpelling(DOMAIN disk \cup directories)
    /\ nextFile \in Nat /\ \E k \in Nat : nextFile = FileApi!FirstFile + 4 * k
    /\ \A h \in DOMAIN files : h \in Nat /\ h < nextFile

(* There is at most one file or directory of a name, found in any spelling; *)
(* the guest writes no name in another.                                     *)
LEMMA FoundIs ==
    ASSUME FilesInv, NEW p \in Spellings, NEW q \in FileApi!ExistingAs(p)
    PROVE  /\ q \in DOMAIN disk \cup directories /\ q \in Spellings /\ Fold(q) = Fold(p)
           /\ FileApi!ExistingAs(p) = {q}
BY DEF FilesInv, Backed, Stored, OneSpelling, FileApi!ExistingAs

LEMMA AllFound ==
    ASSUME FilesInv, NEW p \in Spellings
    PROVE  \A q \in DOMAIN disk \cup directories :
             Fold(q) = Fold(p) => q \in FileApi!ExistingAs(p)
BY DEF FilesInv, OneSpelling, FileApi!ExistingAs

LEMMA SpellsAsDisk ==
    ASSUME FilesInv, ~Respells, NEW p \in Spellings, FileApi!MaySpell(p)
    PROVE  /\ OneSpelling(DOMAIN disk \cup directories \cup {p}) /\ Spells(disk, p)
           /\ FileApi!ExistingAs(p) \subseteq {p}
<1>1. FileApi!ExistingAs(p) \subseteq {p}
  BY DEF FileApi!MaySpell
<1>2. \A q \in DOMAIN disk \cup directories : Fold(q) = Fold(p) => q = p
  BY <1>1, AllFound
<1>3. OneSpelling(DOMAIN disk \cup directories \cup {p})
  BY <1>2 DEF FilesInv, OneSpelling
<1> QED BY <1>1, <1>3 DEF Spells, OneSpelling

LEMMA OpensOn ==
    ASSUME NEW p
    PROVE  \A h \in DOMAIN files : Fold(files[h].path) = Fold(p) <=> h \in FileApi!OpenOn(p)
BY DEF FileApi!OpenOn, FileApi!Opened

LEMMA FilesInvStutters ==
    ASSUME FilesInv, disk' = disk, files' = files, nextFile' = nextFile,
           directories' = directories, got' \in Answers
    PROVE  FilesInv' /\ FileApi!SeenContents' = FileApi!SeenContents
           /\ FileApi!FileHandles' = FileApi!FileHandles
BY SeenIs DEF FilesInv

(* A step that FileContract allows.                                         *)
FileStep ==
    /\ FilesInv'
    /\ FileApi!Contract!ContractNext \/ UNCHANGED FileApi!Contract!contractVars

LEMMA SeenStutters ==
    ASSUME FilesInv', UNCHANGED <<FileApi!SeenContents, FileApi!FileHandles, got>>
    PROVE  FileStep
BY DEF FileStep, FileApi!Contract!contractVars

LEMMA OthersStutter ==
    ASSUME FilesInv, UNCHANGED <<disk, files, nextFile, directories, got>>
    PROVE  FileStep
<1>1. got' \in Answers
  BY DEF FilesInv
<1>2. FilesInv' /\ FileApi!SeenContents' = FileApi!SeenContents
      /\ FileApi!FileHandles' = FileApi!FileHandles
  BY <1>1, FilesInvStutters
<1> QED BY <1>2, SeenStutters

LEMMA CursorStep ==
    ASSUME FilesInv, NEW h \in DOMAIN files, NEW n \in Nat,
           files' = [files EXCEPT ![h].cursor = n],
           disk' = disk, directories' = directories, nextFile' = nextFile, got' \in Answers
    PROVE  /\ FilesInv' /\ FileApi!SeenContents' = FileApi!SeenContents
           /\ FileApi!FileHandles' = IF files[h].kind = "directory" THEN FileApi!FileHandles
                                     ELSE [FileApi!FileHandles EXCEPT ![h].position = n]
<1>1. Backed(disk, files)
  BY DEF FilesInv
<1>2. /\ Backed(disk, files') /\ ContentsIn(disk, files') = ContentsIn(disk, files)
      /\ OpenedIn(files') = OpenedAfterMove(files, h, n)
  <2>1. files' = Moved(files, h, n)
    BY DEF Moved
  <2> QED BY <1>1, <2>1, CursorMoves
<1>3. DOMAIN files' = DOMAIN files
  OBVIOUS
<1>4. FilesInv'
  BY <1>2, <1>3 DEF FilesInv
<1> QED BY <1>2, <1>4, SeenIs DEF OpenedAfterMove

(* What a handle of a file is known by.                                     *)
LEMMA HandleIs ==
    ASSUME FileApi!FilesAssumption, FilesInv, NEW h \in DOMAIN files,
           files[h].kind # "directory"
    PROVE  /\ h \in DOMAIN FileApi!FileHandles
           /\ FileApi!FileHandles[h] = [file |-> Fold(files[h].path), position |-> files[h].cursor]
           /\ Fold(files[h].path) \in FileApi!Names
           /\ FileApi!SeenContents[Fold(files[h].path)] = FileApi!Content(h)
           /\ FileApi!Content(h) \in Seq(FileBytes)
<1>1. Backs(disk, files[h]) /\ Stored(disk)
  BY DEF FilesInv, Backed
<1>2. h \in DOMAIN OpenedIn(files)
      /\ OpenedIn(files)[h] = [file |-> Fold(files[h].path), position |-> files[h].cursor]
  BY DEF OpenedIn
<1>3. Fold(files[h].path) \in FileApi!Names
  BY <1>1 DEF Backs, OpenFiles, FileApi!Names
<1>4. SeenIn(disk, files, Fold(files[h].path)) = Holds(disk, files[h])
  BY SeenHere DEF FilesInv
<1>5. ContentsIn(disk, files)[Fold(files[h].path)] = Holds(disk, files[h])
  BY <1>3, <1>4 DEF ContentsIn
<1>6. FileApi!Content(h) = Holds(disk, files[h])
  BY DEF FileApi!Content, Holds
<1>7. Holds(disk, files[h]) \in Seq(FileBytes)
  BY <1>1 DEF Holds, Backs, OpenFiles, Stored
<1> QED BY <1>2, <1>3, <1>5, <1>6, <1>7, SeenIs

LEMMA ReadStep ==
    ASSUME FileApi!FilesAssumption, FilesInv, NEW h \in DOMAIN files,
           NEW length \in 0..MaxLength, FileApi!ReadFile(h, length)
    PROVE  FileStep
<1> DEFINE read == FileApi!BytesAt(h, length)
           more == files[h].cursor + Len(read)
<1>1. files[h].kind # "directory" /\ files[h].cursor \in Nat /\ got \in Answers
      /\ length \in Nat
  BY DEF FileApi!ReadFile, FilesInv, Backed, Backs, OpenFiles, FileApi!FilesAssumption
<1>2. FileApi!Content(h) \in Seq(FileBytes)
  BY <1>1, HandleIs
<1>3. read \in Seq(FileBytes)
  <2>1. \A c \in Seq(FileBytes), m, n \in Nat :
          SubSeq(c, m + 1, FileApi!Least(n, Len(c))) \in Seq(FileBytes)
    BY DEF FileApi!Least
  <2> QED BY <1>1, <1>2, <2>1 DEF FileApi!BytesAt
<1>4. got' = [got EXCEPT !.bytes = read] /\ got' \in Answers /\ got'.bytes = read
  <2>1. got' = [got EXCEPT !.bytes = read]
    BY DEF FileApi!ReadFile
  <2> HIDE DEF read
  <2> QED BY <1>1, <1>3, <2>1 DEF Answers
<1>5. more \in Nat
  BY <1>1, <1>3, LenProperties
<1>6. files' = [files EXCEPT ![h].cursor = more]
  <2>1. files' = [files EXCEPT ![h].cursor = @ + Len(got'.bytes)]
    BY DEF FileApi!ReadFile
  <2> QED BY <1>4, <2>1
<1>7. disk' = disk /\ directories' = directories /\ nextFile' = nextFile
  BY DEF FileApi!ReadFile, FileApi!others
<1>8. /\ FilesInv' /\ FileApi!SeenContents' = FileApi!SeenContents
      /\ FileApi!FileHandles' = [FileApi!FileHandles EXCEPT ![h].position = more]
  <2> HIDE DEF more
  <2> QED BY <1>1, <1>4, <1>5, <1>6, <1>7, CursorStep
<1>9. FileApi!Contract!ReadBytes(h, length)
  <2>1. /\ h \in DOMAIN FileApi!FileHandles
        /\ FileApi!FileHandles[h] = [file |-> Fold(files[h].path), position |-> files[h].cursor]
        /\ FileApi!SeenContents[Fold(files[h].path)] = FileApi!Content(h)
    BY <1>1, HandleIs
  <2>2. /\ FileApi!FileHandles[h].file = Fold(files[h].path)
        /\ FileApi!FileHandles[h].position = files[h].cursor
    BY <2>1
  <2> DEFINE c == FileApi!SeenContents[FileApi!FileHandles[h].file]
             from == FileApi!FileHandles[h].position
  <2>3. c = FileApi!Content(h) /\ from = files[h].cursor
    BY <2>1, <2>2
  <2>4. read = SubSeq(c, from + 1, IF from + length < Len(c) THEN from + length ELSE Len(c))
    BY <2>3 DEF FileApi!BytesAt, FileApi!Least
  <2>5. FileApi!FileHandles' = [FileApi!FileHandles EXCEPT ![h].position = @ + Len(got'.bytes)]
    BY <1>4, <1>8, <2>2
  <2>6. got' = [got EXCEPT !.bytes = SubSeq(c, from + 1,
        IF from + length < Len(c) THEN from + length ELSE Len(c))]
    BY <1>4, <2>4
  <2> QED BY <1>8, <2>5, <2>6 DEF FileApi!Contract!ReadBytes
<1> QED BY <1>1, <1>8, <1>9, HandleIs DEF FileStep, FileApi!Contract!ContractNext

LEMMA SeekStep ==
    ASSUME FileApi!FilesAssumption, FilesInv, NEW h \in DOMAIN files, NEW distance, NEW origin,
           FileApi!SetFilePointer(h, distance, origin)
    PROVE  FileStep
<1> DEFINE sought == FileApi!Sought(h, distance, origin)
<1>1. /\ sought \in 0..MaxLength /\ sought \in Nat
      /\ files' = [files EXCEPT ![h].cursor = sought]
      /\ got' = IF files[h].kind = "directory" THEN got ELSE [got EXCEPT !.number = sought]
      /\ disk' = disk /\ directories' = directories /\ nextFile' = nextFile
  BY DEF FileApi!SetFilePointer, FileApi!Reported, FileApi!others, FileApi!FilesAssumption
<1> HIDE DEF sought
<1>2. got' \in Answers
  BY <1>1 DEF FilesInv, Answers
<1>3. /\ FilesInv' /\ FileApi!SeenContents' = FileApi!SeenContents
      /\ FileApi!FileHandles' = IF files[h].kind = "directory" THEN FileApi!FileHandles
                                ELSE [FileApi!FileHandles EXCEPT ![h].position = sought]
  BY <1>1, <1>2, CursorStep
<1>4. CASE files[h].kind = "directory"
  BY <1>1, <1>3, <1>4, SeenStutters
<1>5. CASE files[h].kind # "directory"
  <2>1. FileApi!Contract!MoveTo(h, sought)
    BY <1>1, <1>3, <1>5 DEF FileApi!Contract!MoveTo
  <2>2. h \in DOMAIN FileApi!FileHandles
    BY <1>5, HandleIs
  <2> QED BY <1>1, <1>3, <2>1, <2>2 DEF FileStep, FileApi!Contract!ContractNext
<1> QED BY <1>4, <1>5

LEMMA SizeStep ==
    ASSUME FileApi!FilesAssumption, FilesInv, NEW h \in DOMAIN files, FileApi!GetFileSize(h)
    PROVE  FileStep
<1>1. UNCHANGED <<disk, files, nextFile, directories>>
  BY DEF FileApi!GetFileSize, FileApi!others
<1>2. CASE files[h].kind = "directory"
  <2>1. got' = got
    BY <1>2 DEF FileApi!GetFileSize, FileApi!Reported
  <2> QED BY <1>1, <2>1, OthersStutter
<1>3. CASE files[h].kind # "directory"
  <2>1. Backs(disk, files[h])
    BY DEF FilesInv, Backed
  <2>2. /\ h \in DOMAIN FileApi!FileHandles
        /\ FileApi!FileHandles[h] = [file |-> Fold(files[h].path), position |-> files[h].cursor]
        /\ FileApi!SeenContents[Fold(files[h].path)] = FileApi!Content(h)
        /\ FileApi!Content(h) \in Seq(FileBytes)
    BY <1>3, HandleIs
  <2>3. FileApi!SizeOf(h) = Len(FileApi!Content(h))
    BY <2>1 DEF FileApi!SizeOf, FileApi!Content, Backs
  <2>4. FileApi!SizeOf(h) \in Nat
    BY <2>2, <2>3, LenProperties
  <2>5. got' = [got EXCEPT !.number = FileApi!SizeOf(h)]
    BY <1>3 DEF FileApi!GetFileSize, FileApi!Reported
  <2>6. got' \in Answers
    BY <2>4, <2>5 DEF FilesInv, Answers
  <2>7. FilesInv' /\ FileApi!SeenContents' = FileApi!SeenContents
        /\ FileApi!FileHandles' = FileApi!FileHandles
    BY <1>1, <2>6, FilesInvStutters
  <2>8. FileApi!SeenContents[FileApi!FileHandles[h].file] = FileApi!Content(h)
    BY <2>2
  <2>9. FileApi!Contract!TellSize(h)
    BY <2>3, <2>5, <2>7, <2>8 DEF FileApi!Contract!TellSize, FileApi!Contract!Tell
  <2> QED BY <2>2, <2>7, <2>9 DEF FileStep, FileApi!Contract!ContractNext
<1> QED BY <1>2, <1>3

-----------------------------------------------------------------------------
(* What is written.                                                         *)
LEMMA WrittenIs ==
    ASSUME FileApi!FilesAssumption, NEW b \in Seq(FileBytes), NEW offset \in Nat,
           NEW new \in Seq(FileBytes)
    PROVE  /\ FileApi!Written(b, offset, new) \in Seq(FileBytes)
           /\ FileApi!Written(b, offset, new) = FileApi!Contract!Overwritten(b, offset, new)
<1> DEFINE end == offset + Len(new)
           room == IF Len(b) < end THEN FileApi!Resized(b, end) ELSE b
           size == IF Len(b) > end THEN Len(b) ELSE end
<1>1. Len(b) \in Nat /\ Len(new) \in Nat /\ end \in Nat /\ size \in Nat
  BY LenProperties
<1>2. DOMAIN room = 1..size
  BY <1>1, LenProperties DEF FileApi!Resized
<1>3. \A i \in 1..size : room[i] = (IF i <= Len(b) THEN b[i] ELSE ZeroByte)
  BY <1>1, LenProperties DEF FileApi!Resized
<1>4. \A i \in 1..size : (IF i <= Len(b) THEN b[i] ELSE ZeroByte) \in FileBytes
  BY <1>1, ElementOfSeq DEF FileBytes
<1>5. \A i \in (offset + 1)..end : new[i - offset] \in FileBytes
  BY <1>1, ElementOfSeq
<1>6. FileApi!Written(b, offset, new) =
        [i \in 1..size |-> IF i \in (offset + 1)..end THEN new[i - offset] ELSE room[i]]
  BY <1>2 DEF FileApi!Written
<1>7. FileApi!Contract!Overwritten(b, offset, new) =
        [i \in 1..size |-> IF i \in (offset + 1)..end THEN new[i - offset]
                           ELSE IF i <= Len(b) THEN b[i] ELSE ZeroByte]
  BY DEF FileApi!Contract!Overwritten, FileApi!Contract!Byte
<1> HIDE DEF room, size, end
<1>8. FileApi!Written(b, offset, new) \in [1..size -> FileBytes]
  BY <1>3, <1>4, <1>5, <1>6
<1> QED BY <1>1, <1>3, <1>6, <1>7, <1>8, SeqDef

LEMMA CutIs ==
    ASSUME FileApi!FilesAssumption, NEW b \in Seq(FileBytes), NEW n \in Nat
    PROVE  /\ FileApi!Resized(b, n) \in Seq(FileBytes)
           /\ FileApi!Resized(b, n) = FileApi!Contract!Cut(b, n)
<1>1. \A i \in 1..n : (IF i <= Len(b) THEN b[i] ELSE ZeroByte) \in FileBytes
  BY LenProperties, ElementOfSeq DEF FileBytes
<1>2. FileApi!Resized(b, n) \in [1..n -> FileBytes]
  BY <1>1 DEF FileApi!Resized
<1>3. FileApi!Resized(b, n) = FileApi!Contract!Cut(b, n)
  BY DEF FileApi!Resized, FileApi!Contract!Cut, FileApi!Contract!Byte
<1> QED BY <1>2, <1>3, SeqDef

LEMMA FillStep ==
    ASSUME FileApi!FilesAssumption, FilesInv, NEW h \in DOMAIN files, files[h].writable,
           NEW b \in Seq(FileBytes), NEW n \in Nat,
           files' = Moved(Filled(files, h, b), h, n),
           disk' = disk, directories' = directories, nextFile' = nextFile, got' = got
    PROVE  /\ FilesInv'
           /\ FileApi!SeenContents' = [FileApi!SeenContents EXCEPT ![Fold(files[h].path)] = b]
           /\ FileApi!FileHandles' = [FileApi!FileHandles EXCEPT ![h].position = n]
<1> DEFINE fs == Filled(files, h, b)
<1>1. Backed(disk, files)
  BY DEF FilesInv
<1>2. /\ Backed(disk, fs) /\ OpenedIn(fs) = OpenedIn(files)
      /\ ContentsIn(disk, fs) = [ContentsIn(disk, files) EXCEPT ![Fold(files[h].path)] = b]
  BY <1>1, BufferFills
<1>3. h \in DOMAIN fs /\ DOMAIN fs = DOMAIN files
  BY DEF Filled
<1>4. fs[h].kind # "directory"
  <2>1. fs[h] = [files[h] EXCEPT !.bytes = b, !.dirty = TRUE]
    BY DEF Filled
  <2>2. files[h] \in OpenFiles /\ files[h].kind # "directory"
    BY <1>1 DEF Backed, Backs
  <2> HIDE DEF fs
  <2> QED BY <2>1, <2>2 DEF OpenFiles
<1> HIDE DEF fs
<1>5. files' = Moved(fs, h, n)
  BY DEF fs
<1>6. /\ Backed(disk, files') /\ ContentsIn(disk, files') = ContentsIn(disk, fs)
      /\ OpenedIn(files') = OpenedAfterMove(fs, h, n)
  BY <1>2, <1>3, <1>5, CursorMoves
<1>7. OpenedIn(files') = [OpenedIn(files) EXCEPT ![h].position = n]
  BY <1>2, <1>4, <1>6 DEF OpenedAfterMove
<1>8. DOMAIN files' = DOMAIN files
  BY <1>3, <1>5 DEF Moved
<1>9. FilesInv'
  BY <1>6, <1>8 DEF FilesInv
<1> QED BY <1>2, <1>6, <1>7, <1>9, SeenIs

Overwrites(fs, h, b, n) == [fs EXCEPT ![h].bytes = b, ![h].cursor = n, ![h].dirty = TRUE]

LEMMA FieldsCommute ==
    ASSUME NEW e \in OpenFiles, NEW b, NEW n
    PROVE  /\ [e EXCEPT !.bytes = b, !.cursor = n, !.dirty = TRUE]
                = [[e EXCEPT !.bytes = b, !.dirty = TRUE] EXCEPT !.cursor = n]
           /\ [e EXCEPT !.bytes = b, !.dirty = TRUE]
                = [[e EXCEPT !.bytes = b, !.dirty = TRUE] EXCEPT !.cursor = e.cursor]
BY DEF OpenFiles

LEMMA OverwritesThenMoves ==
    ASSUME NEW fs, NEW h \in DOMAIN fs, fs[h] \in OpenFiles, NEW b, NEW n
    PROVE  Overwrites(fs, h, b, n) = Moved(Filled(fs, h, b), h, n)
<1>1. [fs[h] EXCEPT !.bytes = b, !.cursor = n, !.dirty = TRUE]
        = [[fs[h] EXCEPT !.bytes = b, !.dirty = TRUE] EXCEPT !.cursor = n]
  BY FieldsCommute
<1>2. Overwrites(fs, h, b, n)
        = [fs EXCEPT ![h] = [fs[h] EXCEPT !.bytes = b, !.cursor = n, !.dirty = TRUE]]
  BY DEF Overwrites
<1>3. Moved(Filled(fs, h, b), h, n)
        = [fs EXCEPT ![h] = [[fs[h] EXCEPT !.bytes = b, !.dirty = TRUE] EXCEPT !.cursor = n]]
  BY DEF Moved, Filled
<1> QED BY <1>1, <1>2, <1>3

LEMMA FillsWhereItIs ==
    ASSUME NEW fs, NEW h \in DOMAIN fs, fs[h] \in OpenFiles, NEW b
    PROVE  Filled(fs, h, b) = Moved(Filled(fs, h, b), h, fs[h].cursor)
<1>1. [fs[h] EXCEPT !.bytes = b, !.dirty = TRUE]
        = [[fs[h] EXCEPT !.bytes = b, !.dirty = TRUE] EXCEPT !.cursor = fs[h].cursor]
  BY FieldsCommute
<1>2. Filled(fs, h, b) = [fs EXCEPT ![h] = [fs[h] EXCEPT !.bytes = b, !.dirty = TRUE]]
  BY DEF Filled
<1>3. Moved(Filled(fs, h, b), h, fs[h].cursor)
        = [fs EXCEPT ![h] = [[fs[h] EXCEPT !.bytes = b, !.dirty = TRUE]
                                EXCEPT !.cursor = fs[h].cursor]]
  BY DEF Moved, Filled
<1> QED BY <1>1, <1>2, <1>3

LEMMA WriteStep ==
    ASSUME FileApi!FilesAssumption, FilesInv, NEW h, NEW new \in FileApi!Strings,
           FileApi!WriteFile(h, new)
    PROVE  FileStep
<1>1. UNCHANGED <<disk, directories, nextFile, got>>
  BY DEF FileApi!WriteFile
<1>2. CASE h \notin DOMAIN files
  <2>1. files' = files
    BY <1>2 DEF FileApi!WriteFile, FileApi!WriteHandle, FileApi!Opened
  <2> QED BY <1>1, <2>1, OthersStutter
<1>3. CASE h \in DOMAIN files
  <2> DEFINE e == files[h]
             b == FileApi!Written(e.bytes, e.cursor, new)
             n == e.cursor + Len(new)
  <2>1. FileApi!ProcessWrite(h, new)
    BY <1>3 DEF FileApi!WriteFile, FileApi!WriteHandle, FileApi!Opened
  <2>2. Backs(disk, e) /\ e.writable
    BY <1>3, <2>1 DEF FilesInv, Backed, FileApi!ProcessWrite
  <2>3. /\ e.kind = "buffered" /\ e.bytes \in Seq(FileBytes) /\ e.cursor \in Nat
        /\ e \in OpenFiles
    <3> HIDE DEF e
    <3> QED BY <2>2 DEF Backs, OpenFiles
  <2>4. new \in Seq(FileBytes) /\ new \in FileApi!Contract!Strings /\ Len(new) \in Nat
    <3>1. PICK k \in 0..MaxLength : new \in [1..k -> Bytes]
      BY DEF FileApi!Strings
    <3>2. k \in Nat
      BY DEF FileApi!FilesAssumption
    <3>3. new \in [1..k -> FileBytes]
      BY <3>1 DEF FileBytes
    <3>4. new \in FileApi!Contract!Strings
      BY <3>3 DEF FileApi!Contract!Strings, FileBytes
    <3>5. new \in Seq(FileBytes)
      BY <3>2, <3>3, SeqDef
    <3> QED BY <3>4, <3>5, LenProperties
  <2>5. b \in Seq(FileBytes) /\ b = FileApi!Contract!Overwritten(e.bytes, e.cursor, new)
    <3> HIDE DEF e
    <3> QED BY <2>3, <2>4, WrittenIs
  <2>6. n \in Nat
    BY <2>3, <2>4
  <2>7. files' = Moved(Filled(files, h, b), h, n)
    <3>1. files' = [files EXCEPT ![h].bytes = FileApi!Written(@, files[h].cursor, new),
                                 ![h].cursor = @ + Len(new), ![h].dirty = TRUE]
      BY <2>1 DEF FileApi!ProcessWrite
    <3>2. files' = Overwrites(files, h, b, n)
      BY <3>1 DEF Overwrites
    <3>3. files[h] \in OpenFiles
      BY <2>3
    <3> HIDE DEF b, n, e
    <3>4. Overwrites(files, h, b, n) = Moved(Filled(files, h, b), h, n)
      BY <1>3, <3>3, OverwritesThenMoves
    <3> QED BY <3>2, <3>4
  <2>8. /\ FilesInv'
        /\ FileApi!SeenContents' = [FileApi!SeenContents EXCEPT ![Fold(e.path)] = b]
        /\ FileApi!FileHandles' = [FileApi!FileHandles EXCEPT ![h].position = n]
    <3> HIDE DEF b, n
    <3> QED BY <1>1, <1>3, <2>2, <2>5, <2>6, <2>7, FillStep
  <2>9. /\ h \in DOMAIN FileApi!FileHandles
        /\ FileApi!FileHandles[h] = [file |-> Fold(e.path), position |-> e.cursor]
        /\ FileApi!SeenContents[Fold(e.path)] = e.bytes
    <3>1. e.kind # "directory" /\ FileApi!Content(h) = e.bytes
      BY <2>3 DEF FileApi!Content
    <3> QED BY <1>3, <3>1, HandleIs
  <2>10. FileApi!FileHandles[h].file = Fold(e.path) /\ FileApi!FileHandles[h].position = e.cursor
    BY <2>9
  <2>11. FileApi!FileHandles' = [FileApi!FileHandles EXCEPT ![h].position = @ + Len(new)]
    BY <2>8, <2>10
  <2>12. FileApi!SeenContents' =
           [FileApi!SeenContents EXCEPT ![FileApi!FileHandles[h].file] =
               FileApi!Contract!Overwritten(@, FileApi!FileHandles[h].position, new)]
    BY <2>5, <2>8, <2>9, <2>10
  <2>13. FileApi!Contract!WriteBytes(h, new)
    BY <1>1, <2>11, <2>12 DEF FileApi!Contract!WriteBytes
  <2> QED BY <2>4, <2>8, <2>9, <2>13 DEF FileStep, FileApi!Contract!ContractNext
<1> QED BY <1>2, <1>3

LEMMA CutStep ==
    ASSUME FileApi!FilesAssumption, FilesInv, NEW h \in DOMAIN files, FileApi!SetEndOfFile(h)
    PROVE  FileStep
<1> DEFINE e == files[h]
           b == FileApi!Resized(e.bytes, e.cursor)
<1>1. UNCHANGED <<disk, directories, nextFile, got>>
  BY DEF FileApi!SetEndOfFile, FileApi!others
<1>2. Backs(disk, e) /\ e.writable
  BY DEF FilesInv, Backed, FileApi!SetEndOfFile
<1>3. /\ e.kind = "buffered" /\ e.bytes \in Seq(FileBytes) /\ e.cursor \in Nat
      /\ e \in OpenFiles
  <2> HIDE DEF e
  <2> QED BY <1>2 DEF Backs, OpenFiles
<1>4. b \in Seq(FileBytes) /\ b = FileApi!Contract!Cut(e.bytes, e.cursor)
  <2> HIDE DEF e
  <2> QED BY <1>3, CutIs
<1>5. files' = Moved(Filled(files, h, b), h, e.cursor)
  <2>1. files' = Filled(files, h, b)
    BY DEF FileApi!SetEndOfFile, FileApi!SetEnd, Filled
  <2> HIDE DEF b
  <2> QED BY <1>3, <2>1, FillsWhereItIs
<1>6. /\ h \in DOMAIN FileApi!FileHandles
      /\ FileApi!FileHandles[h] = [file |-> Fold(e.path), position |-> e.cursor]
      /\ FileApi!SeenContents[Fold(e.path)] = e.bytes
  <2>1. e.kind # "directory" /\ FileApi!Content(h) = e.bytes
    BY <1>3 DEF FileApi!Content
  <2> QED BY <2>1, HandleIs
<1>7. FileApi!FileHandles[h].file = Fold(e.path) /\ FileApi!FileHandles[h].position = e.cursor
  BY <1>6
<1>8. /\ FilesInv'
      /\ FileApi!SeenContents' = [FileApi!SeenContents EXCEPT ![Fold(e.path)] = b]
      /\ FileApi!FileHandles' = [FileApi!FileHandles EXCEPT ![h].position = e.cursor]
  <2> HIDE DEF b
  <2> QED BY <1>1, <1>2, <1>3, <1>4, <1>5, FillStep
<1>9. FileApi!FileHandles' = FileApi!FileHandles
  <2>1. FileApi!FileHandles = OpenedIn(files)
    BY SeenIs
  <2>2. FileApi!FileHandles' =
          [OpenedIn(files) EXCEPT ![h] = [OpenedIn(files)[h] EXCEPT !.position = e.cursor]]
    BY <1>8, <2>1
  <2>3. [OpenedIn(files)[h] EXCEPT !.position = e.cursor] = OpenedIn(files)[h]
    <3>1. OpenedIn(files)[h] = [file |-> Fold(e.path), position |-> e.cursor]
      BY <1>6, <2>1
    <3> QED BY <3>1
  <2>4. [OpenedIn(files) EXCEPT ![h] = OpenedIn(files)[h]] = OpenedIn(files)
    BY DEF OpenedIn
  <2> QED BY <2>1, <2>2, <2>3, <2>4
<1>10. FileApi!SeenContents' =
         [FileApi!SeenContents EXCEPT ![FileApi!FileHandles[h].file] =
             FileApi!Contract!Cut(@, FileApi!FileHandles[h].position)]
  BY <1>4, <1>6, <1>7, <1>8
<1>11. FileApi!Contract!CutHere(h)
  BY <1>1, <1>9, <1>10 DEF FileApi!Contract!CutHere
<1> QED BY <1>6, <1>8, <1>11 DEF FileStep, FileApi!Contract!ContractNext

LEMMA FlushStep ==
    ASSUME FileApi!FilesAssumption, FilesInv, NEW h \in DOMAIN files,
           FileApi!FlushFileBuffers(h)
    PROVE  FileStep
<1>1. UNCHANGED <<directories, nextFile, got>> /\ FileApi!Flush(h)
  BY DEF FileApi!FlushFileBuffers, FileApi!others
<1>2. Backs(disk, files[h]) /\ Backed(disk, files)
  BY DEF FilesInv, Backed
<1>3. CASE ~files[h].dirty
  BY <1>1, <1>3, OthersStutter DEF FileApi!Flush
<1>4. CASE files[h].dirty
  <2>1. files[h].dirty = TRUE
    BY <1>2, <1>4 DEF Backs, OpenFiles
  <2>2. /\ files' = Cleaned(files, h)
        /\ disk' = WithFlushed(disk, files, h)
    BY <1>1, <1>4 DEF FileApi!Flush, FileApi!FilesystemWrite, Cleaned, WithFlushed
  <2>3. /\ Backed(disk', files') /\ OpenedIn(files') = OpenedIn(files)
        /\ ContentsIn(disk', files') = ContentsIn(disk, files) /\ DOMAIN disk' = DOMAIN disk
    <3>1. LooksTheSame(disk, files, disk', files')
      BY <1>2, <2>1, <2>2, BufferFlushes
    <3> QED BY <3>1 DEF LooksTheSame
  <2>4. DOMAIN files' = DOMAIN files
    BY <2>2 DEF Cleaned
  <2>5. FilesInv'
    BY <1>1, <2>3, <2>4 DEF FilesInv
  <2> QED BY <1>1, <2>3, <2>5, SeenIs, SeenStutters
<1> QED BY <1>3, <1>4

LEMMA CloseStep ==
    ASSUME FileApi!FilesAssumption, FilesInv, NEW h \in DOMAIN files, FileApi!CloseHandle(h)
    PROVE  FileStep
<1>1. UNCHANGED <<directories, nextFile, got>> /\ FileApi!Close(h)
  BY DEF FileApi!CloseHandle, FileApi!others
<1>2. Backs(disk, files[h]) /\ Backed(disk, files)
  BY DEF FilesInv, Backed
<1> DEFINE fs == IF files[h].dirty THEN Cleaned(files, h) ELSE files
<1>3. files[h] \in OpenFiles /\ files[h].dirty \in BOOLEAN
  BY <1>2 DEF Backs, OpenFiles
<1>4. /\ Backed(disk', fs) /\ OpenedIn(fs) = OpenedIn(files)
      /\ ContentsIn(disk', fs) = ContentsIn(disk, files) /\ DOMAIN disk' = DOMAIN disk
  <2>1. CASE files[h].dirty
    <3>1. files[h].dirty = TRUE /\ fs = Cleaned(files, h)
      BY <1>3, <2>1
    <3>2. disk' = WithFlushed(disk, files, h)
      BY <1>1, <2>1 DEF FileApi!Close, FileApi!FilesystemWrite, WithFlushed
    <3> HIDE DEF fs
    <3>3. LooksTheSame(disk, files, disk', fs)
      BY <1>2, <3>1, <3>2, BufferFlushes
    <3> QED BY <3>3 DEF LooksTheSame
  <2>2. CASE ~files[h].dirty
    BY <1>1, <1>2, <2>2 DEF FileApi!Close
  <2> QED BY <2>1, <2>2
<1>5. h \in DOMAIN fs /\ DOMAIN fs = DOMAIN files
  BY DEF Cleaned
<1>6. fs[h].dirty = FALSE /\ fs[h].kind = files[h].kind
  BY <1>3 DEF Cleaned, OpenFiles
<1>7. files' = FileApi!Without(fs, h)
  <2>1. files' = FileApi!Without(files, h)
    BY <1>1 DEF FileApi!Close
  <2> QED BY <2>1 DEF FileApi!Without, Cleaned
<1> HIDE DEF fs
<1>8. /\ Backed(disk', files') /\ ContentsIn(disk', files') = ContentsIn(disk', fs)
      /\ OpenedIn(files') = OpenedAfterGoing(fs, h)
  BY <1>4, <1>5, <1>6, <1>7, HandleGoes
<1>9. DOMAIN files' \subseteq DOMAIN files
  BY <1>5, <1>7 DEF FileApi!Without
<1>10. FilesInv'
  BY <1>1, <1>4, <1>8, <1>9 DEF FilesInv
<1>11. FileApi!SeenContents' = FileApi!SeenContents
  BY <1>4, <1>8, SeenIs
<1>12. CASE files[h].kind = "directory"
  BY <1>1, <1>4, <1>6, <1>8, <1>10, <1>11, <1>12, SeenIs, SeenStutters DEF OpenedAfterGoing
<1>13. CASE files[h].kind # "directory"
  <2>1. FileApi!FileHandles' =
          [g \in DOMAIN FileApi!FileHandles \ {h} |-> FileApi!FileHandles[g]]
    BY <1>4, <1>6, <1>8, <1>13, SeenIs DEF OpenedAfterGoing
  <2>2. FileApi!Contract!CloseIt(h)
    BY <1>1, <1>11, <2>1 DEF FileApi!Contract!CloseIt
  <2>3. h \in DOMAIN FileApi!FileHandles
    BY <1>13, HandleIs
  <2> QED BY <1>10, <2>2, <2>3 DEF FileStep, FileApi!Contract!ContractNext
<1> QED BY <1>12, <1>13

-----------------------------------------------------------------------------
(* What changes by name.                                                    *)
LEMMA NameIs ==
    ASSUME NEW p \in Spellings
    PROVE  /\ Fold(p) \in FileApi!Names
           /\ FileApi!OpenOn(p) = {} => Unopened(files, p)
BY OpensOn DEF FileApi!Names, Unopened

LEMMA DeleteStep ==
    ASSUME FilesInv, NEW p \in Spellings, FileApi!DeleteFile(p)
    PROVE  FileStep
<1>1. Unopened(files, p) /\ UNCHANGED <<files, nextFile, directories, got>>
  BY NameIs DEF FileApi!DeleteFile, FileApi!MayRemove, FileApi!others
<1>2. PICK q \in FileApi!ExistingAs(p) \ directories : disk' = FileApi!Without(disk, q)
  BY DEF FileApi!DeleteFile, FileApi!FilesystemRemove
<1>3. q \in DOMAIN disk /\ Fold(q) = Fold(p) /\ Unopened(files, q)
  BY <1>1, <1>2, FoundIs DEF Unopened
<1>4. /\ Backed(disk', files)
      /\ ContentsIn(disk', files) = [ContentsIn(disk, files) EXCEPT ![Fold(p)] = <<-1>>]
  BY <1>2, <1>3, DiskShrinks DEF FilesInv
<1>5. DOMAIN disk' \subseteq DOMAIN disk
  BY <1>2 DEF FileApi!Without
<1>6. OneSpelling(DOMAIN disk' \cup directories)
  BY <1>5 DEF FilesInv, OneSpelling
<1>7. FilesInv'
  BY <1>1, <1>4, <1>5, <1>6 DEF FilesInv
<1>8. FileApi!Contract!Delete(Fold(p))
  BY <1>1, <1>4, SeenIs DEF FileApi!Contract!Delete, FileApi!Contract!Absent
<1> QED BY <1>7, <1>8, NameIs DEF FileStep, FileApi!Contract!ContractNext

(* What no handle is on, or no handle that writes, is seen as it is stored. *)
LEMMA SeenByName ==
    ASSUME FilesInv, NEW p \in DOMAIN disk,
           \A h \in FileApi!OpenOn(p) : ~files[h].writable
    PROVE  FileApi!SeenContents[Fold(p)] = disk[p]
<1>1. Clean(files, p)
  <2> SUFFICES ASSUME NEW h \in DOMAIN files, Fold(files[h].path) = Fold(p), files[h].dirty
               PROVE  FALSE
    BY DEF Clean
  <2>1. h \in FileApi!OpenOn(p)
    BY OpensOn
  <2>2. files[h].writable
    BY DEF FilesInv, Backed, Backs
  <2> QED BY <2>1, <2>2
<1>2. SeenIn(disk, files, Fold(p)) = disk[p] /\ p \in Spellings
  BY <1>1, SeenClean DEF FilesInv, Backed, Stored
<1> QED BY <1>2, SeenIs, NameIs DEF ContentsIn

LEMMA BytesAreNumbers ==
    ASSUME FileApi!FilesAssumption, NEW c \in Seq(FileBytes)
    PROVE  c # <<-1>>
<1> SUFFICES ASSUME c = <<-1>> PROVE FALSE
  OBVIOUS
<1>1. Len(c) = 1 /\ c[1] = -1
  OBVIOUS
<1>2. c[1] \in FileBytes
  BY <1>1, ElementOfSeq
<1> QED BY <1>1, <1>2 DEF FileBytes, FileApi!FilesAssumption

LEMMA CopyStep ==
    ASSUME FileApi!FilesAssumption, ~Respells, FilesInv,
           NEW p \in Spellings, NEW q \in Spellings,
           NEW failIfExists, FileApi!CopyFile(p, q, failIfExists)
    PROVE  FileStep
<1>1. Unopened(files, q) /\ UNCHANGED <<files, nextFile, directories, got>>
  <2>1. FileApi!OpenOn(q) = {}
    BY DEF FileApi!CopyFile, FileApi!MayOpen
  <2> QED BY <2>1, NameIs DEF FileApi!CopyFile, FileApi!others
<1>2. PICK r \in FileApi!ExistingAs(p) \ directories : disk' = FileApi!Put(disk, q, disk[r])
  BY DEF FileApi!CopyFile, FileApi!Copied, FileApi!FilesystemWrite
<1>3. r \in DOMAIN disk /\ Fold(r) = Fold(p)
  BY <1>2, FoundIs
<1>4. /\ OneSpelling(DOMAIN disk \cup directories \cup {q}) /\ Spells(disk, q)
      /\ q \notin directories
  <2>1. FileApi!MaySpell(q) /\ FileApi!ExistingAs(q) \cap directories = {}
    BY DEF FileApi!CopyFile, FileApi!MayOpen
  <2> QED BY <2>1, SpellsAsDisk, AllFound
<1>5. disk[r] \in Seq(FileBytes)
  BY <1>3 DEF FilesInv, Backed, Stored
<1>6. /\ Backed(disk', files)
      /\ ContentsIn(disk', files) = [ContentsIn(disk, files) EXCEPT ![Fold(q)] = disk[r]]
  BY <1>1, <1>2, <1>4, <1>5, DiskGrows DEF FilesInv
<1>7. DOMAIN disk' = DOMAIN disk \cup {q}
  BY <1>2 DEF FileApi!Put
<1>8. OneSpelling(DOMAIN disk' \cup directories)
  BY <1>4, <1>7 DEF OneSpelling
<1>9. FilesInv'
  BY <1>1, <1>4, <1>6, <1>7, <1>8 DEF FilesInv
<1>10. FileApi!SeenContents[Fold(p)] = disk[r]
  <2>1. \A h \in FileApi!OpenOn(p) : ~files[h].writable
    BY DEF FileApi!CopyFile, FileApi!MayOpen
  <2>2. FileApi!OpenOn(r) = FileApi!OpenOn(p)
    BY <1>3 DEF FileApi!OpenOn
  <2> QED BY <1>3, <2>1, <2>2, SeenByName
<1>11. disk[r] # <<-1>>
  <2>1. \A c \in Seq(FileBytes) : c # <<-1>>
    BY BytesAreNumbers
  <2> QED BY <1>5, <2>1
<1>12. FileApi!Contract!Copy(Fold(p), Fold(q))
  BY <1>1, <1>6, <1>10, <1>11, SeenIs DEF FileApi!Contract!Copy, FileApi!Contract!Absent
<1> QED BY <1>9, <1>12, NameIs DEF FileStep, FileApi!Contract!ContractNext

-----------------------------------------------------------------------------
(* What is opened.                                                          *)
LEMMA ComeStep ==
    ASSUME FileApi!FilesAssumption, FilesInv,
           nextFile < FileApi!FirstFile + 4 * MaxHandles,
           Backed(disk', files), directories \subseteq Spellings \ DOMAIN disk',
           OneSpelling(DOMAIN disk' \cup directories),
           NEW e, Fits(disk', files, e), FileApi!Insert(e), UNCHANGED <<directories, got>>
    PROVE  /\ FilesInv' /\ FileApi!SeenContents' = ContentsIn(disk', files)
           /\ FileApi!FileHandles' = OpenedAfterComing(files, nextFile, e)
           /\ nextFile \notin DOMAIN FileApi!FileHandles
           /\ nextFile \in {FileApi!FirstFile + 4 * i : i \in 0..(MaxHandles - 1)}
<1>1. nextFile' = nextFile + 4 /\ files' = FileApi!Put(files, nextFile, e)
  BY DEF FileApi!Insert
<1>2. nextFile \in Nat /\ \A h \in DOMAIN files : h \in Nat /\ h < nextFile
  BY DEF FilesInv
<1>3. nextFile \notin DOMAIN files
  BY <1>2
<1>4. /\ Backed(disk', files') /\ ContentsIn(disk', files') = ContentsIn(disk', files)
      /\ OpenedIn(files') = OpenedAfterComing(files, nextFile, e)
  BY <1>1, <1>3, HandleComes
<1>5. DOMAIN files' = DOMAIN files \cup {nextFile}
  BY <1>1 DEF FileApi!Put
<1>6. PICK k \in Nat : nextFile = FileApi!FirstFile + 4 * k
  BY DEF FilesInv
<1>7. nextFile' = FileApi!FirstFile + 4 * (k + 1) /\ k + 1 \in Nat /\ nextFile' \in Nat
  BY <1>1, <1>2, <1>6 DEF FileApi!FirstFile
<1>8. \A h \in DOMAIN files' : h \in Nat /\ h < nextFile'
  BY <1>1, <1>2, <1>5
<1>9. FilesInv'
  BY <1>4, <1>7, <1>8 DEF FilesInv, FileApi!FirstFile
<1>10. k \in 0..(MaxHandles - 1)
  BY <1>6 DEF FileApi!FirstFile, FileApi!FilesAssumption
<1>11. nextFile \notin DOMAIN FileApi!FileHandles
  BY <1>3, SeenIs DEF OpenedIn
<1> QED BY <1>4, <1>6, <1>9, <1>10, <1>11, SeenIs

LEMMA ComeOpens ==
    ASSUME FileApi!FilesAssumption, FilesInv, FilesInv', got' = got,
           NEW e, e.kind # "directory", e.cursor = 0, NEW p \in Spellings, e.path = p,
           FileApi!FileHandles' = OpenedAfterComing(files, nextFile, e),
           nextFile \notin DOMAIN FileApi!FileHandles,
           nextFile \in {FileApi!FirstFile + 4 * i : i \in 0..(MaxHandles - 1)},
           NEW empty \in BOOLEAN,
           empty \/ FileApi!SeenContents[Fold(p)] # <<-1>>,
           FileApi!SeenContents' = IF empty THEN [FileApi!SeenContents EXCEPT ![Fold(p)] = <<>>]
                                   ELSE FileApi!SeenContents
    PROVE  FileStep
<1>1. FileApi!FileHandles' =
        [g \in DOMAIN FileApi!FileHandles \cup {nextFile} |->
            IF g = nextFile THEN [file |-> Fold(p), position |-> 0] ELSE FileApi!FileHandles[g]]
  BY SeenIs DEF OpenedAfterComing
<1>2. FileApi!Contract!OpenHandle(nextFile, Fold(p), empty)
  BY <1>1 DEF FileApi!Contract!OpenHandle, FileApi!Contract!Absent
<1> QED BY <1>2, NameIs DEF FileStep, FileApi!Contract!ContractNext

LEMMA OpenFileStep ==
    ASSUME FileApi!FilesAssumption, ~Respells, FilesInv, NEW p \in Spellings,
           NEW readable \in BOOLEAN, NEW writable \in BOOLEAN, NEW disposition,
           nextFile < FileApi!FirstFile + 4 * MaxHandles,
           FileApi!OpenFile(p, readable, writable, disposition),
           UNCHANGED <<directories, got>>
    PROVE  FileStep
<1> DEFINE existed == FileApi!ExistingAs(p) # {}
           empty == FileApi!CreatesEmpty(disposition, existed)
           opening == FileApi!Opening(p, readable, writable)
<1>1. FileApi!MayOpen(p, writable \/ empty)
  BY DEF FileApi!OpenFile
<1>2. /\ FileApi!ExistingAs(p) \cap directories = {} /\ p \notin directories
      /\ writable \/ empty => FileApi!MaySpell(p)
  <2>1. /\ FileApi!ExistingAs(p) \cap directories = {}
        /\ writable \/ empty => FileApi!MaySpell(p)
    BY <1>1 DEF FileApi!MayOpen
  <2> QED BY <2>1, AllFound
<1>3. /\ opening.path = p /\ opening.kind = "buffered" /\ opening.bytes = <<>>
      /\ opening.cursor = 0 /\ opening.length = 0 /\ opening.readable = readable
      /\ opening.writable = writable /\ opening.dirty = FALSE /\ opening \in OpenFiles
  BY DEF FileApi!Opening, OpenFiles
<1>4. CASE empty
  <2>1. disk' = FileApi!Put(disk, p, <<>>) /\ FileApi!Insert(opening)
    BY <1>4 DEF FileApi!OpenFile, FileApi!FilesystemWrite
  <2>2. Unopened(files, p)
    <3>1. FileApi!OpenOn(p) = {}
      BY <1>1, <1>4 DEF FileApi!MayOpen
    <3> QED BY <3>1, NameIs
  <2>3. /\ <<>> \in Seq(FileBytes) /\ Spells(disk, p)
        /\ OneSpelling(DOMAIN disk \cup directories \cup {p})
    BY <1>2, <1>4, SpellsAsDisk
  <2>4. /\ Backed(disk', files)
        /\ ContentsIn(disk', files) = [ContentsIn(disk, files) EXCEPT ![Fold(p)] = <<>>]
    <3>1. \A c \in Seq(FileBytes) : disk' = FileApi!Put(disk, p, c) =>
            /\ Backed(disk', files)
            /\ ContentsIn(disk', files) = [ContentsIn(disk, files) EXCEPT ![Fold(p)] = c]
      BY <2>2, <2>3, DiskGrows DEF FilesInv
    <3> QED BY <2>1, <2>3, <3>1
  <2>5. DOMAIN disk' = DOMAIN disk \cup {p} /\ disk'[p] = <<>>
    BY <2>1 DEF FileApi!Put
  <2> HIDE DEF opening, empty, existed
  <2>6. Fits(disk', files, opening)
    BY <1>3, <2>2, <2>5 DEF Fits, Alone, Backs, Unopened
  <2>7. /\ directories \subseteq Spellings \ DOMAIN disk'
        /\ OneSpelling(DOMAIN disk' \cup directories)
    BY <1>2, <2>3, <2>5 DEF FilesInv, OneSpelling
  <2>8. /\ FilesInv' /\ FileApi!SeenContents' = ContentsIn(disk', files)
        /\ FileApi!FileHandles' = OpenedAfterComing(files, nextFile, opening)
        /\ nextFile \notin DOMAIN FileApi!FileHandles
        /\ nextFile \in {FileApi!FirstFile + 4 * i : i \in 0..(MaxHandles - 1)}
    BY <2>1, <2>4, <2>6, <2>7, ComeStep
  <2>9. FileApi!SeenContents' = [FileApi!SeenContents EXCEPT ![Fold(p)] = <<>>]
    BY <2>4, <2>8, SeenIs
  <2> QED BY <1>3, <2>8, <2>9, ComeOpens
<1>5. CASE ~empty
  <2>1. PICK q \in FileApi!ExistingAs(p) :
          FileApi!Insert(IF writable THEN [opening EXCEPT !.bytes = disk[q]]
                         ELSE FileApi!HostReadFile(opening, q))
    BY <1>5 DEF FileApi!OpenFile
  <2> DEFINE e == IF writable THEN [opening EXCEPT !.bytes = disk[q]]
                  ELSE FileApi!HostReadFile(opening, q)
  <2>2. /\ q \in DOMAIN disk /\ q \in Spellings /\ Fold(q) = Fold(p)
        /\ FileApi!Insert(e) /\ disk' = disk
    BY <1>2, <1>5, <2>1, FoundIs DEF FileApi!OpenFile
  <2>3. disk[q] \in Seq(FileBytes)
    BY <2>2 DEF FilesInv, Backed, Stored
  <2>4. /\ e.path = q /\ e.kind # "directory" /\ e.cursor = 0 /\ e.writable = writable
        /\ Backs(disk, e) /\ e.dirty = FALSE
    <3> HIDE DEF opening
    <3>1. CASE writable
      <4>1. e = [opening EXCEPT !.bytes = disk[q]]
        BY <3>1
      <4>2. q = p
        BY <1>2, <2>1, <3>1, SpellsAsDisk
      <4> HIDE DEF e
      <4> QED BY <1>3, <2>2, <2>3, <3>1, <4>1, <4>2 DEF Backs, OpenFiles
    <3>2. CASE ~writable
      <4>1. e = [opening EXCEPT !.path = q, !.kind = "stream", !.length = Len(disk[q])]
        BY <3>2 DEF FileApi!HostReadFile
      <4>2. Len(disk[q]) \in Nat
        BY <2>3, LenProperties
      <4> HIDE DEF e
      <4> QED BY <1>3, <2>2, <2>3, <3>2, <4>1, <4>2 DEF Backs, OpenFiles
    <3> QED BY <3>1, <3>2
  <2> HIDE DEF e, opening, empty, existed
  <2>5. \A h \in FileApi!OpenOn(q) : ~writable /\ ~files[h].writable
    <3>1. FileApi!OpenOn(q) = FileApi!OpenOn(p)
      BY <2>2 DEF FileApi!OpenOn
    <3> QED BY <1>1, <3>1 DEF FileApi!MayOpen
  <2>6. Fits(disk', files, e)
    <3>1. \A h \in DOMAIN files : Fold(files[h].path) = Fold(q) <=> h \in FileApi!OpenOn(q)
      BY OpensOn
    <3> QED BY <2>2, <2>4, <2>5, <3>1 DEF Fits, Alone
  <2>7. /\ Backed(disk', files) /\ directories \subseteq Spellings \ DOMAIN disk'
        /\ OneSpelling(DOMAIN disk' \cup directories)
    BY <2>2 DEF FilesInv
  <2>8. /\ FilesInv' /\ FileApi!SeenContents' = ContentsIn(disk', files)
        /\ FileApi!FileHandles' = OpenedAfterComing(files, nextFile, e)
        /\ nextFile \notin DOMAIN FileApi!FileHandles
        /\ nextFile \in {FileApi!FirstFile + 4 * i : i \in 0..(MaxHandles - 1)}
    BY <2>2, <2>6, <2>7, ComeStep
  <2>9. FileApi!SeenContents' = FileApi!SeenContents
    BY <2>2, <2>8, SeenIs
  <2>10. FileApi!SeenContents[Fold(q)] # <<-1>>
    BY <2>2, <2>3, <2>5, SeenByName, BytesAreNumbers
  <2> QED BY <2>2, <2>4, <2>8, <2>9, <2>10, ComeOpens
<1> QED BY <1>4, <1>5

LEMMA OpenDirectoryStep ==
    ASSUME FileApi!FilesAssumption, FilesInv, NEW p \in Spellings,
           nextFile < FileApi!FirstFile + 4 * MaxHandles,
           FileApi!OpenDirectory(p), UNCHANGED <<directories, got>>
    PROVE  FileStep
<1> DEFINE e == [FileApi!Opening(p, FALSE, FALSE) EXCEPT !.kind = "directory"]
<1>1. FileApi!Insert(e) /\ disk' = disk
  BY DEF FileApi!OpenDirectory
<1>2. /\ e.path = p /\ e.kind = "directory" /\ e.readable = FALSE /\ e.writable = FALSE
      /\ e.dirty = FALSE /\ e \in OpenFiles
  <2> DEFINE o == FileApi!Opening(p, FALSE, FALSE)
  <2>1. /\ o \in OpenFiles /\ o.path = p /\ o.readable = FALSE /\ o.writable = FALSE
        /\ o.dirty = FALSE
    BY DEF FileApi!Opening, OpenFiles
  <2>2. e = [o EXCEPT !.kind = "directory"]
    OBVIOUS
  <2> HIDE DEF o, e
  <2> QED BY <2>1, <2>2 DEF OpenFiles
<1> HIDE DEF e
<1>3. PICK q \in directories : Fold(q) = Fold(p)
  BY FoundIs DEF FileApi!OpenDirectory
<1>4. \A g \in DOMAIN files : Fold(files[g].path) = Fold(p) => ~files[g].writable
  <2> SUFFICES ASSUME NEW g \in DOMAIN files, Fold(files[g].path) = Fold(p), files[g].writable
               PROVE  FALSE
    OBVIOUS
  <2>1. files[g].path \in DOMAIN disk
    BY DEF FilesInv, Backed, Backs
  <2>2. files[g].path = q
    BY <1>3, <2>1 DEF FilesInv, OneSpelling
  <2> QED BY <1>3, <2>1, <2>2 DEF FilesInv
<1>5. Fits(disk', files, e)
  BY <1>1, <1>2, <1>4 DEF Fits, Alone, Backs
<1>6. /\ Backed(disk', files) /\ directories \subseteq Spellings \ DOMAIN disk'
      /\ OneSpelling(DOMAIN disk' \cup directories)
  BY <1>1 DEF FilesInv
<1>7. /\ FilesInv' /\ FileApi!SeenContents' = ContentsIn(disk', files)
      /\ FileApi!FileHandles' = OpenedAfterComing(files, nextFile, e)
  BY <1>1, <1>5, <1>6, ComeStep
<1>8. /\ FileApi!SeenContents' = FileApi!SeenContents
      /\ FileApi!FileHandles' = FileApi!FileHandles
  BY <1>1, <1>2, <1>7, SeenIs DEF OpenedAfterComing
<1> QED BY <1>7, <1>8, SeenStutters

-----------------------------------------------------------------------------
(* The calls that are about no open file.                                   *)
LEMMA AttributesStep ==
    ASSUME FileApi!FilesAssumption, FilesInv, NEW p \in Spellings,
           FileApi!GetFileAttributes(p)
    PROVE  FileStep
<1>1. UNCHANGED <<disk, files, nextFile, directories>>
  BY DEF FileApi!GetFileAttributes, FileApi!others
<1>2. PICK q \in FileApi!ExistingAs(p) : got' = [got EXCEPT !.number = FileApi!Attributes(q)]
  BY DEF FileApi!GetFileAttributes
<1>3. q \in DOMAIN disk \cup directories /\ q \in Spellings /\ Fold(q) = Fold(p)
  BY <1>2, FoundIs
<1>4. FileApi!Attributes(q) = IF q \in DOMAIN disk THEN 32 ELSE 16
  BY <1>3 DEF FileApi!Attributes, FilesInv
<1>5. got' \in Answers
  BY <1>2, <1>4 DEF FilesInv, Answers
<1>6. FilesInv' /\ FileApi!SeenContents' = FileApi!SeenContents
      /\ FileApi!FileHandles' = FileApi!FileHandles
  BY <1>1, <1>5, FilesInvStutters
<1>7. q \in DOMAIN disk <=> FileApi!SeenContents[Fold(p)] # <<-1>>
  <2>1. FileApi!SeenContents[Fold(p)] = SeenIn(disk, files, Fold(q))
    BY <1>3, NameIs, SeenIs DEF ContentsIn
  <2>2. CASE \E h \in DOMAIN files : Fold(files[h].path) = Fold(q) /\ files[h].dirty
    <3>1. PICK h \in DOMAIN files : Fold(files[h].path) = Fold(q) /\ files[h].dirty
      BY <2>2
    <3>2. Backs(disk, files[h]) /\ Backed(disk, files)
      BY DEF FilesInv, Backed
    <3>3. /\ files[h].dirty = TRUE /\ files[h].bytes \in Seq(FileBytes)
          /\ files[h].path \in DOMAIN disk
      BY <3>1, <3>2 DEF Backs, OpenFiles
    <3>4. q \in DOMAIN disk
      BY <1>3, <3>1, <3>3 DEF FilesInv, OneSpelling
    <3>5. SeenIn(disk, files, Fold(q)) = files[h].bytes
      BY <3>1, <3>2, <3>3, SeenDirty
    <3> QED BY <2>1, <3>3, <3>4, <3>5, BytesAreNumbers
  <2>3. CASE ~\E h \in DOMAIN files : Fold(files[h].path) = Fold(q) /\ files[h].dirty
    <3>1. Clean(files, q) /\ Backed(disk, files)
      BY <2>3 DEF Clean, FilesInv
    <3>2. CASE q \in DOMAIN disk
      <4>1. SeenIn(disk, files, Fold(q)) = disk[q] /\ disk[q] \in Seq(FileBytes)
        BY <3>1, <3>2, SeenClean DEF Backed, Stored
      <4> QED BY <2>1, <3>2, <4>1, BytesAreNumbers
    <3>3. CASE q \notin DOMAIN disk
      <4>1. Spelled(disk, Fold(q)) = {}
        BY <1>3, <3>3 DEF Spelled, FilesInv, OneSpelling
      <4>2. SeenIn(disk, files, Fold(q)) = <<-1>>
        BY <3>1, <4>1, SeenAbsent
      <4> QED BY <2>1, <3>3, <4>2
    <3> QED BY <3>2, <3>3
  <2> QED BY <2>2, <2>3
<1>8. FileApi!Contract!TellKind(Fold(p))
  BY <1>2, <1>4, <1>6, <1>7
     DEF FileApi!Contract!TellKind, FileApi!Contract!Tell, FileApi!Contract!Absent
<1> QED BY <1>6, <1>8, NameIs DEF FileStep, FileApi!Contract!ContractNext

LEMMA DirectoryStep ==
    ASSUME ~Respells, FilesInv, NEW p \in Spellings,
           FileApi!CreateDirectory(p) \/ FileApi!RemoveDirectory(p)
    PROVE  FileStep
<1>1. UNCHANGED <<disk, files, nextFile, got>>
  BY DEF FileApi!CreateDirectory, FileApi!RemoveDirectory, FileApi!allButDirectories
<1>2. directories' \subseteq Spellings \ DOMAIN disk /\ OneSpelling(DOMAIN disk \cup directories')
  <2>1. CASE FileApi!CreateDirectory(p)
    <3>1. /\ p \notin DOMAIN disk \cup directories /\ directories' = directories \cup {p}
          /\ FileApi!MaySpell(p)
      BY <2>1 DEF FileApi!CreateDirectory, FileApi!CreateDirectoryAt
    <3>2. OneSpelling(DOMAIN disk \cup directories \cup {p})
      BY <3>1, SpellsAsDisk
    <3> QED BY <3>1, <3>2 DEF FilesInv, OneSpelling
  <2>2. CASE FileApi!RemoveDirectory(p)
    <3>1. directories' \subseteq directories
      BY <2>2 DEF FileApi!RemoveDirectory, FileApi!RemoveDirectoryAt
    <3> QED BY <3>1 DEF FilesInv, OneSpelling
  <2> QED BY <2>1, <2>2
<1>3. FilesInv'
  BY <1>1, <1>2 DEF FilesInv
<1>4. FileApi!SeenContents' = FileApi!SeenContents /\ FileApi!FileHandles' = FileApi!FileHandles
  BY <1>1, SeenIs
<1> QED BY <1>1, <1>3, <1>4, SeenStutters

LEMMA FileCalls ==
    ASSUME FileApi!FilesAssumption, ~Respells, FilesInv, FileApi!FileCall
    PROVE  FileStep
<1>1. CASE \E p \in Spellings, readable, writable \in BOOLEAN, disposition \in 1..5 :
             FileApi!CreateFile(p, readable, writable, disposition)
  <2>1. PICK p \in Spellings, readable, writable \in BOOLEAN, disposition \in 1..5 :
             FileApi!CreateFile(p, readable, writable, disposition)
    BY <1>1
  <2>2. UNCHANGED <<directories, got>> /\ nextFile < FileApi!FirstFile + 4 * MaxHandles
    BY <2>1 DEF FileApi!CreateFile, FileApi!others
  <2>3. \/ FileApi!OpenFile(p, readable, writable, disposition)
        \/ FileApi!OpenDirectory(p)
    BY <2>1 DEF FileApi!CreateFile
  <2> QED BY <2>2, <2>3, OpenFileStep, OpenDirectoryStep
<1>2. CASE \E h \in FileApi!Opened, length \in 0..MaxLength : FileApi!ReadFile(h, length)
  BY <1>2, ReadStep DEF FileApi!Opened
<1>3. CASE \E h \in FileApi!Opened \cup {standard[2], standard[3]}, new \in FileApi!Strings :
             FileApi!WriteFile(h, new)
  BY <1>3, WriteStep
<1>4. CASE \E h \in FileApi!Opened : FileApi!SetEndOfFile(h)
  BY <1>4, CutStep DEF FileApi!Opened
<1>5. CASE \E h \in FileApi!Opened : FileApi!FlushFileBuffers(h)
  BY <1>5, FlushStep DEF FileApi!Opened
<1>6. CASE \E h \in FileApi!Opened, distance \in {-1, 0, 2},
              origin \in {"start", "current", "end"} : FileApi!SetFilePointer(h, distance, origin)
  BY <1>6, SeekStep DEF FileApi!Opened
<1>7. CASE \E h \in FileApi!Opened : FileApi!GetFileSize(h)
  BY <1>7, SizeStep DEF FileApi!Opened
<1>8. CASE \E h \in FileApi!Opened : FileApi!CloseHandle(h)
  BY <1>8, CloseStep DEF FileApi!Opened
<1>9. CASE \E p \in Spellings : FileApi!DeleteFile(p)
  BY <1>9, DeleteStep
<1>10. CASE \E source, destination \in Spellings, failIfExists \in BOOLEAN :
              FileApi!CopyFile(source, destination, failIfExists)
  BY <1>10, CopyStep
<1> QED BY <1>1, <1>2, <1>3, <1>4, <1>5, <1>6, <1>7, <1>8, <1>9, <1>10 DEF FileApi!FileCall

LEMMA OtherCalls ==
    ASSUME FileApi!FilesAssumption, ~Respells, FilesInv, FileApi!OtherCall
    PROVE  FileStep
<1>1. CASE \E p \in Spellings : FileApi!CreateDirectory(p)
  BY <1>1, DirectoryStep
<1>2. CASE \E p \in Spellings : FileApi!RemoveDirectory(p)
  BY <1>2, DirectoryStep
<1>3. CASE \E p \in Spellings : FileApi!GetFileAttributes(p)
  BY <1>3, AttributesStep
<1>4. CASE \/ \E wanted \in SUBSET FileApi!Names \ {{}} : FileApi!FindFirstFile(wanted)
           \/ \E s \in DOMAIN searches : FileApi!FindNextFile(s)
           \/ \E s \in DOMAIN searches : FileApi!FindClose(s)
  <2>1. UNCHANGED <<disk, files, nextFile, directories, got>>
    BY <1>4 DEF FileApi!FindFirstFile, FileApi!FindNextFile, FileApi!FindClose,
                FileApi!allButSearches
  <2> QED BY <2>1, OthersStutter
<1>5. CASE \/ \E i \in 1..3, h \in FileApi!Opened : FileApi!SetStdHandle(i, h)
           \/ \E mode \in {1, 2} : FileApi!SetErrorMode(mode)
  <2>1. UNCHANGED <<disk, files, nextFile, directories, got>>
    BY <1>5 DEF FileApi!SetStdHandle, FileApi!SetErrorMode, FileApi!allButProcess
  <2> QED BY <2>1, OthersStutter
<1> QED BY <1>1, <1>2, <1>3, <1>4, <1>5 DEF FileApi!OtherCall

LEMMA FilesBegin ==
    ASSUME FileApi!FilesAssumption, FileApi!Init
    PROVE  FilesInv /\ FileApi!Contract!ContractInit
<1>1. PICK present \in SUBSET Spellings :
        /\ \A p, q \in present : Fold(p) = Fold(q) => p = q
        /\ disk \in [present -> [1..1 -> Bytes]]
  BY DEF FileApi!Init
<1>2. DOMAIN files = {} /\ directories = {} /\ nextFile = FileApi!FirstFile
      /\ got = [bytes |-> <<>>, number |-> 0]
  BY DEF FileApi!Init
<1>3. \A p \in DOMAIN disk : disk[p] \in [1..1 -> FileBytes]
  BY <1>1 DEF FileBytes
<1>4. Stored(disk)
  <2>1. \A p \in DOMAIN disk : disk[p] \in Seq(FileBytes)
    BY <1>3, SeqDef
  <2> QED BY <1>1, <2>1 DEF Stored, OneSpelling
<1>5. Backed(disk, files)
  BY <1>2, <1>4 DEF Backed, Exclusive
<1>6. FilesInv
  <2>1. got \in Answers
    BY <1>2 DEF Answers
  <2>2. nextFile = FileApi!FirstFile + 4 * 0 /\ nextFile \in Nat /\ 0 \in Nat
    BY <1>2 DEF FileApi!FirstFile
  <2>3. OneSpelling(DOMAIN disk \cup directories)
    BY <1>1, <1>2 DEF OneSpelling
  <2> QED BY <1>1, <1>2, <1>5, <2>1, <2>2, <2>3 DEF FilesInv
<1>7. FileApi!FileHandles = [h \in {} |-> 0]
  BY <1>2, SeenIs DEF OpenedIn
<1>8. FileApi!SeenContents \in [FileApi!Names -> FileApi!Contract!Strings \cup {<<-1>>}]
  <2> SUFFICES ASSUME NEW f \in FileApi!Names
               PROVE  SeenIn(disk, files, f) \in FileApi!Contract!Strings \cup {<<-1>>}
    BY SeenIs DEF ContentsIn
  <2>1. 1 \in 0..MaxLength
    BY DEF FileApi!FilesAssumption
  <2>2. Dirty(files, f) = {}
    BY <1>2 DEF Dirty
  <2>3. CASE Spelled(disk, f) = {}
    BY <2>2, <2>3 DEF SeenIn
  <2>4. CASE Spelled(disk, f) # {}
    <3>1. PICK p \in DOMAIN disk : SeenIn(disk, files, f) = disk[p]
      BY <2>2, <2>4 DEF SeenIn, Spelled
    <3> QED BY <1>3, <2>1, <3>1 DEF FileApi!Contract!Strings, FileBytes
  <2> QED BY <2>3, <2>4
<1>9. FileApi!Contract!ContractInit
  BY <1>2, <1>7, <1>8 DEF FileApi!Contract!ContractInit, FileApi!Contract!Absent
<1> QED BY <1>6, <1>9

(* Every call on files does what FileContract promises, for any names in    *)
(* any number of spellings, lengths and numbers of handles: a write is seen *)
(* at once by every handle and in every spelling of the name, though it is  *)
(* kept in the buffer of the handle until it is flushed or closed           *)
(* (ProcessIo, SandboxFileSystem and their callers).  The guest reads a     *)
(* name in any spelling and writes it as the disk spells it: without that   *)
(* the file is made a second time (LookupIgnoresCase).                      *)
THEOREM FilesRefine ==
    FileApi!FilesAssumption /\ ~Respells => (ServicesSpec => FilesKeepTheirContract)
<1> SUFFICES ASSUME FileApi!FilesAssumption, ~Respells
             PROVE  ServicesSpec => FilesKeepTheirContract
  OBVIOUS
<1>1. ServicesInit => FilesInv /\ FileApi!Contract!ContractInit
  BY FilesBegin DEF ServicesInit, Focused, FilesUnused
<1>2. FilesInv /\ [ServicesNext]_servicesVars =>
        FilesInv' /\ [FileApi!Contract!ContractNext]_FileApi!Contract!contractVars
  <2> SUFFICES ASSUME FilesInv, [ServicesNext]_servicesVars PROVE FileStep
    BY DEF FileStep
  <2>1. FileApi!Next \/ UNCHANGED fileVars
    BY DEF ServicesNext, Focused, servicesVars
  <2>2. CASE FileApi!Next
    BY <2>2, FileCalls, OtherCalls DEF FileApi!Next
  <2>3. CASE UNCHANGED fileVars
    BY <2>3, OthersStutter DEF fileVars
  <2> QED BY <2>1, <2>2, <2>3
<1> QED BY <1>1, <1>2, PTL
       DEF ServicesSpec, FilesKeepTheirContract, FileApi!FilesKeepTheirContract,
           FileApi!Contract!ContractSpec

-----------------------------------------------------------------------------
(* TextBuffers.  What FlattenSeq puts together, whatever the number of      *)
(* pieces.                                                                  *)
Joined(t, g, i) == IF i = 1 THEN t[i] ELSE g[i - 1] \o t[i]
JoinsUpTo(t, g, n) == \A i \in 1..n : g[i] = Joined(t, g, i)

LEMMA JoinExists ==
    ASSUME NEW t, NEW n \in Nat
    PROVE  \E g : g = [i \in 1..n |-> Joined(t, g, i)]
<1> DEFINE T == {m \in Nat : \E g : JoinsUpTo(t, g, m)}
<1>1. 0 \in T
  BY DEF JoinsUpTo
<1>2. ASSUME NEW m \in Nat, m \in T PROVE m + 1 \in T
  <2>1. PICK g : JoinsUpTo(t, g, m)
    BY <1>2
  <2> DEFINE h == [i \in 1..(m + 1) |-> Joined(t, g, i)]
  <2>2. ASSUME NEW i \in 1..(m + 1) PROVE h[i] = Joined(t, h, i)
    <3>1. CASE i = 1
      BY <3>1 DEF Joined
    <3>2. CASE i # 1
      <4>1. i - 1 \in 1..m /\ i - 1 \in 1..(m + 1)
        BY <3>2
      <4>2. h[i - 1] = g[i - 1]
        BY <2>1, <4>1 DEF JoinsUpTo
      <4> QED BY <3>2, <4>2 DEF Joined
    <3> QED BY <3>1, <3>2
  <2> HIDE DEF h
  <2>3. JoinsUpTo(t, h, m + 1)
    BY <2>2 DEF JoinsUpTo
  <2> QED BY <2>3
<1>3. n \in T
  <2> HIDE DEF T
  <2> QED BY <1>1, <1>2, SetInduction
<1>4. PICK g : JoinsUpTo(t, g, n)
  BY <1>3
<1> DEFINE h == [i \in 1..n |-> g[i]]
<1>5. \A i \in 1..n : h[i] = Joined(t, h, i)
  BY <1>4 DEF JoinsUpTo, Joined
<1>6. h = [i \in 1..n |-> Joined(t, h, i)]
  BY <1>5
<1> QED BY <1>6

LEMMA FlattenedIs ==
    ASSUME NEW X, NEW t \in Seq(Seq(X) \ {<<>>})
    PROVE  /\ Buffer!FlattenSeq(t) \in Seq(X)
           /\ t # <<>> => Buffer!FlattenSeq(t) # <<>>
<1> DEFINE n == Len(t)
           g == CHOOSE f : f = [i \in 1..n |-> Joined(t, f, i)]
<1>1. n \in Nat /\ \A i \in 1..n : t[i] \in Seq(X) \ {<<>>}
  BY LenProperties, ElementOfSeq
<1>2. CASE n = 0
  BY <1>2 DEF Buffer!FlattenSeq
<1>3. CASE n # 0
  <2>1. Buffer!FlattenSeq(t) = g[n]
    BY <1>3 DEF Buffer!FlattenSeq, Joined
  <2>2. g = [i \in 1..n |-> Joined(t, g, i)]
    BY <1>1, JoinExists
  <2> DEFINE T == {m \in Nat : m + 1 \in 1..n => g[m + 1] \in Seq(X) \ {<<>>}}
  <2> HIDE DEF g
  <2>3. 0 \in T
    <3>1. 1 \in 1..n
      BY <1>1, <1>3
    <3>2. g[1] = t[1]
      BY <2>2, <3>1 DEF Joined
    <3> QED BY <1>1, <3>1, <3>2
  <2>4. ASSUME NEW m \in Nat, m \in T PROVE m + 1 \in T
    <3> SUFFICES ASSUME m + 2 \in 1..n PROVE g[m + 2] \in Seq(X) \ {<<>>}
      OBVIOUS
    <3>1. m + 1 \in 1..n /\ m + 2 # 1 /\ (m + 2) - 1 = m + 1
      BY <1>1
    <3>2. g[m + 2] = g[m + 1] \o t[m + 2]
      BY <2>2, <3>1 DEF Joined
    <3>3. g[m + 1] \in Seq(X) /\ g[m + 1] # <<>> /\ t[m + 2] \in Seq(X)
      BY <1>1, <2>4, <3>1
    <3>4. g[m + 1] \o t[m + 2] \in Seq(X) /\ Len(g[m + 1] \o t[m + 2]) = Len(g[m + 1]) + Len(t[m + 2])
      BY <3>3, ConcatProperties
    <3>5. Len(g[m + 1]) # 0 /\ Len(g[m + 1]) \in Nat /\ Len(t[m + 2]) \in Nat
      BY <3>3, EmptySeq, LenProperties
    <3> QED BY <3>2, <3>4, <3>5, EmptySeq
  <2>5. n - 1 \in T
    <3> HIDE DEF T
    <3>1. Nat \subseteq T
      BY <2>3, <2>4, SetInduction
    <3> QED BY <1>1, <1>3, <3>1
  <2> QED BY <1>1, <1>3, <2>1, <2>5
<1> QED BY <1>2, <1>3

-----------------------------------------------------------------------------
(* What a result promises about the text W that was to be written.          *)
Inside(res, cap, buf) == Len(res.written) <= IF buf THEN cap ELSE 0

Terminated(res, W) ==
    res.written # <<>> =>
        /\ Buffer!Last(res.written) = Buffer!Nul
        /\ SubSeq(res.written, 1, Len(res.written) - 1) = SubSeq(W, 1, Len(res.written) - 1)

Promises(res, cap, buf, W) ==
    /\ Inside(res, cap, buf)
    /\ buf /\ cap >= Len(W) => res.written = W
    /\ res.told \in {Buffer!None, Len(W)}

LEMMA TextEnds ==
    ASSUME NEW X, NEW e \in Seq(X), NEW n \in X
    PROVE  /\ Append(e, n) \in Seq(X) /\ Append(e, n) # <<>> /\ Len(Append(e, n)) = Len(e) + 1
           /\ Append(e, n)[Len(e) + 1] = n
           /\ SubSeq(Append(e, n), 1, Len(e)) = e
           /\ \A k \in 0..Len(e) : SubSeq(Append(e, n), 1, k) = SubSeq(e, 1, k)
<1>1. /\ Append(e, n) \in Seq(X) /\ Append(e, n) # <<>> /\ Len(Append(e, n)) = Len(e) + 1
      /\ Append(e, n)[Len(e) + 1] = n /\ \A i \in 1..Len(e) : Append(e, n)[i] = e[i]
  BY AppendProperties
<1>2. Len(e) \in Nat
  BY LenProperties
<1>3. ASSUME NEW k \in 0..Len(e) PROVE SubSeq(Append(e, n), 1, k) = SubSeq(e, 1, k)
  BY <1>1, <1>2, <1>3
<1>4. SubSeq(e, 1, Len(e)) = e
  BY <1>2
<1> QED BY <1>1, <1>2, <1>3, <1>4

LEMMA CutText ==
    ASSUME NEW X, NEW e \in Seq(X), NEW n \in X, NEW k \in 0..Len(e)
    PROVE  SubSeq(e, 1, k) \in Seq(X) /\ Len(SubSeq(e, 1, k)) = k
<1>1. Len(e) \in Nat /\ \A i \in 1..Len(e) : e[i] \in X
  BY LenProperties, ElementOfSeq
<1> QED BY <1>1

LEMMA UncutText ==
    ASSUME NEW X, NEW e \in Seq(X)
    PROVE  SubSeq(e, 1, Len(e)) = e
OBVIOUS

(* A text cut off at k units and terminated.                                *)
LEMMA CutEnds ==
    ASSUME NEW X, NEW e \in Seq(X), Buffer!Nul \in X, NEW k \in 0..Len(e),
           NEW res, res.written = Buffer!Z(SubSeq(e, 1, k))
    PROVE  Len(res.written) = k + 1 /\ Terminated(res, Buffer!Z(e))
<1> DEFINE c == SubSeq(e, 1, k)
           w == Append(c, Buffer!Nul)
<1>1. c \in Seq(X) /\ Len(c) = k /\ k \in Nat
  BY CutText, LenProperties
<1>2. w \in Seq(X) /\ w # <<>> /\ Len(w) = k + 1 /\ w[k + 1] = Buffer!Nul /\ SubSeq(w, 1, k) = c
  <2> HIDE DEF c
  <2> QED BY <1>1, TextEnds
<1>3. SubSeq(Append(e, Buffer!Nul), 1, k) = c
  BY TextEnds
<1>4. res.written = w /\ (k + 1) - 1 = k
  BY <1>1 DEF Buffer!Z
<1> HIDE DEF w, c
<1> QED BY <1>2, <1>3, <1>4 DEF Terminated, Buffer!Last, Buffer!Z

LEMMA ConversionIs ==
    ASSUME NEW X, NEW W \in Seq(X), W # <<>>, NEW cap \in Nat, NEW buf \in BOOLEAN,
           NEW success, NEW res, res = Buffer!FinishConversion(W, cap, buf, success)
    PROVE  /\ Promises(res, cap, buf, W) /\ res.written \in {<<>>, W}
           /\ buf => (cap # 0 /\ res.answer # 0 <=> res.written = W)
<1>1. Len(W) \in Nat /\ Len(W) # 0
  BY LenProperties, EmptySeq
<1>2. CASE cap = 0
  <2>1. res.written = <<>> /\ res.told = Len(W)
    BY <1>2 DEF Buffer!FinishConversion, Buffer!Result
  <2> QED BY <1>1, <1>2, <2>1 DEF Promises, Inside
<1>3. CASE cap # 0 /\ Buffer!Room(W, cap, buf)
  <2>1. res.written = W /\ res.told = Buffer!None /\ res.answer = Len(W)
    BY <1>3 DEF Buffer!FinishConversion, Buffer!Result
  <2> QED BY <1>1, <1>3, <2>1 DEF Promises, Inside, Buffer!Room
<1>4. CASE cap # 0 /\ ~Buffer!Room(W, cap, buf)
  <2>1. res.written = <<>> /\ res.told = Buffer!None /\ res.answer = 0
    BY <1>4 DEF Buffer!FinishConversion, Buffer!Result, Buffer!Fails
  <2> QED BY <1>1, <1>4, <2>1 DEF Promises, Inside, Buffer!Room
<1> QED BY <1>2, <1>3, <1>4

LEMMA FetchIs ==
    ASSUME NEW X, NEW e \in Seq(X), Buffer!Nul \in X, NEW W, W = Buffer!Z(e),
           NEW cap \in Nat, NEW buf \in BOOLEAN, NEW t, e = Buffer!Encoded(t),
           NEW success, NEW short, e # <<>> \/ success = 0,
           NEW res, res = Buffer!Fetch(t, cap, buf, success, short)
    PROVE  /\ Promises(res, cap, buf, W) /\ res.written \in {<<>>, W}
           /\ buf => (res.answer < cap /\ (res.answer # 0 \/ res.error = 0) <=> res.written = W)
<1>1. W \in Seq(X) /\ W # <<>> /\ Len(W) = Len(e) + 1 /\ Len(e) \in Nat
  BY TextEnds, LenProperties DEF Buffer!Z
<1>2. e # <<>> => Len(e) # 0
  BY EmptySeq
<1>3. CASE Buffer!Room(W, cap, buf)
  <2>1. res.written = W /\ res.told = Buffer!None /\ res.answer = Len(W) - 1 /\ res.error = success
    BY <1>3 DEF Buffer!Fetch, Buffer!Result
  <2>2. Len(W) <= cap /\ buf
    BY <1>3 DEF Buffer!Room
  <2>3. Promises(res, cap, buf, W)
    BY <1>1, <2>1, <2>2 DEF Promises, Inside
  <2>4. res.answer < cap /\ (res.answer # 0 \/ res.error = 0)
    BY <1>1, <1>2, <2>1, <2>2
  <2> QED BY <2>1, <2>3, <2>4
<1>4. CASE ~Buffer!Room(W, cap, buf)
  <2>1. res.written = <<>> /\ res.told = Len(W) /\ res.answer = Len(W)
    BY <1>4 DEF Buffer!Fetch, Buffer!Result
  <2> QED BY <1>1, <1>4, <2>1 DEF Promises, Inside, Buffer!Room
<1> QED BY <1>3, <1>4

LEMMA CopyIs ==
    ASSUME NEW X, NEW e \in Seq(X), Buffer!Nul \in X, NEW W, W = Buffer!Z(e),
           NEW cap \in Nat, NEW buf \in BOOLEAN, buf \/ cap = 0,
           NEW t, e = Buffer!Encoded(t), NEW res, res = Buffer!CopyWhatFits(t, cap)
    PROVE  /\ Promises(res, cap, buf, W) /\ Terminated(res, W)
           /\ res.answer < cap - 1 => res.written = W
<1>1. Len(e) \in Nat /\ Len(W) = Len(e) + 1
  BY TextEnds, LenProperties DEF Buffer!Z
<1>2. CASE cap = 0
  <2>1. res.written = <<>> /\ res.told = Buffer!None /\ res.answer = 0
    BY <1>1, <1>2 DEF Buffer!CopyWhatFits, Buffer!Result, Buffer!Least
  <2> QED BY <1>1, <1>2, <2>1 DEF Promises, Inside, Terminated
<1>3. CASE cap # 0
  <2> DEFINE k == IF Len(e) < cap - 1 THEN Len(e) ELSE cap - 1
  <2>1. k \in 0..Len(e) /\ k \in Nat
    BY <1>1, <1>3
  <2>2. res.written = Buffer!Z(SubSeq(e, 1, k)) /\ res.told = Buffer!None /\ res.answer = k
    BY <1>3 DEF Buffer!CopyWhatFits, Buffer!Result, Buffer!Least
  <2>3. Len(res.written) = k + 1 /\ Terminated(res, W)
    <3> HIDE DEF k
    <3> QED BY <2>1, <2>2, CutEnds
  <2>4. k = Len(e) => res.written = W
    BY <2>2, UncutText
  <2> QED BY <1>1, <1>3, <2>2, <2>3, <2>4 DEF Promises, Inside
<1> QED BY <1>2, <1>3

LEMMA ModulePathIs ==
    ASSUME NEW X, NEW e \in Seq(X), e # <<>>, Buffer!Nul \in X, NEW W, W = Buffer!Z(e),
           NEW cap \in Nat, NEW buf \in BOOLEAN,
           NEW t, e = Buffer!Encoded(t), NEW res, res = Buffer!GetModuleFileName(t, cap, buf)
    PROVE  /\ Promises(res, cap, buf, W) /\ Terminated(res, W)
           /\ buf => (res.answer < cap /\ (res.answer # 0 \/ res.error = 0) <=> res.written = W)
<1>1. Len(e) \in Nat /\ Len(W) = Len(e) + 1 /\ Len(e) # 0 /\ W \in Seq(X) /\ W # <<>>
  BY TextEnds, LenProperties, EmptySeq DEF Buffer!Z
<1> DEFINE n == Len(W)
<1>0. n \in Nat /\ n >= 2 /\ n = Len(e) + 1
  BY <1>1
<1> HIDE DEF n
<1>2. CASE ~buf \/ cap = 0
  <2>1. res.written = <<>> /\ res.told = Buffer!None /\ res.answer = 0
    BY <1>2 DEF Buffer!GetModuleFileName, Buffer!Result, Buffer!Fails
  <2> QED BY <1>1, <1>2, <2>1 DEF Promises, Inside, Terminated
<1>3. CASE buf /\ cap # 0 /\ Len(W) <= cap
  <2>1. /\ res.written = W /\ res.told = Buffer!None /\ res.answer = Len(W) - 1
        /\ res.written = Buffer!Z(SubSeq(e, 1, Len(e)))
    BY <1>1, <1>3, UncutText
       DEF Buffer!GetModuleFileName, Buffer!WriteModulePath, Buffer!Result
  <2>2. Terminated(res, W)
    BY <1>1, <2>1, CutEnds
  <2>3. Promises(res, cap, buf, W)
    BY <1>1, <1>3, <2>1 DEF Promises, Inside
  <2>4. res.answer = n - 1 /\ n <= cap
    BY <1>3, <2>1 DEF n
  <2>5. res.answer < cap /\ res.answer # 0
    BY <1>0, <2>4
  <2> QED BY <2>1, <2>2, <2>3, <2>5
<1>4. CASE buf /\ cap # 0 /\ ~(Len(W) <= cap)
  <2>1. cap - 1 \in 0..Len(e)
    BY <1>1, <1>4
  <2>2. SubSeq(W, 1, cap - 1) = SubSeq(e, 1, cap - 1)
    BY <2>1, TextEnds DEF Buffer!Z
  <2>3. /\ res.written = Buffer!Z(SubSeq(e, 1, cap - 1)) /\ res.told = Buffer!None
        /\ res.answer = cap
    BY <1>4, <2>2
       DEF Buffer!GetModuleFileName, Buffer!WriteModulePath, Buffer!Result, Buffer!Truncated
  <2>4. Len(res.written) = (cap - 1) + 1 /\ Terminated(res, W)
    BY <2>1, <2>3, CutEnds
  <2>5. Len(res.written) = cap /\ n > cap
    <3>1. ~(n <= cap) /\ Len(res.written) = (cap - 1) + 1
      BY <1>4, <2>4 DEF n
    <3> QED BY <1>0, <3>1
  <2>6. Promises(res, cap, buf, W)
    <3>1. Inside(res, cap, buf)
      <4>1. (IF buf THEN cap ELSE 0) = cap
        BY <1>4
      <4>2. cap <= cap
        OBVIOUS
      <4> QED BY <2>5, <4>1, <4>2 DEF Inside
    <3>2. ~(cap >= n)
      BY <1>0, <2>5
    <3> QED BY <2>3, <3>1, <3>2 DEF Promises, n
  <2>7. res.written # W /\ ~(res.answer < cap)
    <3>1. Len(res.written) # n
      BY <1>0, <2>5
    <3> QED BY <2>3, <3>1 DEF n
  <2> QED BY <2>4, <2>6, <2>7
<1> QED BY <1>2, <1>3, <1>4

-----------------------------------------------------------------------------
(* The text and its encoding.                                               *)
TextUnits == UNION {Buffer!Range(c) : c \in Characters}
Units == TextUnits \cup Characters \cup {"absent", <<"absent">>, "nul", <<"nul">>}

LEMMA TextsAre ==
    ASSUME Buffer!TextAssumption
    PROVE  /\ Buffer!TextsFrom(0) \subseteq Seq(Characters)
           /\ Buffer!TextsFrom(1) \subseteq Buffer!TextsFrom(0) \ {<<>>}
<1>1. MaxText \in Nat
  BY DEF Buffer!TextAssumption
<1>2. ASSUME NEW t \in Buffer!TextsFrom(0) PROVE t \in Seq(Characters)
  <2>1. PICK k \in 0..MaxText : t \in [1..k -> Characters]
    BY DEF Buffer!TextsFrom
  <2> QED BY <1>1, <2>1, SeqDef
<1>3. ASSUME NEW t \in Buffer!TextsFrom(1) PROVE t \in Buffer!TextsFrom(0) /\ t # <<>>
  <2>1. PICK k \in 1..MaxText : t \in [1..k -> Characters]
    BY DEF Buffer!TextsFrom
  <2>2. k \in 0..MaxText
    BY <1>1, <2>1
  <2>3. t \in Buffer!TextsFrom(0)
    BY <2>1, <2>2 DEF Buffer!TextsFrom
  <2>4. 1 \in DOMAIN t
    BY <1>1, <2>1
  <2> QED BY <2>3, <2>4, EmptySeq
<1> QED BY <1>2, <1>3

LEMMA EncodedIs ==
    ASSUME Buffer!TextAssumption, NEW t \in Seq(Characters) \cup {Buffer!Absent}
    PROVE  /\ t \in Seq(Units) /\ Buffer!Encoded(t) \in Seq(Units)
           /\ t # <<>> => Buffer!Encoded(t) # <<>>
           /\ Buffer!Nul \in Units
<1>1. Buffer!Nul \in Units
  BY DEF Buffer!Nul, Units
<1>2. Characters \subseteq Seq(Units) \ {<<>>} /\ Characters \subseteq Units
  <2> SUFFICES ASSUME NEW c \in Characters PROVE c \in Seq(Units) \ {<<>>}
    BY DEF Units
  <2>1. c \in Seq(Buffer!Range(c)) /\ c # <<>>
    BY DEF Buffer!TextAssumption
  <2>2. Buffer!Range(c) \subseteq Units
    BY DEF Units, TextUnits
  <2>3. Len(c) \in Nat /\ \A i \in 1..Len(c) : c[i] \in Units
    BY <2>1, <2>2, LenProperties, ElementOfSeq
  <2>4. c \in [1..Len(c) -> Units]
    BY <2>1, <2>3, LenProperties
  <2>5. c \in Seq(Units)
    BY <2>3, <2>4, SeqDef
  <2> QED BY <2>1, <2>5
<1>3. <<"absent">> \in Seq(Units) \ {<<>>} /\ <<"absent">> \in Units
  BY DEF Units
<1> DEFINE all == Characters \cup {<<"absent">>}
<1>4. t \in Seq(all)
  <2>1. Buffer!Absent \in Seq(all)
    BY DEF Buffer!Absent
  <2>2. ASSUME t \in Seq(Characters) PROVE t \in Seq(all)
    <3>1. t \in [1..Len(t) -> Characters] /\ Len(t) \in Nat
      BY <2>2, LenProperties
    <3>2. t \in [1..Len(t) -> all]
      BY <3>1
    <3> QED BY <3>1, <3>2, SeqDef
  <2> QED BY <2>1, <2>2
<1>5. all \subseteq Units /\ all \subseteq Seq(Units) \ {<<>>}
  BY <1>2, <1>3
<1> HIDE DEF all
<1>6. t \in [1..Len(t) -> all] /\ Len(t) \in Nat
  BY <1>4, LenProperties
<1>7. t \in Seq(Units)
  <2>1. t \in [1..Len(t) -> Units]
    BY <1>5, <1>6
  <2> QED BY <1>6, <2>1, SeqDef
<1>8. t \in Seq(Seq(Units) \ {<<>>})
  <2>1. t \in [1..Len(t) -> Seq(Units) \ {<<>>}]
    BY <1>5, <1>6
  <2> QED BY <1>6, <2>1, SeqDef
<1>9. Buffer!EncodeAnsi(t) \in Seq(Units) /\ (t # <<>> => Buffer!EncodeAnsi(t) # <<>>)
  BY <1>8, FlattenedIs DEF Buffer!EncodeAnsi
<1> QED BY <1>1, <1>7, <1>9 DEF Buffer!Encoded, Buffer!EncodeUtf16

TextInv ==
    /\ api \in Buffer!Fetching \cup Buffer!Converting \cup Buffer!Copying \cup Buffer!Sizing
    /\ wide \in BOOLEAN /\ counted \in BOOLEAN
    /\ counted => api \in Buffer!Counted
    /\ api \in Buffer!Sizing => wide
    /\ text \in Buffer!TextsFrom(0) \cup {Buffer!Absent}
    /\ text = Buffer!Absent => api = "GetEnvironmentVariable" /\ asked = Buffer!None
    /\ text = <<>> => api \in Buffer!MayBeEmpty
    /\ asked \in {Buffer!None, Len(Buffer!Whole)}
    /\ call.buffer \in BOOLEAN /\ call.capacity \in Nat
    /\ call.buffer \/ call.capacity = 0 \/ api \in Buffer!LooksAtBuffer
    /\ \/ call = Buffer!NoCall
       \/ call.result = Buffer!Outcome(text, call.capacity, call.buffer)

(* What is asked of one result.                                             *)
ClaimsOf(res, cap, buf) ==
    CASE api \in Buffer!Converting -> cap # 0 /\ res.answer # 0
      [] api \in Buffer!Fetching -> res.answer < cap /\ (res.answer # 0 \/ res.error = 0)
      [] api \in Buffer!Sizing -> buf /\ res.answer = 1
      [] api \in Buffer!Copying -> res.answer < cap - 1

Suits(res, cap, buf) ==
    /\ Inside(res, cap, buf)
    /\ ~counted => Terminated(res, Buffer!Whole)
    /\ res.told # Buffer!None => text # Buffer!Absent
    /\ text # Buffer!Absent =>
          /\ Promises(res, cap, buf, Buffer!Whole)
          /\ buf => /\ ClaimsOf(res, cap, buf) => res.written = Buffer!Whole
                    /\ api \notin Buffer!Copying /\ res.written = Buffer!Whole
                          => ClaimsOf(res, cap, buf)

TextFacts(e) ==
    /\ e = Buffer!Encoded(text) /\ e \in Seq(Units) /\ Buffer!Nul \in Units
    /\ text \in Seq(Units) /\ (text # <<>> => e # <<>>)

LEMMA AbsentIsNoText ==
    ASSUME Buffer!TextAssumption
    PROVE  Buffer!Absent \notin Seq(Characters) /\ Buffer!Absent # <<>>
<1> SUFFICES ASSUME Buffer!Absent \in Seq(Characters) PROVE FALSE
  BY DEF Buffer!Absent
<1>1. Len(Buffer!Absent) = 1 /\ Buffer!Absent[1] = <<"absent">>
  BY DEF Buffer!Absent
<1>2. <<"absent">> \in Characters
  <2>1. 1 \in 1..Len(Buffer!Absent)
    BY <1>1
  <2> QED BY <1>1, <2>1, ElementOfSeq
<1> QED BY <1>2 DEF Buffer!TextAssumption

LEMMA TextIs ==
    ASSUME Buffer!TextAssumption, TextInv
    PROVE  TextFacts(Buffer!Encoded(text))
<1>1. text \in Seq(Characters) \cup {Buffer!Absent}
  BY TextsAre DEF TextInv
<1> QED BY <1>1, EncodedIs DEF TextFacts

(* What was written whole is terminated.                                    *)
LEMMA WholeEnds ==
    ASSUME NEW X, NEW e \in Seq(X), Buffer!Nul \in X, NEW res,
           res.written \in {<<>>, Buffer!Z(e)}
    PROVE  Terminated(res, Buffer!Z(e))
<1>1. CASE res.written = <<>>
  BY <1>1 DEF Terminated
<1>2. CASE res.written = Buffer!Z(e)
  <2>1. SubSeq(e, 1, Len(e)) = e /\ Len(e) \in 0..Len(e)
    BY LenProperties, UncutText
  <2>2. res.written = Buffer!Z(SubSeq(e, 1, Len(e)))
    BY <1>2, <2>1
  <2> QED BY <2>1, <2>2, CutEnds
<1> QED BY <1>1, <1>2

(* The kinds of call are apart.                                             *)
LEMMA ClaimsAre ==
    ASSUME NEW res, NEW cap, NEW buf
    PROVE  /\ api \in Buffer!Converting => (ClaimsOf(res, cap, buf) <=> cap # 0 /\ res.answer # 0)
           /\ api \in Buffer!Fetching =>
                 (ClaimsOf(res, cap, buf) <=> res.answer < cap /\ (res.answer # 0 \/ res.error = 0))
           /\ api \in Buffer!Sizing => (ClaimsOf(res, cap, buf) <=> buf /\ res.answer = 1)
           /\ api \in Buffer!Copying => (ClaimsOf(res, cap, buf) <=> res.answer < cap - 1)
<1> DEFINE a == cap # 0 /\ res.answer # 0
           b == res.answer < cap /\ (res.answer # 0 \/ res.error = 0)
           c == buf /\ res.answer = 1
           d == res.answer < cap - 1
<1>1. /\ api \in Buffer!Converting => api \notin Buffer!Fetching \cup Buffer!Sizing \cup Buffer!Copying
      /\ api \in Buffer!Fetching => api \notin Buffer!Converting \cup Buffer!Sizing \cup Buffer!Copying
      /\ api \in Buffer!Sizing => api \notin Buffer!Converting \cup Buffer!Fetching \cup Buffer!Copying
      /\ api \in Buffer!Copying => api \notin Buffer!Converting \cup Buffer!Fetching \cup Buffer!Sizing
  BY DEF Buffer!Converting, Buffer!Counted, Buffer!Fetching, Buffer!Sizing, Buffer!Copying
<1>2. ClaimsOf(res, cap, buf) = CASE api \in Buffer!Converting -> a [] api \in Buffer!Fetching -> b
                                  [] api \in Buffer!Sizing -> c [] api \in Buffer!Copying -> d
  BY Zenon DEF ClaimsOf
<1> HIDE DEF a, b, c, d
<1>3. /\ api \in Buffer!Converting => (ClaimsOf(res, cap, buf) <=> a)
      /\ api \in Buffer!Fetching => (ClaimsOf(res, cap, buf) <=> b)
      /\ api \in Buffer!Sizing => (ClaimsOf(res, cap, buf) <=> c)
      /\ api \in Buffer!Copying => (ClaimsOf(res, cap, buf) <=> d)
  BY <1>1, <1>2
<1> QED BY <1>3, Zenon DEF a, b, c, d

LEMMA ConvertingSuits ==
    ASSUME Buffer!TextAssumption, TextInv, api \in Buffer!Converting,
           NEW cap \in Nat, NEW buf \in BOOLEAN
    PROVE  Suits(Buffer!Outcome(text, cap, buf), cap, buf)
<1> DEFINE W == Buffer!Whole
           e == Buffer!Encoded(text)
           res == Buffer!Outcome(text, cap, buf)
<1>1. /\ W = Buffer!Converted(text) /\ (api = "GetLocaleInfo" => ~counted)
      /\ text # <<>> /\ text # Buffer!Absent
  BY DEF TextInv, Buffer!Whole, Buffer!Converting, Buffer!Counted, Buffer!Sizing, Buffer!MayBeEmpty
<1>2. TextFacts(e)
  BY TextIs
<1> HIDE DEF e
<1>3. W \in Seq(Units) /\ W # <<>> /\ (~counted => W = Buffer!Z(e))
  <2>1. Buffer!Z(e) \in Seq(Units) /\ Buffer!Z(e) # <<>>
    BY <1>2, TextEnds DEF TextFacts, Buffer!Z
  <2> QED BY <1>1, <1>2, <2>1 DEF Buffer!Converted, TextFacts
<1> HIDE DEF W
<1>4. PICK success, r0 :
        /\ r0 = Buffer!FinishConversion(W, cap, buf, success)
        /\ res.written = r0.written /\ res.told = r0.told /\ res.answer = r0.answer
  <2>1. CASE api = "GetLocaleInfo"
    <3> DEFINE r0 == Buffer!FinishConversion(Buffer!Z(Buffer!Encoded(text)), cap, buf, 0)
    <3>1. r0 = Buffer!FinishConversion(W, cap, buf, 0)
      BY <1>1, <2>1 DEF Buffer!Converted
    <3>2. res = IF cap = 0 THEN [r0 EXCEPT !.error = Buffer!Keep] ELSE r0
      BY <2>1 DEF Buffer!Outcome, Buffer!GetLocaleInfo
    <3>3. [r0 EXCEPT !.error = Buffer!Keep].written = r0.written
          /\ [r0 EXCEPT !.error = Buffer!Keep].told = r0.told
          /\ [r0 EXCEPT !.error = Buffer!Keep].answer = r0.answer
      BY DEF Buffer!FinishConversion, Buffer!Result, Buffer!Fails
    <3> HIDE DEF r0, res
    <3>4. res.written = r0.written /\ res.told = r0.told /\ res.answer = r0.answer
      BY <3>2, <3>3
    <3> QED BY <3>1, <3>4
  <2>2. CASE api = "WideCharToMultiByte"
    <3>1. res = Buffer!FinishConversion(W, cap, buf, 0)
      BY <1>1, <2>2 DEF Buffer!Outcome, Buffer!WideCharToMultiByte
    <3> QED BY <3>1
  <2>3. CASE api = "MultiByteToWideChar"
    <3>1. res = Buffer!FinishConversion(W, cap, buf, 0)
      BY <1>1, <2>3 DEF Buffer!Outcome, Buffer!MultiByteToWideChar
    <3> QED BY <3>1
  <2>4. CASE api = "LcMapString"
    <3>1. res = Buffer!FinishConversion(W, cap, buf, IF wide THEN Buffer!Keep ELSE 0)
      BY <1>1, <2>4 DEF Buffer!Outcome, Buffer!LcMapString
    <3> QED BY <3>1
  <2> QED BY <2>1, <2>2, <2>3, <2>4 DEF Buffer!Converting, Buffer!Counted
<1> HIDE DEF res
<1>5. /\ Promises(r0, cap, buf, W) /\ r0.written \in {<<>>, W}
      /\ buf => (cap # 0 /\ r0.answer # 0 <=> r0.written = W)
  BY <1>3, <1>4, ConversionIs
<1>6. Promises(res, cap, buf, W) /\ res.written \in {<<>>, W}
  BY <1>4, <1>5 DEF Promises, Inside
<1>7. ~counted => Terminated(res, W)
  <2> SUFFICES ASSUME ~counted PROVE Terminated(res, Buffer!Z(e))
    BY <1>3
  <2> QED BY <1>2, <1>3, <1>6, WholeEnds DEF TextFacts
<1>8. ClaimsOf(res, cap, buf) <=> cap # 0 /\ res.answer # 0
  BY ClaimsAre
<1>9. buf => (ClaimsOf(res, cap, buf) <=> res.written = W)
  BY <1>4, <1>5, <1>8
<1> QED BY <1>1, <1>6, <1>7, <1>9 DEF Suits, Promises, W, res

LEMMA FetchingSuits ==
    ASSUME Buffer!TextAssumption, TextInv, api \in Buffer!Fetching,
           NEW cap \in Nat, NEW buf \in BOOLEAN, buf \/ cap = 0 \/ api \in Buffer!LooksAtBuffer
    PROVE  Suits(Buffer!Outcome(text, cap, buf), cap, buf)
<1> DEFINE W == Buffer!Whole
           e == Buffer!Encoded(text)
           res == Buffer!Outcome(text, cap, buf)
<1>1. ~counted /\ W = Buffer!Z(e) /\ (text = <<>> => api = "GetEnvironmentVariable")
  BY DEF TextInv, Buffer!Whole, Buffer!Converted, Buffer!Fetching, Buffer!Counted, Buffer!Sizing,
         Buffer!MayBeEmpty
<1>2. TextFacts(e)
  BY TextIs
<1>3. ClaimsOf(res, cap, buf) <=> res.answer < cap /\ (res.answer # 0 \/ res.error = 0)
  BY ClaimsAre
<1>4. CASE text = Buffer!Absent
  <2>1. api = "GetEnvironmentVariable"
    BY <1>4 DEF TextInv
  <2>2. res.written = <<>> /\ res.told = Buffer!None
    BY <1>4, <2>1 DEF Buffer!Outcome, Buffer!GetEnvironmentVariable, Buffer!Fails, Buffer!Result
  <2> HIDE DEF res
  <2> QED BY <1>4, <2>2 DEF Suits, Inside, Terminated, res
<1>5. CASE text # Buffer!Absent
  <2>1. \/ api = "GetModuleFileName" /\ res = Buffer!GetModuleFileName(text, cap, buf)
        \/ api = "GetFullPathName" /\ res = Buffer!Fetch(text, cap, TRUE, Buffer!Keep, Buffer!Keep)
        \/ api = "GetEnvironmentVariable"
           /\ res = Buffer!Fetch(text, cap, buf, 0, Buffer!Insufficient)
        \/ api = "GetCurrentDirectory" /\ res = Buffer!Fetch(text, cap, buf, 0, Buffer!Insufficient)
        \/ api \in {"GetSystemDirectory", "GetShortPathName"}
           /\ res = Buffer!Fetch(text, cap, buf, Buffer!Keep, Buffer!Keep)
    BY <1>5 DEF Buffer!Outcome, Buffer!GetFullPathName, Buffer!GetEnvironmentVariable,
                Buffer!GetCurrentDirectory, Buffer!GetSystemDirectory, Buffer!GetShortPathName,
                Buffer!Fetching
  <2> HIDE DEF e, W, res
  <2>2. e \in Seq(Units) /\ Buffer!Nul \in Units /\ e = Buffer!Encoded(text) /\ W = Buffer!Z(e)
        /\ (text # <<>> => e # <<>>)
    BY <1>1, <1>2 DEF TextFacts
  <2>3. /\ Promises(res, cap, buf, W) /\ Terminated(res, W)
        /\ buf => (res.answer < cap /\ (res.answer # 0 \/ res.error = 0) <=> res.written = W)
    <3>1. CASE api = "GetModuleFileName" /\ res = Buffer!GetModuleFileName(text, cap, buf)
      <4>1. e # <<>>
        BY <1>1, <2>2, <3>1
      <4> QED BY <2>2, <3>1, <4>1, ModulePathIs
    <3>2. CASE api = "GetFullPathName"
               /\ res = Buffer!Fetch(text, cap, TRUE, Buffer!Keep, Buffer!Keep)
      <4>1. e # <<>>
        BY <1>1, <2>2, <3>2
      <4>2. /\ Promises(res, cap, TRUE, W) /\ res.written \in {<<>>, W}
            /\ (res.answer < cap /\ (res.answer # 0 \/ res.error = 0) <=> res.written = W)
        <5>1. \A b \in BOOLEAN : \A r0 :
                r0 = Buffer!Fetch(text, cap, b, Buffer!Keep, Buffer!Keep) =>
                   /\ Promises(r0, cap, b, W) /\ r0.written \in {<<>>, W}
                   /\ b => (r0.answer < cap /\ (r0.answer # 0 \/ r0.error = 0) <=> r0.written = W)
          BY <2>2, <4>1, FetchIs
        <5> QED BY <3>2, <5>1
      <4>3. buf \/ cap = 0
        BY <3>2 DEF Buffer!LooksAtBuffer
      <4>4. Promises(res, cap, buf, W)
        BY <4>2, <4>3 DEF Promises, Inside
      <4> QED BY <2>2, <4>2, <4>4, WholeEnds
    <3>3. CASE \/ api = "GetEnvironmentVariable"
                  /\ res = Buffer!Fetch(text, cap, buf, 0, Buffer!Insufficient)
               \/ api = "GetCurrentDirectory"
                  /\ res = Buffer!Fetch(text, cap, buf, 0, Buffer!Insufficient)
      <4>1. /\ Promises(res, cap, buf, W) /\ res.written \in {<<>>, W}
            /\ buf => (res.answer < cap /\ (res.answer # 0 \/ res.error = 0) <=> res.written = W)
        <5>1. \A short : \A r0 : r0 = Buffer!Fetch(text, cap, buf, 0, short) =>
                 /\ Promises(r0, cap, buf, W) /\ r0.written \in {<<>>, W}
                 /\ buf => (r0.answer < cap /\ (r0.answer # 0 \/ r0.error = 0) <=> r0.written = W)
          BY <2>2, FetchIs
        <5> QED BY <3>3, <5>1
      <4> QED BY <2>2, <4>1, WholeEnds
    <3>4. CASE api \in {"GetSystemDirectory", "GetShortPathName"}
               /\ res = Buffer!Fetch(text, cap, buf, Buffer!Keep, Buffer!Keep)
      <4>1. e # <<>>
        BY <1>1, <2>2, <3>4
      <4>2. /\ Promises(res, cap, buf, W) /\ res.written \in {<<>>, W}
            /\ buf => (res.answer < cap /\ (res.answer # 0 \/ res.error = 0) <=> res.written = W)
        BY <2>2, <3>4, <4>1, FetchIs
      <4> QED BY <2>2, <4>2, WholeEnds
    <3> QED BY <2>1, <3>1, <3>2, <3>3, <3>4
  <2>4. buf => (ClaimsOf(res, cap, buf) <=> res.written = W)
    BY <1>3, <2>3
  <2> QED BY <1>5, <2>3, <2>4 DEF Suits, Promises, W, res
<1> QED BY <1>4, <1>5

LEMMA CopyingSuits ==
    ASSUME Buffer!TextAssumption, TextInv, api \in Buffer!Copying,
           NEW cap \in Nat, NEW buf \in BOOLEAN, buf \/ cap = 0 \/ api \in Buffer!LooksAtBuffer
    PROVE  Suits(Buffer!Outcome(text, cap, buf), cap, buf)
<1> DEFINE W == Buffer!Whole
           e == Buffer!Encoded(text)
           res == Buffer!Outcome(text, cap, buf)
<1>1. ~counted /\ W = Buffer!Z(e) /\ text # Buffer!Absent
  BY DEF TextInv, Buffer!Whole, Buffer!Converted, Buffer!Copying, Buffer!Counted, Buffer!Sizing
<1>2. TextFacts(e)
  BY TextIs
<1>3. buf \/ cap = 0
  BY DEF Buffer!Copying, Buffer!LooksAtBuffer, Buffer!Converting, Buffer!Counted, Buffer!Fetching
<1>4. \/ cap = 0 /\ res = Buffer!Fails(122)
      \/ res = Buffer!CopyWhatFits(text, cap)
  <2>1. CASE api = "GetModuleBaseName"
    <3> HIDE DEF res
    <3>1. res = Buffer!GetModuleBaseName(text, cap)
      BY <2>1 DEF Buffer!Outcome, res
    <3>2. CASE cap = 0
      BY <3>1, <3>2 DEF Buffer!GetModuleBaseName, Buffer!Insufficient
    <3>3. CASE cap # 0
      BY <3>1, <3>3 DEF Buffer!GetModuleBaseName
    <3> QED BY <3>2, <3>3
  <2>2. CASE api = "GetClassName"
    BY <2>2 DEF Buffer!Outcome, Buffer!GetClassName
  <2>3. CASE api = "GetWindowText"
    BY <2>3 DEF Buffer!Outcome, Buffer!WriteWindowTitle
  <2> QED BY <2>1, <2>2, <2>3 DEF Buffer!Copying
<1>5. ClaimsOf(res, cap, buf) <=> res.answer < cap - 1
  BY ClaimsAre
<1> HIDE DEF e, W, res
<1>6. e \in Seq(Units) /\ Buffer!Nul \in Units /\ e = Buffer!Encoded(text)
  BY <1>2 DEF TextFacts
<1>7. /\ Promises(res, cap, buf, W) /\ Terminated(res, W)
      /\ res.answer < cap - 1 => res.written = W
  <2>1. CASE res = Buffer!CopyWhatFits(text, cap)
    BY <1>1, <1>3, <1>6, <2>1, CopyIs
  <2>2. CASE cap = 0 /\ res = Buffer!Fails(122)
    <3>1. res.written = <<>> /\ res.told = Buffer!None /\ res.answer = 0
      BY <2>2 DEF Buffer!Fails, Buffer!Result
    <3>2. Len(W) \in Nat /\ Len(W) # 0
      <4>1. Len(W) = Len(e) + 1 /\ Len(e) \in Nat
        BY <1>1, <1>6, TextEnds, LenProperties DEF Buffer!Z
      <4> QED BY <4>1
    <3> QED BY <2>2, <3>1, <3>2 DEF Promises, Inside, Terminated
  <2> QED BY <1>4, <2>1, <2>2
<1> QED BY <1>1, <1>5, <1>7 DEF Suits, Promises, W, res

LEMMA SizingSuits ==
    ASSUME Buffer!TextAssumption, TextInv, api \in Buffer!Sizing,
           NEW cap \in Nat, NEW buf \in BOOLEAN, buf \/ cap = 0 \/ api \in Buffer!LooksAtBuffer
    PROVE  Suits(Buffer!Outcome(text, cap, buf), cap, buf)
<1> DEFINE W == Buffer!Whole
           res == Buffer!Outcome(text, cap, buf)
           n == Len(W)
<1>1. ~counted /\ text # Buffer!Absent
  BY DEF TextInv, Buffer!Counted, Buffer!Sizing
<1>2. TextFacts(Buffer!Encoded(text))
  BY TextIs
<1>3. ClaimsOf(res, cap, buf) <=> buf /\ res.answer = 1
  BY ClaimsAre
<1>4. /\ \E d \in Seq(Units) : W = Buffer!Z(d)
      /\ \/ buf /\ n <= cap /\ res = Buffer!Result(W, 1, 0, n)
         \/ ~buf /\ res.written = <<>> /\ res.told = n
         \/ ~(n <= cap) /\ res = Buffer!Result(<<>>, 0, Buffer!Insufficient, n)
  <2>1. CASE api = "GetThreadPreferredUiLanguages"
    <3>1. W = Buffer!Z(Buffer!Z(text))
      BY <2>1 DEF Buffer!Whole
    <3>2. Buffer!Z(text) \in Seq(Units) /\ Buffer!Z(Buffer!Z(text)) \in Seq(Units)
          /\ Buffer!Z(Buffer!Z(text)) # <<>>
      BY <1>2, TextEnds DEF TextFacts, Buffer!Z
    <3>3. n \in Nat /\ n # 0
      BY <3>1, <3>2, LenProperties, EmptySeq
    <3>4. buf \/ cap = 0
      BY <2>1 DEF Buffer!LooksAtBuffer, Buffer!Converting, Buffer!Counted, Buffer!Fetching
    <3>5. res = IF ~buf /\ cap = 0 THEN Buffer!Result(<<>>, 1, 0, n)
                ELSE IF cap < n THEN Buffer!Result(<<>>, 0, Buffer!Insufficient, n)
                ELSE Buffer!Result(W, 1, 0, n)
      BY <2>1, <3>1 DEF Buffer!Outcome, Buffer!GetThreadPreferredUiLanguages
    <3> HIDE DEF n, res, W
    <3>6. CASE ~buf
      <4>1. res = Buffer!Result(<<>>, 1, 0, n)
        BY <3>4, <3>5, <3>6
      <4> QED BY <3>1, <3>2, <3>6, <4>1 DEF Buffer!Result
    <3>7. CASE buf /\ cap < n
      <4>1. res = Buffer!Result(<<>>, 0, Buffer!Insufficient, n) /\ ~(n <= cap)
        BY <3>3, <3>5, <3>7
      <4> QED BY <3>1, <3>2, <4>1
    <3>8. CASE buf /\ ~(cap < n)
      <4>1. res = Buffer!Result(W, 1, 0, n) /\ n <= cap
        BY <3>3, <3>5, <3>8
      <4> QED BY <3>1, <3>2, <3>8, <4>1
    <3> QED BY <3>6, <3>7, <3>8
  <2>2. CASE api = "GetTokenInformation"
    <3>1. W = <<Buffer!Nul, Buffer!Nul>> /\ n = 2
      BY <2>2 DEF Buffer!Whole
    <3>2. <<Buffer!Nul>> \in Seq(Units) /\ W = Buffer!Z(<<Buffer!Nul>>)
      BY <1>2, <3>1 DEF TextFacts, Buffer!Z
    <3>3. res = IF buf /\ n <= cap THEN Buffer!Result(W, 1, 0, n)
                ELSE Buffer!Result(<<>>, 0, Buffer!Insufficient, n)
      BY <2>2, <3>1 DEF Buffer!Outcome, Buffer!GetTokenInformation, Buffer!Room
    <3> HIDE DEF n, res, W
    <3>4. CASE buf /\ n <= cap
      BY <3>2, <3>3, <3>4
    <3>5. CASE ~buf
      BY <3>2, <3>3, <3>5 DEF Buffer!Result
    <3>6. CASE ~(n <= cap)
      BY <3>2, <3>3, <3>6
    <3> QED BY <3>4, <3>5, <3>6
  <2> QED BY <2>1, <2>2 DEF Buffer!Sizing
<1>5. PICK d \in Seq(Units) : W = Buffer!Z(d)
  BY <1>4
<1> HIDE DEF W, res
<1>6. Buffer!Nul \in Units /\ n \in Nat /\ n # 0
  <2>1. Buffer!Nul \in Units
    BY <1>2 DEF TextFacts
  <2>2. n = Len(d) + 1 /\ Len(d) \in Nat
    BY <1>5, <2>1, TextEnds, LenProperties DEF Buffer!Z
  <2> QED BY <2>1, <2>2
<1> HIDE DEF n
<1>7. /\ res.written \in {<<>>, W} /\ res.told = n
      /\ Len(res.written) <= (IF buf THEN cap ELSE 0)
      /\ buf /\ cap >= n => res.written = W
      /\ buf => (res.answer = 1 <=> res.written = W)
  <2>0. Len(W) = n /\ W # <<>> /\ Len(<<>>) = 0
    BY <1>6, EmptySeq DEF n
  <2>1. CASE buf /\ n <= cap /\ res = Buffer!Result(W, 1, 0, n)
    <3>1. res.written = W /\ res.told = n /\ res.answer = 1
      BY <2>1 DEF Buffer!Result
    <3> QED BY <2>0, <2>1, <3>1
  <2>2. CASE ~buf /\ res.written = <<>> /\ res.told = n
    BY <2>0, <2>2
  <2>3. CASE ~(n <= cap) /\ res = Buffer!Result(<<>>, 0, Buffer!Insufficient, n)
    <3>1. res.written = <<>> /\ res.told = n /\ res.answer = 0
      BY <2>3 DEF Buffer!Result
    <3> QED BY <1>6, <2>0, <2>3, <3>1
  <2> QED BY <1>4, <2>1, <2>2, <2>3
<1>8. Promises(res, cap, buf, W)
  BY <1>7 DEF Promises, Inside, n
<1>9. Terminated(res, W)
  BY <1>5, <1>6, <1>7, WholeEnds
<1> QED BY <1>1, <1>3, <1>7, <1>8, <1>9 DEF Suits, Promises, W, res

LEMMA EveryCallSuits ==
    ASSUME Buffer!TextAssumption, TextInv,
           NEW cap \in Nat, NEW buf \in BOOLEAN, buf \/ cap = 0 \/ api \in Buffer!LooksAtBuffer
    PROVE  Suits(Buffer!Outcome(text, cap, buf), cap, buf)
BY ConvertingSuits, FetchingSuits, CopyingSuits, SizingSuits DEF TextInv

LEMMA TextBegins ==
    ASSUME Buffer!TextAssumption, Buffer!Init
    PROVE  TextInv
<1>1. api \in Buffer!Fetching \cup Buffer!Converting \cup Buffer!Copying \cup Buffer!Sizing
  BY DEF Buffer!Init
<1>2. wide \in BOOLEAN
  <2>1. CASE api = "WideCharToMultiByte"
    BY <2>1 DEF Buffer!Init
  <2>2. CASE api \in {"MultiByteToWideChar"} \cup Buffer!Sizing
    <3>1. wide \in {TRUE}
      BY <2>2 DEF Buffer!Init, Buffer!Sizing
    <3> QED BY <3>1
  <2>3. CASE api # "WideCharToMultiByte" /\ api \notin {"MultiByteToWideChar"} \cup Buffer!Sizing
    BY <2>3 DEF Buffer!Init
  <2> QED BY <2>1, <2>2, <2>3
<1>3. api \in Buffer!Sizing => wide
  BY DEF Buffer!Init, Buffer!Sizing
<1>4. counted \in BOOLEAN /\ (counted => api \in Buffer!Counted)
  BY DEF Buffer!Init
<1>5. text \in Buffer!TextsFrom(0) /\ (text = <<>> => api \in Buffer!MayBeEmpty)
  BY TextsAre DEF Buffer!Init
<1>6. text # Buffer!Absent
  <2>1. text \in Seq(Characters)
    BY <1>5, TextsAre
  <2> QED BY <2>1, AbsentIsNoText
<1>7. call = Buffer!NoCall /\ asked = Buffer!None
  BY DEF Buffer!Init
<1> QED BY <1>1, <1>2, <1>3, <1>4, <1>5, <1>6, <1>7 DEF TextInv, Buffer!NoCall

LEMMA TextKept ==
    ASSUME UNCHANGED <<api, wide, counted, text>>
    PROVE  /\ Buffer!Whole' = Buffer!Whole
           /\ \A cap, buf : Buffer!Outcome(text, cap, buf)' = Buffer!Outcome(text, cap, buf)
           /\ UNCHANGED call => (Buffer!Outcome(text, call.capacity, call.buffer))'
                                    = Buffer!Outcome(text, call.capacity, call.buffer)
<1> USE DEF Buffer!Nul, Buffer!Z, Buffer!Converted, Buffer!Encoded
<1>1. Buffer!Whole' = Buffer!Whole
  BY DEF Buffer!Whole
<1> USE DEF Buffer!Outcome, Buffer!GetLocaleInfo, Buffer!WideCharToMultiByte,
        Buffer!MultiByteToWideChar, Buffer!LcMapString, Buffer!WriteModulePath, Buffer!Truncated,
        Buffer!GetModuleFileName, Buffer!GetModuleBaseName, Buffer!CopyWhatFits,
        Buffer!GetClassName, Buffer!WriteWindowTitle, Buffer!GetEnvironmentVariable, Buffer!Fetch,
        Buffer!GetCurrentDirectory, Buffer!GetSystemDirectory, Buffer!GetShortPathName,
        Buffer!GetFullPathName, Buffer!GetThreadPreferredUiLanguages, Buffer!GetTokenInformation
<1>2. ASSUME NEW cap, NEW buf
      PROVE  Buffer!Outcome(text, cap, buf)' = Buffer!Outcome(text, cap, buf)
  BY Zenon
<1>3. ASSUME UNCHANGED call
      PROVE  (Buffer!Outcome(text, call.capacity, call.buffer))'
                = Buffer!Outcome(text, call.capacity, call.buffer)
  BY <1>3, Zenon
<1> QED BY <1>1, <1>2, <1>3

LEMMA CallKeepsText ==
    ASSUME Buffer!TextAssumption, TextInv,
           NEW cap \in 0..MaxCapacity, NEW buf \in BOOLEAN, Buffer!Call(cap, buf)
    PROVE  TextInv'
<1> DEFINE res == Buffer!Outcome(text, cap, buf)
<1>1. /\ buf \/ cap = 0 \/ api \in Buffer!LooksAtBuffer
      /\ call' = [capacity |-> cap, buffer |-> buf, result |-> res]
      /\ asked' = IF res.told = Buffer!None THEN asked ELSE res.told
      /\ UNCHANGED <<api, wide, counted, text>>
  BY DEF Buffer!Call
<1>2. cap \in Nat
  BY DEF Buffer!TextAssumption
<1>3. Buffer!Whole' = Buffer!Whole /\ Buffer!Outcome(text, cap, buf)' = res
      /\ Buffer!LooksAtBuffer' = Buffer!LooksAtBuffer
  BY <1>1, TextKept
<1>4. Suits(res, cap, buf)
  BY <1>1, <1>2, EveryCallSuits
<1> HIDE DEF res
<1>5. res.told \in {Buffer!None, Len(Buffer!Whole)}
      /\ (text = Buffer!Absent => res.told = Buffer!None)
  BY <1>4 DEF Suits, Promises
<1>6. asked' \in {Buffer!None, Len(Buffer!Whole)}
      /\ (text = Buffer!Absent => asked' = Buffer!None)
  BY <1>1, <1>5 DEF TextInv
<1>7. call'.capacity = cap /\ call'.buffer = buf /\ call'.result = res
  BY <1>1
<1>8. (call.result = Buffer!Outcome(text, call.capacity, call.buffer))'
  BY <1>1, <1>3, <1>7, TextKept
<1> QED BY <1>1, <1>2, <1>3, <1>6, <1>7, <1>8 DEF TextInv

LEMMA ChangeKeepsText ==
    ASSUME Buffer!TextAssumption, TextInv, NEW t \in Buffer!TextsFrom(0) \cup {Buffer!Absent},
           Buffer!Becomes(t), t = Buffer!Absent => api = "GetEnvironmentVariable",
           t = <<>> => api \in Buffer!MayBeEmpty
    PROVE  TextInv'
<1>1. text' = t /\ asked' = Buffer!None /\ call' = Buffer!NoCall
      /\ UNCHANGED <<api, wide, counted>>
  BY DEF Buffer!Becomes
<1>2. call'.buffer = FALSE /\ call'.capacity = 0 /\ (call = Buffer!NoCall)'
  BY <1>1 DEF Buffer!NoCall, Buffer!Fails, Buffer!Result
<1>3. (\/ call = Buffer!NoCall
       \/ call.result = Buffer!Outcome(text, call.capacity, call.buffer))'
  BY <1>2
<1>4. (text \in Buffer!TextsFrom(0) \cup {Buffer!Absent})'
        /\ (asked \in {Buffer!None, Len(Buffer!Whole)})'
      /\ (text = Buffer!Absent => api = "GetEnvironmentVariable" /\ asked = Buffer!None)'
      /\ (text = <<>> => api \in Buffer!MayBeEmpty)'
  BY <1>1
<1>5. /\ (api \in Buffer!Fetching \cup Buffer!Converting \cup Buffer!Copying \cup Buffer!Sizing)'
      /\ (wide \in BOOLEAN)' /\ (counted \in BOOLEAN)'
      /\ (counted => api \in Buffer!Counted)'
      /\ (api \in Buffer!Sizing => wide)'
  BY <1>1 DEF TextInv
<1>6. /\ (call.buffer \in BOOLEAN)' /\ (call.capacity \in Nat)'
      /\ (call.buffer \/ call.capacity = 0 \/ api \in Buffer!LooksAtBuffer)'
  <2>1. call'.buffer \in BOOLEAN /\ call'.capacity \in Nat /\ call'.capacity = 0
    <3>1. call'.buffer \in BOOLEAN
      BY <1>2, Zenon
    <3>2. call'.capacity = 0 /\ 0 \in Nat
      BY <1>2
    <3> QED BY <3>1, <3>2
  <2> QED BY <2>1
<1> QED BY <1>3, <1>4, <1>5, <1>6 DEF TextInv

LEMMA TextStep ==
    ASSUME Buffer!TextAssumption, TextInv, [Buffer!Next]_Buffer!vars
    PROVE  TextInv'
<1>1. CASE \E buffer \in BOOLEAN, capacity \in 0..MaxCapacity : Buffer!Call(capacity, buffer)
  BY <1>1, CallKeepsText
<1>2. CASE \E t \in Buffer!TextsFrom(0) \cup {Buffer!Absent} : Buffer!SetEnvironmentVariable(t)
  <2>1. PICK t \in Buffer!TextsFrom(0) \cup {Buffer!Absent} : Buffer!SetEnvironmentVariable(t)
    BY <1>2
  <2>2. Buffer!Becomes(t) /\ api = "GetEnvironmentVariable" /\ api \in Buffer!MayBeEmpty
    BY <2>1 DEF Buffer!SetEnvironmentVariable, Buffer!MayBeEmpty
  <2> QED BY <2>2, ChangeKeepsText
<1>3. CASE \E t \in Buffer!TextsFrom(0) : Buffer!SetCurrentDirectory(t)
  <2>1. PICK t \in Buffer!TextsFrom(0) : Buffer!SetCurrentDirectory(t)
    BY <1>3
  <2>2. Buffer!Becomes(t) /\ t # <<>> /\ t # Buffer!Absent
    BY <2>1, TextsAre, AbsentIsNoText DEF Buffer!SetCurrentDirectory
  <2> QED BY <2>2, ChangeKeepsText
<1>4. CASE \E t \in Buffer!TextsFrom(0) : Buffer!SetWindowTitle(t)
  <2>1. PICK t \in Buffer!TextsFrom(0) : Buffer!SetWindowTitle(t)
    BY <1>4
  <2>2. Buffer!Becomes(t) /\ api \in Buffer!MayBeEmpty /\ t # Buffer!Absent
    BY <2>1, TextsAre, AbsentIsNoText DEF Buffer!SetWindowTitle, Buffer!MayBeEmpty
  <2> QED BY <2>2, ChangeKeepsText
<1>5. CASE UNCHANGED Buffer!vars
  <2>1. UNCHANGED <<api, wide, counted, text, call, asked>>
    BY <1>5 DEF Buffer!vars
  <2>2. Buffer!Whole' = Buffer!Whole
        /\ (Buffer!Outcome(text, call.capacity, call.buffer))'
             = Buffer!Outcome(text, call.capacity, call.buffer)
    BY <2>1, TextKept
  <2> QED BY <2>1, <2>2 DEF TextInv, Buffer!NoCall
<1> QED BY <1>1, <1>2, <1>3, <1>4, <1>5 DEF Buffer!Next

LEMMA TextSuffices ==
    ASSUME Buffer!TextAssumption, TextInv
    PROVE  Buffer!BuffersSuffice
<1> DEFINE res == call.result
           cap == call.capacity
           buf == call.buffer
           W == Buffer!Whole
<1>1. CASE call = Buffer!NoCall
  <2>1. cap = 0 /\ buf = FALSE /\ res.written = <<>>
    BY <1>1 DEF Buffer!NoCall, Buffer!Fails, Buffer!Result
  <2>2. Len(<<>>) = 0
    OBVIOUS
  <2> QED BY <2>1, <2>2 DEF Buffer!BuffersSuffice, Buffer!StaysInside, Buffer!EndsInTerminator,
                Buffer!ToldSizeSuffices, Buffer!SuccessIsTold
<1>2. CASE res = Buffer!Outcome(text, cap, buf)
  <2>1. Suits(res, cap, buf)
    BY <1>2, EveryCallSuits DEF TextInv
  <2>2. Buffer!Claims = ClaimsOf(res, cap, buf)
    BY DEF Buffer!Claims, ClaimsOf
  <2>3. Buffer!StaysInside
    BY <2>1 DEF Suits, Inside, Buffer!StaysInside
  <2>4. Buffer!EndsInTerminator
    BY <2>1 DEF Suits, Terminated, Buffer!EndsInTerminator
  <2>5. Buffer!ToldSizeSuffices
    <3> SUFFICES ASSUME asked # Buffer!None, cap >= asked, buf PROVE res.written = W
      BY DEF Buffer!ToldSizeSuffices
    <3>1. asked = Len(W) /\ text # Buffer!Absent
      BY DEF TextInv
    <3> QED BY <2>1, <3>1 DEF Suits, Promises
  <2>6. Buffer!SuccessIsTold
    <3> SUFFICES ASSUME buf, text # Buffer!Absent
                 PROVE  /\ Buffer!Claims => res.written = W
                        /\ api \notin Buffer!Copying /\ res.written = W => Buffer!Claims
      BY DEF Buffer!SuccessIsTold
    <3> QED BY <2>1, <2>2 DEF Suits
  <2> QED BY <2>3, <2>4, <2>5, <2>6 DEF Buffer!BuffersSuffice
<1> QED BY <1>1, <1>2 DEF TextInv

BuffersInv == focus = "buffers" => TextInv

(* For texts and buffers of any length: no call writes behind the end of    *)
(* the guest's buffer, what it writes is terminated, a buffer of the size   *)
(* it told takes the whole text, and its answer tells whether the guest has *)
(* it (finish_conversion_bytes and the calls of kernel32, user32, psapi and *)
(* advapi32 that give a text).                                              *)
THEOREM BuffersAlwaysSuffice ==
    Buffer!TextAssumption => (ServicesSpec => []BuffersSuffice)
<1> SUFFICES ASSUME Buffer!TextAssumption PROVE ServicesSpec => []BuffersSuffice
  OBVIOUS
<1>1. ServicesInit => BuffersInv
  BY TextBegins DEF ServicesInit, Focused, BuffersInv
<1>2. BuffersInv /\ [ServicesNext]_servicesVars => BuffersInv'
  <2> SUFFICES ASSUME BuffersInv, [ServicesNext]_servicesVars, focus' = "buffers" PROVE TextInv'
    BY DEF BuffersInv
  <2>1. focus = "buffers" /\ [Buffer!Next]_Buffer!vars
    BY DEF ServicesNext, Focused, servicesVars, bufferVars, Buffer!vars
  <2> QED BY <2>1, TextStep DEF BuffersInv
<1>3. BuffersInv => BuffersSuffice
  BY TextSuffices DEF BuffersInv, BuffersSuffice
<1> QED BY <1>1, <1>2, <1>3, PTL DEF ServicesSpec

-----------------------------------------------------------------------------
(* Mmio.  The chunks of a list that a search may find, and the first.       *)
FormOf(chunk) == IF chunk.id \in Riff!Lists THEN Riff!FormSize ELSE 0

Candidates(list, where, search, wanted) ==
    {p \in DOMAIN riff.chunks :
        /\ riff.chunks[p].parent = list
        /\ p >= where
        /\ p + Riff!HeaderSize + FormOf(riff.chunks[p]) <= riff.length
        /\ Riff!IsWanted(riff.chunks[p], search, wanted)}

FirstOf(S) == IF S = {} THEN Riff!NotFound ELSE Riff!Min(S)

LEMMA FirstIs ==
    ASSUME NEW S, S \subseteq Nat, NEW n \in S, \A m \in S : n <= m
    PROVE  FirstOf(S) = n
<1>1. FirstOf(S) \in S /\ \A m \in S : FirstOf(S) <= m
  BY DEF FirstOf, Riff!Min
<1>2. FirstOf(S) <= n /\ n <= FirstOf(S) /\ n \in Nat /\ FirstOf(S) \in Nat
  BY <1>1
<1> QED BY <1>2

LEMMA PaddedIs ==
    ASSUME NEW n \in Nat
    PROVE  Riff!Padded(n) \in Nat /\ n <= Riff!Padded(n)
<1>1. n % 2 \in 0..1
  OBVIOUS
<1> QED BY <1>1 DEF Riff!Padded

(* What the files allow, spelled out.                                       *)
LEMMA Chunks ==
    ASSUME Riff!WellFormed(riff)
    PROVE  /\ riff.size \in Nat /\ riff.length \in 0..riff.size
           /\ Riff!Continues(riff, Riff!NotFound, 0)
           /\ \A p \in DOMAIN riff.chunks :
                /\ p \in Nat /\ riff.chunks[p].size \in Nat
                /\ Riff!EndOf(riff, p) \in Nat
                /\ Riff!EndOf(riff, p) <= riff.size
                /\ p + 8 + riff.chunks[p].size <= Riff!EndOf(riff, p)
                /\ riff.chunks[p].parent # Riff!NotFound =>
                      /\ riff.chunks[p].parent \in DOMAIN riff.chunks
                      /\ p <= riff.chunks[p].parent + riff.chunks[riff.chunks[p].parent].size
                /\ riff.chunks[p].id \in Riff!Lists => Riff!Continues(riff, p, p + 12)
                /\ Riff!Continues(riff, riff.chunks[p].parent, Riff!EndOf(riff, p))
                /\ \A q \in DOMAIN riff.chunks :
                      riff.chunks[q].parent = riff.chunks[p].parent /\ p < q
                          => Riff!EndOf(riff, p) <= q
<1>1. riff.size \in Nat /\ riff.length \in 0..riff.size /\ Riff!Continues(riff, Riff!NotFound, 0)
  BY DEF Riff!WellFormed
<1>2. ASSUME NEW p \in DOMAIN riff.chunks
      PROVE  /\ p \in Nat /\ riff.chunks[p].size \in Nat
             /\ Riff!EndOf(riff, p) <= riff.size
             /\ riff.chunks[p].parent # Riff!NotFound =>
                  /\ riff.chunks[p].parent \in DOMAIN riff.chunks
                  /\ Riff!Data(p) <= Riff!Data(riff.chunks[p].parent)
                                        + riff.chunks[riff.chunks[p].parent].size
             /\ riff.chunks[p].id \in Riff!Lists =>
                  Riff!Continues(riff, p, Riff!Data(p) + Riff!FormSize)
             /\ Riff!Continues(riff, riff.chunks[p].parent, Riff!EndOf(riff, p))
             /\ \A q \in DOMAIN riff.chunks :
                  riff.chunks[q].parent = riff.chunks[p].parent /\ p < q
                      => Riff!EndOf(riff, p) <= q
  BY DEF Riff!WellFormed
<1>3. ASSUME NEW p \in DOMAIN riff.chunks
      PROVE  Riff!EndOf(riff, p) \in Nat /\ p + 8 + riff.chunks[p].size <= Riff!EndOf(riff, p)
  <2>1. p \in Nat /\ riff.chunks[p].size \in Nat
    BY <1>2
  <2>2. Riff!Padded(riff.chunks[p].size) \in Nat
        /\ riff.chunks[p].size <= Riff!Padded(riff.chunks[p].size)
    BY <2>1, PaddedIs
  <2> QED BY <2>1, <2>2 DEF Riff!EndOf, Riff!Behind, Riff!Data, Riff!HeaderSize
<1>4. ASSUME NEW p \in DOMAIN riff.chunks, riff.chunks[p].parent # Riff!NotFound
      PROVE  p <= riff.chunks[p].parent + riff.chunks[riff.chunks[p].parent].size
  <2> DEFINE l == riff.chunks[p].parent
  <2>1. l \in DOMAIN riff.chunks /\ Riff!Data(p) <= Riff!Data(l) + riff.chunks[l].size
    BY <1>2, <1>4
  <2>2. p \in Nat /\ l \in Nat /\ riff.chunks[l].size \in Nat
    BY <1>2, <2>1
  <2> QED BY <2>1, <2>2 DEF Riff!Data, Riff!HeaderSize
<1>5. ASSUME NEW p \in DOMAIN riff.chunks, riff.chunks[p].id \in Riff!Lists
      PROVE  Riff!Continues(riff, p, p + 12)
  <2>1. p \in Nat /\ Riff!Continues(riff, p, Riff!Data(p) + Riff!FormSize)
    BY <1>2, <1>5
  <2>2. Riff!Data(p) + Riff!FormSize = p + 12
    BY <2>1 DEF Riff!Data, Riff!HeaderSize, Riff!FormSize
  <2> QED BY <2>1, <2>2
<1> QED BY <1>1, <1>2, <1>3, <1>4, <1>5

(* A header the search looks at: g tells how it goes on.                    *)
Looked(g, end, search, wanted, p) ==
    LET chunk == Riff!HeaderAt(p)
        data == p + Riff!HeaderSize
        form == IF chunk.id \in Riff!Lists THEN Riff!FormSize ELSE 0
    IN IF data > end THEN [found |-> Riff!NotFound, position |-> p]
       ELSE IF data > riff.length THEN [found |-> Riff!NotFound, position |-> Riff!Upto(p)]
       ELSE IF data + form > riff.length
       THEN [found |-> Riff!NotFound, position |-> riff.length]
       ELSE IF Riff!IsWanted(chunk, search, wanted)
       THEN [found |-> p, position |-> data + form]
       ELSE g[Riff!Behind(data, chunk.size)]

(* Where a search of a list ends.                                           *)
SearchEnd(list) ==
    IF list = Riff!NotFound THEN riff.length ELSE list + 8 + riff.chunks[list].size

IsList(list) == list = Riff!NotFound \/ list \in DOMAIN riff.chunks

Right(answer, list, p, search, wanted) ==
    /\ answer.found = FirstOf(Candidates(list, p, search, wanted))
    /\ answer.position \in Nat
    /\ answer.found # Riff!NotFound =>
          answer.position = answer.found + 8 + FormOf(riff.chunks[answer.found])

LEMMA NothingFound ==
    ASSUME Riff!WellFormed(riff), NEW list, NEW p \in Nat, NEW search, NEW wanted,
           NEW answer, answer.found = Riff!NotFound, answer.position \in Nat,
           \A q \in DOMAIN riff.chunks : riff.chunks[q].parent = list /\ q >= p
              => q + 8 + FormOf(riff.chunks[q]) > riff.length
    PROVE  Right(answer, list, p, search, wanted)
<1>1. Candidates(list, p, search, wanted) = {}
  <2> SUFFICES ASSUME NEW q \in Candidates(list, p, search, wanted) PROVE FALSE
    OBVIOUS
  <2>1. /\ q \in DOMAIN riff.chunks /\ riff.chunks[q].parent = list /\ q >= p
        /\ q + 8 + FormOf(riff.chunks[q]) <= riff.length
    BY DEF Candidates, Riff!HeaderSize
  <2>2. q \in Nat /\ riff.length \in Nat /\ FormOf(riff.chunks[q]) \in Nat
    BY <2>1, Chunks DEF FormOf, Riff!FormSize
  <2> QED BY <2>1, <2>2
<1> QED BY <1>1 DEF Right, FirstOf

LEMMA LookedIsRight ==
    ASSUME Riff!WellFormed(riff), NEW list, IsList(list), NEW search, NEW wanted, NEW g,
           NEW p \in 0..riff.size, Riff!Continues(riff, list, p),
           \A q \in 0..riff.size : q > p /\ Riff!Continues(riff, list, q)
              => Right(g[q], list, q, search, wanted)
    PROVE  Right(Looked(g, SearchEnd(list), search, wanted, p), list, p, search, wanted)
<1> DEFINE chunk == Riff!HeaderAt(p)
           form == IF chunk.id \in Riff!Lists THEN Riff!FormSize ELSE 0
           answer == Looked(g, SearchEnd(list), search, wanted, p)
<1>1. p \in Nat /\ riff.length \in Nat /\ riff.size \in Nat /\ riff.length <= riff.size
  BY Chunks
<1>2. form \in {0, 4}
  BY DEF Riff!FormSize
<1>3. SearchEnd(list) \in Nat
  BY Chunks DEF SearchEnd, IsList
<1>4. /\ p + 8 > SearchEnd(list) => answer = [found |-> Riff!NotFound, position |-> p]
      /\ p + 8 <= SearchEnd(list) /\ p + 8 > riff.length =>
            answer = [found |-> Riff!NotFound, position |-> Riff!Upto(p)]
      /\ p + 8 <= SearchEnd(list) /\ p + 8 <= riff.length /\ p + 8 + form > riff.length =>
            answer = [found |-> Riff!NotFound, position |-> riff.length]
      /\ p + 8 <= SearchEnd(list) /\ p + 8 + form <= riff.length =>
            answer = IF Riff!IsWanted(chunk, search, wanted)
                     THEN [found |-> p, position |-> p + 8 + form]
                     ELSE g[Riff!Behind(p + 8, chunk.size)]
  <2> HIDE DEF chunk
  <2>1. answer =
          IF p + 8 > SearchEnd(list) THEN [found |-> Riff!NotFound, position |-> p]
          ELSE IF p + 8 > riff.length
          THEN [found |-> Riff!NotFound, position |-> Riff!Upto(p)]
          ELSE IF p + 8 + form > riff.length
          THEN [found |-> Riff!NotFound, position |-> riff.length]
          ELSE IF Riff!IsWanted(chunk, search, wanted)
          THEN [found |-> p, position |-> p + 8 + form]
          ELSE g[Riff!Behind(p + 8, chunk.size)]
    BY DEF Looked, chunk, Riff!HeaderSize
  <2> HIDE DEF answer, form
  <2> QED BY <1>1, <1>2, <1>3, <2>1
<1>5. Riff!Upto(p) \in Nat
  BY <1>1 DEF Riff!Upto
<1> HIDE DEF answer, form, chunk
<1>6. CASE p = Riff!ListEnd(riff, list)
  <2>1. ASSUME NEW q \in DOMAIN riff.chunks, riff.chunks[q].parent = list, q >= p PROVE FALSE
    <3>1. CASE list = Riff!NotFound
      <4>1. p = riff.size
        BY <1>6, <3>1 DEF Riff!ListEnd
      <4>2. q + 8 <= riff.size
        <5>1. /\ q \in Nat /\ riff.chunks[q].size \in Nat /\ Riff!EndOf(riff, q) \in Nat
              /\ Riff!EndOf(riff, q) <= riff.size
              /\ q + 8 + riff.chunks[q].size <= Riff!EndOf(riff, q)
          BY Chunks
        <5> QED BY <1>1, <5>1
      <4>3. q \in Nat
        BY Chunks
      <4> QED BY <1>1, <2>1, <4>1, <4>2, <4>3
    <3>2. CASE list # Riff!NotFound
      <4>1. p = Riff!EndOf(riff, list)
        BY <1>6, <3>2 DEF Riff!ListEnd
      <4>2. /\ list \in DOMAIN riff.chunks /\ list \in Nat /\ riff.chunks[list].size \in Nat
            /\ list + 8 + riff.chunks[list].size <= Riff!EndOf(riff, list)
            /\ Riff!EndOf(riff, list) \in Nat /\ q \in Nat
            /\ q <= list + riff.chunks[list].size
        BY <2>1, <3>2, Chunks DEF IsList
      <4> QED BY <2>1, <4>1, <4>2
    <3> QED BY <3>1, <3>2
  <2>2. p + 8 > SearchEnd(list)
    <3>1. CASE list = Riff!NotFound
      BY <1>1, <1>6, <3>1 DEF Riff!ListEnd, SearchEnd
    <3>2. CASE list # Riff!NotFound
      <4>1. p = Riff!EndOf(riff, list) /\ SearchEnd(list) = list + 8 + riff.chunks[list].size
        BY <1>6, <3>2 DEF Riff!ListEnd, SearchEnd
      <4>2. /\ list \in Nat /\ riff.chunks[list].size \in Nat
            /\ list + 8 + riff.chunks[list].size <= Riff!EndOf(riff, list)
        BY <3>2, Chunks DEF IsList
      <4> QED BY <1>1, <4>1, <4>2
    <3> QED BY <3>1, <3>2
  <2> QED BY <1>1, <1>4, <2>1, <2>2, NothingFound DEF answer
<1>7. CASE p \in DOMAIN riff.chunks /\ riff.chunks[p].parent = list
  <2>1. chunk = riff.chunks[p] /\ form = FormOf(chunk)
    BY <1>7 DEF chunk, form, Riff!HeaderAt, FormOf
  <2>2. /\ riff.chunks[p].size \in Nat /\ Riff!EndOf(riff, p) \in Nat
        /\ Riff!EndOf(riff, p) <= riff.size
        /\ p + 8 + riff.chunks[p].size <= Riff!EndOf(riff, p)
        /\ Riff!Continues(riff, list, Riff!EndOf(riff, p))
    BY <1>7, Chunks
  <2>3. ASSUME NEW q \in DOMAIN riff.chunks, riff.chunks[q].parent = list, q >= p
        PROVE  q \in Nat /\ (q = p \/ q >= Riff!EndOf(riff, p))
    <3>1. /\ q \in Nat
          /\ p < q => Riff!EndOf(riff, p) <= q
      BY <1>7, <2>3, Chunks
    <3> QED BY <1>1, <2>2, <2>3, <3>1
  <2>4. CASE p + 8 > SearchEnd(list) \/ p + 8 + form > riff.length
    <3>1. p + 8 + form > riff.length
      <4> SUFFICES ASSUME p + 8 > SearchEnd(list) PROVE p + 8 > riff.length
        BY <1>1, <1>2, <2>4
      <4>1. CASE list = Riff!NotFound
        BY <4>1 DEF SearchEnd
      <4>2. CASE list # Riff!NotFound
        <5>1. /\ list \in Nat /\ riff.chunks[list].size \in Nat
              /\ p <= list + riff.chunks[list].size
          BY <1>7, <4>2, Chunks
        <5>2. SearchEnd(list) = list + 8 + riff.chunks[list].size
          BY <4>2 DEF SearchEnd
        <5> QED BY <1>1, <5>1, <5>2
      <4> QED BY <4>1, <4>2
    <3>2. ASSUME NEW q \in DOMAIN riff.chunks, riff.chunks[q].parent = list, q >= p
          PROVE  q + 8 + FormOf(riff.chunks[q]) > riff.length
      <4>1. q \in Nat /\ (q = p \/ q >= Riff!EndOf(riff, p))
        BY <2>3, <3>2
      <4>2. FormOf(riff.chunks[q]) \in Nat
        BY DEF FormOf, Riff!FormSize
      <4> QED BY <1>1, <1>2, <2>1, <2>2, <3>1, <4>1, <4>2
    <3>3. answer.found = Riff!NotFound /\ answer.position \in Nat
      BY <1>1, <1>2, <1>3, <1>4, <1>5, <2>4
    <3> QED BY <1>1, <3>2, <3>3, NothingFound DEF answer
  <2>5. CASE /\ p + 8 <= SearchEnd(list) /\ p + 8 + form <= riff.length
             /\ Riff!IsWanted(chunk, search, wanted)
    <3> DEFINE S == Candidates(list, p, search, wanted)
    <3>1. p \in S /\ S \subseteq Nat /\ \A q \in S : p <= q
      BY <1>1, <1>7, <2>1, <2>3, <2>5 DEF Candidates, Riff!HeaderSize
    <3> HIDE DEF S
    <3>2. FirstOf(S) = p
      BY <3>1, FirstIs
    <3>3. answer = [found |-> p, position |-> p + 8 + form]
      BY <1>4, <2>5
    <3> QED BY <1>1, <1>2, <2>1, <3>2, <3>3 DEF Right, S, answer
  <2>6. CASE /\ p + 8 <= SearchEnd(list) /\ p + 8 + form <= riff.length
             /\ ~Riff!IsWanted(chunk, search, wanted)
    <3> DEFINE e == Riff!EndOf(riff, p)
    <3>1. Riff!Behind(p + 8, chunk.size) = e
      BY <2>1 DEF Riff!EndOf, Riff!Behind, Riff!Data, Riff!HeaderSize
    <3>2. answer = g[e]
      BY <1>4, <2>6, <3>1
    <3>3. e \in 0..riff.size /\ e > p
      BY <1>1, <2>2
    <3>4. Right(g[e], list, e, search, wanted)
      BY <2>2, <3>3
    <3>5. Candidates(list, p, search, wanted) = Candidates(list, e, search, wanted)
      <4>1. ASSUME NEW q \in Candidates(list, p, search, wanted)
            PROVE  q \in Candidates(list, e, search, wanted)
        <5>1. /\ q \in DOMAIN riff.chunks /\ riff.chunks[q].parent = list /\ q >= p
              /\ Riff!IsWanted(riff.chunks[q], search, wanted)
          BY DEF Candidates
        <5>2. q >= e
          BY <2>1, <2>3, <2>6, <5>1
        <5> QED BY <5>1, <5>2 DEF Candidates
      <4>2. ASSUME NEW q \in Candidates(list, e, search, wanted)
            PROVE  q \in Candidates(list, p, search, wanted)
        <5>1. q \in DOMAIN riff.chunks /\ q >= e
          BY DEF Candidates
        <5>2. q \in Nat
          BY <5>1, Chunks
        <5>3. q >= p
          BY <1>1, <3>3, <5>1, <5>2
        <5> QED BY <5>3 DEF Candidates
      <4> QED BY <4>1, <4>2
    <3> QED BY <3>2, <3>4, <3>5 DEF Right, answer
  <2>7. SearchEnd(list) \in Nat /\ p + 8 + form \in Nat
    BY <1>1, <1>2, <1>3
  <2> QED BY <1>1, <2>4, <2>5, <2>6, <2>7
<1> QED BY <1>6, <1>7 DEF Riff!Continues

(* Where the search goes on, it goes on in the file.                        *)
LEMMA LookedAhead ==
    ASSUME Riff!WellFormed(riff), NEW p \in 0..riff.size, NEW end \in Nat, NEW search, NEW wanted,
           NEW g, NEW h, \A q \in 0..riff.size : q > p => g[q] = h[q]
    PROVE  Looked(g, end, search, wanted, p) = Looked(h, end, search, wanted, p)
<1> DEFINE chunk == Riff!HeaderAt(p)
           q == Riff!Behind(p + 8, chunk.size)
           form == IF chunk.id \in Riff!Lists THEN Riff!FormSize ELSE 0
<1>1. riff.length \in Nat /\ riff.size \in Nat /\ riff.length <= riff.size
  BY Chunks
<1>2. CASE p + 8 > riff.length
  BY <1>2 DEF Looked, Riff!HeaderSize
<1>3. CASE p + 8 <= riff.length
  <2>1. q \in 0..riff.size /\ q > p
    <3>1. CASE p \in DOMAIN riff.chunks
      <4>1. q = Riff!EndOf(riff, p)
        BY <3>1 DEF Riff!HeaderAt, Riff!EndOf, Riff!Behind, Riff!Data, Riff!HeaderSize
      <4>2. /\ riff.chunks[p].size \in Nat /\ Riff!EndOf(riff, p) \in Nat
            /\ Riff!EndOf(riff, p) <= riff.size
            /\ p + 8 + riff.chunks[p].size <= Riff!EndOf(riff, p)
        BY <3>1, Chunks
      <4> HIDE DEF q
      <4> QED BY <1>1, <4>1, <4>2
    <3>2. CASE p \notin DOMAIN riff.chunks
      <4>1. chunk.size = 0
        BY <3>2 DEF Riff!HeaderAt
      <4>2. Riff!Padded(0) = 0
        BY DEF Riff!Padded
      <4>3. q = p + 8
        BY <4>1, <4>2 DEF Riff!Behind
      <4> HIDE DEF q
      <4> QED BY <1>1, <1>3, <4>3
    <3> QED BY <3>1, <3>2
  <2>2. g[q] = h[q]
    <3> HIDE DEF q
    <3> QED BY <2>1
  <2>3. \A f : Looked(f, end, search, wanted, p) =
          IF p + 8 > end THEN [found |-> Riff!NotFound, position |-> p]
          ELSE IF p + 8 > riff.length
          THEN [found |-> Riff!NotFound, position |-> Riff!Upto(p)]
          ELSE IF p + 8 + form > riff.length
          THEN [found |-> Riff!NotFound, position |-> riff.length]
          ELSE IF Riff!IsWanted(chunk, search, wanted)
          THEN [found |-> p, position |-> p + 8 + form]
          ELSE f[q]
    BY DEF Looked, Riff!HeaderSize
  <2> HIDE DEF q, form, chunk
  <2> QED BY <2>2, <2>3
<1> QED BY <1>1, <1>2, <1>3

(* So the loop is defined: from the end of the file on.                     *)
LEMMA LoopExists ==
    ASSUME Riff!WellFormed(riff), NEW end \in Nat, NEW search, NEW wanted
    PROVE  \E g : g = [p \in 0..riff.size |-> Looked(g, end, search, wanted, p)]
<1> DEFINE N == riff.size
           Good(g, low) == \A p \in 0..N : p >= low => g[p] = Looked(g, end, search, wanted, p)
           T == {n \in Nat : \E g : Good(g, N + 1 - n)}
<1>1. N \in Nat
  BY Chunks
<1>2. 0 \in T
  BY <1>1
<1>3. ASSUME NEW n \in Nat, n \in T PROVE n + 1 \in T
  <2>1. PICK g : Good(g, N + 1 - n)
    BY <1>3
  <2> DEFINE h == [p \in 0..N |-> IF p >= N + 1 - n THEN g[p]
                                  ELSE Looked(g, end, search, wanted, p)]
  <2>2. ASSUME NEW p \in 0..N, p >= N - n PROVE h[p] = Looked(h, end, search, wanted, p)
    <3>1. \A q \in 0..N : q > p => g[q] = h[q]
      BY <1>1, <2>2
    <3>2. h[p] = Looked(g, end, search, wanted, p)
      <4>1. CASE p >= N + 1 - n
        BY <2>1, <4>1
      <4>2. CASE ~(p >= N + 1 - n)
        BY <4>2
      <4> QED BY <4>1, <4>2
    <3> HIDE DEF h
    <3> QED BY <3>1, <3>2, LookedAhead
  <2> HIDE DEF h
  <2>3. Good(h, N - n)
    BY <2>2
  <2>4. N + 1 - (n + 1) = N - n
    BY <1>1
  <2> QED BY <2>3, <2>4
<1>4. N + 1 \in T
  <2> HIDE DEF T
  <2>1. Nat \subseteq T
    BY <1>2, <1>3, SetInduction
  <2> QED BY <1>1, <2>1
<1>5. PICK g : Good(g, 0)
  <2>1. N + 1 - (N + 1) = 0
    BY <1>1
  <2> QED BY <1>4, <2>1
<1> DEFINE h == [p \in 0..N |-> g[p]]
<1>6. ASSUME NEW p \in 0..N PROVE h[p] = Looked(h, end, search, wanted, p)
  <2>1. h[p] = Looked(g, end, search, wanted, p)
    BY <1>5
  <2>2. \A q \in 0..N : q > p => g[q] = h[q]
    OBVIOUS
  <2> HIDE DEF h
  <2> QED BY <2>1, <2>2, LookedAhead
<1>7. h = [p \in 0..N |-> Looked(h, end, search, wanted, p)]
  <2>1. h = [p \in 0..N |-> h[p]]
    OBVIOUS
  <2> HIDE DEF h
  <2> QED BY <1>6, <2>1
<1> QED BY <1>7

(* A search of the list the guest is in, from one of its chunks or its end, *)
(* finds the first of the candidates.                                       *)
LEMMA DescendedIsRight ==
    ASSUME Riff!WellFormed(riff), NEW list, IsList(list), Riff!ParentEnd = SearchEnd(list),
           NEW search, NEW wanted, position \in 0..riff.size, Riff!Continues(riff, list, position)
    PROVE  Right(Riff!Descended(search, wanted), list, position, search, wanted)
<1> DEFINE N == riff.size
           end == SearchEnd(list)
           g == CHOOSE f : f = [p \in 0..N |-> Looked(f, end, search, wanted, p)]
<1>1. N \in Nat /\ end \in Nat
  BY Chunks DEF SearchEnd, IsList
<1>2. Riff!Descended(search, wanted) = g[position]
  BY DEF Riff!Descended, Looked
<1> HIDE DEF end
<1>3. g = [p \in 0..N |-> Looked(g, end, search, wanted, p)]
  BY <1>1, LoopExists
<1> HIDE DEF g
<1> DEFINE T == {n \in Nat : \A p \in 0..N : N - p < n /\ Riff!Continues(riff, list, p)
                                => Right(g[p], list, p, search, wanted)}
<1>4. 0 \in T
  BY <1>1
<1>5. ASSUME NEW n \in Nat, n \in T PROVE n + 1 \in T
  <2> SUFFICES ASSUME NEW p \in 0..N, N - p < n + 1, Riff!Continues(riff, list, p)
               PROVE  Right(g[p], list, p, search, wanted)
    OBVIOUS
  <2>1. ASSUME NEW q \in 0..N, q > p, Riff!Continues(riff, list, q)
        PROVE  Right(g[q], list, q, search, wanted)
    <3>1. N - q < n
      BY <1>1, <2>1
    <3> QED BY <1>5, <2>1, <3>1
  <2>2. Right(Looked(g, end, search, wanted, p), list, p, search, wanted)
    BY <2>1, LookedIsRight DEF end
  <2>3. g[p] = Looked(g, end, search, wanted, p)
    BY <1>3
  <2> QED BY <2>2, <2>3
<1>6. N + 1 \in T
  <2> HIDE DEF T
  <2>1. Nat \subseteq T
    BY <1>4, <1>5, SetInduction
  <2> QED BY <1>1, <2>1
<1>7. N - position < N + 1
  BY <1>1
<1> QED BY <1>2, <1>6, <1>7

(* The chunks the guest is in, each in the one before.                      *)
LevelOf(p) ==
    [id |-> riff.chunks[p].id, size |-> riff.chunks[p].size, data |-> p + Riff!HeaderSize]
Levels == {LevelOf(p) : p \in DOMAIN riff.chunks}

ListAt(levels, i) ==
    IF i = 0 THEN Riff!NotFound ELSE levels[i].data - Riff!HeaderSize
Nested(levels) ==
    /\ levels \in Seq(Levels)
    /\ \A i \in 1..Len(levels) :
          riff.chunks[levels[i].data - Riff!HeaderSize].parent = ListAt(levels, i - 1)
ListIn == ListAt(inside, Len(inside))

WalkRight ==
    walked.found = FirstOf(Candidates(walked.parent, walked.from, walked.search, walked.for))

RiffInv ==
    /\ riff \in RiffFiles
    /\ position \in Nat
    /\ Nested(inside)
    /\ ready => Riff!Continues(riff, ListIn, position)
    /\ walks \in Nat
    /\ walks = 0 => inside = <<>>
    /\ walks > 0 => WalkRight

LEMMA LevelIs ==
    ASSUME Riff!WellFormed(riff), NEW p \in DOMAIN riff.chunks
    PROVE  /\ LevelOf(p) \in Levels
           /\ LevelOf(p).data = p + 8 /\ LevelOf(p).size = riff.chunks[p].size
           /\ LevelOf(p).data - Riff!HeaderSize = p
<1>1. p \in Nat
  BY Chunks
<1> QED BY <1>1 DEF LevelOf, Levels, Riff!HeaderSize

(* Where the guest is.                                                      *)
LEMMA ListIsIn ==
    ASSUME Riff!WellFormed(riff), Nested(inside)
    PROVE  /\ Len(inside) \in Nat
           /\ inside = <<>> <=> Len(inside) = 0
           /\ ListIn = IF inside = <<>> THEN Riff!NotFound
                       ELSE Riff!Last(inside).data - Riff!HeaderSize
           /\ inside # <<>> =>
                 /\ ListIn \in DOMAIN riff.chunks /\ ListIn \in Nat
                 /\ Riff!Last(inside) = LevelOf(ListIn)
                 /\ Riff!Last(inside).data = ListIn + 8
                 /\ Riff!Last(inside).size = riff.chunks[ListIn].size
                 /\ riff.chunks[ListIn].parent = ListAt(inside, Len(inside) - 1)
           /\ IsList(ListIn)
           /\ Riff!ParentEnd = SearchEnd(ListIn)
<1>1. Len(inside) \in Nat /\ (inside = <<>> <=> Len(inside) = 0) /\ inside \in Seq(Levels)
  BY EmptySeq, LenProperties DEF Nested
<1>2. ListIn = IF inside = <<>> THEN Riff!NotFound ELSE Riff!Last(inside).data - Riff!HeaderSize
  BY <1>1 DEF ListIn, ListAt, Riff!Last
<1>3. CASE inside = <<>>
  BY <1>1, <1>2, <1>3 DEF IsList, SearchEnd, Riff!ParentEnd
<1>4. CASE inside # <<>>
  <2>1. Len(inside) \in 1..Len(inside)
    BY <1>1, <1>4
  <2>2. Riff!Last(inside) \in Levels
    BY <1>1, <2>1, ElementOfSeq DEF Riff!Last
  <2>3. PICK p \in DOMAIN riff.chunks : Riff!Last(inside) = LevelOf(p)
    BY <2>2 DEF Levels
  <2>4. p \in Nat /\ LevelOf(p).data = p + 8 /\ LevelOf(p).size = riff.chunks[p].size
        /\ LevelOf(p).data - Riff!HeaderSize = p
    BY Chunks, LevelIs
  <2>5. ListIn = p
    BY <1>2, <1>4, <2>3, <2>4
  <2>6. riff.chunks[ListIn].parent = ListAt(inside, Len(inside) - 1)
    BY <1>2, <1>4, <2>1 DEF Nested, Riff!Last
  <2>7. p # Riff!NotFound
    BY <2>4 DEF Riff!NotFound
  <2>8. Riff!ParentEnd = SearchEnd(ListIn)
    BY <1>4, <2>3, <2>4, <2>5, <2>7 DEF Riff!ParentEnd, SearchEnd
  <2> QED BY <1>1, <1>2, <1>4, <2>3, <2>4, <2>5, <2>6, <2>8 DEF IsList
<1> QED BY <1>3, <1>4

LEMMA ContinuesInside ==
    ASSUME Riff!WellFormed(riff), NEW list, IsList(list), NEW p, Riff!Continues(riff, list, p)
    PROVE  p \in 0..riff.size
<1>1. CASE p = Riff!ListEnd(riff, list)
  BY <1>1, Chunks DEF Riff!ListEnd, IsList
<1>2. CASE p \in DOMAIN riff.chunks
  <2>1. /\ p \in Nat /\ riff.chunks[p].size \in Nat /\ Riff!EndOf(riff, p) \in Nat
        /\ Riff!EndOf(riff, p) <= riff.size /\ riff.size \in Nat
        /\ p + 8 + riff.chunks[p].size <= Riff!EndOf(riff, p)
    BY <1>2, Chunks
  <2> QED BY <2>1
<1> QED BY <1>1, <1>2 DEF Riff!Continues

LEMMA WellFormedHere ==
    ASSUME Riff!RiffAssumption, riff \in RiffFiles
    PROVE  Riff!WellFormed(riff)
BY DEF Riff!RiffAssumption

LEMMA DescendStep ==
    ASSUME Riff!RiffAssumption, RiffInv, riff' = riff, walks' = walks + 1,
           NEW search, NEW wanted, Riff!MmioDescend(search, wanted)
    PROVE  RiffInv'
<1> DEFINE answer == Riff!Descended(search, wanted)
<1>1. Riff!WellFormed(riff) /\ Nested(inside) /\ ready /\ walks \in Nat
      /\ Riff!Continues(riff, ListIn, position)
  BY WellFormedHere DEF RiffInv, Riff!MmioDescend
<1>2. IsList(ListIn) /\ Riff!ParentEnd = SearchEnd(ListIn) /\ Len(inside) \in Nat
  BY <1>1, ListIsIn
<1>3. Right(answer, ListIn, position, search, wanted)
  BY <1>1, <1>2, ContinuesInside, DescendedIsRight
<1> DEFINE chunk == Riff!HeaderAt(answer.found)
<1>4. /\ position' = answer.position
      /\ walked' = [from |-> position, search |-> search, for |-> wanted, found |-> answer.found,
                    parent |-> ListIn]
      /\ inside' = IF answer.found = Riff!NotFound THEN inside
                   ELSE Append(inside, [id |-> chunk.id, size |-> chunk.size,
                                        data |-> answer.found + Riff!HeaderSize])
      /\ ready' = (answer.found # Riff!NotFound /\ chunk.id \in Riff!Lists)
  BY <1>1, ListIsIn DEF Riff!MmioDescend
<1> HIDE DEF answer, chunk
<1>5. WalkRight' /\ position' \in Nat
  <2>1. walked'.found = FirstOf(Candidates(walked'.parent, walked'.from, walked'.search, walked'.for))
    BY <1>3, <1>4 DEF Right
  <2>2. \A l : \A p : \A s : \A w : Candidates(l, p, s, w)' = Candidates(l, p, s, w)
    BY DEF Candidates
  <2> QED BY <1>3, <1>4, <2>1, <2>2 DEF WalkRight, Right
<1>6. Nested(inside)' /\ (ready => Riff!Continues(riff, ListIn, position))'
  <2>1. CASE answer.found = Riff!NotFound
    BY <1>1, <1>4, <2>1 DEF Nested, Levels, LevelOf, ListAt
  <2>2. CASE answer.found # Riff!NotFound
    <3> DEFINE p == answer.found
    <3>1. p \in Candidates(ListIn, position, search, wanted)
      <4>1. Candidates(ListIn, position, search, wanted) # {}
        BY <1>3, <2>2 DEF Right, FirstOf
      <4>2. Candidates(ListIn, position, search, wanted) \subseteq Nat
        BY <1>1, Chunks DEF Candidates
      <4>3. PICK n \in Candidates(ListIn, position, search, wanted) :
              \A m \in Candidates(ListIn, position, search, wanted) : n <= m
        BY <4>1, <4>2, LeastNumber
      <4> QED BY <1>3, <4>2, <4>3, FirstIs DEF Right
    <3>2. p \in DOMAIN riff.chunks /\ riff.chunks[p].parent = ListIn
      BY <3>1 DEF Candidates
    <3>3. chunk = riff.chunks[p] /\ inside' = Append(inside, LevelOf(p))
      BY <1>4, <2>2, <3>2 DEF Riff!HeaderAt, LevelOf, chunk
    <3> HIDE DEF p
    <3>4. LevelOf(p) \in Levels /\ LevelOf(p).data - Riff!HeaderSize = p
      BY <1>1, <3>2, LevelIs
    <3> DEFINE n == Len(inside)
    <3>5. /\ inside' \in Seq(Levels) /\ Len(inside') = n + 1 /\ inside'[n + 1] = LevelOf(p)
          /\ \A i \in 1..n : inside'[i] = inside[i]
      BY <1>1, <3>3, <3>4, AppendProperties DEF Nested
    <3>6. ASSUME NEW i \in 1..Len(inside')
          PROVE  riff.chunks[inside'[i].data - Riff!HeaderSize].parent = ListAt(inside', i - 1)
      <4>1. CASE i \in 1..n
        <5>1. inside'[i] = inside[i] /\ (i - 1 = 0 \/ i - 1 \in 1..n)
          BY <1>2, <3>5, <4>1
        <5>2. ListAt(inside', i - 1) = ListAt(inside, i - 1)
          BY <3>5, <5>1 DEF ListAt
        <5> QED BY <1>1, <4>1, <5>1, <5>2 DEF Nested
      <4>2. CASE i = n + 1
        <5>1. i - 1 = n /\ (n = 0 \/ n \in 1..n)
          BY <1>2, <4>2
        <5>2. ListAt(inside', n) = ListIn
          BY <3>5, <5>1 DEF ListAt, ListIn
        <5> QED BY <3>2, <3>4, <3>5, <4>2, <5>1, <5>2
      <4> QED BY <1>2, <3>5, <4>1, <4>2
    <3>7. Nested(inside)'
      BY <3>5, <3>6 DEF Nested, Levels, LevelOf, ListAt
    <3>8. ListIn' = p
      <4>1. n + 1 # 0
        BY <1>2
      <4> QED BY <3>4, <3>5, <4>1 DEF ListIn, ListAt
    <3>9. chunk.id \in Riff!Lists => Riff!Continues(riff, p, position')
      <4> SUFFICES ASSUME chunk.id \in Riff!Lists PROVE Riff!Continues(riff, p, position')
        OBVIOUS
      <4>1. p \in Nat /\ Riff!Continues(riff, p, p + 12)
        BY <1>1, <3>2, <3>3, Chunks
      <4>2. position' = p + 8 + 4
        BY <1>3, <1>4, <2>2, <3>3 DEF Right, FormOf, Riff!FormSize, p
      <4>3. p + 8 + 4 = p + 12
        BY <4>1
      <4> QED BY <4>1, <4>2, <4>3
    <3>10. ready' => Riff!Continues(riff, ListIn', position')
      BY <1>4, <3>8, <3>9
    <3> QED BY <3>7, <3>10 DEF Riff!Continues, Riff!ListEnd, Riff!EndOf, Riff!Behind, Riff!Data
  <2> QED BY <2>1, <2>2
<1> QED BY <1>1, <1>5, <1>6 DEF RiffInv

LEMMA AscendStep ==
    ASSUME Riff!RiffAssumption, RiffInv, riff' = riff, walks' = walks + 1, Riff!MmioAscend
    PROVE  RiffInv'
<1> DEFINE n == Len(inside)
           p == ListIn
<1>1. Riff!WellFormed(riff) /\ Nested(inside) /\ inside # <<>> /\ walks \in Nat
  BY WellFormedHere DEF RiffInv, Riff!MmioAscend
<1>2. /\ n \in Nat /\ n # 0 /\ p \in DOMAIN riff.chunks
      /\ Riff!Last(inside).data = p + 8
      /\ Riff!Last(inside).size = riff.chunks[p].size
      /\ riff.chunks[p].parent = ListAt(inside, n - 1)
  BY <1>1, ListIsIn
<1>3. position' = Riff!EndOf(riff, p)
  BY <1>2 DEF Riff!MmioAscend, Riff!EndOf, Riff!Behind, Riff!Data, Riff!HeaderSize
<1>4. position' \in Nat /\ Riff!Continues(riff, riff.chunks[p].parent, position')
  BY <1>1, <1>2, <1>3, Chunks
<1>5. /\ inside' \in Seq(Levels) /\ Len(inside') = n - 1
      /\ \A i \in 1..(n - 1) : inside'[i] = inside[i]
  <2>1. inside' = SubSeq(inside, 1, n - 1) /\ inside \in Seq(Levels)
    BY <1>1 DEF Riff!MmioAscend, Riff!Front, Nested
  <2>2. n - 1 \in 0..n /\ 1 \in 1..(n + 1)
    BY <1>2
  <2>3. /\ SubSeq(inside, 1, n - 1) \in Seq(Levels)
        /\ Len(SubSeq(inside, 1, n - 1)) = IF 1 <= n - 1 THEN (n - 1) - 1 + 1 ELSE 0
        /\ \A i \in 1..((n - 1) - 1 + 1) : SubSeq(inside, 1, n - 1)[i] = inside[1 + i - 1]
    BY <2>1, <2>2, SubSeqProperties
  <2>4. /\ Len(SubSeq(inside, 1, n - 1)) = n - 1
        /\ \A i \in 1..(n - 1) : SubSeq(inside, 1, n - 1)[i] = inside[i]
    <3>1. (n - 1) - 1 + 1 = n - 1 /\ \A i \in 1..(n - 1) : 1 + i - 1 = i
      BY <1>2
    <3> QED BY <1>2, <2>3, <3>1
  <2> QED BY <2>1, <2>3, <2>4
<1>6. \A i \in 0..(n - 1) : ListAt(inside', i) = ListAt(inside, i)
  BY <1>2, <1>5 DEF ListAt
<1>7. ASSUME NEW i \in 1..Len(inside')
      PROVE  riff.chunks[inside'[i].data - Riff!HeaderSize].parent = ListAt(inside', i - 1)
  <2>1. i \in 1..n /\ i \in 1..(n - 1) /\ i - 1 \in 0..(n - 1)
    BY <1>2, <1>5
  <2> QED BY <1>1, <1>5, <1>6, <2>1 DEF Nested
<1>8. Nested(inside)'
  BY <1>5, <1>7 DEF Nested, Levels, LevelOf, ListAt
<1>9. ListIn' = riff.chunks[p].parent
  <2>1. n - 1 \in 0..(n - 1)
    BY <1>2
  <2> QED BY <1>2, <1>5, <1>6, <2>1 DEF ListIn, ListAt
<1>10. (ready => Riff!Continues(riff, ListIn, position))'
  <2>1. Riff!Continues(riff, ListIn', position')
    BY <1>4, <1>9
  <2> QED BY <2>1 DEF Riff!Continues, Riff!ListEnd, Riff!EndOf, Riff!Behind, Riff!Data
<1>11. WalkRight'
  <2>1. walks > 0
    BY <1>1 DEF RiffInv
  <2> QED BY <2>1 DEF RiffInv, WalkRight, Candidates, Riff!MmioAscend
<1> QED BY <1>1, <1>4, <1>8, <1>10, <1>11 DEF RiffInv

(* Reading and seeking leave the guest in the chunk.                        *)
LEMMA StayInside ==
    ASSUME Riff!RiffAssumption, RiffInv, UNCHANGED <<riff, inside, walked>>, walks' = walks + 1,
           inside # <<>>, position' \in Nat, ~ready'
    PROVE  RiffInv'
<1>1. walks \in Nat /\ walks > 0 /\ Nested(inside) /\ WalkRight
  BY DEF RiffInv
<1>2. Nested(inside)' /\ WalkRight'
  BY <1>1 DEF Nested, Levels, LevelOf, ListAt, WalkRight, Candidates
<1> QED BY <1>1, <1>2 DEF RiffInv

LEMMA MmioStep ==
    ASSUME Riff!RiffAssumption, RiffInv, Riff!Next
    PROVE  RiffInv'
<1>1. riff' = riff /\ walks' = walks + 1
  BY DEF Riff!Next
<1>2. ASSUME NEW search, NEW wanted, Riff!MmioDescend(search, wanted) PROVE RiffInv'
  BY <1>1, <1>2, DescendStep
<1>3. CASE Riff!MmioAscend
  BY <1>1, <1>3, AscendStep
<1>4. ASSUME NEW n \in {1, 5}, Riff!MmioRead(n) PROVE RiffInv'
  <2>1. Riff!WellFormed(riff) /\ position \in Nat
    BY WellFormedHere DEF RiffInv
  <2>2. position' \in Nat
    BY <1>4, <2>1, Chunks DEF Riff!MmioRead, Riff!Least
  <2> QED BY <1>1, <1>4, <2>2, StayInside DEF Riff!MmioRead
<1>5. CASE Riff!MmioSeek
  <2>1. Riff!WellFormed(riff) /\ Nested(inside) /\ inside # <<>>
    BY <1>5, WellFormedHere DEF RiffInv, Riff!MmioSeek
  <2>2. Riff!Last(inside).data = ListIn + 8 /\ ListIn \in Nat
    BY <2>1, ListIsIn
  <2>3. position' \in Nat
    BY <1>5, <2>2 DEF Riff!MmioSeek
  <2> QED BY <1>1, <1>5, <2>3, StayInside DEF Riff!MmioSeek
<1> QED BY <1>2, <1>3, <1>4, <1>5 DEF Riff!Next

MmioInv == focus = "multimedia" => RiffInv

(* However the chunks of a file lie and wherever it was cut off, and after  *)
(* any calls: mmioDescend finds the first chunk of its kind, if there is    *)
(* one, and descending and ascending never lose the headers of the chunks   *)
(* (MmioDescend::invoke, MmioAscend::invoke).                               *)
THEOREM ChunksAreAlwaysFound == Riff!RiffAssumption => (ServicesSpec => []ChunksAreFound)
<1> SUFFICES ASSUME Riff!RiffAssumption PROVE ServicesSpec => []ChunksAreFound
  OBVIOUS
<1>1. Riff!Init => RiffInv
  <2> SUFFICES ASSUME Riff!Init PROVE RiffInv
    OBVIOUS
  <2>1. riff \in RiffFiles /\ position = 0 /\ inside = <<>> /\ walks = 0
    BY DEF Riff!Init
  <2>2. Len(inside) = 0 /\ inside \in Seq(Levels)
    BY <2>1
  <2>3. Nested(inside) /\ ListIn = Riff!NotFound
    BY <2>2 DEF Nested, ListIn, ListAt
  <2>4. Riff!Continues(riff, Riff!NotFound, 0)
    BY <2>1, WellFormedHere, Chunks
  <2> QED BY <2>1, <2>3, <2>4 DEF RiffInv
<1>2. RiffInv /\ [Riff!Next]_(Riff!vars) => RiffInv'
  <2> SUFFICES ASSUME RiffInv, [Riff!Next]_(Riff!vars) PROVE RiffInv'
    OBVIOUS
  <2>1. CASE Riff!Next
    BY <2>1, MmioStep
  <2>2. CASE UNCHANGED Riff!vars
    BY <2>2 DEF Riff!vars, RiffInv, Nested, Levels, LevelOf, ListAt, ListIn, WalkRight, Candidates,
               Riff!Continues, Riff!ListEnd, Riff!EndOf, Riff!Behind, Riff!Data
  <2> QED BY <2>1, <2>2
<1>3. RiffInv => Riff!ChunksAreFound
  <2> SUFFICES ASSUME RiffInv PROVE Riff!ChunksAreFound
    OBVIOUS
  <2>1. Riff!WellFormed(riff) /\ Nested(inside) /\ (walks > 0 => WalkRight)
    BY WellFormedHere DEF RiffInv
  <2>2. Riff!DescendFindsTheFirst
    <3>1. Riff!DescendFindsTheFirst <=> (walks > 0 => WalkRight)
      BY Zenon DEF Riff!DescendFindsTheFirst, WalkRight, FirstOf, Candidates, FormOf
    <3> QED BY <2>1, <3>1
  <2>3. Riff!StaysOnChunks
    <3> SUFFICES ASSUME ready
                 PROVE  \/ /\ position \in DOMAIN riff.chunks
                           /\ riff.chunks[position].parent = ListIn
                        \/ position = IF inside = <<>> THEN riff.size
                             ELSE Riff!Last(inside).data + Riff!Padded(Riff!Last(inside).size)
      BY <2>1, ListIsIn DEF Riff!StaysOnChunks
    <3>1. Riff!Continues(riff, ListIn, position)
      BY DEF RiffInv
    <3>2. Riff!ListEnd(riff, ListIn) = IF inside = <<>> THEN riff.size
             ELSE Riff!Last(inside).data + Riff!Padded(Riff!Last(inside).size)
      <4>1. CASE inside = <<>>
        BY <2>1, <4>1, ListIsIn DEF Riff!ListEnd
      <4>2. CASE inside # <<>>
        <5>1. /\ ListIn \in Nat /\ Riff!Last(inside).data = ListIn + 8
              /\ Riff!Last(inside).size = riff.chunks[ListIn].size
          BY <2>1, <4>2, ListIsIn
        <5>2. ListIn # Riff!NotFound
          BY <5>1 DEF Riff!NotFound
        <5> QED BY <4>2, <5>1, <5>2
              DEF Riff!ListEnd, Riff!EndOf, Riff!Behind, Riff!Data, Riff!HeaderSize
      <4> QED BY <4>1, <4>2
    <3> QED BY <3>1, <3>2 DEF Riff!Continues
  <2> QED BY <2>2, <2>3 DEF Riff!ChunksAreFound
<1>4. ServicesInit => MmioInv
  BY <1>1 DEF ServicesInit, Focused, MmioInv
<1>5. MmioInv /\ [ServicesNext]_servicesVars => MmioInv'
  <2> SUFFICES ASSUME MmioInv, [ServicesNext]_servicesVars, focus' = "multimedia" PROVE RiffInv'
    BY DEF MmioInv
  <2>1. focus = "multimedia" /\ [Riff!Next]_(Riff!vars)
    BY DEF ServicesNext, Focused, servicesVars, mmioVars, Riff!vars
  <2> QED BY <1>2, <2>1 DEF MmioInv
<1>6. MmioInv => ChunksAreFound
  BY <1>3 DEF MmioInv, ChunksAreFound
<1> QED BY <1>4, <1>5, <1>6, PTL DEF ServicesSpec
=============================================================================
