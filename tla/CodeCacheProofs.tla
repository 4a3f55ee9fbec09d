--------------------------- MODULE CodeCacheProofs ---------------------------
(***************************************************************************)
(* Proofs about CodeCache: what comes out of the caches is current, for any *)
(* number of pages, any instruction set and any program.                    *)
(*                                                                          *)
(* ChangeOfMemory says what any operation on memory does to a page seen     *)
(* through its generation and the epoch.  The operations have it (the Step  *)
(* lemmas), it keeps what the caches vouch for, and CacheSound follows.     *)
(***************************************************************************)
EXTENDS CodeCache, FiniteSetTheorems, TLAPS

(* The page of an address is a page.                                        *)
LEMMA PageOfAddress ==
    ASSUME NEW c \in Addresses
    PROVE  PageOf(c) \in Pages
<1>1. c \in Nat /\ c < PageCount * PageSize /\ PageCount \in Nat /\ PageSize \in Nat \ {0}
  BY MemoryAssumption DEF Addresses
<1>2. PageOf(c) \in Nat /\ PageSize * PageOf(c) <= c
  BY <1>1 DEF PageOf
<1>3. ~(PageOf(c) >= PageCount)
  BY <1>1, <1>2
<1> QED  BY <1>1, <1>2, <1>3 DEF Pages

-----------------------------------------------------------------------------
(* Operations on memory.                                                    *)
MemoryOK == MemoryTypeOK /\ GenerationsAreUsed

(* A page whose generation is one handed out before the change has the      *)
(* bytes it had; an executable page changes only if the epoch moves.        *)
ChangeOfMemory ==
    /\ MemoryOK'
    /\ nextGeneration <= nextGeneration'
    /\ executableEpoch <= executableEpoch'
    /\ \A p \in Pages : page'[p].generation \in 1..(nextGeneration - 1) =>
          /\ page'[p].generation = page[p].generation
          /\ \A c \in Addresses : PageOf(c) = p => bytes'[c] = bytes[c]
    /\ executableEpoch' = executableEpoch =>
          \A p \in Pages : Executable(p) => page'[p] = page[p]

LEMMA NoChange ==
    ASSUME MemoryOK, UNCHANGED memoryVars
    PROVE  ChangeOfMemory /\ \A p \in Pages : Executable(p) => Executable(p)'
BY DEF MemoryOK, ChangeOfMemory, MemoryTypeOK, GenerationsAreUsed, Page, Executable, Mapped,
       memoryVars

LEMMA MapChange ==
    ASSUME MemoryOK, NEW r \in Ranges, NEW permissions \in Permissions, MapRange(r, permissions)
    PROVE  ChangeOfMemory
<1> USE DEF MemoryOK, MemoryTypeOK, GenerationsAreUsed, Page, Permissions, Executable, Mapped
<1>1. /\ r[1] \in Nat /\ r[2] \in Nat /\ r[1] <= r[2]
      /\ \A p \in Pages : p \in Nat
  BY MemoryAssumption DEF Ranges, Pages
<1>2. \A p \in Pages : Within(p, r) =>
          Fresh(p, r) \in Nat /\ nextGeneration <= Fresh(p, r) /\ Fresh(p, r) < nextGeneration'
  BY <1>1 DEF MapRange, Within, Fresh, Advance
<1>3. /\ nextGeneration' \in Nat \ {0} /\ nextGeneration <= nextGeneration'
      /\ executableEpoch' \in Nat \ {0} /\ executableEpoch <= executableEpoch'
  BY <1>1 DEF MapRange, Advance, Bump
<1>4. page' \in [Pages -> Page] /\ bytes' \in [Addresses -> Values]
  BY <1>2, MemoryAssumption DEF MapRange
<1>5. GenerationsAreUsed'
  BY <1>2, <1>3 DEF MapRange
<1>6. \A p \in Pages : page'[p].generation \in 1..(nextGeneration - 1) => ~Within(p, r)
  BY <1>2 DEF MapRange
<1>7. \A p \in Pages : ~Within(p, r) =>
          page'[p] = page[p] /\ \A c \in Addresses : PageOf(c) = p => bytes'[c] = bytes[c]
  BY DEF MapRange
<1>8. \A p \in Pages : Executable(p) => ~Within(p, r)
  BY DEF MapRange
<1> QED  BY <1>3, <1>4, <1>5, <1>6, <1>7, <1>8 DEF ChangeOfMemory

LEMMA ProtectChange ==
    ASSUME MemoryOK, NEW r \in Ranges, NEW permissions \in Permissions,
           ProtectRange(r, permissions)
    PROVE  ChangeOfMemory
<1> USE DEF MemoryOK, MemoryTypeOK, GenerationsAreUsed, Page, Permissions, Mapped
<1>1. /\ r[1] \in Nat /\ r[2] \in Nat /\ r[1] <= r[2]
      /\ \A p \in Pages : p \in Nat
  BY MemoryAssumption DEF Ranges, Pages
<1>2. \A p \in Pages : Within(p, r) =>
          Fresh(p, r) \in Nat /\ nextGeneration <= Fresh(p, r) /\ Fresh(p, r) < nextGeneration'
  BY <1>1 DEF ProtectRange, Within, Fresh, Advance
<1>3. /\ nextGeneration' \in Nat \ {0} /\ nextGeneration <= nextGeneration'
      /\ executableEpoch' \in Nat \ {0} /\ executableEpoch <= executableEpoch'
  BY <1>1 DEF ProtectRange, Advance, Bump
<1>4. page' \in [Pages -> Page] /\ bytes' = bytes
  BY <1>2 DEF ProtectRange
<1>5. GenerationsAreUsed'
  BY <1>2, <1>3 DEF ProtectRange
<1>6. \A p \in Pages : page'[p].generation \in 1..(nextGeneration - 1) => page'[p] = page[p]
  BY <1>2 DEF ProtectRange
<1>7. executableEpoch' = executableEpoch =>
          \A p \in Pages : Executable(p) => ~Within(p, r)
  BY DEF ProtectRange, Bump
<1>8. \A p \in Pages : ~Within(p, r) => page'[p] = page[p]
  BY DEF ProtectRange
<1> QED  BY <1>3, <1>4, <1>5, <1>6, <1>7, <1>8 DEF ChangeOfMemory

LEMMA UnmapChange ==
    ASSUME MemoryOK, NEW r \in Ranges, UnmapRange(r)
    PROVE  ChangeOfMemory
<1> USE DEF MemoryOK, MemoryTypeOK, GenerationsAreUsed, Page, Unmapped, UnmapRange
<1>1. page' \in [Pages -> Page] /\ GenerationsAreUsed'
  OBVIOUS
<1>2. executableEpoch' \in Nat \ {0} /\ executableEpoch <= executableEpoch'
  BY DEF Bump
<1>3. \A p \in Pages : page'[p].generation \in 1..(nextGeneration - 1) => page'[p] = page[p]
  OBVIOUS
<1>4. executableEpoch' = executableEpoch =>
          \A p \in Pages : Executable(p) => page'[p] = page[p]
  BY DEF Bump
<1> QED  BY <1>1, <1>2, <1>3, <1>4 DEF ChangeOfMemory

LEMMA WriteChange ==
    ASSUME MemoryOK, NEW a \in Addresses, NEW values \in Seq(Values), values # <<>>,
           NEW complete \in BOOLEAN, Write(a, values, complete)
    PROVE  ChangeOfMemory /\ \A p \in Pages : Executable(p) => Executable(p)'
<1> USE DEF MemoryOK, MemoryTypeOK, GenerationsAreUsed, Page, Mapped
<1> DEFINE first == PageOf(a)
<1>1. first \in Pages /\ LastOf(a, values) \in Addresses /\ Len(values) \in Nat \ {0}
  BY PageOfAddress DEF Write
<1>2. \A p \in Pages : p \in Nat
  BY DEF Pages
<1>3. \A c \in Addresses : PageOf(c) \in Pages /\ c \in Nat
  BY PageOfAddress DEF Addresses
<1>4. PICK stop \in Pages :
          LET written(p) == first <= p /\ p <= stop /\ Writable(p) IN
          /\ StopsAt(stop, a, values)
          /\ bytes' = [c \in Addresses |->
                IF c \in a..LastOf(a, values) /\ written(PageOf(c)) THEN values[c - a + 1]
                ELSE bytes[c]]
          /\ page' = [p \in Pages |->
                IF written(p) THEN [page[p] EXCEPT !.generation = nextGeneration + p - first]
                ELSE page[p]]
          /\ Advance(stop - first + 1)
          /\ Bump(\E p \in Pages : written(p) /\ Executable(p))
  BY DEF Write
<1> DEFINE written(p) == first <= p /\ p <= stop /\ Writable(p)
<1> HIDE DEF first
<1>5. first <= stop
  BY <1>4 DEF StopsAt, first
<1>6. \A p \in Pages : written(p) =>
          /\ page'[p] = [page[p] EXCEPT !.generation = nextGeneration + p - first]
          /\ first <= p /\ p <= stop /\ Writable(p)
  BY <1>4
<1>7. \A p \in Pages : ~written(p) =>
          page'[p] = page[p] /\ \A c \in Addresses : PageOf(c) = p => bytes'[c] = bytes[c]
  BY <1>4
<1>8. /\ nextGeneration' = nextGeneration + (stop - first + 1)
      /\ executableEpoch' = executableEpoch
            + (IF \E p \in Pages : written(p) /\ Executable(p) THEN 1 ELSE 0)
  BY <1>4 DEF Advance, Bump
<1>9. \A c \in Addresses : c \in a..LastOf(a, values) => values[c - a + 1] \in Values
  BY <1>1, <1>3 DEF LastOf
<1>10. bytes' \in [Addresses -> Values] /\ page' \in [Pages -> Page]
  <2>1. bytes' \in [Addresses -> Values]
    BY <1>4, <1>9
  <2>2. ASSUME NEW p \in Pages
        PROVE  IF written(p) THEN nextGeneration + p - first \in Nat ELSE TRUE
    BY <1>1, <1>2
  <2>3. page' \in [Pages -> Page]
    BY <1>4, <2>2
  <2> QED  BY <2>1, <2>3
<1> HIDE DEF written
<1>11. /\ nextGeneration' \in Nat \ {0} /\ nextGeneration <= nextGeneration'
       /\ executableEpoch' \in Nat \ {0} /\ executableEpoch <= executableEpoch'
  BY <1>1, <1>2, <1>5, <1>8, SMTT(30)
<1>12. \A p \in Pages : written(p) =>
          /\ nextGeneration <= page'[p].generation /\ page'[p].generation < nextGeneration'
          /\ page'[p].execute = page[p].execute
  <2> SUFFICES ASSUME NEW p \in Pages, written(p)
               PROVE  /\ nextGeneration <= page'[p].generation
                      /\ page'[p].generation < nextGeneration'
                      /\ page'[p].execute = page[p].execute
    OBVIOUS
  <2>1. page'[p].generation = nextGeneration + p - first /\ page'[p].execute = page[p].execute
    <3>1. page'[p] = [page[p] EXCEPT !.generation = nextGeneration + p - first]
      BY <1>6
    <3>2. page[p] \in Page
      BY <1>1
    <3> DEFINE g == nextGeneration + p - first
    <3> HIDE DEF g
    <3>3. page'[p] = [page[p] EXCEPT !.generation = g]
      BY <3>1 DEF g
    <3>4. page'[p].generation = g /\ page'[p].execute = page[p].execute
      BY <3>2, <3>3 DEF Page
    <3> QED BY <3>4 DEF g
  <2>2. first <= p /\ p <= stop /\ first \in Nat /\ p \in Nat /\ stop \in Nat
    BY <1>1, <1>2, <1>6
  <2>3. nextGeneration' = nextGeneration + (stop - first + 1)
    BY <1>8
  <2> QED  BY <2>1, <2>2, <2>3
<1>13. GenerationsAreUsed'
  BY <1>7, <1>10, <1>11, <1>12
<1>14. \A p \in Pages : page'[p].generation \in 1..(nextGeneration - 1) => ~written(p)
  BY <1>10, <1>12
<1>15. executableEpoch' = executableEpoch => \A p \in Pages : Executable(p) => ~written(p)
  BY <1>8
<1>16. ASSUME NEW p \in Pages, Executable(p)
       PROVE  Executable(p)'
  <2>1. CASE written(p)
    <3>1. page'[p].generation > 0
      BY <1>10, <1>12, <2>1
    <3> QED  BY <1>12, <1>16, <2>1, <3>1 DEF Executable
  <2>2. CASE ~written(p)
    BY <1>7, <1>16, <2>2 DEF Executable
  <2> QED  BY <2>1, <2>2
<1> QED  BY <1>7, <1>10, <1>11, <1>13, <1>14, <1>15, <1>16 DEF ChangeOfMemory

-----------------------------------------------------------------------------
(* Instructions, generations and maps.                                      *)
LEMMA CellsAreAddresses ==
    ASSUME NEW i \in Instructions
    PROVE  /\ i.at \in Cells(i)
           /\ \A c \in Cells(i) : c \in Addresses /\ PageOf(c) \in Pages
<1>1. i.at \in Nat /\ i.len \in Nat \ {0} /\ NextIp(i) \in CodeAddresses
  BY CodeAssumption, MemoryAssumption DEF Instructions, Addresses
<1>2. i.at \in Cells(i)
  BY <1>1 DEF Cells
<1>3. \A c \in Cells(i) : c \in Addresses
  BY <1>1, MemoryAssumption DEF Cells, NextIp, CodeAddresses, End, Addresses
<1> QED  BY <1>2, <1>3, PageOfAddress

(* What a generation vouches for outlives any change of memory.             *)
LEMMA VouchesKept ==
    ASSUME MemoryOK, ChangeOfMemory, NEW i \in Instructions, NEW gens, Vouches(gens, i)
    PROVE  Vouches(gens, i)'
<1> SUFFICES ASSUME NEW c \in Cells(i)
             PROVE  /\ gens[PageOf(c)] \in 1..(nextGeneration' - 1)
                    /\ page'[PageOf(c)].generation = gens[PageOf(c)] => bytes'[c] = i.image[c]
  BY DEF Vouches, Cells, PageOf
<1>1. /\ gens[PageOf(c)] \in 1..(nextGeneration - 1)
      /\ page[PageOf(c)].generation = gens[PageOf(c)] => bytes[c] = i.image[c]
  BY DEF Vouches
<1>2. c \in Addresses /\ PageOf(c) \in Pages
  BY CellsAreAddresses
<1>3. nextGeneration \in Nat /\ nextGeneration' \in Nat /\ nextGeneration <= nextGeneration'
  BY DEF MemoryOK, MemoryTypeOK, ChangeOfMemory
<1> QED  BY <1>1, <1>2, <1>3 DEF ChangeOfMemory

(* At the same epoch the pages that were unchanged are unchanged still.     *)
LEMMA UnchangedKept ==
    ASSUME ChangeOfMemory, executableEpoch' = executableEpoch, NEW gens, Changed(gens) = {}
    PROVE  Changed(gens)' = {}
BY DEF ChangeOfMemory, Changed, Executable, Mapped

(* Code whose pages are all unchanged can run.                              *)
LEMMA UnchangedIsRunnable ==
    ASSUME NEW i \in Instructions, NEW gens, Vouches(gens, i), Changed(gens) = {}
    PROVE  Runnable(i)
BY CellsAreAddresses DEF Vouches, Changed, Runnable

LEMMA CodeAddressesAreFinite ==
    ASSUME NEW S, S \subseteq CodeAddresses
    PROVE  IsFiniteSet(S) /\ Cardinality(S) \in Nat
<1>1. 0 \in Int /\ End \in Int
  BY MemoryAssumption DEF End
<1>2. IsFiniteSet(CodeAddresses)
  BY <1>1, FS_Interval DEF CodeAddresses
<1> QED  BY <1>2, FS_Subset, FS_CardinalityType

(* Put keeps a cache within its capacity and changes only the new entry.    *)
LEMMA PutWithin ==
    ASSUME NEW map, DOMAIN map \subseteq CodeAddresses, NEW a \in CodeAddresses, NEW entry,
           NEW capacity \in Nat \ {0}
    PROVE  LET new == Put(map, a, entry, capacity) IN
           /\ a \in DOMAIN new /\ new[a] = entry
           /\ DOMAIN new \subseteq CodeAddresses
           /\ new = [c \in DOMAIN new |-> new[c]]
           /\ Cardinality(DOMAIN new) <= capacity
           /\ \A c \in DOMAIN new \ {a} : c \in DOMAIN map /\ new[c] = map[c]
<1> DEFINE kept == IF Cardinality(DOMAIN map) >= capacity THEN {} ELSE DOMAIN map
           new == Put(map, a, entry, capacity)
<1>1. new = [c \in kept \cup {a} |-> IF c = a THEN entry ELSE map[c]]
  BY DEF Put
<1>2. Cardinality({a}) = 1 /\ IsFiniteSet(DOMAIN map) /\ Cardinality(DOMAIN map) \in Nat
  BY FS_Singleton, CodeAddressesAreFinite
<1>3. Cardinality(kept \cup {a}) <= capacity
  <2>1. CASE Cardinality(DOMAIN map) >= capacity
    <3>1. kept \cup {a} = {a}
      BY <2>1
    <3> QED  BY <3>1, <1>2
  <2>2. CASE ~(Cardinality(DOMAIN map) >= capacity)
    <3>1. kept = DOMAIN map
      BY <2>2
    <3>2. \/ Cardinality(kept \cup {a}) = Cardinality(kept)
          \/ Cardinality(kept \cup {a}) = Cardinality(kept) + 1
      BY <1>2, <3>1, FS_AddElement
    <3> QED  BY <1>2, <2>2, <3>1, <3>2
  <2> QED  BY <2>1, <2>2
<1>4. DOMAIN new = kept \cup {a} /\ kept \subseteq DOMAIN map
  BY <1>1
<1> HIDE DEF kept, new
<1>5. new[a] = entry /\ new = [c \in DOMAIN new |-> new[c]]
  BY <1>1, <1>4
<1>6. \A c \in DOMAIN new \ {a} : new[c] = map[c]
  BY <1>1, <1>4
<1>7. /\ a \in DOMAIN new /\ new[a] = entry
      /\ DOMAIN new \subseteq CodeAddresses
      /\ new = [c \in DOMAIN new |-> new[c]]
      /\ Cardinality(DOMAIN new) <= capacity
      /\ \A c \in DOMAIN new \ {a} : c \in DOMAIN map /\ new[c] = map[c]
  BY <1>3, <1>4, <1>5, <1>6
<1> QED  BY <1>7 DEF new

-----------------------------------------------------------------------------
(* Decoding.  Inv is inductive.                                             *)
Inv == TypeOK /\ CacheSound /\ pc # "failed"

LEMMA MemoryIsOK == Inv => MemoryOK
BY DEF Inv, MemoryOK, TypeOK, CacheSound

(* Recording the pages of code that can run keeps the record unchanged.     *)
LEMMA RecordedPages ==
    ASSUME MemoryOK, NEW gens \in Generations, NEW i \in Instructions,
           Runnable(i), Changed(gens) = {}
    PROVE  /\ RecordPages(gens, i) \in Generations
           /\ Changed(RecordPages(gens, i)) = {}
           /\ Vouches(RecordPages(gens, i), i)
           /\ \A j \in Instructions : Vouches(gens, j) => Vouches(RecordPages(gens, i), j)
<1> DEFINE new == RecordPages(gens, i)
<1> USE DEF MemoryOK, MemoryTypeOK, GenerationsAreUsed, Page, Generations
<1>1. \A p \in Pages : /\ page[p].generation \in Nat
                       /\ page[p].generation < nextGeneration
  OBVIOUS
<1>2. new \in Generations
  BY DEF RecordPages
<1>3. \A p \in SpannedBy(i) : p \in Pages /\ Executable(p)
  BY CellsAreAddresses DEF SpannedBy, Runnable
<1>4. \A p \in Pages : gens[p] # 0 => Executable(p) /\ page[p].generation = gens[p]
  BY DEF Changed
<1>5. \A p \in Pages : new[p] # 0 => Executable(p) /\ page[p].generation = new[p]
  BY <1>3, <1>4 DEF RecordPages
<1>6. \A p \in SpannedBy(i) : new[p] = page[p].generation /\ new[p] \in 1..(nextGeneration - 1)
  BY <1>1, <1>3, <1>4 DEF RecordPages, Executable, Mapped
<1>7. Vouches(new, i)
  BY <1>6 DEF Vouches, SpannedBy, Runnable
<1>8. \A p \in Pages : gens[p] # 0 => new[p] = gens[p]
  BY DEF RecordPages
<1>9. ASSUME NEW j \in Instructions, Vouches(gens, j)
      PROVE  Vouches(new, j)
  <2> SUFFICES ASSUME NEW c \in Cells(j)
               PROVE  /\ new[PageOf(c)] \in 1..(nextGeneration - 1)
                      /\ page[PageOf(c)].generation = new[PageOf(c)] => bytes[c] = j.image[c]
    BY DEF Vouches
  <2>1. /\ gens[PageOf(c)] \in 1..(nextGeneration - 1)
        /\ page[PageOf(c)].generation = gens[PageOf(c)] => bytes[c] = j.image[c]
    BY <1>9 DEF Vouches
  <2>2. PageOf(c) \in Pages
    BY CellsAreAddresses
  <2> QED  BY <2>1, <2>2, <1>8
<1> QED  BY <1>2, <1>5, <1>7, <1>9 DEF Changed

(* A fetch that is allowed gives an instruction that can run.               *)
LEMMA FetchedIsRunnable ==
    ASSUME MemoryOK, NEW a \in CodeAddresses, Fetchable(a)
    PROVE  /\ Fetched(a) \in Instructions /\ Fetched(a).at = a
           /\ Runnable(Fetched(a))
<1> DEFINE len == Length[bytes[a]]
<1>1. a \in Nat /\ MaxLength \in Nat \ {0}
  BY CodeAssumption, MemoryAssumption DEF CodeAddresses
<1>2. a \in Addresses /\ a + MaxLength - 1 \in Addresses
  BY <1>1 DEF Fetchable
<1>3. len \in 1..MaxLength
  BY <1>2, CodeAssumption DEF MemoryOK, MemoryTypeOK
<1> HIDE DEF len
<1>4. \A c \in a..(a + len - 1) : c \in Addresses /\ Executable(PageOf(c))
  <2>1. \A c \in a..(a + len - 1) : c \in a..(a + MaxLength - 1)
    BY <1>1, <1>3
  <2> QED  BY <2>1 DEF Fetchable
<1>5. a + len - 1 \in Addresses /\ a + len \in CodeAddresses
  BY <1>1, <1>2, <1>3, <1>4, MemoryAssumption DEF Addresses, CodeAddresses, End
<1>6. \A c \in a..(a + len - 1) : bytes[c] \in Values
  BY <1>4 DEF MemoryOK, MemoryTypeOK
<1>7. [c \in a..(a + len - 1) |-> bytes[c]] \in Images
  <2>1. [c \in a..(a + len - 1) |-> bytes[c]] \in [a..(a + len - 1) -> Values]
    BY <1>6
  <2>2. ASSUME NEW x \in Addresses, NEW y \in Addresses
        PROVE  [x..y -> Values] \subseteq Images
    <3>1. [x..y -> Values] \in {[r[1]..r[2] -> Values] : r \in Addresses \X Addresses}
      <4>1. <<x, y>> \in Addresses \X Addresses /\ <<x, y>>[1] = x /\ <<x, y>>[2] = y
        OBVIOUS
      <4> QED  BY <4>1, Zenon
    <3> QED  BY <3>1 DEF Images
  <2> QED  BY <1>2, <1>5, <2>1, <2>2
<1>8. Fetched(a) = [at |-> a, len |-> len, image |-> [c \in a..(a + len - 1) |-> bytes[c]]]
  BY DEF Fetched, len
<1>9. Cells(Fetched(a)) = a..(a + len - 1) /\ NextIp(Fetched(a)) = a + len
  BY <1>8 DEF Cells, NextIp
<1>10. Fetched(a) \in Instructions
  BY <1>2, <1>3, <1>5, <1>7, <1>8, <1>9 DEF Instructions
<1>11. \A c \in a..(a + len - 1) : Fetched(a).image[c] = bytes[c]
  BY <1>8
<1>12. Runnable(Fetched(a))
  BY <1>4, <1>9, <1>11 DEF Runnable
<1> QED  BY <1>8, <1>10, <1>12

(* What decode_cached delivers can run, and its cache stays sound.          *)
LEMMA DecodedIsRunnable ==
    ASSUME Inv, NEW a \in CodeAddresses, Decodes(a)
    PROVE  /\ Decoded(a) \in Instructions /\ Decoded(a).at = a
           /\ Runnable(Decoded(a))
<1>1. CASE Hit(a)
  <2>1. a \in DOMAIN decoded /\ Changed(decoded[a].gens) = {} /\ Decoded(a) = decoded[a].instruction
    BY <1>1 DEF Hit, Decoded
  <2>2. decoded[a].instruction \in Instructions /\ decoded[a].instruction.at = a
    BY <2>1 DEF Inv, TypeOK, CachedInstruction
  <2>3. Vouches(decoded[a].gens, decoded[a].instruction)
    BY <2>1 DEF Inv, CacheSound, DecodedSound
  <2> QED  BY <2>1, <2>2, <2>3, UnchangedIsRunnable
<1>2. CASE ~Hit(a)
  BY <1>2, FetchedIsRunnable, MemoryIsOK DEF Decodes, Decoded
<1> QED  BY <1>1, <1>2

(* The instruction cache, with what it vouches for in the memory as it is.  *)
DecodedTypes(map) ==
    /\ DOMAIN map \subseteq CodeAddresses
    /\ map \in [DOMAIN map -> CachedInstruction]
    /\ \A a \in DOMAIN map : map[a].instruction.at = a
    /\ Cardinality(DOMAIN map) <= MaxDecoded
VouchedMap(map) == \A a \in DOMAIN map : Vouches(map[a].gens, map[a].instruction)

LEMMA KeptDecoded ==
    ASSUME Inv, NEW a \in CodeAddresses, Decodes(a), NEW map,
           map = IF Hit(a) THEN decoded
                 ELSE Put(decoded, a, [instruction |-> Fetched(a),
                                       gens |-> RecordPages(Unrecorded, Fetched(a))], MaxDecoded)
    PROVE  DecodedTypes(map) /\ VouchedMap(map)
<1>1. CASE Hit(a)
  BY <1>1 DEF Inv, TypeOK, CacheSound, DecodedSound, DecodedTypes, VouchedMap
<1>2. CASE ~Hit(a)
  <2> DEFINE i == Fetched(a)
             gens == RecordPages(Unrecorded, i)
             entry == [instruction |-> i, gens |-> gens]
  <2>1. i \in Instructions /\ i.at = a /\ Runnable(i) /\ MemoryOK
    BY <1>2, FetchedIsRunnable, MemoryIsOK DEF Decodes
  <2>2. Unrecorded \in Generations /\ Changed(Unrecorded) = {}
    BY DEF Unrecorded, Generations, Changed
  <2>3. gens \in Generations /\ Vouches(gens, i)
    BY <2>1, <2>2, RecordedPages
  <2>4. map = Put(decoded, a, entry, MaxDecoded) /\ MaxDecoded \in Nat \ {0}
    BY <1>2, CodeAssumption
  <2> HIDE DEF i, gens
  <2>5. entry \in CachedInstruction /\ entry.instruction = i /\ entry.gens = gens
    BY <2>1, <2>3 DEF CachedInstruction
  <2> HIDE DEF entry
  <2>6. DOMAIN decoded \subseteq CodeAddresses
    BY DEF Inv, TypeOK
  <2>7. /\ a \in DOMAIN map /\ map[a] = entry
        /\ DOMAIN map \subseteq CodeAddresses
        /\ map = [c \in DOMAIN map |-> map[c]]
        /\ Cardinality(DOMAIN map) <= MaxDecoded
        /\ \A c \in DOMAIN map \ {a} : c \in DOMAIN decoded /\ map[c] = decoded[c]
    BY <2>4, <2>6, PutWithin
  <2>8. \A c \in DOMAIN map : map[c] \in CachedInstruction /\ map[c].instruction.at = c
    BY <2>1, <2>5, <2>7 DEF Inv, TypeOK
  <2>9. \A c \in DOMAIN map : Vouches(map[c].gens, map[c].instruction)
    BY <2>3, <2>5, <2>7 DEF Inv, CacheSound, DecodedSound
  <2> QED  BY <2>7, <2>8, <2>9 DEF DecodedTypes, VouchedMap
<1> QED  BY <1>1, <1>2

-----------------------------------------------------------------------------
(* The steps.                                                               *)
BlockTypes(map) ==
    /\ DOMAIN map \subseteq CodeAddresses
    /\ map \in [DOMAIN map -> CachedBlock]
    /\ \A a \in DOMAIN map : Len(map[a].code) \in 1..MaxBlock
    /\ Cardinality(DOMAIN map) <= MaxBlocks

ControlTypes ==
    /\ hot \in [CodeAddresses -> 0..2]
    /\ pc \in {"fetch", "build", "step", "run", "check", "host"}
    /\ eip \in CodeAddresses
    /\ partial \in [code : Seq(Instructions), next : CodeAddresses, gens : Generations]
    /\ running \in CodeAddresses /\ index \in 0..(MaxBlock + 1) /\ seen \in Nat
    /\ trap \in [kind : {"none", "access", "illegal"}, at : CodeAddresses]

LEMMA InvParts ==
    Inv => /\ MemoryOK
           /\ DecodedTypes(decoded) /\ VouchedMap(decoded)
           /\ BlockTypes(blocks) /\ BlocksSound
           /\ ControlTypes /\ PartialSound /\ RunningSound
BY DEF Inv, TypeOK, CacheSound, DecodedSound, MemoryOK, DecodedTypes, VouchedMap, BlockTypes,
       ControlTypes

(* What is left to show of a step once memory and the decoded instructions  *)
(* are accounted for.                                                       *)
LEMMA InvAfter ==
    ASSUME Inv, ChangeOfMemory, NEW map, map = decoded',
           DecodedTypes(map), VouchedMap(map),
           BlockTypes(blocks'), BlocksSound', ControlTypes', PartialSound', RunningSound'
    PROVE  Inv'
<1>1. TypeOK' /\ pc' # "failed" /\ GenerationsAreUsed'
  BY DEF TypeOK, ControlTypes, DecodedTypes, BlockTypes, ChangeOfMemory, MemoryOK
<1>2. ASSUME NEW a \in DOMAIN map
      PROVE  Vouches(map[a].gens, map[a].instruction)'
  <2>1. map[a].instruction \in Instructions /\ Vouches(map[a].gens, map[a].instruction)
    BY DEF DecodedTypes, VouchedMap, CachedInstruction
  <2> QED  BY <2>1, VouchesKept, InvParts
<1>3. DecodedSound'
  BY <1>2 DEF DecodedSound
<1> QED  BY <1>1, <1>3 DEF Inv, CacheSound

(* Blocks that stay in the cache stay sound.                                *)
LEMMA BlocksKept ==
    ASSUME Inv, ChangeOfMemory, UNCHANGED blocks
    PROVE  BlockTypes(blocks') /\ BlocksSound'
<1>1. BlockTypes(blocks')
  BY InvParts
<1>2. ASSUME NEW a \in DOMAIN blocks
      PROVE  /\ VouchesForAll(blocks[a].gens, blocks[a].code)'
             /\ blocks[a].validated <= executableEpoch'
             /\ blocks[a].validated = executableEpoch' => (Changed(blocks[a].gens) = {})'
  <2>1. blocks[a] \in CachedBlock
    BY InvParts DEF BlockTypes
  <2>2. /\ VouchesForAll(blocks[a].gens, blocks[a].code)
        /\ blocks[a].validated <= executableEpoch
        /\ blocks[a].validated = executableEpoch => Changed(blocks[a].gens) = {}
    BY InvParts DEF BlocksSound
  <2>3. ASSUME NEW n \in DOMAIN blocks[a].code
        PROVE  Vouches(blocks[a].gens, blocks[a].code[n])'
    <3>1. blocks[a].code[n] \in Instructions
      BY <2>1 DEF CachedBlock
    <3> QED  BY <2>2, <3>1, VouchesKept, InvParts DEF VouchesForAll
  <2>4. VouchesForAll(blocks[a].gens, blocks[a].code)'
    BY <2>3 DEF VouchesForAll
  <2>5. /\ blocks[a].validated \in Nat /\ executableEpoch \in Nat /\ executableEpoch' \in Nat
        /\ executableEpoch <= executableEpoch'
    BY <2>1, InvParts DEF CachedBlock, MemoryOK, MemoryTypeOK, ChangeOfMemory
  <2>6. blocks[a].validated <= executableEpoch'
    BY <2>2, <2>5
  <2>7. ASSUME blocks[a].validated = executableEpoch'
        PROVE  (Changed(blocks[a].gens) = {})'
    <3>1. executableEpoch' = executableEpoch /\ Changed(blocks[a].gens) = {}
      BY <2>2, <2>5, <2>7
    <3> QED  BY <3>1, UnchangedKept
  <2> QED  BY <2>4, <2>6, <2>7
<1> QED  BY <1>1, <1>2 DEF BlocksSound

(* Targets and the end of an instruction are addresses of code.             *)
LEMMA GoesOnToCode ==
    ASSUME NEW i \in Instructions, GoesOn(i)
    PROVE  eip' \in CodeAddresses
<1>1. Addresses \subseteq CodeAddresses
  BY MemoryAssumption DEF Addresses, CodeAddresses, End
<1> QED  BY <1>1, CodeAssumption DEF GoesOn, Instructions

LEMMA InstructionChange ==
    ASSUME Inv, Completes \/ Refused
    PROVE  ChangeOfMemory /\ \A p \in Pages : Executable(p) => Executable(p)'
<1>1. CASE UNCHANGED memoryVars
  BY <1>1, NoChange, InvParts
<1>2. CASE \E a \in Stores, values \in Written, complete \in BOOLEAN : Write(a, values, complete)
  BY <1>2, WriteChange, InvParts, CodeAssumption
<1> QED  BY <1>1, <1>2 DEF Completes, Refused

LEMMA HostChange ==
    ASSUME Inv, HostChangesMemory
    PROVE  ChangeOfMemory
BY MapChange, ProtectChange, UnmapChange, WriteChange, InvParts, CodeAssumption
   DEF HostChangesMemory

(* Steps that leave the caches alone and enter no block.                    *)
LEMMA CachesAlone ==
    ASSUME Inv, ChangeOfMemory, UNCHANGED <<decoded, blocks>>, ControlTypes',
           pc' \notin {"build", "run", "check"}
    PROVE  Inv'
<1>1. PartialSound' /\ RunningSound'
  BY DEF PartialSound, RunningSound
<1> QED  BY <1>1, InvParts, InvAfter, BlocksKept

LEMMA PlainStep ==
    ASSUME Inv, EndBatch \/ BlockIsGone \/ LeaveBlock \/ Resume \/ HostChangesMemory
    PROVE  Inv'
<1> USE InvParts DEF cacheVars, runVars
<1>1. 0 \in CodeAddresses /\ Targets \subseteq CodeAddresses
  BY MemoryAssumption, CodeAssumption DEF Addresses, CodeAddresses, End
<1>2. CASE EndBatch \/ LeaveBlock
  BY <1>2, NoChange, CachesAlone DEF EndBatch, LeaveBlock, ControlTypes
<1>3. CASE BlockIsGone
  BY <1>3, NoChange, CachesAlone DEF BlockIsGone, Raise, ControlTypes
<1>4. CASE Resume
  BY <1>1, <1>4, NoChange, CachesAlone DEF Resume, NoTrap, ControlTypes
<1>5. CASE HostChangesMemory
  <2>1. ChangeOfMemory
    BY <1>5, HostChange
  <2> QED  BY <1>5, <2>1, CachesAlone DEF HostChangesMemory, ControlTypes
<1> QED  BY <1>2, <1>3, <1>4, <1>5

(* A block found unchanged is sound at the current epoch.                   *)
LEMMA ValidatedSound ==
    ASSUME Inv, NEW a \in DOMAIN blocks, Changed(blocks[a].gens) = {},
           blocks' = Validated(a), UNCHANGED memoryVars
    PROVE  /\ BlockTypes(blocks') /\ BlocksSound'
           /\ a \in DOMAIN blocks' /\ blocks'[a].validated = executableEpoch
           /\ \A p \in Pages : blocks'[a].gens[p] # 0 => Executable(p)'
<1> DEFINE block == blocks[a]
<1>1. /\ block \in CachedBlock /\ Len(block.code) \in 1..MaxBlock
      /\ VouchesForAll(block.gens, block.code)
  BY InvParts DEF BlockTypes, BlocksSound
<1>2. executableEpoch \in Nat
  BY InvParts DEF MemoryOK, MemoryTypeOK
<1>3. /\ DOMAIN blocks' = DOMAIN blocks
      /\ blocks'[a] = [block EXCEPT !.validated = executableEpoch]
      /\ \A b \in DOMAIN blocks \ {a} : blocks'[b] = blocks[b]
      /\ blocks' = [b \in DOMAIN blocks |-> blocks'[b]]
  BY <1>1, InvParts DEF BlockTypes, Validated
<1>4. /\ blocks'[a] \in CachedBlock /\ blocks'[a].code = block.code
      /\ blocks'[a].gens = block.gens /\ blocks'[a].validated = executableEpoch
  BY <1>1, <1>2, <1>3 DEF CachedBlock
<1>5. BlockTypes(blocks')
  BY <1>1, <1>3, <1>4, InvParts DEF BlockTypes
<1>6. BlocksSound'
  <2> SUFFICES ASSUME NEW b \in DOMAIN blocks
               PROVE  /\ VouchesForAll(blocks'[b].gens, blocks'[b].code)
                      /\ blocks'[b].validated <= executableEpoch
                      /\ blocks'[b].validated = executableEpoch => Changed(blocks'[b].gens) = {}
    BY <1>3 DEF BlocksSound, VouchesForAll, Vouches, Changed, Executable, Mapped, memoryVars
  <2>1. CASE b = a
    BY <1>1, <1>2, <1>4, <2>1
  <2>2. CASE b # a
    <3>1. blocks'[b] = blocks[b]
      BY <1>3, <2>2
    <3>2. /\ VouchesForAll(blocks[b].gens, blocks[b].code)
          /\ blocks[b].validated <= executableEpoch
          /\ blocks[b].validated = executableEpoch => Changed(blocks[b].gens) = {}
      BY InvParts DEF BlocksSound
    <3> QED  BY <3>1, <3>2
  <2> QED  BY <2>1, <2>2
<1>7. \A p \in Pages : blocks'[a].gens[p] # 0 => Executable(p)'
  BY <1>4 DEF Changed, Executable, Mapped, memoryVars
<1> QED  BY <1>3, <1>4, <1>5, <1>6, <1>7

LEMMA EnterBlockStep ==
    ASSUME Inv, EnterBlock
    PROVE  Inv'
<1>1. eip \in DOMAIN blocks /\ Changed(blocks[eip].gens) = {}
  BY InvParts DEF EnterBlock, Validity, BlocksSound
<1>2. executableEpoch \in Nat /\ UNCHANGED memoryVars /\ ChangeOfMemory
  BY InvParts, NoChange DEF EnterBlock, MemoryOK, MemoryTypeOK
<1>3. /\ BlockTypes(blocks') /\ BlocksSound'
      /\ eip \in DOMAIN blocks' /\ blocks'[eip].validated = executableEpoch
      /\ \A p \in Pages : blocks'[eip].gens[p] # 0 => Executable(p)'
  BY <1>1, <1>2, ValidatedSound DEF EnterBlock
<1>4. ControlTypes' /\ PartialSound'
  BY <1>2, InvParts, CodeAssumption DEF EnterBlock, ControlTypes, PartialSound
<1>5. RunningSound'
  BY <1>2, <1>3 DEF EnterBlock, RunningSound, memoryVars
<1>6. decoded' = decoded
  BY DEF EnterBlock
<1> QED  BY <1>2, <1>3, <1>4, <1>5, <1>6, InvAfter, InvParts

LEMMA DropStaleBlockStep ==
    ASSUME Inv, DropStaleBlock
    PROVE  Inv'
<1>1. UNCHANGED memoryVars /\ ChangeOfMemory /\ decoded' = decoded
  BY InvParts, NoChange DEF DropStaleBlock
<1>2. /\ DOMAIN blocks' \subseteq DOMAIN blocks
      /\ \A b \in DOMAIN blocks' : blocks'[b] = blocks[b]
      /\ blocks' = [b \in DOMAIN blocks' |-> blocks'[b]]
  BY DEF DropStaleBlock, Without
<1>3. Cardinality(DOMAIN blocks') <= Cardinality(DOMAIN blocks)
  BY <1>2, InvParts, CodeAddressesAreFinite, FS_Subset DEF BlockTypes
<1>4. Cardinality(DOMAIN blocks') <= MaxBlocks
  BY <1>2, <1>3, InvParts, CodeAddressesAreFinite, CodeAssumption DEF BlockTypes
<1>5. BlockTypes(blocks')
  BY <1>2, <1>4, InvParts DEF BlockTypes
<1>6. BlocksSound'
  BY <1>1, <1>2, InvParts
     DEF BlocksSound, VouchesForAll, Vouches, Changed, Executable, Mapped, memoryVars
<1>7. ControlTypes' /\ PartialSound' /\ RunningSound'
  BY InvParts DEF DropStaleBlock, ControlTypes, PartialSound, RunningSound, runVars
<1> QED  BY <1>1, <1>5, <1>6, <1>7, InvAfter, InvParts

LEMMA CountEntryStep ==
    ASSUME Inv, CountEntry
    PROVE  Inv'
<1>1. UNCHANGED memoryVars /\ ChangeOfMemory /\ decoded' = decoded /\ blocks' = blocks
  BY InvParts, NoChange DEF CountEntry
<1>2. NoBlock \in [code : Seq(Instructions), next : CodeAddresses, gens : Generations]
  BY MemoryAssumption DEF NoBlock, Unrecorded, Generations, CodeAddresses, End
<1>3. hot' \in [CodeAddresses -> 0..2]
  BY InvParts DEF CountEntry, ControlTypes
<1>4. /\ partial' \in [code : Seq(Instructions), next : CodeAddresses, gens : Generations]
      /\ pc' \in {"step", "build"}
  BY <1>2, InvParts DEF CountEntry, ControlTypes
<1>5. ControlTypes'
  BY <1>3, <1>4, InvParts DEF CountEntry, ControlTypes
<1>6. PartialSound'
  <2> SUFFICES ASSUME pc' = "build"
               PROVE  /\ VouchesForAll(partial.gens, partial.code)'
                      /\ Changed(partial.gens)' = {}
                      /\ Len(partial'.code) < MaxBlock
    BY DEF PartialSound
  <2>1. partial'.code = <<>> /\ partial'.gens = Unrecorded
    BY DEF CountEntry, NoBlock
  <2>2. Changed(partial.gens)' = {}
    BY <2>1 DEF Changed, Unrecorded
  <2>3. DOMAIN partial'.code = {} /\ Len(partial'.code) = 0
    BY <2>1
  <2> QED  BY <2>2, <2>3, CodeAssumption DEF VouchesForAll
<1>7. RunningSound'
  BY <1>4 DEF RunningSound
<1> QED  BY <1>1, <1>5, <1>6, <1>7, InvAfter, InvParts, BlocksKept

-----------------------------------------------------------------------------
(* Building a block: the instruction that is decoded joins the others.      *)
LEMMA ExtendedSound ==
    ASSUME Inv, pc = "build", Decodes(partial.next)
    PROVE  /\ Extended \in [code : Seq(Instructions), next : CodeAddresses, gens : Generations]
           /\ VouchesForAll(Extended.gens, Extended.code)
           /\ Changed(Extended.gens) = {}
           /\ Len(Extended.code) = Len(partial.code) + 1 /\ Len(partial.code) \in Nat
           /\ Len(partial.code) < MaxBlock
<1> DEFINE i == Decoded(partial.next)
<1>1. /\ partial \in [code : Seq(Instructions), next : CodeAddresses, gens : Generations]
      /\ VouchesForAll(partial.gens, partial.code) /\ Changed(partial.gens) = {}
      /\ Len(partial.code) < MaxBlock
  BY InvParts DEF ControlTypes, PartialSound
<1>2. i \in Instructions /\ Runnable(i) /\ MemoryOK
  BY <1>1, InvParts, DecodedIsRunnable
<1> HIDE DEF i
<1>3. /\ RecordPages(partial.gens, i) \in Generations
      /\ Changed(RecordPages(partial.gens, i)) = {}
      /\ Vouches(RecordPages(partial.gens, i), i)
      /\ \A j \in Instructions :
            Vouches(partial.gens, j) => Vouches(RecordPages(partial.gens, i), j)
  BY <1>1, <1>2, RecordedPages
<1>4. NextIp(i) \in CodeAddresses
  BY <1>2 DEF Instructions
<1>5. Extended = [code |-> Append(partial.code, i), next |-> NextIp(i),
                  gens |-> RecordPages(partial.gens, i)]
  BY DEF Extended, i
<1>6. /\ Append(partial.code, i) \in Seq(Instructions)
      /\ Len(Append(partial.code, i)) = Len(partial.code) + 1
      /\ Len(partial.code) \in Nat
  BY <1>1, <1>2
<1>7. ASSUME NEW n \in DOMAIN Append(partial.code, i)
      PROVE  Vouches(RecordPages(partial.gens, i), Append(partial.code, i)[n])
  <2>1. CASE n \in DOMAIN partial.code
    <3>1. Append(partial.code, i)[n] = partial.code[n] /\ partial.code[n] \in Instructions
      BY <1>1, <1>2, <2>1
    <3> QED  BY <1>1, <1>3, <2>1, <3>1 DEF VouchesForAll
  <2>2. CASE n \notin DOMAIN partial.code
    <3>1. Append(partial.code, i)[n] = i
      BY <1>1, <1>2, <2>2
    <3> QED  BY <1>3, <3>1
  <2> QED  BY <2>1, <2>2
<1>8. VouchesForAll(Extended.gens, Extended.code)
  BY <1>5, <1>7 DEF VouchesForAll
<1> QED  BY <1>1, <1>3, <1>4, <1>5, <1>6, <1>8

LEMMA BuildMoreStep ==
    ASSUME Inv, BuildMore
    PROVE  Inv'
<1>1. UNCHANGED memoryVars /\ ChangeOfMemory /\ blocks' = blocks
  BY InvParts, NoChange DEF BuildMore
<1>2. partial.next \in CodeAddresses
  BY InvParts DEF ControlTypes
<1>3. DecodedTypes(decoded') /\ VouchedMap(decoded')
  BY <1>2, KeptDecoded DEF BuildMore, KeepDecoded
<1>4. /\ partial' \in [code : Seq(Instructions), next : CodeAddresses, gens : Generations]
      /\ VouchesForAll(partial'.gens, partial'.code) /\ Changed(partial'.gens) = {}
      /\ Len(partial'.code) = Len(partial.code) + 1 /\ Len(partial.code) \in Nat
      /\ Len(partial.code) < MaxBlock
  BY ExtendedSound DEF BuildMore
<1>5. Len(partial'.code) < MaxBlock
  BY <1>4, CodeAssumption DEF BuildMore, IsLast
<1>6. ControlTypes'
  BY <1>4, InvParts DEF BuildMore, ControlTypes
<1>7. PartialSound'
  BY <1>1, <1>4, <1>5
     DEF PartialSound, VouchesForAll, Vouches, Changed, Executable, Mapped, memoryVars
<1>8. RunningSound'
  BY DEF BuildMore, RunningSound
<1> QED  BY <1>1, <1>3, <1>6, <1>7, <1>8, InvAfter, BlocksKept

LEMMA BuildDoneStep ==
    ASSUME Inv, BuildDone
    PROVE  Inv'
<1> DEFINE block == [code |-> Extended.code, gens |-> Extended.gens,
                     validated |-> executableEpoch]
<1>1. UNCHANGED memoryVars /\ ChangeOfMemory /\ executableEpoch \in Nat
  BY InvParts, NoChange DEF BuildDone, MemoryOK, MemoryTypeOK
<1>2. partial.next \in CodeAddresses /\ eip \in CodeAddresses
  BY InvParts DEF ControlTypes
<1>3. DecodedTypes(decoded') /\ VouchedMap(decoded')
  BY <1>2, KeptDecoded DEF BuildDone, KeepDecoded
<1>4. /\ block \in CachedBlock /\ Len(block.code) \in 1..MaxBlock
      /\ VouchesForAll(block.gens, block.code) /\ Changed(block.gens) = {}
      /\ block.validated = executableEpoch
  BY <1>1, ExtendedSound, CodeAssumption DEF BuildDone, CachedBlock
<1>5. blocks' = Put(blocks, eip, block, MaxBlocks)
  BY DEF BuildDone
<1> HIDE DEF block
<1>6. /\ eip \in DOMAIN blocks' /\ blocks'[eip] = block
      /\ DOMAIN blocks' \subseteq CodeAddresses
      /\ blocks' = [c \in DOMAIN blocks' |-> blocks'[c]]
      /\ Cardinality(DOMAIN blocks') <= MaxBlocks
      /\ \A c \in DOMAIN blocks' \ {eip} : c \in DOMAIN blocks /\ blocks'[c] = blocks[c]
  BY <1>2, <1>5, PutWithin, InvParts, CodeAssumption DEF BlockTypes
<1>7. BlockTypes(blocks')
  BY <1>4, <1>6, InvParts DEF BlockTypes
<1>8. ASSUME NEW c \in DOMAIN blocks'
      PROVE  /\ VouchesForAll(blocks'[c].gens, blocks'[c].code)
             /\ blocks'[c].validated <= executableEpoch
             /\ blocks'[c].validated = executableEpoch => Changed(blocks'[c].gens) = {}
  <2>1. CASE c = eip
    BY <1>1, <1>4, <1>6, <2>1
  <2>2. CASE c # eip
    <3>1. c \in DOMAIN blocks /\ blocks'[c] = blocks[c]
      BY <1>6, <2>2
    <3> QED  BY <3>1, InvParts DEF BlocksSound
  <2> QED  BY <2>1, <2>2
<1>9. BlocksSound'
  BY <1>1, <1>8 DEF BlocksSound, VouchesForAll, Vouches, Changed, Executable, Mapped, memoryVars
<1>10. NoBlock \in [code : Seq(Instructions), next : CodeAddresses, gens : Generations]
  BY MemoryAssumption DEF NoBlock, Unrecorded, Generations, CodeAddresses, End
<1>11. hot' \in [CodeAddresses -> 0..2]
  BY InvParts DEF BuildDone, ControlTypes
<1>12. ControlTypes' /\ PartialSound'
  BY <1>1, <1>10, <1>11, InvParts, CodeAssumption DEF BuildDone, ControlTypes, PartialSound
<1>13. RunningSound'
  BY <1>1, <1>4, <1>6 DEF BuildDone, RunningSound, Changed, Executable, Mapped, memoryVars
<1> QED  BY <1>1, <1>3, <1>7, <1>9, <1>12, <1>13, InvAfter

(* An exception, whichever of the places it comes from.                     *)
LEMMA DecodeFaultStep ==
    ASSUME Inv, BuildFails \/ StepFails
    PROVE  Inv'
<1>1. UNCHANGED memoryVars /\ ChangeOfMemory /\ UNCHANGED <<decoded, blocks>>
  BY InvParts, NoChange DEF BuildFails, StepFails, cacheVars
<1>2. NoBlock \in [code : Seq(Instructions), next : CodeAddresses, gens : Generations]
  BY MemoryAssumption DEF NoBlock, Unrecorded, Generations, CodeAddresses, End
<1>3. ControlTypes' /\ pc' = "host"
  <2>1. \A a \in CodeAddresses : DecodeFault(a) \in {"access", "illegal"}
    BY DEF DecodeFault
  <2>2. CASE BuildFails
    BY <1>2, <2>1, <2>2, InvParts DEF BuildFails, Raise, ControlTypes, cacheVars
  <2>3. CASE StepFails
    BY <2>1, <2>3, InvParts DEF StepFails, Raise, ControlTypes, cacheVars, runVars
  <2> QED  BY <2>2, <2>3
<1> QED  BY <1>1, <1>3, CachesAlone

-----------------------------------------------------------------------------
(* Executing an instruction, outside a block and inside one.                *)
LEMMA StepStep ==
    ASSUME Inv, StepDone \/ StepRefused
    PROVE  Inv'
<1>1. eip \in CodeAddresses /\ Decodes(eip) /\ KeepDecoded(eip) /\ UNCHANGED <<blocks, hot, runVars>>
  BY InvParts DEF StepDone, StepRefused, ControlTypes
<1>2. DecodedTypes(decoded') /\ VouchedMap(decoded')
  BY <1>1, KeptDecoded DEF KeepDecoded
<1>3. ChangeOfMemory
  BY InstructionChange DEF StepDone, StepRefused
<1>4. Decoded(eip) \in Instructions
  BY <1>1, DecodedIsRunnable
<1>5. ControlTypes' /\ pc' \in {"fetch", "host"}
  BY <1>1, <1>4, GoesOnToCode, InvParts DEF StepDone, StepRefused, Raise, ControlTypes, runVars
<1>6. PartialSound' /\ RunningSound'
  BY <1>5 DEF PartialSound, RunningSound
<1> QED  BY <1>1, <1>2, <1>3, <1>5, <1>6, InvAfter, BlocksKept

LEMMA InBlockStep ==
    ASSUME Inv, ExecuteInBlock \/ RefusedInBlock
    PROVE  Inv'
<1>1. ChangeOfMemory /\ \A p \in Pages : Executable(p) => Executable(p)'
  BY InstructionChange DEF ExecuteInBlock, RefusedInBlock
<1>2. UNCHANGED <<decoded, blocks, hot, partial, running, seen>>
  BY DEF ExecuteInBlock, RefusedInBlock, cacheVars, runVars
<1>3. CASE RefusedInBlock
  <2>1. ControlTypes' /\ pc' = "host"
    BY <1>3, InvParts DEF RefusedInBlock, Raise, ControlTypes, cacheVars, runVars
  <2> QED  BY <1>1, <1>2, <2>1, CachesAlone
<1>4. CASE ExecuteInBlock
  <2>1. /\ pc = "run" /\ index \in DOMAIN Code /\ pc' = "check"
        /\ index' = index + 1 /\ GoesOn(Code[index]) /\ trap' = trap
    BY <1>4 DEF ExecuteInBlock, InBlock
  <2>2. /\ running \in DOMAIN blocks /\ blocks[running].validated = seen
        /\ \A p \in Pages : blocks[running].gens[p] # 0 => Executable(p)
    BY <2>1, InvParts DEF RunningSound
  <2>3. Code \in Seq(Instructions) /\ Len(Code) \in 1..MaxBlock
    BY <2>2, InvParts DEF Code, BlockTypes, CachedBlock
  <2>4. Code[index] \in Instructions /\ index \in 1..MaxBlock
    BY <2>1, <2>3, CodeAssumption
  <2>5. eip' \in CodeAddresses /\ index' \in 0..(MaxBlock + 1)
    BY <2>1, <2>4, GoesOnToCode, CodeAssumption
  <2>6. ControlTypes' /\ PartialSound'
    BY <1>2, <2>1, <2>5, InvParts DEF ControlTypes, PartialSound
  <2>7. RunningSound'
    BY <1>1, <1>2, <2>1, <2>2 DEF RunningSound
  <2> QED  BY <1>1, <1>2, <2>6, <2>7, InvParts, InvAfter, BlocksKept
<1> QED  BY <1>3, <1>4

(* The check after an instruction never meets a page that is gone.          *)
LEMMA RevalidateStep ==
    ASSUME Inv, Revalidate
    PROVE  Inv'
<1>1. /\ UNCHANGED memoryVars /\ ChangeOfMemory /\ executableEpoch \in Nat
      /\ UNCHANGED <<decoded, hot, eip, partial, running, index, trap>>
  BY InvParts, NoChange DEF Revalidate, MemoryOK, MemoryTypeOK
<1>2. /\ running \in DOMAIN blocks /\ blocks[running].validated = seen
      /\ \A p \in Pages : blocks[running].gens[p] # 0 => Executable(p)
  BY InvParts DEF Revalidate, RunningSound
<1>3. CASE executableEpoch = seen
  <2>1. pc' = "run" /\ UNCHANGED <<blocks, seen>>
    BY <1>3 DEF Revalidate
  <2>2. ControlTypes' /\ PartialSound'
    BY <1>1, <2>1, InvParts DEF ControlTypes, PartialSound
  <2>3. RunningSound'
    BY <1>1, <1>2, <1>3, <2>1 DEF RunningSound, Executable, Mapped, memoryVars
  <2> QED  BY <1>1, <2>1, <2>2, <2>3, InvParts, InvAfter, BlocksKept
<1>4. CASE executableEpoch # seen /\ Changed(blocks[running].gens) = {}
  <2>1. pc' = "run" /\ blocks' = Validated(running) /\ seen' = executableEpoch
    BY <1>4 DEF Revalidate, Validity
  <2>2. /\ BlockTypes(blocks') /\ BlocksSound'
        /\ running \in DOMAIN blocks' /\ blocks'[running].validated = executableEpoch
        /\ \A p \in Pages : blocks'[running].gens[p] # 0 => Executable(p)'
    BY <1>1, <1>2, <1>4, <2>1, ValidatedSound
  <2>3. ControlTypes' /\ PartialSound'
    BY <1>1, <2>1, InvParts DEF ControlTypes, PartialSound
  <2>4. RunningSound'
    BY <1>1, <2>1, <2>2 DEF RunningSound, memoryVars
  <2> QED  BY <1>1, <2>2, <2>3, <2>4, InvParts, InvAfter
<1>5. CASE executableEpoch # seen /\ Changed(blocks[running].gens) # {}
  <2>1. Validity(blocks[running]) = "stale"
    BY <1>2, <1>5 DEF Validity, Changed
  <2>2. pc' = "fetch" /\ UNCHANGED <<blocks, seen>>
    BY <1>5, <2>1 DEF Revalidate
  <2>3. ControlTypes'
    BY <1>1, <2>2, InvParts DEF ControlTypes
  <2> QED  BY <1>1, <2>2, <2>3, CachesAlone
<1> QED  BY <1>3, <1>4, <1>5

-----------------------------------------------------------------------------
LEMMA InvInit == Init => Inv
<1> SUFFICES ASSUME Init
             PROVE  Inv
  OBVIOUS
<1>1. 0 \in CodeAddresses /\ Targets \subseteq CodeAddresses
  BY MemoryAssumption, CodeAssumption DEF Addresses, CodeAddresses, End
<1>2. MemoryOK
  <2>1. PICK permissions \in [Pages -> Permissions] :
            page = [p \in Pages |-> [generation |-> p + 1, write |-> permissions[p].write,
                                     execute |-> permissions[p].execute]]
    BY CodeAssumption DEF Init
  <2>2. \A p \in Pages : p + 1 \in Nat /\ p + 1 < PageCount + 1
    BY MemoryAssumption DEF Pages
  <2>3. page \in [Pages -> Page] /\ GenerationsAreUsed
    BY <2>1, <2>2 DEF Page, Permissions, GenerationsAreUsed, Init
  <2> QED  BY <2>3, MemoryAssumption, CodeAssumption DEF MemoryOK, MemoryTypeOK, Init
<1>3. DOMAIN NoEntries = {} /\ NoEntries = [a \in DOMAIN NoEntries |-> NoEntries[a]]
  BY DEF NoEntries
<1>4. Cardinality({}) = 0
  BY FS_EmptySet
<1>5. DecodedTypes(decoded) /\ BlockTypes(blocks)
  BY <1>3, <1>4, CodeAssumption DEF DecodedTypes, BlockTypes, Init
<1>6. NoBlock \in [code : Seq(Instructions), next : CodeAddresses, gens : Generations]
  BY <1>1 DEF NoBlock, Unrecorded, Generations
<1>7. ControlTypes
  BY <1>1, <1>6, CodeAssumption DEF Init, ControlTypes, NoTrap
<1>8. DecodedSound /\ BlocksSound /\ PartialSound /\ RunningSound
  BY <1>3 DEF Init, DecodedSound, BlocksSound, PartialSound, RunningSound
<1> QED  BY <1>2, <1>5, <1>7, <1>8
         DEF Inv, TypeOK, CacheSound, MemoryOK, DecodedTypes, BlockTypes, ControlTypes

LEMMA InvNext ==
    ASSUME Inv, [Next]_vars
    PROVE  Inv'
<1>1. CASE Next
  BY <1>1, PlainStep, EnterBlockStep, DropStaleBlockStep, CountEntryStep, BuildMoreStep,
     BuildDoneStep, DecodeFaultStep, StepStep, InBlockStep, RevalidateStep DEF Next
<1>2. CASE UNCHANGED vars
  <2>1. UNCHANGED <<memoryVars, decoded, blocks, hot, pc, eip, partial, running, index, seen, trap>>
    BY <1>2 DEF vars
  <2>2. ChangeOfMemory
    BY <2>1, NoChange, InvParts
  <2>3. ControlTypes'
    BY <2>1, InvParts DEF ControlTypes
  <2>4. PartialSound' /\ RunningSound'
    BY <2>1, InvParts
       DEF PartialSound, RunningSound, VouchesForAll, Vouches, Changed, Executable, Mapped,
           memoryVars
  <2> QED  BY <2>1, <2>2, <2>3, <2>4, InvParts, InvAfter, BlocksKept
<1> QED  BY <1>1, <1>2

(* Types: the program counter, the caches within their capacities, blocks   *)
(* no longer than MAX_BLOCK_INSTRUCTIONS.                                   *)
THEOREM TypeCorrect == Spec => []TypeOK
<1>1. Inv => TypeOK
  BY DEF Inv
<1> QED  BY <1>1, InvInit, InvNext, PTL DEF Spec

(* What generations and epochs vouch for, always.                           *)
THEOREM CachesAreSound == Spec => []CacheSound
<1>1. Inv => CacheSound
  BY DEF Inv
<1> QED  BY <1>1, InvInit, InvNext, PTL DEF Spec

(* No Guest instruction runs from stale code.                               *)
THEOREM ExecutedCodeIsCurrent == Spec => []CodeIsCurrent
<1>1. ASSUME Inv, InBlock
      PROVE  Runnable(Code[index])
  <2>1. /\ running \in DOMAIN blocks /\ blocks[running].validated = executableEpoch
        /\ index \in DOMAIN blocks[running].code /\ Code = blocks[running].code
    BY <1>1, InvParts DEF InBlock, RunningSound, Code
  <2>2. /\ Changed(blocks[running].gens) = {}
        /\ Vouches(blocks[running].gens, blocks[running].code[index])
    BY <1>1, <2>1, InvParts DEF BlocksSound, VouchesForAll
  <2>3. blocks[running].code[index] \in Instructions
    BY <1>1, <2>1, InvParts DEF BlockTypes, CachedBlock
  <2> QED  BY <2>1, <2>2, <2>3, UnchangedIsRunnable
<1>2. ASSUME Inv, Hit(eip)
      PROVE  Runnable(decoded[eip].instruction)
  <2>1. eip \in DOMAIN decoded /\ Changed(decoded[eip].gens) = {}
    BY <1>2 DEF Hit
  <2>2. /\ Vouches(decoded[eip].gens, decoded[eip].instruction)
        /\ decoded[eip].instruction \in Instructions
    BY <1>2, <2>1, InvParts DEF VouchedMap, DecodedTypes, CachedInstruction
  <2> QED  BY <2>1, <2>2, UnchangedIsRunnable
<1>3. Inv => CodeIsCurrent
  BY <1>1, <1>2 DEF CodeIsCurrent
<1> QED  BY <1>3, InvInit, InvNext, PTL DEF Spec

(* A batch never ends with a Host error.                                    *)
THEOREM BatchesNeverFail == Spec => []BatchNeverFails
<1>1. Inv => BatchNeverFails
  BY DEF Inv, BatchNeverFails
<1> QED  BY <1>1, InvInit, InvNext, PTL DEF Spec
=============================================================================
