----------------------------- MODULE GuestMemory -----------------------------
(***************************************************************************)
(* Guest memory (vnrt-memory/src/lib.rs): pages that are mapped with        *)
(* permissions, and the two counters that let decoded code be cached.       *)
(* Every page carries a generation, fresh with every change of the page;    *)
(* the executable epoch moves with every change of an executable page.      *)
(*                                                                          *)
(* An address is a unit of memory as small as the models above need; a      *)
(* range is whole pages.  Both counters are u64 in the code and do not wrap *)
(* here: MaxGeneration bounds them.  The epoch is only ever compared for    *)
(* equality, so an operation that bumps it once per page bumps it once.     *)
(*                                                                          *)
(* The module has no behaviour of its own.  An operation that is refused    *)
(* leaves the state alone, except a write, which keeps the pages it has     *)
(* written before the one that refuses.                                     *)
(*                                                                          *)
(* Definitions headed "Wrong:" are faulty variants of the definition that   *)
(* follows them; nothing uses them but the tests of the properties.         *)
(***************************************************************************)
EXTENDS Integers, Sequences

CONSTANTS
    PageCount,      \* number of pages
    PageSize,       \* addresses in a page
    Values,         \* what an address can hold
    Zero,           \* what a fresh page holds
    MaxGeneration   \* bound on next_generation

ASSUME MemoryAssumption ==
    /\ PageCount \in Nat \ {0}
    /\ PageSize \in Nat \ {0}
    /\ Zero \in Values
    /\ MaxGeneration \in Nat

Pages == 0..(PageCount - 1)
Addresses == 0..(PageCount * PageSize - 1)

VARIABLES
    page,               \* page_directory without the contents
    bytes,              \* the contents
    nextGeneration,
    executableEpoch

memoryVars == <<page, bytes, nextGeneration, executableEpoch>>

PageOf(a) == a \div PageSize
PageStart(p) == p * PageSize
OnPage(p) == PageStart(p)..(PageStart(p) + PageSize - 1)

(* A page of generation 0 is not mapped: the first generation is 1.         *)
Permissions == [write: BOOLEAN, execute: BOOLEAN]
Page == [generation: Nat, write: BOOLEAN, execute: BOOLEAN]
Unmapped == [generation |-> 0, write |-> FALSE, execute |-> FALSE]

Mapped(p) == page[p].generation > 0
Executable(p) == Mapped(p) /\ page[p].execute
Writable(p) == Mapped(p) /\ page[p].write

MemoryTypeOK ==
    /\ page \in [Pages -> Page]
    /\ bytes \in [Addresses -> Values]
    /\ nextGeneration \in Nat \ {0}
    /\ executableEpoch \in Nat \ {0}

Ranges == {r \in Pages \X Pages : r[1] <= r[2]}
Within(p, r) == r[1] <= p /\ p <= r[2]

(* The generations a change of the pages of r hands out.                    *)
Fresh(p, r) == nextGeneration + p - r[1]
Advance(pages) ==
    /\ nextGeneration + pages <= MaxGeneration
    /\ nextGeneration' = nextGeneration + pages

(* The epoch moves if an executable page was touched.                       *)
Bump(touched) == executableEpoch' = executableEpoch + (IF touched THEN 1 ELSE 0)

-----------------------------------------------------------------------------
MapRange(r, permissions) ==
    /\ \A p \in Pages : Within(p, r) => ~Mapped(p)
    /\ page' = [p \in Pages |->
          IF Within(p, r) THEN [generation |-> Fresh(p, r), write |-> permissions.write,
                                execute |-> permissions.execute]
          ELSE page[p]]
    /\ bytes' = [a \in Addresses |-> IF Within(PageOf(a), r) THEN Zero ELSE bytes[a]]
    /\ Advance(r[2] - r[1] + 1)
    /\ Bump(permissions.execute)

(* Wrong: only the new permissions count as executable.                     *)
ProtectRangeForgetsOld(r, permissions) ==
    /\ \A p \in Pages : Within(p, r) => Mapped(p)
    /\ page' = [p \in Pages |->
          IF Within(p, r) THEN [generation |-> Fresh(p, r), write |-> permissions.write,
                                execute |-> permissions.execute]
          ELSE page[p]]
    /\ Advance(r[2] - r[1] + 1)
    /\ Bump(permissions.execute)
    /\ UNCHANGED bytes

ProtectRange(r, permissions) ==
    /\ \A p \in Pages : Within(p, r) => Mapped(p)
    /\ page' = [p \in Pages |->
          IF Within(p, r) THEN [generation |-> Fresh(p, r), write |-> permissions.write,
                                execute |-> permissions.execute]
          ELSE page[p]]
    /\ Advance(r[2] - r[1] + 1)
    /\ Bump(permissions.execute \/ \E p \in Pages : Within(p, r) /\ Executable(p))
    /\ UNCHANGED bytes

UnmapRange(r) ==
    /\ \A p \in Pages : Within(p, r) => Mapped(p)
    /\ page' = [p \in Pages |-> IF Within(p, r) THEN Unmapped ELSE page[p]]
    /\ Bump(\E p \in Pages : Within(p, r) /\ Executable(p))
    /\ UNCHANGED <<bytes, nextGeneration>>

(* A write of the sequence values at a goes page by page and stops at the   *)
(* first page that refuses; every page it tries takes a generation.         *)
LastOf(a, values) == a + Len(values) - 1

StopsAt(p, a, values) ==
    /\ PageOf(a) <= p /\ p <= PageOf(LastOf(a, values))
    /\ \A q \in PageOf(a)..(p - 1) : Writable(q)
    /\ p = PageOf(LastOf(a, values)) \/ ~Writable(p)

(* Wrong: the epoch stays when the page is executable.                      *)
WriteKeepsEpoch(a, values, complete) ==
    /\ LastOf(a, values) \in Addresses
    /\ \E stop \in Pages :
          LET written(p) == PageOf(a) <= p /\ p <= stop /\ Writable(p) IN
          /\ StopsAt(stop, a, values)
          /\ complete = Writable(stop)
          /\ bytes' = [c \in Addresses |->
                IF c \in a..LastOf(a, values) /\ written(PageOf(c)) THEN values[c - a + 1]
                ELSE bytes[c]]
          /\ page' = [p \in Pages |->
                IF written(p) THEN [page[p] EXCEPT !.generation = nextGeneration + p - PageOf(a)]
                ELSE page[p]]
          /\ Advance(stop - PageOf(a) + 1)
          /\ UNCHANGED executableEpoch

Write(a, values, complete) ==
    /\ LastOf(a, values) \in Addresses
    /\ \E stop \in Pages :
          LET written(p) == PageOf(a) <= p /\ p <= stop /\ Writable(p) IN
          /\ StopsAt(stop, a, values)
          /\ complete = Writable(stop)
          /\ bytes' = [c \in Addresses |->
                IF c \in a..LastOf(a, values) /\ written(PageOf(c)) THEN values[c - a + 1]
                ELSE bytes[c]]
          /\ page' = [p \in Pages |->
                IF written(p) THEN [page[p] EXCEPT !.generation = nextGeneration + p - PageOf(a)]
                ELSE page[p]]
          /\ Advance(stop - PageOf(a) + 1)
          /\ Bump(\E p \in Pages : written(p) /\ Executable(p))
=============================================================================
