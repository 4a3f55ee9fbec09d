---------------------------- MODULE AddressSpace ----------------------------
(***************************************************************************)
(* Who owns which guest pages: the PE image and the start-up structures     *)
(* (loader.rs, process.rs), the heaps, which share one arena, and the       *)
(* regions of VirtualAlloc (allocation.rs), and the stack, TEB and TLS page *)
(* of every worker thread (threads.rs), all mapped in one GuestMemory.      *)
(*                                                                          *)
(* Pages are numbered; heap addresses are in units as fine as HeaderSize.   *)
(* What is kept of a page is its permissions (see GuestMemory for the rest).*)
(* A call that the code refuses with an error other than a return value     *)
(* ends the run of the guest, so it is no step here.                        *)
(*                                                                          *)
(* Definitions headed "Wrong:" are faulty variants of the definition that   *)
(* follows them; nothing uses them but the tests of the properties.         *)
(***************************************************************************)
EXTENDS Integers, FiniteSets, FiniteSetsExt

CONSTANTS
    PageCount,          \* pages of the address space
    PageSize,           \* PAGE_SIZE_U32
    Granularity,        \* HEAP_ALLOCATION_GRANULARITY
    HeaderSize,         \* the 16 bytes before the first block
    HeapBase, HeapLimit,        \* pages of GUEST_HEAP_BASE and _LIMIT
    VirtualLimit,               \* GUEST_VIRTUAL_LIMIT; its base is HeapLimit
    StackBase, StackPages,      \* GUEST_STACK_BASE and _SIZE
    TebBase,                    \* GUEST_TEB_BASE, with the PEB above it
    WorkerStackPages,           \* WORKER_STACK_SIZE
    WorkerTlsBase,              \* WORKER_TLS_REGION_BASE
    HostModules,                \* pages of the host module images
    ProcessData,                \* pages of process data and static TLS
    MaxThreads                  \* MAX_GUEST_THREADS

(* The inputs that are tried, and the bound on the length of a behaviour.   *)
CONSTANTS Images, BlockSizes, Maximums, PageRuns, Protections, MaxCalls

Pages == 0..(PageCount - 1)

Permissions == [read: BOOLEAN, write: BOOLEAN, execute: BOOLEAN]
READ_WRITE == [read |-> TRUE, write |-> TRUE, execute |-> FALSE]
READ == [read |-> TRUE, write |-> FALSE, execute |-> FALSE]
ALL == [read |-> TRUE, write |-> TRUE, execute |-> TRUE]

(* The layout the constants of lib.rs and threads.rs have in common.        *)
ASSUME LayoutAssumption ==
    /\ {PageCount, PageSize, Granularity, HeaderSize, HeapBase, HeapLimit} \subseteq Nat
    /\ {VirtualLimit, StackBase, TebBase, WorkerStackPages, WorkerTlsBase} \subseteq Nat
    /\ PageSize > 0 /\ Granularity > 0 /\ HeaderSize > 0 /\ HeaderSize < PageSize
    /\ WorkerStackPages > 0 /\ StackPages \in Nat
    /\ HeapBase < HeapLimit /\ HeapLimit < VirtualLimit /\ VirtualLimit <= StackBase
    /\ MaxThreads \in Nat /\ MaxCalls \in Nat
    /\ BlockSizes \subseteq Nat /\ Maximums \subseteq Nat /\ PageRuns \subseteq Nat \ {0}
    /\ ProcessData \subseteq Nat /\ HostModules \subseteq Nat
    /\ Images \subseteq SUBSET Nat /\ Protections \subseteq Permissions

(* However many worker threads there is room for below the first stack,     *)
(* their TLS pages end below the heaps and their TEBs begin above the       *)
(* regions (56 of them, with the constants of lib.rs and threads.rs).       *)
ASSUME WorkersAssumption ==
    /\ WorkerTlsBase <= HeapBase /\ StackBase <= TebBase
    /\ \A index \in 0..(StackBase - VirtualLimit) :
          VirtualLimit + index * WorkerStackPages < StackBase =>
              WorkerTlsBase + index < HeapBase /\ TebBase - (index + 1) >= VirtualLimit

VARIABLES
    image,          \* pages of the PE image
    protection,     \* permissions of the mapped pages
    arena,          \* GuestHeapArena: cursor, and the first page not mapped
    heaps,          \* the live heaps: maximum_size (0: none), executable
    allocations,    \* the blocks of all heaps
    nextHeap,       \* next_handle
    globals,        \* global_allocations: lock count by address
    regions,        \* the regions of GuestRegionAllocator by first page
    nextRegion,     \* its next
    workers,        \* the worker threads that were created
    nextWorker,     \* next_worker_index
    guestChanged,   \* history: pages whose permissions the guest has chosen
    freed,          \* history: addresses of blocks that are no more
    calls           \* number of calls so far

heapVars == <<arena, heaps, allocations, nextHeap, globals>>
regionVars == <<regions, nextRegion>>
threadVars == <<workers, nextWorker>>
vars == <<image, protection, heapVars, regionVars, threadVars, guestChanged, freed, calls>>

Mapped == DOMAIN protection
ProcessHeap == 0

MapPages(pages, permissions) ==
    [p \in Mapped \cup pages |-> IF p \in pages THEN permissions ELSE protection[p]]

-----------------------------------------------------------------------------
(* Start-up maps the image at its preferred base and everything else at     *)
(* fixed places; an image in the way of one of them is not loaded.  It may  *)
(* lie where nothing is mapped yet: in the range of the heaps, of the       *)
(* regions or of the worker threads.                                        *)
StartupPages ==
    HostModules \cup ProcessData \cup StackBase..(StackBase + StackPages - 1)
        \cup {TebBase, TebBase + 1}

Init ==
    /\ image \in {i \in Images : i \cap StartupPages = {}}
    /\ protection = [p \in image \cup StartupPages |->
                        IF p \in image \cup HostModules THEN READ ELSE READ_WRITE]
    /\ arena = [cursor |-> HeapBase * PageSize + HeaderSize, mappedEnd |-> HeapBase]
    /\ heaps = [h \in {ProcessHeap} |-> [maximum |-> 0, executable |-> FALSE]]
    /\ allocations = {}
    /\ nextHeap = ProcessHeap + 1
    /\ globals = [a \in {} |-> 0]
    /\ regions = [b \in {} |-> 0]
    /\ nextRegion = HeapLimit
    /\ workers = {}
    /\ nextWorker = 0
    /\ guestChanged = {}
    /\ freed = {}
    /\ calls = 0

-----------------------------------------------------------------------------
(* The arena: blocks one after the other, pages mapped as they are reached. *)
AlignUp(value, alignment) == ((value + alignment - 1) \div alignment) * alignment
PageOf(address) == address \div PageSize

(* Wrong: a request for nothing takes no room.                              *)
AllocationSizeOfNothing(size) == AlignUp(size, Granularity)

AllocationSize(size) == AlignUp(IF size = 0 THEN 1 ELSE size, Granularity)

ArenaEnd(size) == arena.cursor + AllocationSize(size)

(* Wrong: the page the block ends in is not counted.                        *)
RequiredEndRoundsDown(size) == PageOf(ArenaEnd(size))

RequiredEnd(size) == PageOf(AlignUp(ArenaEnd(size), PageSize))

NewPages(size) == arena.mappedEnd..(RequiredEnd(size) - 1)

(* Wrong: the page that the block shares with earlier ones is not protected.*)
ExecutablePagesNewOnly(size) == NewPages(size)

ExecutablePages(size) == PageOf(arena.cursor)..(RequiredEnd(size) - 1)

ArenaAllocate(size, executable) ==
    /\ ArenaEnd(size) <= HeapLimit * PageSize
    /\ NewPages(size) \cap Mapped = {}
    /\ protection' = [p \in Mapped \cup NewPages(size) |->
          IF executable /\ p \in ExecutablePages(size) THEN ALL
          ELSE IF p \in NewPages(size) THEN READ_WRITE
          ELSE protection[p]]
    /\ arena' = [cursor |-> ArenaEnd(size),
                 mappedEnd |-> IF RequiredEnd(size) > arena.mappedEnd THEN RequiredEnd(size)
                               ELSE arena.mappedEnd]

-----------------------------------------------------------------------------
(* Heaps.                                                                   *)
Insert(h, address, size, kept) == kept \cup {[heap |-> h, address |-> address, size |-> size]}

TotalSize(blocks) == MapThenSumSet(LAMBDA b : b.size, blocks)
BlocksOf(h) == {b \in allocations : b.heap = h}
LiveSize(h) == TotalSize(BlocksOf(h))

EnsureCapacity(h, replaced, requested) ==
    \/ heaps[h].maximum = 0
    \/ LiveSize(h) - replaced + requested <= heaps[h].maximum

HeapCreate(initial, maximum, executable) ==
    /\ maximum # 0 => initial <= maximum
    /\ heaps' = [h \in DOMAIN heaps \cup {nextHeap} |->
          IF h = nextHeap THEN [maximum |-> maximum, executable |-> executable] ELSE heaps[h]]
    /\ nextHeap' = nextHeap + 1
    /\ UNCHANGED <<protection, arena, allocations, globals, regionVars, threadVars, guestChanged>>

HeapDestroy(h) ==
    /\ h # ProcessHeap
    /\ heaps' = [g \in DOMAIN heaps \ {h} |-> heaps[g]]
    /\ allocations' = {b \in allocations : b.heap # h}
    /\ UNCHANGED <<protection, arena, nextHeap, globals, regionVars, threadVars, guestChanged>>

HeapAllocate(h, size) ==
    /\ EnsureCapacity(h, 0, size)
    /\ ArenaAllocate(size, heaps[h].executable)
    /\ allocations' = Insert(h, arena.cursor, size, allocations)

HeapAlloc(h, size) ==
    /\ HeapAllocate(h, size)
    /\ UNCHANGED <<heaps, nextHeap, globals, regionVars, threadVars, guestChanged>>

(* The pages of [address, address + size) that the guest can read or write. *)
PagesOfBytes(address, size) ==
    IF size = 0 THEN {} ELSE PageOf(address)..PageOf(address + size - 1)
IsMemoryReadable(address, size) ==
    \A p \in PagesOfBytes(address, size) : p \in Mapped /\ protection[p].read
IsMemoryWritable(address, size) ==
    \A p \in PagesOfBytes(address, size) : p \in Mapped /\ protection[p].write
IsMemoryExecutable(address) ==
    PageOf(address) \in Mapped /\ protection[PageOf(address)].execute

Smaller(m, n) == IF m < n THEN m ELSE n

(* Wrong: the room of the new block is credited instead of that of the old. *)
HeapReAllocCreditsNew(h, b, size) ==
    /\ EnsureCapacity(h, size, size)
    /\ ArenaAllocate(size, heaps[h].executable)
    /\ IsMemoryReadable(b.address, Smaller(b.size, size))
    /\ allocations' = Insert(h, arena.cursor, size, allocations \ {b})
    /\ UNCHANGED <<heaps, nextHeap, globals, regionVars, threadVars, guestChanged>>

(* A block always moves; the copy needs the old bytes to be readable (the   *)
(* new ones are writable unless the guest has protected their page, which   *)
(* the arena does not undo).                                                *)
HeapReAlloc(h, b, size) ==
    /\ EnsureCapacity(h, b.size, size)
    /\ ArenaAllocate(size, heaps[h].executable)
    /\ IsMemoryReadable(b.address, Smaller(b.size, size))
    /\ \A p \in PagesOfBytes(arena.cursor, Smaller(b.size, size)) : protection'[p].write
    /\ allocations' = Insert(h, arena.cursor, size, allocations \ {b})
    /\ UNCHANGED <<heaps, nextHeap, globals, regionVars, threadVars, guestChanged>>

(* Wrong: the arena takes the last block back.                              *)
HeapFreeReuses(h, b) ==
    /\ allocations' = allocations \ {b}
    /\ arena' = IF b.address + AllocationSize(b.size) = arena.cursor
                THEN [arena EXCEPT !.cursor = b.address] ELSE arena
    /\ UNCHANGED <<protection, heaps, nextHeap, globals, regionVars, threadVars, guestChanged>>

HeapFree(h, b) ==
    /\ allocations' = allocations \ {b}
    /\ UNCHANGED <<protection, arena, heaps, nextHeap, globals, regionVars, threadVars,
                   guestChanged>>

LocalAlloc(size) == HeapAlloc(ProcessHeap, size)
LocalFree(b) == b.heap = ProcessHeap /\ HeapFree(ProcessHeap, b)

(* GlobalAlloc blocks are process heap blocks with a lock count beside them,*)
(* which HeapFree and LocalFree leave behind.                               *)
GlobalAlloc(size) ==
    /\ HeapAllocate(ProcessHeap, size)
    /\ globals' = [a \in DOMAIN globals \cup {arena.cursor} |->
          IF a = arena.cursor THEN 0 ELSE globals[a]]
    /\ UNCHANGED <<heaps, nextHeap, regionVars, threadVars, guestChanged>>

GlobalLock(a) ==
    /\ globals' = [globals EXCEPT ![a] = @ + 1]
    /\ UNCHANGED <<protection, arena, heaps, allocations, nextHeap, regionVars, threadVars,
                   guestChanged>>

(* Wrong: a handle that is not locked is unlocked.                          *)
GlobalUnlockAnyway(a) ==
    /\ globals' = [globals EXCEPT ![a] = @ - 1]
    /\ UNCHANGED <<protection, arena, heaps, allocations, nextHeap, regionVars, threadVars,
                   guestChanged>>

GlobalUnlock(a) ==
    /\ globals[a] > 0
    /\ globals' = [globals EXCEPT ![a] = @ - 1]
    /\ UNCHANGED <<protection, arena, heaps, allocations, nextHeap, regionVars, threadVars,
                   guestChanged>>

(* The handle goes first; then the block, unless HeapFree has freed it.     *)
GlobalFree(a) ==
    /\ globals' = [g \in DOMAIN globals \ {a} |-> globals[g]]
    /\ allocations' = {b \in allocations : ~(b.heap = ProcessHeap /\ b.address = a)}
    /\ UNCHANGED <<protection, arena, heaps, nextHeap, regionVars, threadVars, guestChanged>>

-----------------------------------------------------------------------------
(* Regions of VirtualAlloc, in whole pages.                                 *)
Run(first, n) == first..(first + n - 1)

(* Wrong: the pages are not looked at.                                      *)
ReserveBlindly(n) == nextRegion + n <= VirtualLimit

Reserve(n) ==
    /\ nextRegion + n <= VirtualLimit
    /\ Run(nextRegion, n) \cap Mapped = {}

AddRegion(n, committed) ==
    /\ regions' = [b \in DOMAIN regions \cup {nextRegion} |->
          IF b = nextRegion THEN [size |-> n, committed |-> committed] ELSE regions[b]]
    /\ nextRegion' = nextRegion + n
    /\ UNCHANGED <<heapVars, threadVars, guestChanged>>

VirtualReserve(n) ==
    /\ Reserve(n)
    /\ AddRegion(n, {})
    /\ UNCHANGED protection

VirtualAlloc(n, permissions) ==
    /\ Reserve(n)
    /\ AddRegion(n, Run(nextRegion, n))
    /\ protection' = MapPages(Run(nextRegion, n), permissions)

(* Wrong: only the start has to lie in the region.                          *)
InRegionAtStart(b, first, n) ==
    /\ b <= first /\ first < b + regions[b].size

InRegion(b, first, n) ==
    /\ b <= first /\ first + n <= b + regions[b].size
    /\ \A c \in DOMAIN regions : c <= first => c <= b

VirtualCommit(b, first, n, permissions) ==
    /\ InRegion(b, first, n)
    /\ (Run(first, n) \ regions[b].committed) \cap Mapped = {}
    /\ Run(first, n) \cap regions[b].committed \subseteq Mapped
    /\ regions' = [regions EXCEPT ![b].committed = @ \cup Run(first, n)]
    /\ protection' = MapPages(Run(first, n), permissions)
    /\ UNCHANGED <<heapVars, nextRegion, threadVars, guestChanged>>

VirtualFree(b) ==
    /\ regions[b].committed \subseteq Mapped
    /\ protection' = [p \in Mapped \ regions[b].committed |-> protection[p]]
    /\ regions' = [c \in DOMAIN regions \ {b} |-> regions[c]]
    /\ UNCHANGED <<heapVars, nextRegion, threadVars, guestChanged>>

(* Any mapped pages will do, those of heaps and images too.                 *)
VirtualProtect(first, n, permissions) ==
    /\ Run(first, n) \subseteq Mapped
    /\ protection' = MapPages(Run(first, n), permissions)
    /\ guestChanged' = guestChanged \cup Run(first, n)
    /\ UNCHANGED <<heapVars, regionVars, threadVars>>

-----------------------------------------------------------------------------
(* Worker threads: an index picks the place of the stack, the TEB and the   *)
(* TLS page.  It is used up even if CreateThread fails, and a mapping made  *)
(* before the one that fails stays.                                         *)
StackOf(index, n) == Run(VirtualLimit + index * WorkerStackPages, n)
TebOf(index) == {TebBase - (index + 1)}
TlsOf(index) == {WorkerTlsBase + index}

StackFits(index, n) == VirtualLimit + index * WorkerStackPages + n <= StackBase

(* What a CreateThread maps.                                                *)
MapWorker(index, n) ==
    IF ~StackFits(index, n) \/ StackOf(index, n) \cap Mapped # {} THEN {}
    ELSE IF TebOf(index) \cap Mapped # {} THEN StackOf(index, n)
    ELSE IF TlsOf(index) \cap Mapped # {} THEN StackOf(index, n) \cup TebOf(index)
    ELSE StackOf(index, n) \cup TebOf(index) \cup TlsOf(index)

CreateThread(n) ==
    LET made == MapWorker(nextWorker, n)
        whole == StackOf(nextWorker, n) \cup TebOf(nextWorker) \cup TlsOf(nextWorker)
    IN
    /\ Cardinality(workers) + 1 < MaxThreads
    /\ nextWorker' = nextWorker + 1
    /\ protection' = MapPages(made, READ_WRITE)
    /\ workers' = IF made = whole THEN workers \cup {[index |-> nextWorker, pages |-> made]}
                  ELSE workers
    /\ UNCHANGED <<heapVars, regionVars, guestChanged>>

-----------------------------------------------------------------------------
HeapCall ==
    \/ \E initial \in BlockSizes, maximum \in Maximums, executable \in BOOLEAN :
          HeapCreate(initial, maximum, executable)
    \/ \E h \in DOMAIN heaps : HeapDestroy(h)
    \/ \E h \in DOMAIN heaps, size \in BlockSizes : HeapAlloc(h, size)
    \/ \E b \in allocations, size \in BlockSizes : HeapReAlloc(b.heap, b, size)
    \/ \E b \in allocations : HeapFree(b.heap, b)
    \/ \E size \in BlockSizes : LocalAlloc(size)
    \/ \E b \in allocations : LocalFree(b)

GlobalCall ==
    \/ \E size \in BlockSizes : GlobalAlloc(size)
    \/ \E a \in DOMAIN globals : GlobalLock(a)
    \/ \E a \in DOMAIN globals : GlobalUnlock(a)
    \/ \E a \in DOMAIN globals : GlobalFree(a)

VirtualCall ==
    \/ \E n \in PageRuns : VirtualReserve(n)
    \/ \E n \in PageRuns, permissions \in Protections : VirtualAlloc(n, permissions)
    \/ \E b \in DOMAIN regions, first \in HeapLimit..VirtualLimit, n \in PageRuns,
          permissions \in Protections : VirtualCommit(b, first, n, permissions)
    \/ \E b \in DOMAIN regions : VirtualFree(b)
    \/ \E first \in HeapBase..VirtualLimit, n \in PageRuns, permissions \in Protections :
          VirtualProtect(first, n, permissions)

ThreadCall == \E n \in PageRuns : CreateThread(n)

Next ==
    /\ calls < MaxCalls
    /\ calls' = calls + 1
    /\ UNCHANGED image
    /\ HeapCall \/ GlobalCall \/ VirtualCall \/ ThreadCall
    /\ freed' = freed \cup ({b.address : b \in allocations} \ {b.address : b \in allocations'})

Spec == Init /\ [][Next]_vars

-----------------------------------------------------------------------------
Blocks == [heap: Nat, address: Nat, size: Nat]

(* Every variable has its type.                                             *)
TypeOK ==
    /\ Mapped \subseteq Nat /\ \A p \in Mapped : protection[p] \in Permissions
    /\ arena \in [cursor: Nat, mappedEnd: Nat]
    /\ nextHeap \in Nat /\ DOMAIN heaps \subseteq 0..(nextHeap - 1) /\ ProcessHeap \in DOMAIN heaps
    /\ allocations \subseteq Blocks
    /\ \A a \in DOMAIN globals : globals[a] \in Nat
    /\ nextRegion \in HeapLimit..VirtualLimit
    /\ nextWorker \in Nat /\ calls \in 0..MaxCalls
    /\ image \subseteq Nat /\ guestChanged \subseteq Nat /\ freed \subseteq Nat

(* No two live blocks, of whatever heaps, share a byte, and a block of no   *)
(* bytes has an address of its own: reallocation, which copies, and every   *)
(* guest that frees by address depend on it (GuestHeapArena::allocate).     *)
Bytes(b) == b.address..(b.address + (IF b.size = 0 THEN 1 ELSE b.size) - 1)
BlocksDisjoint == \A b, c \in allocations : b # c => Bytes(b) \cap Bytes(c) = {}

(* A block that was freed, moved or went with its heap never comes back at  *)
(* its address: a stale pointer or GlobalAlloc handle is refused for ever,  *)
(* and never names another's block.                                         *)
FreedStaysFree == freed \cap {b.address : b \in allocations} = {}

(* Every page in use has one owner and is mapped: start-up and image, the   *)
(* arena up to the page it has reached, the committed pages of each region, *)
(* and each worker thread; and every block lies in the arena.  What one of  *)
(* them maps, unmaps or fails to map is never another's.                    *)
Owners ==
    {[kind |-> "start-up", id |-> 0, pages |-> StartupPages],
     [kind |-> "image", id |-> 0, pages |-> image],
     [kind |-> "arena", id |-> 0, pages |-> HeapBase..(arena.mappedEnd - 1)]}
    \cup {[kind |-> "region", id |-> b, pages |-> regions[b].committed] : b \in DOMAIN regions}
    \cup {[kind |-> "worker", id |-> w.index, pages |-> w.pages] : w \in workers}

PagesHaveOneOwner ==
    /\ \A o, q \in Owners : o # q => o.pages \cap q.pages = {}
    /\ \A o \in Owners : o.pages \subseteq Mapped
    /\ \A b \in allocations : PagesOfBytes(b.address, b.size) \subseteq HeapBase..(arena.mappedEnd - 1)

(* Regions are disjoint, inside their range, and the mapped pages of a      *)
(* region are its committed ones: VirtualFree, which fails halfway if it    *)
(* finds one of them unmapped, never does, and leaves none behind.          *)
RegionsMatchMemory ==
    \A b \in DOMAIN regions :
        /\ b + regions[b].size <= nextRegion
        /\ regions[b].committed = Run(b, regions[b].size) \cap Mapped
        /\ \A c \in DOMAIN regions : b < c => b + regions[b].size <= c

(* A block of a heap made with HEAP_CREATE_ENABLE_EXECUTE can be executed   *)
(* and every block written, also on pages that blocks of other heaps share, *)
(* until the guest protects the page itself.                                *)
BlocksAreUsable ==
    \A b \in allocations :
        PagesOfBytes(b.address, b.size) \cap guestChanged = {} =>
            /\ IsMemoryWritable(b.address, b.size)
            /\ IsMemoryReadable(b.address, b.size)
            /\ b.size > 0 /\ heaps[b.heap].executable =>
                  \A a \in Bytes(b) : IsMemoryExecutable(a)

(* The live blocks of a heap never exceed its maximum, reallocation, which  *)
(* holds two blocks at once, included.                                      *)
HeapsWithinMaximum ==
    \A h \in DOMAIN heaps : heaps[h].maximum = 0 \/ LiveSize(h) <= heaps[h].maximum

(* Pages: one owner each, and the tables of the regions agree with them.    *)
PagesAccountedFor == PagesHaveOneOwner /\ RegionsMatchMemory

(* Blocks: apart, never given twice, usable, and within their heap.         *)
BlocksKeepApart == BlocksDisjoint /\ FreedStaysFree /\ BlocksAreUsable /\ HeapsWithinMaximum

(* Does not hold, and is checked by no run:                                 *)
(* "Region reserved for worker stacks (below the initial thread stack)"     *)
(* (threads.rs): the place of the next worker's stack holds nothing that    *)
(* start-up has mapped there.                                               *)
NextStackIsFree ==
    StackFits(nextWorker, WorkerStackPages) =>
        StackOf(nextWorker, WorkerStackPages) \cap StartupPages = {}
=============================================================================
