# Verification of VNRT

VNRT runs 32-bit Windows visual novels: it loads a PE image, interprets its
x86 code, and answers its Win32 calls from Rust.  This directory holds TLA+
models of its runtime, the TLC configurations that check them, and proofs for
TLAPS.  Paths such as `threads.rs` are under `src/crates/vnrt-runtime/src/`
unless they name another crate.

## Inventory

One host thread runs everything: it interprets the current guest thread until
that makes a host call, raises an exception, or returns to an address the
runtime put on its stack.  A host call runs to completion.  What is hard is
therefore not data races but *protocols*: state left behind by one call that a
later call, perhaps of another guest thread, relies on; loops that fail in the
middle; and guest code that runs inside a host call.

| part | state | operations | what makes it correct |
|---|---|---|---|
| kernel objects (`objects.rs`) | events, mutexes, names, reference counts | create/open, set/reset, release, close | names and objects agree; a free mutex has no owner |
| guest threads (`threads.rs`, `host_context.rs`, kernel32) | states, pending waits, results, saved contexts | create, resume, park, wake, switch, exit | no lost wake-up, one running thread, "no runnable thread" only in a deadlock |
| run loop (`lib.rs`) | eip, suspended host calls, exit code, budget | interpret, dispatch, resume at a sentinel | suspended calls match the guest stack; an exit is reported |
| structured exceptions (`exceptions.rs`) | the pending exception | dispatch, next handler, continue | nested only when nested |
| loading and start-up (`vnrt-pe`, `loader.rs`, `process.rs`) | image, host modules, thunks, TLS block | map, bind, export, protect, callbacks, entry point | an address leads to the API it was got for; callbacks first |
| thread-local state (`objects.rs`, `threads.rs`, kernel32) | last error, TLS slots, critical sections | alloc, free, get, set, enter, leave | a thread sees its own |
| guest memory (`vnrt-memory`) | page tables, protections, generations, epoch | map, protect, unmap, write, fetch | every change of executable bytes is visible in a generation |
| heaps, regions, stacks (`allocation.rs`, `threads.rs`) | arena, heaps, reservations, worker index | allocate, reallocate, free, reserve, commit, create | every page has one owner, blocks are disjoint |
| code caches (`vnrt-x86`) | decoded instructions, blocks, hotness | decode, execute, invalidate | what runs is what memory holds |
| instructions (`vnrt-x86`) | registers, flags, x87 stack | ~200 mnemonics | agreement with what the numbers mean; restart after a fault |
| windows and messages (user32) | windows, queue, menus, clipboard, dialogs | create, destroy, post, get, paint, dialogs | the tables name live windows; messages arrive in order |
| GDI (gdi32) | memory DCs, objects, selections | create, select, delete, show | no object is taken from under a DC |
| Direct3D 9 (`vnrt-d3d9`, `vnrt-gfx*`) | objects in guest memory, GPU textures | create, get, AddRef, Release, lock, unlock | counts are the references; the GPU shows what was unlocked |
| files and texts (kernel32, `vnrt-win32`) | handles, buffers, searches, current directory | open, read, write, close, find, fill a buffer | a write is seen at once; a told size suffices |
| multimedia (winmm) | positions of files | RIFF walk | no header is lost |
| small libraries, media decoding, runner, inspector, debugger | single counters | | |

The parts interact through calls only.  The run loop dispatches host calls; a
host call may ask for guest callbacks, in which case the loop suspends it and
comes back through a sentinel; a wait or an exit replaces the CPU context, and
the loop goes on with another guest thread; an API or the CPU may raise an
exception, whose handlers are guest code again.  Ordering and failure hazards
are listed with their lines in `PROJECT.json`.

## Modules

| module | what it is |
|---|---|
| `KernelObjects` | events, mutexes and thread handles, with the effects of every operation on them; no behaviour of its own |
| `GuestScheduler` | guest threads and all host calls that create, park, wake, switch and end them; composes `KernelObjects` |
| `WaitContract` | the abstract specification: what the wait functions promise a guest, one atomic step per wait |
| `MCGuestScheduler` | TLC instances of `GuestScheduler`: the sets of wait calls |
| `MCObjectsJoin` | `GuestScheduler` with two guests, one that uses names and one that joins |
| `GuestSchedulerProofs` | the thread table, the wake pass, mutexes and name tables, switches, and the refinement of `WaitContract` |
| `RunLoop`, `MCRunLoop` | the run loop for one guest thread and any guest program; the programs that are tried |
| `RunLoopProofs` | suspended calls mirror the guest stack, exits are reported |
| `GuestMemory` | pages, permissions, generations and the executable epoch, with the effect of every operation on them; no behaviour of its own |
| `CodeCache`, `MCCodeCache` | the decode and block caches of the interpreter, over `GuestMemory`; an instruction set, a program, where it writes |
| `CodeCacheProofs` | the caches are sound and what runs is current |
| `AddressSpace`, `MCAddressSpace` | who owns which pages: image, heaps, regions, thread stacks |
| `AddressSpaceProofs` | pages have one owner, blocks keep apart |
| `Arithmetic`, `MCArithmetic` | integer instructions and flags; the trial programs |
| `MemoryInstructions` | string and stack instructions that fault and are resumed |
| `X87`, `FloatingStack` | the register file with its top field, and the stack it is to implement |
| `Instructions` | composes `MemoryInstructions` and `X87` |
| `InstructionsProofs` | interrupted instructions lose nothing, the x87 registers are a stack |
| `Parts` | systems of independent parts: the part in focus, and the others |
| `MCMachine` | `AddressSpace`, `Arithmetic` and `Instructions` with values, as one run |
| `Windows` | windows, queue, menus, dialogs, with procedures that call back in |
| `Gdi`, `MCDesktop` | GDI objects over `Windows`; the TLC instance of both |
| `WindowsProofs` | tables, messages, dialogs and selections |
| `PeImage`, `Loader`, `MCLoader` | the parser, the start of a process, and images as a linker makes them |
| `ThreadLocal` | last errors, TLS slots, critical sections, interlocked words |
| `Files`, `FileContract` | file handles, buffers and searches, and what they promise |
| `Paths`, `Wildcard`, `TextBuffers` | full paths and sandbox paths; search patterns; calls that fill a buffer |
| `Direct3D9` | COM objects and the textures behind them |
| `Mmio` | the walk through the chunks of a RIFF file |
| `Process` | composes `Loader`, `ThreadLocal`, `Paths` and `Wildcard` |
| `ProcessProofs` | addresses lead to their APIs, threads find what they left, names mean files |
| `Services` | composes `Files`, `TextBuffers`, `Direct3D9` and `Mmio` |
| `ServicesProofs` | counts add up, files refine their contract, told sizes suffice, no chunk is lost |
| `MCServices` | `Process` and `Services` with values, as one run |

Parts that share no state are composed by *focus*: the initial state chooses
one part, the next-state relation steps that part only, and the variables of
the others keep one value.  The reachable states are the disjoint union of
those of the parts, so nothing is gained or lost by it except that one run
answers for all of them.  `Instructions`, `Process` and `Services` compose in
this way and state the properties; `MCMachine` and `MCServices` give values to
their constants and conjoin them.  The theorems are about `InstructionsSpec`,
`ProcessSpec` and `ServicesSpec`, each implied by the specification of the run.
Parts that do share state (`GuestScheduler` over `KernelObjects`, `CodeCache`
over `GuestMemory`, `Gdi` over `Windows`, `Loader` over `PeImage`) are composed
in the modules themselves.

### KernelObjects and GuestScheduler

A handle is an identity: the managers only count up, so a handle value is
never issued twice (`issued`).  `events`, `mutexes`, `eventNames` and
`mutexNames` are the maps of `objects.rs`, with `refs = 0` for "not in the
map"; `threadHandles` is `ThreadManager::handle_to_id`.  In `GuestScheduler`
the fields of `GuestThread` become functions of the thread id: `tstate`,
`suspend`, `pending` (the parked wait) and `completed` (the result it will
return).  `nested` says whether a host call of the current thread is suspended
for callbacks.  The CPU context is abstracted to the pending result.

Every host call is one action with its whole effect, except that `SetEvent`,
`ReleaseMutex` and the end of a thread start a *wake pass*: `wake_waiters`
first tries every parked thread in id order, consuming objects as it goes, and
completes the satisfied ones afterwards.  A visit is a step of its own
(`VisitSatisfied`, `VisitUnsatisfied`, `VisitPoisoned`), `scan` is what is left
to visit and `grants` the results not yet delivered.  Nothing else is enabled
during a pass, as nothing else runs in the code; it is split because it can
*fail* in the middle, when a parked thread's handle has been closed.  Finite
timeouts are waits without end in the code (`docs/NEXT_STEPS.md` lists them as
open), so they are here.  A call that only fails or polls changes no state and
is a stuttering step.

`WaitContract` has no scheduler.  A thread blocks on a wait it cannot take, and
is released by one step that takes its objects: all, or the first signalled
one.  `GuestScheduler!Contract` instantiates it with a thread considered
released as soon as the pass has granted its wait.

### RunLoop

The guest stack is the sequence of its return words, each guest code or one of
the four sentinels; `frames` is `suspended_host_calls`; `pending` is
`pending_exception`.  `pc = "head"` is the top of the `while` loop and
`"interpreter"` is inside `run_batch`, because the code treats a sentinel
differently in the two places (`AtHead`).  `consumed` counts as the code does.
Guest instructions are the ones that move control: call an import, jump to an
import (`"tail call"`), return, halt, fault.  Host calls are those with
different control: plain, with callbacks, dialogs, exits, exceptions.  The
guest is assumed to return only to what called it, and to keep to the calling
conventions; refused arguments, guest memory faults inside the runtime, the
stop at the first frame, and other guest threads are left out (the last are in
`GuestScheduler`, whose `SwitchesLoseNothing` says why the two can be modelled
apart: no switch happens while `frames` is not empty).

What a guest may do at all is its `program`: the features it uses (dialogs,
exceptions, tail calls), its TLS callbacks and its budget of instructions.  It
is chosen at the start and never changes.

### GuestMemory and CodeCache

`page` is the page directory without contents (generation 0: not mapped),
`bytes` the contents.  A range is whole pages; a write goes page by page, takes
a generation for every page it tries, and keeps what it wrote before the page
that refuses.  The epoch moves once per operation that touches an executable
page, where the code moves it once per page: it is only compared for equality.

`decoded`, `blocks` and `hot` are the three maps of `Interpreter`.  `pc` is the
place in `run_batch`: `"fetch"` at the head of its loop, `"build"` in
`decode_block`, `"step"` in `step`, `"run"` before an instruction of a block
and `"check"` after it, `"host"` outside, `"failed"` if the batch ends with a
host error.  `running`, `index` and `seen` are the locals of the inner loop.
What an instruction *is* is abstract: the addresses it covers, what they held,
and, by its first value, its length and whether it ends a block or decodes at
all.  What it *does* is one write or none, complete or refused halfway, and
then the next instruction or, at the end of a block, any target.  Between
batches the host maps, protects, unmaps and writes at will and resumes
anywhere, which includes other guest threads on the same interpreter.  A decode
fetches `MaxLength` addresses whatever the length, as the code does.

The property is the one `docs/INTERPRETER_OPTIMIZATION.md` (lines 36-37) asks
of the caches.  Pages are generational, so it is enough to show that the right
generations are recorded, that the epoch cannot hide a change, and that no
change is missed between two instructions of one block.

### AddressSpace

Pages are numbered, with the fixed places of `lib.rs` and `threads.rs` in the
same order as in the code: heap arena, region of `VirtualAlloc`, worker stacks
with a host module image among them, TEBs from above.  `arena`, `heaps` and
`allocations` are the tables of `GuestHeapArena` and `HeapManager`, `globals`
the lock counts of GlobalAlloc, the reservations those of `VirtualAllocator`,
`nextWorker` is `next_worker_index`.  Every call has its whole effect,
including what it leaves mapped when it fails half-way.  `WorkersAssumption` is
the one fact about the layout that takes arithmetic to see: as long as there is
room for another worker's stack below the first thread's, its TLS page is below
the heaps and its TEB above the regions.  It holds for the constants of
`lib.rs` and `threads.rs`, where that is 56 workers.

### Arithmetic, MemoryInstructions, X87

`Arithmetic` has one action per family of instructions of `execute_binary`,
the shifts, rotates, double shifts, multiplications, divisions, sign
extensions and SETcc.  Its widths are small but nested as the real ones are.
The properties do not repeat the formulas of the code: sums are compared with
an adder of single bits, conditions with the order of the numbers, shifts bit
by bit, pairs of instructions with one on numbers of two words, and divisions
by multiplying back.  `MemoryInstructions` executes elements until the limit of
a step or a fault; `ElementsInOrder` counts what must have happened from the
registers, `InterruptedOrNot` compares with the undisturbed instruction.  `X87`
has numbers modulo `Size` and NaN; what it computes is told apart by operand
order, depth and pops, not by rounding.  FSTP to a register stores before it
pops; naming the register after the pop is not told apart from before when
both are the top.

### Windows and Gdi

The tables of `RuntimeHostContext` are sets and functions on window handles.
`frames` holds for each suspended call the callbacks still to come; a procedure
in the middle of a call may make any other call, which is where windows are
destroyed under the caller.  Titles, rectangles and pixels are reduced to what
the properties tell apart.  `Gdi` adds memory DCs, objects and selections.

### PeImage and Loader

A file is a function from offsets to cells, an image the same by RVA;
`PeImage` translates RVAs by the section table as `vnrt-pe` does.  `Loader` has
one action per step of `Runtime::load` in their order, then callbacks, entry
point, GetProcAddress and explicit thunks.  `MCLoader` builds images in which a
linker may have put tables in headers, in shared pages or at a section's end.

### ThreadLocal

`lastError` is the host's copy, `saved` the thread's, `teb` the word in guest
memory; `own` is what the thread itself did last, kept by the model only.
Which thread runs is free here and `GuestScheduler`'s business.

### Files, Paths, Wildcard, TextBuffers

`Files` keeps the host's disk apart from the buffers of handles, as `ProcessIo`
does.  `FileContract` has files only: a write is in the file at once.  The
mapping takes the bytes of a dirty buffer for those of its file.  The guest
does not share a file it writes and does not delete what it has open.  The same
name may be spelled in several ways (`Fold`): what exists is found in any
spelling, but what is written is made in the spelling asked for
(`vnrt-win32/src/lib.rs:409`).  So the contract is kept for a guest that writes
and makes names as the disk spells them (`Respells = FALSE`) and reads, deletes,
removes and searches in any spelling; what another guest meets is told below
the violated runs.  `Paths`
relates the two readings of a path.  `Wildcard` runs the loop of
`wildcard_matches` step by step; what it is to find is stated without a loop:
there is a place in the value where each symbol of the pattern ends (`Means`).
`TextBuffers` has every call's convention: what it answers when the buffer is
too small, whether that counts the terminator, what it writes then.

### Direct3D9 and Mmio

An object is the words its methods read and write.  `held` is the guest's own
account of its references, `unlocked` what it unlocked last in each texture.
Saturating arithmetic saturates at `MaxWord`.  `Mmio` gives a file as its
chunks; the guest descends only from where a chunk can begin, as the format
demands, and reads and seeks within chunks.

## Runs

Most properties of the runs are conjunctions of named parts, each with its own
comment where it is defined: `StacksStayAligned`, for one, is `FramesOnStack`,
`EveryReturnIsExpected` and `ReturnAtTopLevel` of `RunLoop`.

| run | module, configuration | question |
|---|---|---|
| `scheduler` | `MCGuestScheduler`, `MCScheduler.cfg` | safety with a guest that may close handles in use |
| `contract` | `MCGuestScheduler`, `MCContract.cfg` | does the scheduler implement the wait contract for a guest that does not? |
| `objects_join` | `MCObjectsJoin` | do name tables survive every order of create, open and close; do wake passes end, and does a join return? |
| `run_loop` | `MCRunLoop` | do suspended calls, dialogs and handlers stay aligned with the stack; is an exit reported; does a run end? |
| `code_cache` | `MCCodeCache` | does stale code ever run; does a batch end with a host error? |
| `machine` | `MCMachine` | has every page one owner; do instructions compute what their numbers mean, interrupted or not; are the x87 registers a stack? |
| `desktop` | `MCDesktop`, `Desktop.cfg` | do the tables name live windows only; do messages arrive at their window in order; do selected objects survive? |
| `services` | `MCServices` | do addresses lead to their APIs; does a thread see its own; do files keep their contract; do told sizes suffice; do counts add up; are headers ever lost? |
| `closed_handle` | `MCGuestScheduler`, `MCClosedHandle.cfg` | (violated) is a signalled waiter always woken? |
| `traced_exit` | `MCRunLoop`, `RunLoopTraced.cfg` | (violated) is an exit reported with trace logging on? |
| `stale_exception` | `MCRunLoop`, `RunLoopStale.cfg` | (violated) is an exception refused as nested only when it is, with dialogs? |
| `early_illegal` | `MCCodeCache`, `CodeCacheIllegal.cfg` | (violated) is an illegal instruction one the guest has reached? |

### Bounds

*Scheduler.*  Three threads are the fewest with two waiters and a third thread
that wakes them, and the fewest for a poisoned waiter to hide a live one.  One
event and one mutex suffice for mixed waits; the contract run has two events,
because a wait-all and a wait-any only compete over two, and a wait-all that
lists a mutex twice.  `MaxReferences` and `MaxRecursion` stand for `u32::MAX`
(references fail there, recursion saturates).  `MCObjectsJoin` has two guests,
told apart by `focus`: "objects" has two events and two mutexes that share one
name, and does not wait; "join" joins workers.

*Run loop.*  Three programs (`BatchedPrograms`), each with a budget of
instructions: in 13 a program can nest a dialog in a callback and close it from
a handler, with start-up before it; for tail calls without dialogs and start-up
11 are enough; with everything at once there are 9.
Two callbacks per call and a chain of two handlers make "one more" and "the
last" differ.  `MaxChain` stands for 64.

*Code caches.*  Two pages of three addresses: a two-address instruction lies
across the boundary with a jump behind it.  `MaxGeneration = 5` leaves two
changes of a page after the loader's; a block goes stale and is rebuilt, a
mapping is replaced, a write crosses pages and fails on the second.  Two decoded
instructions and one block make both caches overflow; blocks of two
instructions end by length as well as by a jump.

*Machine.*  Five calls allocate, free, grow and use again; 20 pages leave each
area so small that it fills up; four threads reach the slot of the host module
image.  Bytes of two bits and dwords of five are the smallest widths at which
shift counts exceed an operand, a nibble carries, and a dword is wider than
two bytes; operands are then enumerated exhaustively.  Four cells make string
instructions overlap themselves and wrap.  Four x87 registers and six steps
turn the stack around.

*Desktop.*  Two windows (a parent and a child, or a window and one that is
destroyed meanwhile), three posts, two suspended calls: one procedure called
from inside another.  Five window calls alone, or three with three GDI calls.
`NestDialogs = FALSE`: nested dialogs share a handle in the code
(`vnrt-user32/src/lib.rs:1974`) and are `RunLoop`'s subject.  Calls that ask for
no window (`DestroyWindow`, `WM_CLOSE`, `SetFocus`, class longs, regions) are
given the handle of the dialog as well.  A guest that destroys it while the
dialog is open takes the dialog's procedure (`host_context.rs:375`), and the
command that is queued reaches nobody: `dropped` records that, and
`OpenDialogHasProcedure` promises the procedure until then.

*Services.*  Images of two sections in either order, starting at a page or
inside one, with more, less or no memory than they have in the file; nine
thunks for an import, an export and a lookup each to compete for a slot; three
threads, two slots; two names of files, one of them in two spellings, two
handles, contents of two bytes, five calls;
paths of three components; patterns of four symbols; texts of three characters
of one or two bytes in buffers of up to eight; five Direct3D objects of
sides or lengths 1 and 12 under a word of 15, and five calls; a RIFF file of a chunk, a list with a chunk, and a chunk, of odd and
even sizes, whole or cut off, and six calls.

### Fairness

`HostStep` is weakly fair: the host executes its loops without pause.  No guest
thread is assumed to do anything, except in the focus "join" of
`MCObjectsJoin`, where workers that run
infinitely often return at last (strong fairness of `WorkerExits`, as another
thread may be current in between) and callbacks return: what a joining program
itself relies on.  `RunLoop` is weakly fair as a whole: the host thread runs
nothing but the loop.  The other modules have no
liveness property and no fairness: their calls run to completion, and what a
guest calls next is its own affair.

### What the violated runs show

* `closed_handle`: `wake_waiters` leaves through `?` at the first waiter with a
  closed handle (`host_context.rs:1551`).  Objects it had taken for earlier
  waiters stay taken, later waiters are not visited, and so for every later
  pass.  `scheduler` therefore checks `NoLostWakeup` up to that point, and
  `PoisonIsForever`.  The wake pass at the end of a thread is the same loop
  (`lib.rs:784`), and its error ends the run: in `contract`,
  `MainReturnTerminates` holds because that guest closes no handle in use.
* `traced_exit`: `continue` after `finish_thread_procedure_return` skips the
  test of the exit code.  The batched loop has the same line (`lib.rs:657`),
  reached when an entry point ends with a jump into an API; `BatchedReportsItsExit`
  asks `ExitIsReported` of programs without tail calls only.
* `stale_exception`: `complete_modal_dialog` leaves `pending_exception` set.
* `early_illegal`: `decode_block` decodes ahead and raises what it meets there
  (`vnrt-x86/src/lib.rs:715`); the exception's address is ahead of `eip`, and
  the instructions in between, which might have changed the bytes, never ran.

Four more statements of the code's comments and documents are written down and
checked by no run, because the models contradict them: `NextStackIsFree`
(`AddressSpace`: the worker stacks run into the host module images,
`threads.rs:187`), `PebLockExcludes` (`ThreadLocal`: the PEB lock "cannot be
contended", but the functions are empty and a thread may park inside,
`vnrt-ntdll/src/lib.rs:133`), `LookupIgnoresCase` (`Files`, see below) and
`CalleeRemovesItsArguments` (`Direct3D9`: `IDirect3D9::GetDeviceCaps` reads its
argument 3 and removes 12 bytes, `vnrt-d3d9/src/lib.rs:1221` and `:645`).
That statement is about arguments a method reads, so it says nothing of stubs,
which read none; two of them stand for methods with another number of arguments
(`:754`, `:760`: the one for `EnumAdapterModes` removes four bytes too few, the
one for `CheckDeviceFormatConversion` four too many).

`LookupIgnoresCase`: `docs/TARGET_EUPHORIA.md:71-73` promises path lookup
without regard to case, and a test reads `SAVE.DAT` where `save.dat` was written
(`vnrt-win32/src/lib.rs:1691-1701`).  `write` takes the spelling asked for
(`:409`).  On a host that tells case apart, CREATE_ALWAYS of `SAVE.DAT` over
`save.dat`, or writing back a buffer opened under another spelling, makes a
second file, and each spelling then finds its own: with `Respells = TRUE` TLC
refutes the statement in the first call and `FilesKeepTheirContract` in the
second.  With `Respells = FALSE`, as in `services`, both hold.

## Proofs

`GuestSchedulerProofs` proves, from `ObjectsAssumption` and
`SchedulerAssumption` only (any number of threads, objects, names; any waits):

* `TypeCorrect`: `Spec => []TypeOK`.
* `ThreadsStayCoherent`: `Spec => [](ThreadsCoherent /\ WakeCoherent)`.
  The two are inductive together: `CompleteWaits` makes a thread Ready only if
  it was Waiting, which is what `WakeCoherent` says of `grants`, and a pass
  visits parked threads only because nothing parks or ends during it.
* `WakesStaySound`: `Spec => []WakeInvariant`.
* `WakeupsAreNotLost`: `Spec => []NoLostWakeup`.
* `StuckMeansDeadlock`: `Spec => []StuckIsDeadlock`.
* `PoisonPersists`: `Spec => PoisonIsForever`.

`NoLostWakeup` is not inductive: it says nothing during a pass, and a pass is
where waits get satisfied.  `WakeInvariant` adds three parts.  `PassSound`:
what the running pass has visited and not granted cannot be taken, provided no
waiter is poisoned; a later grant only takes objects away, so it cannot make an
earlier refusal wrong.  `GrantsValid`: what was granted is on live handles.
`HandlesKnown`: a live or awaited handle has been issued, so that a closed one
stays closed and "some waiter is poisoned" is stable, which in turn keeps the
proviso of `PassSound` from becoming true again after a pass was cut short.

The last part of `GuestSchedulerProofs` needs the same assumptions, and its last
two theorems a guest that is `Disciplined` (it closes no handle somebody waits on:
`closed_handle` shows how a wake pass fails without it):

* `MutexesStayCoherent`: `Spec => []MutexesCoherent`.
* `NamesResolve`: `Spec => []NameTablesConsistent`.
* `SwitchesAreSound`: `Spec => SwitchesLoseNothing`.
* `MainReturnReports`: `Disciplined` gives `Spec => []MainReturnTerminates`.
* `SchedulerRefines`: `Disciplined` gives `Spec => ImplementsContract`.

Whatever a step of the scheduler does to the objects, it does by one operation
of `KernelObjects` for one thread that has started (`ObjectStep`); the tables
are then proved coherent operation by operation.  Names need that a handle is
issued once, which `WakeInvariant` contains.  For the refinement the invariant
is `WakeInvariant` with two parts that discipline adds: no waiter is poisoned,
and a main thread that has ended is about to take the run with it.  Each step
maps to one of the contract or to a stutter: the visit that satisfies a wait is
`Unblock`, and the completion at the end of a pass changes nothing the contract
sees.

`CodeCacheProofs` proves, from `MemoryAssumption` and `CodeAssumption` only
(any number and size of pages, any instruction set, program and capacities):

* `TypeCorrect`: `Spec => []TypeOK`, capacities included.
* `CachesAreSound`: `Spec => []CacheSound`.
* `ExecutedCodeIsCurrent`: `Spec => []CodeIsCurrent`.
* `BatchesNeverFail`: `Spec => []BatchNeverFails`.

`CodeIsCurrent` looks only at the instruction about to run and is not
inductive.  `ChangeOfMemory` abstracts all operations on memory: a page with an
old generation is unchanged, and at the same epoch every executable page is.
`CacheSound` says what the caches rely on and survives any `ChangeOfMemory`: a
recorded generation, if it is still the page's, vouches for the bytes; a
block's epoch, if it is the current one, for all of its generations; and a
running block's pages stay executable, because its instructions write but do
not change permissions, which is why the check inside a batch cannot fail.

`RunLoopProofs` proves, for every set of programs, number of callbacks, length
of the handler chain and budget:

* `TypeCorrect`: `Spec => []TypeOK`.
* `StacksMirror`: `Spec => []StacksStayAligned`.
* `NestedIsNested`: `Spec => []NestedErrorIsNested`.
* `ExitsAreReported`: `Spec => []BatchedReportsItsExit`.

`StacksStayAligned` looks at the moment of a return.  The invariant says what
every place control may come back to will find there: eip, each word of the
stack, and the place a pending exception is to be continued (`LeadsBack`); each
suspended call is matched by the word its callback returns to
(`FramesInPlace`), and calls lie on the stack in the order they were suspended
(`FramesAscend`).  A pending exception that `EndDialog` has left behind claims
nothing, which is why `Served` is asked only of programs without dialogs.  For
the exit, `NothingAtHead` shows that a guest without tail calls never brings
the batched loop to its head at a sentinel, so the `continue` of `lib.rs:657` is
not reached.

`ProcessProofs` proves:

* `ThreadsKeepTheirs`: `Spec => []ThreadsKeepTheirOwn`, from
  `ThreadLocalAssumption`, for any number of threads, slots and sections.
* `MatchesAreFound`: the wildcard loop finds every match and no other, from
  `WildcardAssumption` (a name has no `*` in it).
* `NamesAlwaysMeanFiles`: `ProcessSpec => []NamesMeanFiles`, from the same and
  `PathsAssumption`.
* `AddressesAlwaysLead`: `ProcessSpec => []AddressesLeadToTheirApi`, from
  `LoaderAssumption`.

Threads need a strengthening about what does not exist yet: the last error and
the TLS page of a thread before it is created, because `TlsAlloc` clears only
the pages there are, and a section nobody is in, whose recursion must be 0.  The
wildcard loop forgets all stars but the last one; `SinceStar` says that this
loses nothing: the pattern matches the value exactly if its part from the last
star on matches the value from the place of the retry on.  Paths are folded component by component; a fold is shown to be a chain
of intermediate values, and what a component does to the chain is then
induction over its length (`PathInv`).

`LoaderAssumption` is what a linker and the registry guarantee: an entry of an
import table has a place of its own and is listed once, ordinals have 16 bits,
and no module has the empty name.  The parser's list of imports is proved entry
by entry to be the linker's (`ImportsAreListed`).  `LoaderInv` then says that an
import cell, an export table that has been built and an answer of GetProcAddress
each hold a thunk of their API, and that two thunks of one API were both
imported or put there by the host (`OnePerKey`).  The table of thunks only
grows, and a thunk that is new is the only one of its API (`Grows`);
a table that has run over its region is left only by the start failing (`Fits`,
`Overfull`).

`InstructionsProofs` proves, for any number of registers and size of words:

* `TypeCorrect`: `X87Assumption` gives `InstructionsSpec => []Float!TypeOK`.
* `UnitAlwaysTells`: it gives `InstructionsSpec => []UnitTells`.
* `UnitRefines`: it gives `InstructionsSpec => FloatingStackKept`.
* `InterruptionsLeaveNoTrace`: `StringAssumption` gives
  `InstructionsSpec => []InstructionsResume`.

The registers of the x87 are a stack only modulo their number; the refinement
needs that the status word names the top and that the stack is never deeper
than the file.  A string instruction that stops is compared with one that was
never interrupted; `StringInv` says that what is in memory is what the elements
counted off by the registers have written, each in turn from what those before
it have left, and the end of the repetition is then the end of the undisturbed
one.

`ServicesProofs` proves:

* `ResourcesStayCoherent`: `Direct3DAssumption` gives
  `ServicesSpec => []ResourcesCoherent`.
* `FilesRefine`: `FilesAssumption` and `~Respells` give
  `ServicesSpec => FilesKeepTheirContract`.
* `BuffersAlwaysSuffice`: `TextAssumption` gives
  `ServicesSpec => []BuffersSuffice`.
* `ChunksAreAlwaysFound`: `RiffAssumption` gives
  `ServicesSpec => []ChunksAreFound`.

A reference count is what the guest holds of an object and one for each object
made from it, so each call needs that the two move as the count does
(`CountsAddUp`); that the GPU shows what was unlocked last needs that no two
textures share an id (`Shown`).  Files refine their contract because a
buffer that is not dirty holds what is on the disk, a dirty one is the only
handle of its file in whatever spelling (`Backed`), no handle is issued twice,
and no name is there in two spellings (`OneSpelling`).  That last part is why the
theorem, like the run, is for a guest that writes a name as the disk spells it
(`~Respells`); it reads in any spelling.  A told size suffices because what was told, if anything, is the length of all the
API would write (`TextInv`), whichever call told it.  `RiffAssumption` is the format: chunks
lie behind each other inside their parents.  The loop of `mmioDescend` looks at
the headers between where it starts and the end of the parent, one after the
other; that none is skipped is induction over its passes.

`WindowsProofs` proves, from `WindowsAssumption` and `GdiAssumption`:

* `TypeCorrect`: `Spec => []TypeOK`.
* `WindowsStayCoherent`: without nested dialogs, `Spec => []WindowsCoherent` (an
  open dialog keeps its procedure unless the guest destroys the dialog's handle).
* `TablesStayCoherent`: with them, `Spec => [](TablesMatchWindows /\ DcsBelongToOneWindow)`.
* `MessagesDoArrive`: `Spec => []MessagesArrive`.
* `SelectionsAlwaysHold`: `Spec => []SelectionsHold`.

Calls with the same effect on the tables share a lemma (something is stored for
a window, erased, a window goes), so the proof has one per kind of effect.  A
message needs the number its window was made after (`Born`), because handles
are not reused but messages outlive windows; a window DC needs that its owner's
entry in the table of DCs is its own (`Owned`).  That there are never more DCs
than windows were made, and never more messages than posts, is a counting
argument over a one-to-one map.

`AddressSpaceProofs` proves, from `LayoutAssumption` and `WorkersAssumption`:

* `TypeCorrect`: `Spec => []TypeOK`.
* `PagesStayAccountedFor`: `Spec => []PagesAccountedFor`.
* `BlocksStayApart`: `Spec => []BlocksKeepApart`.

`Claims` is the heart of it: the owners have claimed different pages, all
mapped, and this survives an owner that grows into unmapped pages, one that
comes, and one that goes.  The arena's cursor is above every block that is or was
(`Placed`), so an address is not given twice.  That blocks can be executed needs
the pages of a block, not its bytes (`Usable`), with lemmas about rounding to
pages and granules.  The sizes of a heap's blocks are added up by
`MapThenSumSet`, in the order CHOOSE picks; that the order does not matter, and
that a part weighs no more than the whole, is proved by induction on
cardinality.

### What the prover cannot do here

Liveness (`CallsReturn`, `RunReturns`) needs fairness and ENABLED and stays with
TLC.  The induction theorems of the library take an operator as a parameter,
which the provers cannot instantiate; the proofs go around them (a property of
numbers is a *set* of numbers, `SetInduction`).  A fold is handled by showing
that the function it is defined by exists and is a chain; for this the models
say FoldLeft where SelectSeq, which tlapm does not expand, would do.  None of
this helps where a module reaches a RECURSIVE operator, because it then has no
SMT prover.

Only model-checked are therefore:

* `InstructionsCompute`: `Arithmetic` counts and combines bits with RECURSIVE
  operators and `Bitwise`.  Its part on the x87, `UnitTells`, is proved.
* `ImageComesToLife`: what a linker makes is a property of each image; stated as
  an assumption on all of them it would repeat the conclusion.
* `PartsTypeOK`: the type invariants of several modules; those of `AddressSpace`
  and `X87` are proved.
* `CallsReturn` and `RunReturns`.

## Plan

1. *(done)* `KernelObjects`, `GuestScheduler`, `WaitContract`, and their proofs.
2. *(done)* `RunLoop` for one guest thread, and its proofs.
3. *(done)* `GuestMemory` and `CodeCache`, and their proofs.
4. *(done)* `AddressSpace`, `Windows` and `Gdi`, `ThreadLocal`, and their proofs;
   the instructions and the services of the host.
5. *(done)* Proofs about the instructions and the services: the refinements
   `FloatingStackKept` and `FilesKeepTheirContract`, reference counts, restarts,
   names, buffers, chunks and addresses.
6. `RunLoop` with several threads (an exception pending across a switch) and
   non-local exits.

## Not modelled

* MMX and bit-scan instructions, plain moves and address forms, rounding and
  transcendental functions of the x87: single-step calculations that are
  better tested against a processor.
* Resources of a PE file; relocations beyond their parsing (the code never
  applies them); the fields of PEB and TEB.
* Geometry, drawing, fonts, cursors; the wgpu back end beyond the creation and
  size of textures.
* Locale tables, times, console modes, and the small libraries: constant
  answers, C library routines and single counters.
* MCI, timers, audio devices and the decoding of images and sound.
* Runner, inspector and debugger: command-line front ends.

`PROJECT.json` lists every component with its reason.

Definitions headed "Wrong:" are faulty variants kept next to what they vary,
at least one for each property the runs check and mostly one for each part of
it; putting one in place of its original makes that property fail.
