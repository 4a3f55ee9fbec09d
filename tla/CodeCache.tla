------------------------------ MODULE CodeCache ------------------------------
(***************************************************************************)
(* The interpreter's two caches (vnrt-x86/src/lib.rs): decoded instructions *)
(* by address, and decoded basic blocks by address, each remembering the    *)
(* generation of every page it was decoded from.  A Guest instruction may   *)
(* write over code, its own block included, and between two batches the     *)
(* Host may map, protect, unmap and write anything.                         *)
(*                                                                          *)
(* An instruction is the addresses it covers and what they held when it was *)
(* decoded; its first value decides its length, whether it ends a block and *)
(* whether it decodes at all.  Executing it means: some write or none, which*)
(* may be refused halfway, then the next instruction or, at the end of a    *)
(* block, any target.  One Host thread runs all of this, so memory stands   *)
(* still while a block is decoded and the loop of decode_block is taken one *)
(* instruction at a time.  INT3, HLT and calls of the Host end a block and  *)
(* then the batch; they change no memory.                                   *)
(***************************************************************************)
EXTENDS GuestMemory, FiniteSets

CONSTANTS
    Length,         \* addresses an instruction with that first value covers
    Terminal,       \* first values that end a block
    Invalid,        \* first values that do not decode
    MaxLength,      \* MAX_INSTRUCTION_LEN, what a decode fetches
    MaxBlock,       \* MAX_BLOCK_INSTRUCTIONS
    MaxDecoded,     \* MAX_DECODE_CACHE_ENTRIES
    MaxBlocks,      \* MAX_BLOCK_CACHE_ENTRIES
    Targets,        \* where a jump or the Host may continue
    Stores,         \* where an instruction or the Host may write
    Written,        \* what they may write there
    Offered,        \* the permissions the Host asks for
    Programs        \* what the loader has put in memory

ASSUME CodeAssumption ==
    /\ MaxLength \in 1..PageSize
    /\ Length \in [Values -> 1..MaxLength]
    /\ {MaxBlock, MaxDecoded, MaxBlocks} \subseteq Nat \ {0}
    /\ Targets \subseteq Addresses
    /\ Stores \subseteq Addresses
    /\ \A values \in Written : values \in Seq(Values) /\ values # <<>>
    /\ Offered \subseteq Permissions
    /\ Programs \subseteq [Addresses -> Values]

VARIABLES
    decoded,    \* instruction_cache
    blocks,     \* block_cache
    hot,        \* block_hotness, which matters up to 2
    pc,         \* where run_batch is
    eip,
    partial,    \* the block decode_block is building
    running,    \* the block run_batch executes: its address,
    index,      \* the instruction that comes next
    seen,       \* and the local executable_epoch
    trap        \* the exception the last batch ended with

vars == <<memoryVars, decoded, blocks, hot, pc, eip, partial, running, index, seen, trap>>
cacheVars == <<decoded, blocks, hot>>
runVars == <<partial, running, index, seen>>

-----------------------------------------------------------------------------
(* Instructions and the pages they come from.                               *)
End == PageCount * PageSize     \* the address after the last one
CodeAddresses == 0..End

Cells(i) == i.at..(i.at + i.len - 1)
NextIp(i) == i.at + i.len
Images == UNION {[r[1]..r[2] -> Values] : r \in Addresses \X Addresses}
Instructions ==
    {i \in [at : Addresses, len : 1..MaxLength, image : Images] :
        NextIp(i) \in CodeAddresses /\ DOMAIN i.image = Cells(i)}

Fetched(a) ==
    [at |-> a, len |-> Length[bytes[a]],
     image |-> [c \in a..(a + Length[bytes[a]] - 1) |-> bytes[c]]]

EndsBlock(i) == i.image[i.at] \in Terminal
SpannedBy(i) == {PageOf(c) : c \in Cells(i)}

(* Generations of pages; 0 where none is recorded.                          *)
Unrecorded == [p \in Pages |-> 0]
RecordPages(gens, i) ==
    [p \in Pages |-> IF p \in SpannedBy(i) /\ gens[p] = 0 THEN page[p].generation ELSE gens[p]]
Changed(gens) ==
    {p \in Pages : gens[p] # 0 /\ (~Executable(p) \/ page[p].generation # gens[p])}

(* A map that is emptied when it is full, as both caches are.               *)

(* Wrong: it is emptied only once it is over-full.                          *)
PutLate(map, a, entry, capacity) ==
    LET kept == IF Cardinality(DOMAIN map) > capacity THEN {} ELSE DOMAIN map IN
    [c \in kept \cup {a} |-> IF c = a THEN entry ELSE map[c]]

Put(map, a, entry, capacity) ==
    LET kept == IF Cardinality(DOMAIN map) >= capacity THEN {} ELSE DOMAIN map IN
    [c \in kept \cup {a} |-> IF c = a THEN entry ELSE map[c]]
Without(map, a) == [c \in DOMAIN map \ {a} |-> map[c]]
NoEntries == [a \in {} |-> 0]

-----------------------------------------------------------------------------
(* decode_cached: a cached instruction whose pages are unchanged, or a new  *)
(* one if the whole fetch window is executable and it decodes.              *)

Hit(a) ==
    /\ a \in DOMAIN decoded
    /\ Changed(decoded[a].gens) = {}

Fetchable(a) == \A c \in a..(a + MaxLength - 1) : c \in Addresses /\ Executable(PageOf(c))
Decodes(a) == Hit(a) \/ (Fetchable(a) /\ bytes[a] \notin Invalid)
Decoded(a) == IF Hit(a) THEN decoded[a].instruction ELSE Fetched(a)
KeepDecoded(a) ==
    decoded' = IF Hit(a) THEN decoded
               ELSE Put(decoded, a, [instruction |-> Fetched(a),
                                     gens |-> RecordPages(Unrecorded, Fetched(a))], MaxDecoded)

(* Why it fails: an access violation, or an illegal instruction.            *)
DecodeFault(a) == IF Fetchable(a) THEN "illegal" ELSE "access"

-----------------------------------------------------------------------------
(* block_is_valid, which looks at the pages only if the epoch has moved and *)
(* fails on the first page that is no longer executable.                    *)

Validity(block) ==
    LET changed == Changed(block.gens)
        first(p) == p \in changed /\ \A q \in changed : p <= q IN
    IF block.validated = executableEpoch \/ changed = {} THEN "valid"
    ELSE IF \E p \in Pages : first(p) /\ ~Executable(p) THEN "gone"
    ELSE "stale"

Validated(a) == [blocks EXCEPT ![a].validated = executableEpoch]

NoTrap == [kind |-> "none", at |-> 0]
NoBlock == [code |-> <<>>, next |-> 0, gens |-> Unrecorded]

(* A batch ends with an exception; the instruction pointer stays.           *)
Raise(kind, at) ==
    /\ trap' = [kind |-> kind, at |-> at]
    /\ pc' = "host"
    /\ UNCHANGED eip

(* What executing an instruction does to memory, and where it goes on.      *)
Completes ==
    \/ UNCHANGED memoryVars
    \/ \E a \in Stores, values \in Written : Write(a, values, TRUE)
Refused ==
    \/ UNCHANGED memoryVars
    \/ \E a \in Stores, values \in Written : Write(a, values, FALSE)
GoesOn(i) == IF EndsBlock(i) THEN eip' \in Targets ELSE eip' = NextIp(i)

Init ==
    /\ \E permissions \in [Pages -> Offered] :
          page = [p \in Pages |-> [generation |-> p + 1, write |-> permissions[p].write,
                                   execute |-> permissions[p].execute]]
    /\ bytes \in Programs
    /\ nextGeneration = PageCount + 1
    /\ executableEpoch = 1
    /\ decoded = NoEntries /\ blocks = NoEntries
    /\ hot = [a \in CodeAddresses |-> 0]
    /\ pc = "fetch" /\ eip \in Targets
    /\ partial = NoBlock /\ running = 0 /\ index = 0 /\ seen = 0
    /\ trap = NoTrap

-----------------------------------------------------------------------------
(* run_batch at the head of its loop, and the lookup of decode_block.       *)
EndBatch ==
    /\ pc = "fetch"
    /\ pc' = "host"
    /\ UNCHANGED <<memoryVars, cacheVars, runVars, eip, trap>>

EnterBlock ==
    /\ pc = "fetch" /\ eip \in DOMAIN blocks
    /\ Validity(blocks[eip]) = "valid"
    /\ blocks' = Validated(eip)
    /\ pc' = "run" /\ running' = eip /\ index' = 1 /\ seen' = executableEpoch
    /\ UNCHANGED <<memoryVars, decoded, hot, eip, partial, trap>>

BlockIsGone ==
    /\ pc = "fetch" /\ eip \in DOMAIN blocks
    /\ Validity(blocks[eip]) = "gone"
    /\ Raise("access", eip)
    /\ UNCHANGED <<memoryVars, cacheVars, runVars>>

DropStaleBlock ==
    /\ pc = "fetch" /\ eip \in DOMAIN blocks
    /\ Validity(blocks[eip]) = "stale"
    /\ blocks' = Without(blocks, eip)
    /\ hot' = [hot EXCEPT ![eip] = 0]
    /\ pc' = "step"
    /\ UNCHANGED <<memoryVars, decoded, runVars, eip, trap>>

CountEntry ==
    /\ pc = "fetch" /\ eip \notin DOMAIN blocks
    /\ hot' = [hot EXCEPT ![eip] = IF @ < 2 THEN @ + 1 ELSE 2]
    /\ IF hot'[eip] < 2
       THEN pc' = "step" /\ UNCHANGED partial
       ELSE pc' = "build" /\ partial' = [NoBlock EXCEPT !.next = eip]
    /\ UNCHANGED <<memoryVars, decoded, blocks, running, index, seen, eip, trap>>

(* The rest of decode_block: one instruction, the end of the block, or the  *)
(* error of an instruction that does not decode.                            *)
Extended ==
    LET i == Decoded(partial.next) IN
    [code |-> Append(partial.code, i), next |-> NextIp(i), gens |-> RecordPages(partial.gens, i)]
IsLast == EndsBlock(Decoded(partial.next)) \/ Len(partial.code) + 1 = MaxBlock

BuildMore ==
    /\ pc = "build" /\ Decodes(partial.next) /\ ~IsLast
    /\ KeepDecoded(partial.next)
    /\ partial' = Extended
    /\ UNCHANGED <<memoryVars, blocks, hot, pc, eip, running, index, seen, trap>>

(* Wrong: the block counts as validated at the next epoch, too.             *)
BuildDoneAhead ==
    /\ pc = "build" /\ Decodes(partial.next) /\ IsLast
    /\ KeepDecoded(partial.next)
    /\ blocks' = Put(blocks, eip, [code |-> Extended.code, gens |-> Extended.gens,
                                   validated |-> executableEpoch + 1], MaxBlocks)
    /\ hot' = IF Cardinality(DOMAIN blocks) >= MaxBlocks THEN [a \in CodeAddresses |-> 0] ELSE hot
    /\ pc' = "run" /\ running' = eip /\ index' = 1 /\ seen' = executableEpoch
    /\ partial' = NoBlock
    /\ UNCHANGED <<memoryVars, eip, trap>>

BuildDone ==
    /\ pc = "build" /\ Decodes(partial.next) /\ IsLast
    /\ KeepDecoded(partial.next)
    /\ blocks' = Put(blocks, eip, [code |-> Extended.code, gens |-> Extended.gens,
                                   validated |-> executableEpoch], MaxBlocks)
    /\ hot' = IF Cardinality(DOMAIN blocks) >= MaxBlocks THEN [a \in CodeAddresses |-> 0] ELSE hot
    /\ pc' = "run" /\ running' = eip /\ index' = 1 /\ seen' = executableEpoch
    /\ partial' = NoBlock
    /\ UNCHANGED <<memoryVars, eip, trap>>

BuildFails ==
    /\ pc = "build" /\ ~Decodes(partial.next)
    /\ Raise(DecodeFault(partial.next), IF Fetchable(partial.next) THEN partial.next ELSE eip)
    /\ partial' = NoBlock
    /\ UNCHANGED <<memoryVars, cacheVars, running, index, seen>>

(* step: one instruction outside any block.                                 *)
StepDone ==
    /\ pc = "step" /\ Decodes(eip)
    /\ KeepDecoded(eip)
    /\ Completes /\ GoesOn(Decoded(eip))
    /\ pc' = "fetch"
    /\ UNCHANGED <<blocks, hot, runVars, trap>>

StepRefused ==
    /\ pc = "step" /\ Decodes(eip)
    /\ KeepDecoded(eip)
    /\ Refused /\ Raise("access", eip)
    /\ UNCHANGED <<blocks, hot, runVars>>

StepFails ==
    /\ pc = "step" /\ ~Decodes(eip)
    /\ Raise(DecodeFault(eip), eip)
    /\ UNCHANGED <<memoryVars, cacheVars, runVars>>

(* run_batch inside a block.  The budget may run out before any instruction.*)
Code == blocks[running].code
InBlock == pc = "run" /\ index \in DOMAIN Code /\ Code[index].at = eip

LeaveBlock ==
    /\ pc = "run"
    /\ pc' = "fetch"
    /\ UNCHANGED <<memoryVars, cacheVars, runVars, eip, trap>>

ExecuteInBlock ==
    /\ InBlock
    /\ Completes /\ GoesOn(Code[index])
    /\ index' = index + 1
    /\ pc' = "check"
    /\ UNCHANGED <<cacheVars, partial, running, seen, trap>>

RefusedInBlock ==
    /\ InBlock
    /\ Refused /\ Raise("access", eip)
    /\ UNCHANGED <<cacheVars, runVars>>

(* After each instruction: the code may have changed under the block.  A    *)
(* page that is no longer executable would end run_batch with a Host error. *)
Revalidate ==
    /\ pc = "check"
    /\ LET validity == IF executableEpoch = seen THEN "valid" ELSE Validity(blocks[running]) IN
       /\ pc' = CASE validity = "valid" -> "run"
                  [] validity = "stale" -> "fetch"
                  [] validity = "gone" -> "failed"
       /\ IF executableEpoch # seen /\ validity = "valid"
          THEN blocks' = Validated(running) /\ seen' = executableEpoch
          ELSE UNCHANGED <<blocks, seen>>
    /\ UNCHANGED <<memoryVars, decoded, hot, eip, partial, running, index, trap>>

(* Between two batches: API calls, other Guest threads, exception dispatch. *)
HostChangesMemory ==
    /\ pc = "host"
    /\ \/ \E r \in Ranges, permissions \in Offered : MapRange(r, permissions)
       \/ \E r \in Ranges, permissions \in Offered : ProtectRange(r, permissions)
       \/ \E r \in Ranges : UnmapRange(r)
       \/ \E a \in Stores, values \in Written, complete \in BOOLEAN : Write(a, values, complete)
    /\ UNCHANGED <<cacheVars, runVars, pc, eip, trap>>

Resume ==
    /\ pc = "host"
    /\ pc' = "fetch" /\ eip' \in Targets \cup {eip}
    /\ trap' = NoTrap
    /\ UNCHANGED <<memoryVars, cacheVars, runVars>>

Next ==
    \/ EndBatch \/ EnterBlock \/ BlockIsGone \/ DropStaleBlock \/ CountEntry
    \/ BuildMore \/ BuildDone \/ BuildFails
    \/ StepDone \/ StepRefused \/ StepFails
    \/ LeaveBlock \/ ExecuteInBlock \/ RefusedInBlock \/ Revalidate
    \/ HostChangesMemory \/ Resume

Spec == Init /\ [][Next]_vars

-----------------------------------------------------------------------------
(* Types.                                                                   *)
Generations == [Pages -> Nat]
CachedInstruction == [instruction : Instructions, gens : Generations]
CachedBlock == [code : Seq(Instructions), gens : Generations, validated : Nat]

TypeOK ==
    /\ MemoryTypeOK
    /\ DOMAIN decoded \subseteq CodeAddresses
    /\ decoded \in [DOMAIN decoded -> CachedInstruction]
    /\ \A a \in DOMAIN decoded : decoded[a].instruction.at = a
    /\ DOMAIN blocks \subseteq CodeAddresses
    /\ blocks \in [DOMAIN blocks -> CachedBlock]
    /\ \A a \in DOMAIN blocks : Len(blocks[a].code) \in 1..MaxBlock
    /\ Cardinality(DOMAIN decoded) <= MaxDecoded
    /\ Cardinality(DOMAIN blocks) <= MaxBlocks
    /\ hot \in [CodeAddresses -> 0..2]
    /\ pc \in {"fetch", "build", "step", "run", "check", "host", "failed"}
    /\ eip \in CodeAddresses
    /\ partial \in [code : Seq(Instructions), next : CodeAddresses, gens : Generations]
    /\ running \in CodeAddresses /\ index \in 0..(MaxBlock + 1) /\ seen \in Nat
    /\ trap \in [kind : {"none", "access", "illegal"}, at : CodeAddresses]

(* What makes the caches safe to use.  A generation that is still a page's  *)
(* generation vouches for what was decoded from the page; the epoch at which*)
(* a block was validated, while it is the current one, vouches for all of   *)
(* its pages; and while a block runs, its local epoch is the block's, and   *)
(* the writes of its own instructions do not make its pages non-executable. *)
Vouches(gens, i) ==
    \A c \in Cells(i) :
        /\ gens[PageOf(c)] \in 1..(nextGeneration - 1)
        /\ page[PageOf(c)].generation = gens[PageOf(c)] => bytes[c] = i.image[c]
VouchesForAll(gens, code) == \A n \in DOMAIN code : Vouches(gens, code[n])

DecodedSound ==
    \A a \in DOMAIN decoded : Vouches(decoded[a].gens, decoded[a].instruction)
BlocksSound ==
    \A a \in DOMAIN blocks :
        /\ VouchesForAll(blocks[a].gens, blocks[a].code)
        /\ blocks[a].validated <= executableEpoch
        /\ blocks[a].validated = executableEpoch => Changed(blocks[a].gens) = {}
PartialSound ==
    pc = "build" =>
        /\ VouchesForAll(partial.gens, partial.code)
        /\ Changed(partial.gens) = {}
        /\ Len(partial.code) < MaxBlock
RunningSound ==
    pc \in {"run", "check"} =>
        /\ running \in DOMAIN blocks
        /\ blocks[running].validated = seen
        /\ pc = "run" => seen = executableEpoch
        /\ \A p \in Pages : blocks[running].gens[p] # 0 => Executable(p)
GenerationsAreUsed == \A p \in Pages : page[p].generation < nextGeneration

CacheSound ==
    /\ DecodedSound
    /\ BlocksSound
    /\ PartialSound
    /\ RunningSound
    /\ GenerationsAreUsed

(* Executable writes invalidate code before the next Guest instruction      *)
(* (docs/INTERPRETER_OPTIMIZATION.md:37).  Whatever comes out of a cache to *)
(* be executed is what memory holds, on pages that are executable.          *)
Runnable(i) == \A c \in Cells(i) : Executable(PageOf(c)) /\ bytes[c] = i.image[c]
CodeIsCurrent ==
    /\ InBlock => Runnable(Code[index])
    /\ pc = "step" /\ Hit(eip) => Runnable(decoded[eip].instruction)

(* A block that is current when it is entered cannot lose a page while it   *)
(* runs: the check inside the batch may find it stale, but never ends the   *)
(* batch with a memory error (the `?` of run_batch on block_is_valid).      *)
BatchNeverFails == pc # "failed"

(* "The decoder rejected the byte stream at the current instruction         *)
(* pointer" (vnrt-x86/src/lib.rs:321): an illegal-instruction exception is  *)
(* about the instruction the Guest has reached.                             *)
IllegalIsAtEip == trap.kind = "illegal" => trap.at = eip
=============================================================================
