------------------------- MODULE MemoryInstructions --------------------------
(***************************************************************************)
(* The instructions of the interpreter (vnrt-x86) that read or write memory *)
(* and change a register: the string instructions with their repeats, and   *)
(* those of the stack.  A guest whose page is not mapped gets an access     *)
(* violation; its handler maps the page and continues the instruction.      *)
(*                                                                          *)
(* Memory has a cell for every element; addresses, and the pointers to      *)
(* them, wrap around.  A behaviour is one instruction.                      *)
(*                                                                          *)
(* Definitions headed "Wrong:" are faulty variants of the definition that   *)
(* follows them; nothing uses them but the tests of the properties.         *)
(***************************************************************************)
EXTENDS Integers, Sequences, FiniteSets

CONSTANTS
    Cells,          \* number of cells
    Values,         \* of a cell
    MaxRep,         \* MAX_REP_ITERATIONS_PER_STEP
    Mappings        \* sets of cells that are mapped at the start

(* There are cells for the pointers of the start.                           *)
StringAssumption == Cells \in Nat /\ Cells >= 4 /\ MaxRep \in Nat

VARIABLES
    start,          \* history: registers and memory before the instruction
    memory, mapped,
    r,              \* registers: esi, edi, ecx, esp, ebp, the accumulator a, the ZF and DF flags
    at              \* "here", "fault" or "next": eip

vars == <<start, memory, mapped, r, at>>

Strings == {"movs", "stos", "lods", "cmps", "scas"}
Comparing == {"cmps", "scas"}
Others == {"push", "pop", "pop memory", "leave", "xchg"}
Addresses == 0..(Cells - 1)

(* Wrong: a pointer runs past the last address.                             *)
Unwrapped(n) == n

Wrapped(n) == n % Cells

(* Where the pointers point at the start matters only to each other.        *)
Registers(edi, ecx, df) ==
    [esi |-> 0, edi |-> edi, ecx |-> ecx, df |-> df, esp |-> 2, ebp |-> 3, a |-> 1, zf |-> FALSE]

Init ==
    /\ \E o \in Strings \cup Others, repetition \in {"none", "rep", "repne"},
          edi \in Addresses, ecx \in 0..Cells, df \in BOOLEAN,
          contents \in [Addresses -> Values], pages \in Mappings :
          /\ o \in Others => repetition = "none" /\ ecx = 0 /\ ~df
          /\ start = [op |-> o, repeat |-> repetition, r |-> Registers(edi, ecx, df),
                      memory |-> contents, mapped |-> pages]
    /\ memory = start.memory /\ mapped = start.mapped /\ r = start.r
    /\ at = "here"

op == start.op
repeat == start.repeat         \* "none", "rep" (also REPE) or "repne"

-----------------------------------------------------------------------------
(* String instructions.                                                     *)
Advance(pointer, regs) == Wrapped(IF regs.df THEN pointer - 1 ELSE pointer + 1)
Source(regs) == [regs EXCEPT !.esi = Advance(@, regs)]
Destination(regs) == [regs EXCEPT !.edi = Advance(@, regs)]

Touched(regs) ==
    CASE op \in {"movs", "cmps"} -> {regs.esi, regs.edi}
      [] op = "lods" -> {regs.esi}
      [] op \in {"stos", "scas"} -> {regs.edi}

(* One element: memory and registers before and after it.                   *)
Element(s) ==
    LET regs == s.r
        from == s.memory[regs.esi]
        to == s.memory[regs.edi]
    IN CASE op = "movs" -> [memory |-> [s.memory EXCEPT ![regs.edi] = from],
                            r |-> Destination(Source(regs))]
         [] op = "stos" -> [memory |-> [s.memory EXCEPT ![regs.edi] = regs.a],
                            r |-> Destination(regs)]
         [] op = "lods" -> [memory |-> s.memory, r |-> Source([regs EXCEPT !.a = from])]
         [] op = "cmps" -> [memory |-> s.memory,
                            r |-> Destination(Source([regs EXCEPT !.zf = (from = to)]))]
         [] op = "scas" -> [memory |-> s.memory,
                            r |-> Destination([regs EXCEPT !.zf = (regs.a = to)])]

(* Wrong: a comparison goes on whatever it finds.                           *)
MayRepeatAlways(regs) == TRUE

MayRepeat(regs) ==
    op \in Comparing => IF repeat = "repne" THEN ~regs.zf ELSE regs.zf

(* The loop of one step: the element it ends at, and why.                   *)
Counted(s) == [s EXCEPT !.r.ecx = @ - 1]

(* Wrong: the count is taken before the element is.                         *)
IterateCountingFirst(s, n) ==
    LET f[i \in 0..n] ==
            IF i = 0 THEN [memory |-> s.memory, r |-> s.r, why |-> "more"]
            ELSE LET b == f[i - 1] IN
                 IF b.why # "more" THEN b
                 ELSE IF ~(Touched(b.r) \subseteq mapped)
                 THEN [Counted(b) EXCEPT !.why = "fault"]
                 ELSE LET e == Counted(Element(b)) IN
                      [memory |-> e.memory, r |-> e.r,
                       why |-> IF e.r.ecx = 0 \/ ~MayRepeat(e.r) THEN "done" ELSE "more"]
    IN f[n]

Iterate(s, n) ==
    LET f[i \in 0..n] ==
            IF i = 0 THEN [memory |-> s.memory, r |-> s.r, why |-> "more"]
            ELSE LET b == f[i - 1] IN
                 IF b.why # "more" THEN b
                 ELSE IF ~(Touched(b.r) \subseteq mapped) THEN [b EXCEPT !.why = "fault"]
                 ELSE LET e == Counted(Element(b)) IN
                      [memory |-> e.memory, r |-> e.r,
                       why |-> IF e.r.ecx = 0 \/ ~MayRepeat(e.r) THEN "done" ELSE "more"]
    IN f[n]

Least(m, n) == IF m < n THEN m ELSE n

RepeatedString ==
    LET s == Iterate([memory |-> memory, r |-> r], Least(r.ecx, MaxRep)) IN
    /\ op \in Strings /\ repeat # "none"
    /\ \/ r.ecx = 0 /\ at' = "next" /\ UNCHANGED <<memory, r>>
       \/ r.ecx # 0 /\ memory' = s.memory /\ r' = s.r
          /\ at' = CASE s.why = "fault" -> "fault" [] s.why = "done" -> "next" [] OTHER -> "here"

SingleString ==
    LET e == Element([memory |-> memory, r |-> r]) IN
    /\ op \in Strings /\ repeat = "none"
    /\ \/ ~(Touched(r) \subseteq mapped) /\ at' = "fault" /\ UNCHANGED <<memory, r>>
       \/ Touched(r) \subseteq mapped /\ memory' = e.memory /\ r' = e.r /\ at' = "next"

-----------------------------------------------------------------------------
(* The stack grows downwards.                                               *)
Fault == at' = "fault"
Done == at' = "next"

(* PUSH, PUSHFD and CALL, which writes the address of the next instruction. *)
Push ==
    LET top == Wrapped(r.esp - 1) IN
    /\ op = "push"
    /\ \/ top \notin mapped /\ Fault /\ UNCHANGED <<memory, r>>
       \/ top \in mapped /\ Done
          /\ memory' = [memory EXCEPT ![top] = r.a] /\ r' = [r EXCEPT !.esp = top]

Popped == [r EXCEPT !.esp = Wrapped(@ + 1)]

(* POP to a register, POPFD and RET.                                        *)
Pop ==
    /\ op = "pop"
    /\ \/ r.esp \notin mapped /\ Fault /\ UNCHANGED r
       \/ r.esp \in mapped /\ Done /\ r' = [Popped EXCEPT !.a = memory[r.esp]]
    /\ UNCHANGED memory

(* POP to memory: the stack pointer has moved when the write is tried.      *)
PopMemory ==
    /\ op = "pop memory"
    /\ \/ r.esp \notin mapped /\ Fault /\ UNCHANGED <<memory, r>>
       \/ r.esp \in mapped /\ r.edi \notin mapped /\ Fault /\ r' = Popped /\ UNCHANGED memory
       \/ {r.esp, r.edi} \subseteq mapped /\ Done /\ r' = Popped
          /\ memory' = [memory EXCEPT ![r.edi] = memory[r.esp]]

(* Wrong: the frame pointer is lost before it is read.                      *)
LeaveLosingFrame ==
    LET framed == [r EXCEPT !.esp = r.ebp, !.ebp = 0] IN
    /\ op = "leave"
    /\ \/ r.ebp \notin mapped /\ Fault /\ r' = framed
       \/ r.ebp \in mapped /\ Done
          /\ r' = [framed EXCEPT !.ebp = memory[r.ebp], !.esp = Wrapped(@ + 1)]
    /\ UNCHANGED memory

(* The stack pointer is set before the frame pointer is read.               *)
Leave ==
    LET framed == [r EXCEPT !.esp = r.ebp] IN
    /\ op = "leave"
    /\ \/ r.ebp \notin mapped /\ Fault /\ r' = framed
       \/ r.ebp \in mapped /\ Done
          /\ r' = [framed EXCEPT !.ebp = memory[r.ebp], !.esp = Wrapped(@ + 1)]
    /\ UNCHANGED memory

(* XCHG of a register and memory, which is written first.                   *)
Exchange ==
    /\ op = "xchg"
    /\ \/ r.edi \notin mapped /\ Fault /\ UNCHANGED <<memory, r>>
       \/ r.edi \in mapped /\ Done
          /\ memory' = [memory EXCEPT ![r.edi] = r.a] /\ r' = [r EXCEPT !.a = memory[r.edi]]

Execute ==
    /\ at = "here"
    /\ RepeatedString \/ SingleString \/ Push \/ Pop \/ PopMemory \/ Leave \/ Exchange
    /\ UNCHANGED mapped

(* The handler of the guest maps any page, and continues.                   *)
Handle(cell) ==
    /\ at = "fault"
    /\ cell \notin mapped
    /\ mapped' = mapped \cup {cell}
    /\ at' = "here"
    /\ UNCHANGED <<memory, r>>

Next ==
    /\ Execute \/ \E cell \in Addresses : Handle(cell)
    /\ UNCHANGED start

Spec == Init /\ [][Next]_vars

-----------------------------------------------------------------------------
(* Every variable has its type.                                             *)
TypeOK ==
    /\ memory \in [Addresses -> Values] /\ mapped \subseteq Addresses
    /\ {r.esi, r.edi, r.esp, r.ebp} \subseteq Addresses
    /\ r.ecx \in 0..start.r.ecx /\ r.a \in Values
    /\ at \in {"here", "fault", "next"}

(* What k elements of a string instruction do, counted from the start: the  *)
(* i-th of them, from 0 up, is at the i-th cell from the pointers.  A cell  *)
(* that is read may have been written by an earlier element.                *)
Nth(pointer, i) == Wrapped(IF start.r.df THEN pointer - i ELSE pointer + i)
Last(set) == CHOOSE i \in set : \A j \in set : j <= i

Copied ==
    LET v[i \in 0..(Cells - 1)] ==
            LET earlier == {j \in 0..(i - 1) : Nth(start.r.edi, j) = Nth(start.r.esi, i)}
            IN IF earlier = {} THEN start.memory[Nth(start.r.esi, i)] ELSE v[Last(earlier)]
    IN v

Stored(i) == IF op = "movs" THEN Copied[i] ELSE start.r.a

MemoryAfter(k) ==
    IF op \notin {"movs", "stos"} THEN start.memory
    ELSE [c \in Addresses |->
            LET writes == {i \in 0..(k - 1) : Nth(start.r.edi, i) = c}
            IN IF writes = {} THEN start.memory[c] ELSE Stored(Last(writes))]

Equal(i) ==
    LET to == start.memory[Nth(start.r.edi, i)]
    IN IF op = "cmps" THEN start.memory[Nth(start.r.esi, i)] = to ELSE start.r.a = to

RegistersAfter(k) ==
    [start.r EXCEPT
        !.esi = IF op \in {"movs", "cmps", "lods"} THEN Nth(@, k) ELSE @,
        !.edi = IF op = "lods" THEN @ ELSE Nth(@, k),
        !.a = IF op = "lods" /\ k > 0 THEN start.memory[Nth(start.r.esi, k - 1)] ELSE @,
        !.zf = IF op \in Comparing /\ k > 0 THEN Equal(k - 1) ELSE @,
        !.ecx = IF repeat = "none" THEN @ ELSE @ - k]

IsAfter(k) == memory = MemoryAfter(k) /\ r = RegistersAfter(k)

(* Wherever a repeated instruction stops, at the end of a batch, at a page  *)
(* that is not mapped or for good, the elements its registers say are done  *)
(* are done and no other: what is left can be done later (execute_string).  *)
ElementsInOrder ==
    (op \in Strings /\ repeat # "none") => IsAfter(start.r.ecx - r.ecx)

(* The number of elements a repeated instruction has to do: up to the first *)
(* one that decides the comparison.                                         *)
Deciding == {k \in 1..start.r.ecx : op \in Comparing /\ Equal(k - 1) = (repeat = "repne")}
Wanted ==
    IF repeat = "none" THEN 1
    ELSE IF Deciding = {} THEN start.r.ecx
    ELSE CHOOSE k \in Deciding : \A j \in Deciding : k <= j

(* When it is over, an instruction has done what it does when all its pages *)
(* are mapped, however often it was interrupted.  POP to memory that is not *)
(* mapped is left out: it pops again (see the hazards).                     *)
InterruptedOrNot ==
    at = "next" =>
        /\ op \in Strings => IsAfter(Wanted)
        /\ op = "push" =>
              /\ r = [start.r EXCEPT !.esp = Wrapped(@ - 1)]
              /\ memory = [start.memory EXCEPT ![r.esp] = r.a]
        /\ op = "pop" =>
              /\ r = [start.r EXCEPT !.a = start.memory[start.r.esp], !.esp = Wrapped(@ + 1)]
              /\ memory = start.memory
        /\ (op = "pop memory" /\ start.r.edi \in start.mapped) =>
              /\ r = [start.r EXCEPT !.esp = Wrapped(@ + 1)]
              /\ memory = [start.memory EXCEPT ![r.edi] = start.memory[start.r.esp]]
        /\ op = "leave" =>
              /\ r.ebp = start.memory[start.r.ebp] /\ r.esp = Wrapped(start.r.ebp + 1)
              /\ memory = start.memory
        /\ op = "xchg" =>
              /\ r = [start.r EXCEPT !.a = start.memory[r.edi]]
              /\ memory = [start.memory EXCEPT ![r.edi] = start.r.a]

(* A fault or the end of a batch leaves an instruction where it can go on   *)
(* (execute_string and the instructions of the stack).                      *)
InstructionsResume == ElementsInOrder /\ InterruptedOrNot
=============================================================================
