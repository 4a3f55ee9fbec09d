-------------------------------- MODULE X87 ---------------------------------
(***************************************************************************)
(* The x87 unit of the interpreter (vnrt-x86): a file of registers that a   *)
(* top field of the status word makes a stack of (FloatingStack), the       *)
(* condition codes a comparison leaves, and their way to the flags by       *)
(* FNSTSW and SAHF.                                                          *)
(*                                                                          *)
(* A number is an integer modulo Size, or NaN.  The four operations and     *)
(* their reverse forms are told by a difference, the one that tells its     *)
(* operands apart, and the functions of the top by a successor.             *)
(* There is no tag word: the code knows no empty register (see the          *)
(* hazards), so the depth here is the guest's own account of what it has    *)
(* loaded and not popped.                                                   *)
(*                                                                          *)
(* Definitions headed "Wrong:" are faulty variants of the definition that   *)
(* follows them; nothing uses them but the tests of the properties.         *)
(***************************************************************************)
EXTENDS Integers, Sequences

CONSTANTS
    Size,           \* the numbers are 0..Size-1
    Registers,      \* their number, a power of 2 (8)
    TopBits,        \* positions of the top field in the status word
    MaxSteps        \* bound of a behaviour

X87Assumption ==
    /\ Size \in Nat \ {0} /\ Registers \in Nat \ {0}
    /\ TopBits \subseteq 11..13

VARIABLES
    file,           \* x87_registers
    top,            \* x87_top
    status,         \* x87_status_word: the bits that are set
    ah, flags,      \* AH as set of bits, and the flags CF, PF and ZF
    depth,          \* history: numbers loaded and not popped
    truth,          \*   comparisons that the status word, AH and the flags tell
    steps

vars == <<file, top, status, ah, flags, depth, truth, steps>>

NaN == -1
Numbers == {NaN} \cup 0..(Size - 1)

(* What FSUB and FSUBR make of the destination and the source, FSQRT and    *)
(* the like of the top.                                                     *)
Result(op, destination, source) ==
    IF NaN \in {destination, source} THEN NaN
    ELSE (IF op = "difference" THEN destination - source ELSE source - destination) % Size
Value(v) == IF v = NaN THEN NaN ELSE (v + 1) % Size

Compares(a, b) ==
    IF NaN \in {a, b} THEN "unordered"
    ELSE IF a < b THEN "less" ELSE IF a = b THEN "equal" ELSE "greater"

C0 == 8
C1 == 9
C2 == 10
C3 == 14
Conditions == {C0, C2, C3}
Unknown == "unknown"

Init ==
    /\ file = [p \in 0..(Registers - 1) |-> 0]
    /\ top = 0 /\ status = {} /\ ah = {} /\ flags = {}
    /\ depth = 0 /\ truth = [status |-> Unknown, ah |-> Unknown, flags |-> Unknown]
    /\ steps = 0

-----------------------------------------------------------------------------
Physical(i) == (top + i) % Registers
Get(i) == file[Physical(i)]
Set(i, v) == [file EXCEPT ![Physical(i)] = v]

(* update_x87_top_status.                                                   *)
TopIn(word, t) ==
    (word \ TopBits) \cup {b \in TopBits : (t \div 2^(b - 11)) % 2 = 1}

(* Wrong: the status word keeps the top it had.                             *)
MoveTopOnly(n) ==
    /\ top' = (top + n) % Registers
    /\ status' = status

MoveTop(n) ==
    /\ top' = (top + n) % Registers
    /\ status' = TopIn(status, (top + n) % Registers)

conditionVars == <<ah, flags, truth>>
Keep == UNCHANGED <<top, status, depth, conditionVars>>

(* Wrong: the number is stored before the top moves.                        *)
PushThere(v) ==
    /\ file' = [file EXCEPT ![top] = v]
    /\ MoveTop(-1)

Push(v) ==
    /\ file' = [file EXCEPT ![(top - 1) % Registers] = v]
    /\ MoveTop(-1)

Pushes == depth < Registers /\ depth' = depth + 1
Pops(n) == depth >= n /\ depth' = depth - n
Names(i) == i < depth

(* FLD, FILD, FLD1, FLDZ and the other constants; FLD ST(i).                *)
Fld(v) == Pushes /\ Push(v) /\ UNCHANGED conditionVars
FldSt(i) == Names(i) /\ Fld(Get(i))

(* FST ST(i) and FSTP ST(i): the register is named before the pop.          *)
Fst(i) == Names(i) /\ file' = Set(i, Get(0)) /\ Keep

Fstp(i) ==
    /\ Names(i) /\ Pops(1)
    /\ file' = Set(i, Get(0))
    /\ MoveTop(1) /\ UNCHANGED conditionVars

(* FSTP and FISTP to memory.                                                *)
FstpMemory == Pops(1) /\ MoveTop(1) /\ UNCHANGED <<file, conditionVars>>

Fxch(i) ==
    /\ Names(i)
    /\ file' = [Set(0, Get(i)) EXCEPT ![Physical(i)] = Get(0)]
    /\ Keep

(* FADD, FSUB, FSUBR, FMUL, FDIV and FDIVR, of a register and a source, and *)
(* their forms that pop, whose source is the top.                           *)
Fop(op, i, source) ==
    /\ Names(i)
    /\ file' = Set(i, Result(op, Get(i), source))
    /\ Keep

Fopp(op, i) ==
    /\ Names(i) /\ Pops(1)
    /\ file' = Set(i, Result(op, Get(i), Get(0)))
    /\ MoveTop(1) /\ UNCHANGED conditionVars

(* FSQRT, FABS, FCHS and FRNDINT.                                           *)
Fsqrt ==
    /\ Names(0)
    /\ file' = Set(0, Value(Get(0)))
    /\ Keep

Tells(outcome) == truth' = [truth EXCEPT !.status = outcome] /\ UNCHANGED <<ah, flags>>

(* FSIN, FCOS; an argument that is too large leaves the stack alone.        *)
ReductionComplete(word, complete) ==
    (word \ {C1, C2}) \cup (IF complete THEN {} ELSE {C2})

Fsin ==
    /\ Names(0)
    /\ \/ file' = Set(0, Value(Get(0))) /\ status' = ReductionComplete(status, TRUE)
       \/ file' = file /\ status' = ReductionComplete(status, FALSE)
    /\ Tells(Unknown)
    /\ UNCHANGED <<top, depth>>

(* FSINCOS and FPTAN; the second value is told by the argument.             *)
Fsincos ==
    /\ Names(0) /\ Pushes
    /\ file' = [Set(0, Value(Get(0))) EXCEPT ![(top - 1) % Registers] = Get(0)]
    /\ top' = (top - 1) % Registers
    /\ status' = ReductionComplete(TopIn(status, (top - 1) % Registers), TRUE)
    /\ Tells(Unknown)

(* FCOM, FCOMP, FCOMPP and their unordered forms: the top and a source.     *)
Codes(left, right) ==
    IF NaN \in {left, right} THEN {C0, C2, C3}
    ELSE IF left < right THEN {C0} ELSE IF left = right THEN {C3} ELSE {}

Fcom(v, pops) ==
    LET word == (status \ Conditions) \cup Codes(Get(0), v) IN
    /\ Names(0) /\ Pops(pops)
    /\ top' = (top + pops) % Registers
    /\ status' = IF pops = 0 THEN word ELSE TopIn(word, (top + pops) % Registers)
    /\ Tells(Compares(Get(0), v))
    /\ UNCHANGED file

-----------------------------------------------------------------------------
(* FNSTSW AX, and what SAHF takes from AH.                                  *)
Fnstsw ==
    /\ ah' = {b - 8 : b \in {c \in status : c >= 8}}
    /\ truth' = [truth EXCEPT !.ah = truth.status]
    /\ UNCHANGED <<file, top, status, depth, flags>>

SahfBits == [CF |-> 0, PF |-> 2, AF |-> 4, ZF |-> 6, SF |-> 7]

(* Wrong: the zero flag is the bit beside it.                               *)
SahfShifted ==
    /\ flags' = {f \in DOMAIN SahfBits : (IF f = "ZF" THEN 5 ELSE SahfBits[f]) \in ah}
    /\ truth' = [truth EXCEPT !.flags = truth.ah]
    /\ UNCHANGED <<file, top, status, depth, ah>>

Sahf ==
    /\ flags' = {f \in DOMAIN SahfBits : SahfBits[f] \in ah}
    /\ truth' = [truth EXCEPT !.flags = truth.ah]
    /\ UNCHANGED <<file, top, status, depth, ah>>

(* FNCLEX: exceptions and the busy bit.                                     *)
Fnclex ==
    /\ status' = status \ (0..7 \cup {15})
    /\ UNCHANGED <<file, top, depth, conditionVars>>

(* What the registers stand for.                                            *)
Stack == INSTANCE FloatingStack WITH
    Depth <- Registers,
    stack <- [i \in 1..depth |-> Get(i - 1)],
    compared <- IF C2 \in status THEN "unordered" ELSE IF C0 \in status THEN "less"
                ELSE IF C3 \in status THEN "equal" ELSE "greater"

Places == 0..(Registers - 1)
Sources == Numbers \cup {Get(i) : i \in {j \in Places : Names(j)}}

Step ==
    \/ \E v \in Numbers : Fld(v)
    \/ \E i \in Places : FldSt(i) \/ Fst(i) \/ Fstp(i) \/ Fxch(i)
    \/ FstpMemory
    \/ \E op \in Stack!Operations, i \in Places :
          \/ Fopp(op, i)
          \/ \E v \in Sources : Fop(op, i, v)
    \/ Fsqrt
    \/ Fsin
    \/ Fsincos
    \/ \E v \in Sources, pops \in 0..2 : Fcom(v, pops)
    \/ Fnstsw
    \/ Sahf
    \/ Fnclex

Next == steps < MaxSteps /\ steps' = steps + 1 /\ Step

Spec == Init /\ [][Next]_vars

-----------------------------------------------------------------------------
(* Every variable has its type.                                             *)
TypeOK ==
    /\ file \in [0..(Registers - 1) -> Numbers] /\ top \in 0..(Registers - 1)
    /\ status \subseteq 0..15 /\ ah \subseteq 0..7 /\ flags \subseteq DOMAIN SahfBits
    /\ depth \in 0..Registers

(* The registers are the stack that the instructions promise, whatever they *)
(* held before: a number comes back from the depth it was put at, and the   *)
(* condition codes tell how the last comparison came out                    *)
(* (x87_push, x87_pop, execute_x87_binary, execute_x87_compare).            *)
FloatingStackKept == Stack!StackSpec

(* The status word names the register on top, and the stack has turned by   *)
(* as many registers as there are numbers in it (update_x87_top_status).    *)
StatusNamesTop == status \cap TopBits = TopIn({}, top) /\ top = (-depth) % Registers

(* After FNSTSW and SAHF the conditions of unsigned numbers tell how two    *)
(* floating-point numbers compare, whatever other bits of the status word   *)
(* come along in AH.                                                        *)
FlagsTellComparison ==
    truth.flags # Unknown =>
        /\ ("CF" \in flags) = (truth.flags \in {"less", "unordered"})
        /\ ("ZF" \in flags) = (truth.flags \in {"equal", "unordered"})
        /\ ("PF" \in flags) = (truth.flags = "unordered")
=============================================================================
