----------------------------- MODULE Arithmetic -----------------------------
(***************************************************************************)
(* The integer instructions of the interpreter (vnrt-x86): add, shift,      *)
(* rotate, multiply and divide on the bytes, words and dwords of EAX and    *)
(* EDX, the flags they leave, and the conditions that read the flags.       *)
(*                                                                          *)
(* A behaviour is a short program over one start.  The widths are small,    *)
(* in the proportions of the real ones: a word is two bytes, a nibble half  *)
(* a byte; the parity is that of a byte, and the counts of shifts are taken *)
(* modulo the dword.                                                        *)
(*                                                                          *)
(* Definitions headed "Wrong:" are faulty variants of the definition that   *)
(* follows them; nothing uses them but the tests of the properties.         *)
(***************************************************************************)
EXTENDS Integers, Sequences, FiniteSets, Bitwise

CONSTANTS
    ByteBits, DwordBits,    \* even; more than 2 * ByteBits
    Programs                \* sequences of instructions, with their starts

VARIABLES
    program,
    start,          \* history: eax, edx and flags before the program
    at,             \* number of instructions run so far
    eax, edx,
    flags,          \* those that are set
    fault           \* has an instruction raised the divide error?

vars == <<program, start, at, eax, edx, flags, fault>>

WordBits == 2 * ByteBits
Widths == {ByteBits, WordBits, DwordBits}
Nibble == 2^(ByteBits \div 2)
Values(n) == 0..(2^n - 1)
ArithmeticFlags == {"CF", "PF", "AF", "ZF", "SF", "OF"}
LogicFlags == ArithmeticFlags \ {"AF"}

(* An instruction: its operation and width, the register it works on, and   *)
(* what the other operand holds (another register: its value is not said).  *)
Instruction(op, n, target, right) == [op |-> op, width |-> n, target |-> target, right |-> right]

Init ==
    /\ \E p \in Programs : program = p.code /\ start \in p.starts
    /\ at = 0 /\ fault = FALSE
    /\ eax = start.eax /\ edx = start.edx /\ flags = start.flags

-----------------------------------------------------------------------------
(* Numbers.                                                                 *)
Truncate(v, n) == v % 2^n
SignedMin(n) == -(2^(n - 1))
SignedMax(n) == 2^(n - 1) - 1
Signed(v, n) == IF Truncate(v, n) > SignedMax(n) THEN Truncate(v, n) - 2^n ELSE Truncate(v, n)
Fits(v, n) == v \in SignedMin(n)..SignedMax(n)
Bit(v, i) == (v \div 2^i) % 2 = 1
SignBit(v, n) == Bit(v, n - 1)
Carry(set) == IF "CF" \in set THEN 1 ELSE 0

Flag(name, condition) == IF condition THEN {name} ELSE {}

(* Part of a register: the rest of it stays.                                *)
WithPart(register, n, v) == (register \div 2^n) * 2^n + Truncate(v, n)

-----------------------------------------------------------------------------
(* Flags.                                                                   *)
CommonFlags(result, n) ==
    Flag("ZF", result = 0) \cup Flag("SF", SignBit(result, n))
    \cup Flag("PF", Cardinality({i \in 0..(ByteBits - 1) : Bit(result, i)}) % 2 = 0)

(* Wrong: the carry that comes in is left out of the half carry.            *)
AddWithCarryFlagsWithoutHalf(left, right, carry, result, n) ==
    CommonFlags(result, n)
    \cup Flag("CF", left + right + carry >= 2^n)
    \cup Flag("AF", (left % Nibble) + (right % Nibble) >= Nibble)
    \cup Flag("OF", ~Fits(Signed(left, n) + Signed(right, n) + carry, n))

AddWithCarryFlags(left, right, carry, result, n) ==
    CommonFlags(result, n)
    \cup Flag("CF", left + right + carry >= 2^n)
    \cup Flag("AF", (left % Nibble) + (right % Nibble) + carry >= Nibble)
    \cup Flag("OF", ~Fits(Signed(left, n) + Signed(right, n) + carry, n))

SubWithBorrowFlags(left, right, borrow, result, n) ==
    CommonFlags(result, n)
    \cup Flag("CF", left < right + borrow)
    \cup Flag("AF", left % Nibble < (right % Nibble) + borrow)
    \cup Flag("OF", ~Fits(Signed(left, n) - Signed(right, n) - borrow, n))

(* Wrong: "less or equal" wants both.                                       *)
ConditionBoth(name, set) ==
    CASE name = "o" -> "OF" \in set [] name = "b" -> "CF" \in set
      [] name = "e" -> "ZF" \in set [] name = "be" -> "CF" \in set \/ "ZF" \in set
      [] name = "s" -> "SF" \in set [] name = "p" -> "PF" \in set
      [] name = "l" -> ("SF" \in set) # ("OF" \in set)
      [] name = "le" -> "ZF" \in set /\ ("SF" \in set) # ("OF" \in set)

(* The conditions; the other eight are their negations.                     *)
Condition(name, set) ==
    CASE name = "o" -> "OF" \in set [] name = "b" -> "CF" \in set
      [] name = "e" -> "ZF" \in set [] name = "be" -> "CF" \in set \/ "ZF" \in set
      [] name = "s" -> "SF" \in set [] name = "p" -> "PF" \in set
      [] name = "l" -> ("SF" \in set) # ("OF" \in set)
      [] name = "le" -> "ZF" \in set \/ ("SF" \in set) # ("OF" \in set)

-----------------------------------------------------------------------------
(* What an instruction makes of its first operand: the value that is        *)
(* written, the flags it sets, and the flags it may set.                    *)
Makes(result, set, mask) == [result |-> result, set |-> set, mask |-> mask]

Binary(op, left, right, n) ==
    LET carry == IF op \in {"adc", "sbb"} THEN Carry(flags) ELSE 0
        sum == Truncate(left + right + carry, n)
        difference == Truncate(left - right - carry, n)
        logic == CASE op = "or" -> left | right [] op = "xor" -> left ^^ right
                   [] OTHER -> left & right
    IN CASE op \in {"add", "adc"} ->
                Makes(sum, AddWithCarryFlags(left, right, carry, sum, n), ArithmeticFlags)
         [] op \in {"sub", "sbb"} ->
                Makes(difference, SubWithBorrowFlags(left, right, carry, difference, n),
                      ArithmeticFlags)
         [] op = "cmp" ->
                Makes(left, SubWithBorrowFlags(left, right, 0, difference, n), ArithmeticFlags)
         [] op \in {"and", "or", "xor"} -> Makes(logic, CommonFlags(logic, n), LogicFlags)
         [] op = "test" -> Makes(left, CommonFlags(logic, n), LogicFlags)

(* INC and DEC leave the carry alone.                                       *)
Increment(op, old, n) ==
    LET result == Truncate(IF op = "dec" THEN old - 1 ELSE old + 1, n)
        set == IF op = "dec" THEN SubWithBorrowFlags(old, 1, 0, result, n)
               ELSE AddWithCarryFlags(old, 1, 0, result, n)
    IN Makes(result, set, ArithmeticFlags \ {"CF"})

Negate(value, n) ==
    LET result == Truncate(-value, n)
    IN Makes(result, SubWithBorrowFlags(0, value, 0, result, n), ArithmeticFlags)

Complement(value, n) == Makes(2^n - 1 - value, {}, {})
Unchanged(value) == Makes(value, {}, {})

(* Counts have as many bits as a dword has shifts.                          *)
Count(right) == right % DwordBits

ShiftLeft(value, right, n) ==
    LET count == Count(right)
        result == Truncate(value * 2^count, n)
        carry == count <= n /\ Bit(value, n - count)
    IN IF count = 0 THEN Unchanged(value)
       ELSE Makes(result, CommonFlags(result, n) \cup Flag("CF", carry)
                          \cup Flag("OF", count = 1 /\ SignBit(result, n) # carry), LogicFlags)

ShiftRight(value, right, n, arithmetic) ==
    LET count == Count(right)
        result == Truncate((IF arithmetic THEN Signed(value, n) ELSE value) \div 2^count, n)
    IN IF count = 0 THEN Unchanged(value)
       ELSE Makes(result,
                  CommonFlags(result, n)
                  \cup Flag("CF", count <= n /\ Bit(value, count - 1))
                  \cup Flag("OF", ~arithmetic /\ count = 1 /\ SignBit(value, n)), LogicFlags)

(* Wrong: the bits come from the end of the source they go to.              *)
DoubleShiftLeftFromLow(value, source, count, n) ==
    Truncate(value * 2^count + (source % 2^count), n)

DoubleShiftLeft(value, source, count, n) == Truncate(value * 2^count + source \div 2^(n - count), n)
DoubleShiftRight(value, source, count, n) == Truncate(value \div 2^count + source * 2^(n - count), n)

(* Nothing happens when the count is more than the width.                   *)
DoubleShift(value, source, right, n, left) ==
    LET count == Count(right)
        result == IF left THEN DoubleShiftLeft(value, source, count, n)
                  ELSE DoubleShiftRight(value, source, count, n)
        carry == Bit(value, IF left THEN n - count ELSE count - 1)
        overflow == SignBit(result, n) # (IF left THEN carry ELSE SignBit(value, n))
    IN IF count = 0 \/ count > n THEN Unchanged(value)
       ELSE Makes(result, CommonFlags(result, n) \cup Flag("CF", carry)
                          \cup Flag("OF", count = 1 /\ overflow), LogicFlags)

(* Wrong: the carry of a rotation to the right is the lowest bit.           *)
RotateCarryLow(result, n, left) == Bit(result, 0)

RotateCarry(result, n, left) == IF left THEN Bit(result, 0) ELSE SignBit(result, n)

Rotate(value, right, n, left) ==
    LET count == Count(right) % n
        result == IF left THEN Truncate(value * 2^count + value \div 2^(n - count), n)
                  ELSE Truncate(value \div 2^count + value * 2^(n - count), n)
        carry == RotateCarry(result, n, left)
        overflow == SignBit(result, n) # (IF left THEN carry ELSE Bit(result, n - 2))
    IN IF count = 0 THEN Unchanged(value)
       ELSE Makes(result, Flag("CF", carry) \cup Flag("OF", count = 1 /\ overflow),
                  {"CF"} \cup Flag("OF", count = 1))

Simple == {"add", "adc", "sub", "sbb", "cmp", "and", "or", "xor", "test", "inc", "dec", "neg",
           "not", "shl", "shr", "sar", "shld", "shrd", "rol", "ror"}

Made(i, value) ==
    LET n == i.width
        other == Truncate(IF i.target = "eax" THEN edx ELSE eax, n)
    IN CASE i.op \in {"inc", "dec"} -> Increment(i.op, value, n)
         [] i.op = "neg" -> Negate(value, n)
         [] i.op = "not" -> Complement(value, n)
         [] i.op = "shl" -> ShiftLeft(value, i.right, n)
         [] i.op \in {"shr", "sar"} -> ShiftRight(value, i.right, n, i.op = "sar")
         [] i.op \in {"shld", "shrd"} -> DoubleShift(value, other, i.right, n, i.op = "shld")
         [] i.op \in {"rol", "ror"} -> Rotate(value, i.right, n, i.op = "rol")
         [] OTHER -> Binary(i.op, value, i.right, n)

ExecuteSimple(i) ==
    LET register == IF i.target = "eax" THEN eax ELSE edx
        made == Made(i, Truncate(register, i.width))
        written == WithPart(register, i.width, made.result)
    IN
    /\ i.op \in Simple
    /\ IF i.target = "eax" THEN eax' = written /\ UNCHANGED edx ELSE edx' = written /\ UNCHANGED eax
    /\ flags' = (flags \ made.mask) \cup (made.set \cap made.mask)
    /\ UNCHANGED fault

-----------------------------------------------------------------------------
(* Multiplication and division: AX, DX:AX or EDX:EAX.                       *)

(* Wrong: the high half of a product of words is lost.                      *)
WriteProductLow(product, n) ==
    /\ eax' = IF n = DwordBits THEN Truncate(product, n) ELSE WithPart(eax, WordBits, product)
    /\ edx' = IF n = DwordBits THEN product \div 2^n ELSE edx

WriteProduct(product, n) ==
    /\ eax' = IF n = DwordBits THEN Truncate(product, n) ELSE WithPart(eax, WordBits, product)
    /\ edx' = IF n = ByteBits THEN edx ELSE WithPart(edx, n, product \div 2^n)

MultiplyOverflow(overflow) ==
    flags' = (flags \ {"CF", "OF"}) \cup (IF overflow THEN {"CF", "OF"} ELSE {})

ExecuteMul(i) ==
    LET product == Truncate(eax, i.width) * i.right IN
    /\ i.op = "mul"
    /\ WriteProduct(product, i.width)
    /\ MultiplyOverflow(product >= 2^i.width)
    /\ UNCHANGED fault

(* The product as the 64 bits it is cast to.                                *)
ExecuteImul(i) ==
    LET product == Signed(eax, i.width) * Signed(i.right, i.width) IN
    /\ i.op = "imul"
    /\ WriteProduct(product % 2^(2 * DwordBits), i.width)
    /\ MultiplyOverflow(~Fits(product, i.width))
    /\ UNCHANGED fault

Dividend(n) ==
    IF n = ByteBits THEN Truncate(eax, WordBits) ELSE Truncate(edx, n) * 2^n + Truncate(eax, n)

WriteDivision(quotient, remainder, n) ==
    /\ eax' = IF n = ByteBits
              THEN WithPart(eax, WordBits, Truncate(remainder, n) * 2^n + Truncate(quotient, n))
              ELSE WithPart(eax, n, quotient)
    /\ edx' = IF n = ByteBits THEN edx ELSE WithPart(edx, n, remainder)
    /\ UNCHANGED <<flags, fault>>

DivideError == fault' = TRUE /\ UNCHANGED <<eax, edx, flags>>

ExecuteDiv(i) ==
    LET n == i.width
        quotient == Dividend(n) \div i.right
    IN
    /\ i.op = "div"
    /\ \/ i.right = 0 /\ DivideError
       \/ i.right # 0 /\ quotient >= 2^n /\ DivideError
       \/ i.right # 0 /\ quotient < 2^n /\ WriteDivision(quotient, Dividend(n) % i.right, n)

Magnitude(v) == IF v < 0 THEN -v ELSE v
Truncated(a, b) ==
    LET q == Magnitude(a) \div Magnitude(b) IN IF (a < 0) # (b < 0) THEN -q ELSE q

(* Wrong: a quotient that is too large is cut.                              *)
QuotientFitsAlways(quotient, n) == TRUE

QuotientFits(quotient, n) == Fits(quotient, n)

ExecuteIdiv(i) ==
    LET n == i.width
        dividend == Signed(Dividend(n), 2 * n)
        divisor == Signed(i.right, n)
        quotient == Truncated(dividend, divisor)
    IN
    /\ i.op = "idiv"
    /\ \/ i.right = 0 /\ DivideError
       \/ i.right # 0 /\ ~QuotientFits(quotient, n) /\ DivideError
       \/ i.right # 0 /\ QuotientFits(quotient, n)
          /\ WriteDivision(quotient, dividend - quotient * divisor, n)

Next ==
    /\ at < Len(program) /\ ~fault
    /\ at' = at + 1
    /\ LET i == program[at + 1]
       IN ExecuteSimple(i) \/ ExecuteMul(i) \/ ExecuteImul(i) \/ ExecuteDiv(i) \/ ExecuteIdiv(i)
    /\ UNCHANGED <<program, start>>

Spec == Init /\ [][Next]_vars

-----------------------------------------------------------------------------
(* Every variable has its type.                                             *)
TypeOK ==
    /\ eax \in Values(DwordBits) /\ edx \in Values(DwordBits)
    /\ flags \subseteq ArithmeticFlags
    /\ at \in 0..Len(program) /\ fault \in BOOLEAN

Ended == at = Len(program)
First == program[1]
Ran(ops) == Ended /\ Len(program) = 1 /\ First.op \in ops
Before == Truncate(start.eax, First.width)
After == Truncate(eax, First.width)

(* An adder of single bits: the carry into each bit.                        *)
CarryInto(left, right, carry, n) ==
    LET c[i \in 0..n] ==
            IF i = 0 THEN carry
            ELSE Cardinality({b \in 1..3 : CASE b = 1 -> Bit(left, i - 1)
                                             [] b = 2 -> Bit(right, i - 1)
                                             [] b = 3 -> c[i - 1]}) >= 2
    IN c

Adds(right, carry, inverted) ==
    LET n == First.width
        c == CarryInto(Before, right, carry, n)
    IN /\ First.op # "cmp" =>
              \A i \in 0..(n - 1) : Bit(After, i) = ((Bit(Before, i) # Bit(right, i)) # c[i])
       /\ First.op \notin {"inc", "dec"} => ("CF" \in flags) = (c[n] # inverted)
       /\ ("AF" \in flags) = (c[ByteBits \div 2] # inverted)
       /\ ("OF" \in flags) = (c[n] # c[n - 1])

(* Sums, differences and their carries, half carries and overflows are      *)
(* those of an adder of single bits, which subtracts by adding the          *)
(* complement (add_with_carry_flags, sub_with_borrow_flags).                *)
SumsAreTheAdders ==
    LET complement(v) == 2^First.width - 1 - v
        old == "CF" \in start.flags
    IN /\ Ran({"add"}) => Adds(First.right, FALSE, FALSE)
       /\ Ran({"adc"}) => Adds(First.right, old, FALSE)
       /\ Ran({"sub", "cmp"}) => Adds(complement(First.right), TRUE, TRUE)
       /\ Ran({"sbb"}) => Adds(complement(First.right), ~old, TRUE)
       /\ Ran({"inc"}) => Adds(1, FALSE, FALSE)
       /\ Ran({"dec"}) => Adds(complement(1), TRUE, TRUE)
       /\ Ran({"inc", "dec"}) => ("CF" \in flags) = old

(* After a comparison a jump is taken if the numbers are in the order it    *)
(* names, as unsigned or as signed numbers (condition).                     *)
ConditionsCompare ==
    Ran({"cmp"}) =>
        LET n == First.width
            right == First.right
        IN /\ Condition("e", flags) = (Before = right)
           /\ Condition("b", flags) = (Before < right)
           /\ Condition("be", flags) = (Before <= right)
           /\ Condition("l", flags) = (Signed(Before, n) < Signed(right, n))
           /\ Condition("le", flags) = (Signed(Before, n) <= Signed(right, n))

(* Bit i of a shifted or rotated value, for a count c below the width, is   *)
(* a bit of the value, and the carry is the bit that was moved out last     *)
(* (execute_shift_left, execute_shift_right, execute_rotate).  Counts from  *)
(* the width up are the hazards listed for them.                            *)
ShiftsMoveBits ==
    LET n == First.width
        c == Count(First.right)
        moved(i) == CASE First.op = "shl" -> i >= c /\ Bit(Before, i - c)
                      [] First.op = "shr" -> i + c < n /\ Bit(Before, i + c)
                      [] First.op = "sar" -> Bit(Before, IF i + c < n THEN i + c ELSE n - 1)
                      [] First.op = "rol" -> Bit(Before, (i - c) % n)
                      [] First.op = "ror" -> Bit(Before, (i + c) % n)
        out == IF First.op \in {"shl", "rol"} THEN n - c ELSE c - 1
    IN (Ran({"shl", "shr", "sar", "rol", "ror"}) /\ c < n) =>
        /\ \A i \in 0..(n - 1) : Bit(After, i) = moved(i)
        /\ ("CF" \in flags) = IF c = 0 THEN "CF" \in start.flags ELSE Bit(Before, out)

Ops == [j \in DOMAIN program |-> program[j].op]
Whole(high, low, n) == Truncate(high, n) * 2^n + Truncate(low, n)

(* A number of two words is added, subtracted and shifted by the pairs of   *)
(* instructions a compiler uses for it: the carry, and the bits that cross  *)
(* from one word to the other, are not lost (ADC, SBB, SHLD and SHRD).      *)
PairsActAsOne ==
    LET n == First.width
        last == program[Len(program)]
        old == Whole(start.edx, start.eax, n)
        new == Whole(edx, eax, n)
        other == Whole(last.right, First.right, n)
        c == Count(First.right)
    IN Ended =>
        /\ Ops = <<"add", "adc">> => /\ new = (old + other) % 2^(2 * n)
                                     /\ ("CF" \in flags) = (old + other >= 2^(2 * n))
        /\ Ops = <<"sub", "sbb">> => /\ new = (old - other) % 2^(2 * n)
                                     /\ ("CF" \in flags) = (old < other)
        /\ Ops = <<"shld", "shl">> => new = (old * 2^c) % 2^(2 * n)
        /\ Ops = <<"shrd", "shr">> => new = old \div 2^c

(* A product can be divided by what it was made with: its halves are where  *)
(* a division looks for them, whatever the width and the signs; its carry   *)
(* tells whether the low half is all of it (write_implicit_product).        *)
ProductsDivideBack ==
    /\ Ops \in {<<"mul", "div">>, <<"imul", "idiv">>} =>
          /\ ~fault
          /\ Ended => Truncate(eax, First.width) = Before
    /\ Ran({"mul", "imul"}) =>
          LET n == First.width
              of(v) == IF First.op = "imul" THEN Signed(v, n) ELSE v
          IN ("CF" \in flags) = (of(After) # of(Before) * of(First.right))

(* A quotient and a remainder are what they should be, and a division that  *)
(* has none raises the divide error and changes nothing (execute_divide).   *)
DivisionIsExact ==
    Ran({"div", "idiv"}) =>
        LET n == First.width
            signed == First.op = "idiv"
            of(v, bits) == IF signed THEN Signed(v, bits) ELSE v
            divisor == of(First.right, n)
            dividend == of(IF n = ByteBits THEN Truncate(start.eax, WordBits)
                           ELSE Whole(start.edx, start.eax, n), 2 * n)
            quotient == of(After, n)
            remainder == of(Truncate(IF n = ByteBits THEN eax \div 2^n ELSE edx, n), n)
            exact(q, r) == /\ dividend = q * divisor + r /\ Magnitude(r) < Magnitude(divisor)
                           /\ r # 0 => (r < 0) = (dividend < 0)
        IN /\ ~fault => exact(quotient, remainder)
           /\ fault => /\ eax = start.eax /\ edx = start.edx
                       /\ divisor # 0 =>
                             ~\E q \in Values(n) : LET s == of(q, n) IN exact(s, dividend - s * divisor)
=============================================================================
