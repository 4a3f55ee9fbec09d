---------------------------- MODULE MCArithmetic -----------------------------
(* Programs for Arithmetic: every instruction by itself over every operand, *)
(* and the pairs that compute with two words.                               *)
EXTENDS Arithmetic

Start(a, d, set) == [eax |-> a, edx |-> d, flags |-> set]
Starts(as, ds, sets) == {Start(a, d, s) : a \in as, d \in ds, s \in sets}
CarryOrNot == {{}, {"CF"}}
All == Values(DwordBits)

Singles ==
    UNION {{[code |-> << Instruction(op, n, "eax", right) >>,
             starts |-> Starts(All, {5}, IF op \in {"and", "or", "xor", "test"}
                                         THEN {ArithmeticFlags} ELSE CarryOrNot)] :
               op \in Simple \ {"shld", "shrd"}, right \in Values(n)} : n \in Widths}

Products ==
    UNION {{[code |-> code, starts |-> Starts(All, {0, 21}, {{}})] :
               code \in UNION {{ << Instruction("mul", n, "eax", right) >>,
                                 << Instruction("imul", n, "eax", right) >> } \cup
                               (IF right = 0 THEN {} ELSE
                               { << Instruction("mul", n, "eax", right),
                                    Instruction("div", n, "eax", right) >>,
                                 << Instruction("imul", n, "eax", right),
                                    Instruction("idiv", n, "eax", right) >> }) :
                               right \in Values(n)}} : n \in Widths}

Divisions ==
    UNION {{[code |-> << Instruction(op, n, "eax", right) >>,
             starts |-> Starts(All, IF n = ByteBits THEN {21} ELSE All, {{}})] :
               op \in {"div", "idiv"}, right \in Values(n)} : n \in Widths}

Pair(a, b, n, low, high) == << Instruction(a, n, "eax", low), Instruction(b, n, "edx", high) >>
Turned(a, b, n, c, target, other) == << Instruction(a, n, target, c), Instruction(b, n, other, c) >>

Pairs ==
    {[code |-> Pair(ops[1], ops[2], WordBits, low, high),
      starts |-> Starts(Values(WordBits), {0, 1, 7, 8, 15}, {{}})] :
        ops \in {<<"add", "adc">>, <<"sub", "sbb">>}, low \in Values(WordBits),
        high \in {0, 1, 7, 8, 15}}
    \cup
    {[code |-> code, starts |-> Starts(Values(WordBits), Values(WordBits), {{}})] :
        code \in UNION {{Turned("shld", "shl", WordBits, c, "edx", "eax"),
                         Turned("shrd", "shr", WordBits, c, "eax", "edx")} : c \in 0..WordBits}}

MCPrograms == Singles \cup Products \cup Divisions \cup Pairs
=============================================================================
