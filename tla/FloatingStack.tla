---------------------------- MODULE FloatingStack ----------------------------
(***************************************************************************)
(* What the x87 instructions promise: a stack of numbers that instructions  *)
(* name from the top.  A guest keeps no more numbers in it than there are   *)
(* registers, and names no others.                                          *)
(***************************************************************************)
EXTENDS Integers, Sequences

CONSTANTS
    Numbers, Depth,
    Result(_, _, _),    \* what an operation makes of a destination and a source
    Value(_),           \* what a function makes of its argument
    Compares(_, _)      \* how two numbers compare

Operations == {"difference", "reverse difference"}

VARIABLES
    stack,      \* the top first
    compared    \* how the last comparison came out

stackVars == <<stack, compared>>

Outcomes == {"less", "equal", "greater", "unordered"}

StackInit == stack = <<>> /\ compared \in Outcomes

St(i) == stack[i + 1]
With(s, i, v) == [s EXCEPT ![i + 1] = v]
Places == 0..(Len(stack) - 1)
Sources == Numbers \cup {St(i) : i \in Places}

Load(v) == Len(stack) < Depth /\ stack' = <<v>> \o stack /\ UNCHANGED compared
Discard == stack # <<>> /\ stack' = Tail(stack) /\ UNCHANGED compared

(* A place is given a number, and the top is then kept or discarded.        *)
Replace(i, v) ==
    /\ stack' \in {With(stack, i, v), Tail(With(stack, i, v))}
    /\ UNCHANGED compared

Store(i) == Replace(i, St(0))
Operate(op, i, v) == Replace(i, Result(op, St(i), v))

Exchange(i) ==
    /\ stack' = With(With(stack, 0, St(i)), i, St(0))
    /\ UNCHANGED compared

Compare(v, pops) ==
    /\ pops <= Len(stack)
    /\ compared' = Compares(St(0), v)
    /\ stack' = SubSeq(stack, pops + 1, Len(stack))

(* A function of the top that needs a small argument leaves no comparison,  *)
(* and nothing else if the argument is large.  One of them has two values.  *)
Function ==
    /\ compared' \in Outcomes
    /\ LET replaced == With(stack, 0, Value(St(0))) IN
       \/ stack' \in {stack, replaced}
       \/ Len(stack) < Depth /\ stack' = <<St(0)>> \o replaced

StackNext ==
    \/ \E v \in Sources : Load(v)
    \/ Discard
    \/ stack # <<>> /\ Function
    \/ \E i \in Places :
          \/ Store(i)
          \/ Replace(i, Value(St(i)))
          \/ Exchange(i)
          \/ \E op \in Operations, v \in Sources : Operate(op, i, v)
    \/ stack # <<>> /\ \E v \in Sources, pops \in 0..2 : Compare(v, pops)

StackSpec == StackInit /\ [][StackNext]_stackVars
=============================================================================
