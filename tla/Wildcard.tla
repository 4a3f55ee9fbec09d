------------------------------ MODULE Wildcard ------------------------------
(***************************************************************************)
(* wildcard_matches (vnrt-win32): is a file name one that a search pattern  *)
(* of FindFirstFileA means?  The loop goes through both once and comes back *)
(* to the last star only.  Letters are compared in lower case.              *)
(***************************************************************************)
EXTENDS Integers, Sequences

CONSTANTS Letters, MaxPattern, MaxValue

VARIABLES
    pattern, value,     \* what is compared
    at,                 \* the indexes of the loop, from 0 up
    star, retry,        \* the last star seen, None if there was none, and
                        \*   where its match may end
    result              \* None until the loop returns

vars == <<pattern, value, at, star, retry, result>>

None == -1
Any == "?"
Star == "*"
Dot == "."
EverySpelling == <<Star, Dot, Star>>

(* No name has a star in it.                                                *)
WildcardAssumption == Star \notin Letters

Of(symbols, n) == UNION {[1..k -> symbols] : k \in 0..n}

Init ==
    /\ pattern \in Of(Letters \cup {Any, Star, Dot}, MaxPattern)
    /\ value \in Of(Letters \cup {Dot}, MaxValue)
    /\ at = [pattern |-> 0, value |-> 0]
    /\ star = None /\ retry = 0
    /\ result = IF pattern = EverySpelling THEN 1 ELSE None

PatternHas(symbols) == at.pattern < Len(pattern) /\ pattern[at.pattern + 1] \in symbols

Step ==
    /\ at.value < Len(value)
    /\ PatternHas({Any, value[at.value + 1]})
    /\ at' = [pattern |-> at.pattern + 1, value |-> at.value + 1]
    /\ UNCHANGED <<star, retry, result>>

(* Wrong: it comes back to the first star.                                  *)
SeeFirstStar ==
    /\ at.value < Len(value)
    /\ PatternHas({Star})
    /\ IF star = None THEN star' = at.pattern /\ retry' = at.value ELSE UNCHANGED <<star, retry>>
    /\ at' = [at EXCEPT !.pattern = @ + 1]
    /\ UNCHANGED result

SeeStar ==
    /\ at.value < Len(value)
    /\ PatternHas({Star})
    /\ star' = at.pattern /\ retry' = at.value
    /\ at' = [at EXCEPT !.pattern = @ + 1]
    /\ UNCHANGED result

Differ == at.value < Len(value) /\ ~PatternHas({Any, Star, value[at.value + 1]})

BackToStar ==
    /\ Differ /\ star # None
    /\ retry' = retry + 1
    /\ at' = [pattern |-> star + 1, value |-> retry + 1]
    /\ UNCHANGED <<star, result>>

Fail ==
    /\ Differ /\ star = None
    /\ result' = 0
    /\ UNCHANGED <<at, star, retry>>

(* What is left of the pattern has to be stars.                             *)
Finish ==
    /\ at.value = Len(value)
    /\ result' = IF \A i \in (at.pattern + 1)..Len(pattern) : pattern[i] = Star THEN 1 ELSE 0
    /\ UNCHANGED <<at, star, retry>>

Next ==
    /\ result = None
    /\ Step \/ SeeStar \/ BackToStar \/ Fail \/ Finish
    /\ UNCHANGED <<pattern, value>>

Spec == Init /\ [][Next]_vars

-----------------------------------------------------------------------------
(* The symbols of a pattern from the i-th on mean a name from its j-th      *)
(* letter on if they can be laid over it: a star over any stretch of it,    *)
(* another symbol over one letter.  Symbol k ends where symbol k + 1 begins.*)
LiesOver(symbol, from, to) ==
    IF symbol = Star THEN from <= to ELSE to = from + 1 /\ symbol \in {Any, value[to]}

Means(i, j) ==
    \E end \in [i..Len(pattern) -> j..Len(value)] :
        /\ end[i] = j
        /\ end[Len(pattern)] = Len(value)
        /\ \A k \in (i + 1)..Len(pattern) : LiesOver(pattern[k], end[k - 1], end[k])

(* Going back to the last star only, the loop finds every match there is    *)
(* and no other; *.* means every name, with a dot or without.               *)
MatchesWhatItMeans ==
    result # None =>
        (result = 1 <=> (pattern = EverySpelling \/ Means(0, 0)))
=============================================================================
