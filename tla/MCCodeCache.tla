---------------------------- MODULE MCCodeCache ----------------------------
(***************************************************************************)
(* Instances of CodeCache.  A page has three addresses, so an instruction   *)
(* of two can lie across the page boundary with a jump behind it.           *)
(***************************************************************************)
EXTENDS CodeCache

(* "store" is what a zeroed page decodes to: ADD [EAX], AL, two bytes.      *)
MCLength == [v \in Values |-> IF v = "store" THEN 2 ELSE 1]
MCWritten == {<<"jump">>, <<"store", "store">>}
MCTargets == {2, 4}
MCStores == {2, 3}
MCOffered ==
    {[write |-> TRUE, execute |-> FALSE], [write |-> TRUE, execute |-> TRUE]}
MCIllegalStores == {4}
MCIllegalWritten == {<<"bad">>}
MCPrograms == {[a \in Addresses |-> IF a >= 4 THEN "jump" ELSE "store"]}
=============================================================================
