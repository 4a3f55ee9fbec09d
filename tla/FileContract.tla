---------------------------- MODULE FileContract ----------------------------
(***************************************************************************)
(* What the file calls of kernel32 promise a guest that shares no file it   *)
(* writes: every write is in the file at once, names differ only if they    *)
(* differ in more than case, and each handle has a position of its own.     *)
(* Files is shown to implement it, whatever it buffers.                     *)
(***************************************************************************)
EXTENDS Integers, Sequences

CONSTANTS Names,        \* of files, whatever their case
          Handles,      \* what an open file is known by
          Bytes, Zero,  \* contents, and the byte that fills gaps
          MaxLength     \* bound: on lengths and positions

VARIABLES
    contents,   \* of each file, Absent if there is none
    opened,     \* by handle: file and position
    got         \* what the last call returned: bytes, or a number

contractVars == <<contents, opened, got>>

Absent == <<-1>>        \* no string of bytes
Strings == UNION {[1..n -> Bytes] : n \in 0..MaxLength}

ContractInit ==
    /\ contents \in [Names -> Strings \cup {Absent}]
    /\ opened = [h \in {} |-> 0]
    /\ got = [bytes |-> <<>>, number |-> 0]

Byte(c, i) == IF i <= Len(c) THEN c[i] ELSE Zero

(* The bytes of a file, with others from a position on.                     *)
Overwritten(c, at, new) ==
    [i \in 1..(IF Len(c) > at + Len(new) THEN Len(c) ELSE at + Len(new)) |->
        IF i \in (at + 1)..(at + Len(new)) THEN new[i - at] ELSE Byte(c, i)]

Cut(c, length) == [i \in 1..length |-> Byte(c, i)]

(* A handle is opened; the file is there, made empty first or not.          *)
OpenHandle(h, f, empty) ==
    /\ h \notin DOMAIN opened
    /\ empty \/ contents[f] # Absent
    /\ UNCHANGED got
    /\ opened' = [g \in DOMAIN opened \cup {h} |->
                    IF g = h THEN [file |-> f, position |-> 0] ELSE opened[g]]
    /\ contents' = IF empty THEN [contents EXCEPT ![f] = <<>>] ELSE contents

ReadBytes(h, n) ==
    LET c == contents[opened[h].file]
        from == opened[h].position
        upTo == IF from + n < Len(c) THEN from + n ELSE Len(c)
    IN
    /\ got' = [got EXCEPT !.bytes = SubSeq(c, from + 1, upTo)]
    /\ opened' = [opened EXCEPT ![h].position = @ + Len(got'.bytes)]
    /\ UNCHANGED contents

Tell(number) ==
    got' = [got EXCEPT !.number = number] /\ UNCHANGED <<contents, opened>>

TellSize(h) == Tell(Len(contents[opened[h].file]))

(* A file has attributes 32; where there is none, a directory may be.       *)
TellKind(f) == Tell(IF contents[f] # Absent THEN 32 ELSE 16)

WriteBytes(h, new) ==
    /\ UNCHANGED got
    /\ opened' = [opened EXCEPT ![h].position = @ + Len(new)]
    /\ contents' = [contents EXCEPT ![opened[h].file] = Overwritten(@, opened[h].position, new)]

CutHere(h) ==
    /\ UNCHANGED <<got, opened>>
    /\ contents' = [contents EXCEPT ![opened[h].file] = Cut(@, opened[h].position)]

MoveTo(h, position) ==
    /\ got' = [got EXCEPT !.number = position]
    /\ opened' = [opened EXCEPT ![h].position = position]
    /\ UNCHANGED contents

CloseIt(h) ==
    /\ UNCHANGED got
    /\ opened' = [g \in DOMAIN opened \ {h} |-> opened[g]]
    /\ UNCHANGED contents

Delete(f) ==
    UNCHANGED <<got, opened>> /\ contents' = [contents EXCEPT ![f] = Absent]

Copy(f, g) ==
    /\ UNCHANGED <<got, opened>>
    /\ contents[f] # Absent
    /\ contents' = [contents EXCEPT ![g] = contents[f]]

ContractNext ==
    \/ \E h \in DOMAIN opened, n \in 0..MaxLength : ReadBytes(h, n)
    \/ \E h \in DOMAIN opened, position \in 0..MaxLength : MoveTo(h, position)
    \/ \E h \in DOMAIN opened : TellSize(h)
    \/ \E f \in Names : TellKind(f)
    \/ \E h \in Handles, f \in Names, empty \in BOOLEAN : OpenHandle(h, f, empty)
    \/ \E h \in DOMAIN opened, new \in Strings : WriteBytes(h, new)
    \/ \E h \in DOMAIN opened : CutHere(h)
    \/ \E h \in DOMAIN opened : CloseIt(h)
    \/ \E f \in Names : Delete(f)
    \/ \E f, g \in Names : Copy(f, g)

ContractSpec == ContractInit /\ [][ContractNext]_contractVars
=============================================================================
