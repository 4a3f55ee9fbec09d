--------------------------------- MODULE Mmio ---------------------------------
(***************************************************************************)
(* Walking through a RIFF file (vnrt-winmm): mmioDescend looks for a chunk  *)
(* from where the file is read, mmioAscend goes behind one.  A chunk is a   *)
(* header of eight bytes, its data, and a byte more if its size is odd; the *)
(* data of a RIFF or LIST chunk is a form type and the chunks inside.       *)
(*                                                                          *)
(* The guest descends from the start of a file or of the chunks of a list,  *)
(* gives the list it is in as the parent, and ascends from the innermost    *)
(* chunk.  A file may have been cut off.                                    *)
(*                                                                          *)
(* Definitions headed "Wrong:" are faulty variants of the definition that   *)
(* follows them; nothing uses them but the tests of the properties.         *)
(***************************************************************************)
EXTENDS Integers, Sequences, SequencesExt, FiniteSetsExt

CONSTANTS
    RiffFiles,      \* their chunks by offset, and how much of a file is there
    MaxWalk         \* calls of a behaviour

VARIABLES
    riff,
    position,       \* of the file handle
    inside,         \* the MMCKINFO of the chunks the guest is in
    ready,          \* may the guest descend from here?
    walked,         \* history: the last mmioDescend and its result
    walks           \* calls so far

vars == <<riff, position, inside, ready, walked, walks>>

HeaderSize == 8
FormSize == 4
Lists == {"RIFF", "LIST"}
NoForm == ""
NotFound == -1
Searches == {"any", "chunk", "RIFF", "LIST"}

Padded(size) == size + (size % 2)
Least(m, n) == IF m < n THEN m ELSE n
Upto(at) == IF at > riff.length THEN at ELSE riff.length

Init ==
    /\ riff \in RiffFiles
    /\ position = 0 /\ inside = <<>> /\ ready = TRUE
    /\ walked = [from |-> 0, parent |-> NotFound, search |-> "any", for |-> NoForm,
                 found |-> NotFound]
    /\ walks = 0

-----------------------------------------------------------------------------
(* What the guest asks for: a chunk id, or a form of a RIFF or LIST.        *)
IsWanted(chunk, search, wanted) ==
    CASE search = "any" -> TRUE
      [] search = "chunk" -> chunk.id = wanted
      [] search \in Lists -> chunk.id = search /\ chunk.form = wanted

ParentEnd ==
    IF inside = <<>> THEN riff.length ELSE Last(inside).data + Last(inside).size

(* Wrong: the byte that makes a size even is not skipped.                   *)
BehindUnpadded(data, size) == data + size

Behind(data, size) == data + Padded(size)

(* Where no chunk begins, the data reads as a header of some sort.          *)
HeaderAt(at) ==
    IF at \in DOMAIN riff.chunks THEN riff.chunks[at]
    ELSE [id |-> "data bytes", form |-> NoForm, size |-> 0, parent |-> NotFound]

(* The files the guest walks through: a chunk is followed by the next of    *)
(* its list or by the end of the list, wherever the file was cut off.       *)
Data(p) == p + HeaderSize
EndOf(file, p) == Data(p) + Padded(file.chunks[p].size)
ListEnd(file, list) == IF list = NotFound THEN file.size ELSE EndOf(file, list)

Continues(file, list, at) ==
    \/ at = ListEnd(file, list)
    \/ at \in DOMAIN file.chunks /\ file.chunks[at].parent = list

WellFormed(file) ==
    /\ file.size \in Nat /\ file.length \in 0..file.size
    /\ DOMAIN file.chunks \subseteq Nat
    /\ Continues(file, NotFound, 0)
    /\ \A p \in DOMAIN file.chunks :
          LET chunk == file.chunks[p] IN
          /\ chunk.size \in Nat /\ EndOf(file, p) <= file.size
          /\ chunk.parent # NotFound =>
                /\ chunk.parent \in DOMAIN file.chunks
                /\ Data(p) <= Data(chunk.parent) + file.chunks[chunk.parent].size
          /\ chunk.id \in Lists => Continues(file, p, Data(p) + FormSize)
          /\ Continues(file, chunk.parent, EndOf(file, p))
          /\ \A q \in DOMAIN file.chunks :
                file.chunks[q].parent = chunk.parent /\ p < q => EndOf(file, p) <= q

RiffAssumption ==
    /\ MaxWalk \in Nat
    /\ \A file \in RiffFiles : WellFormed(file)

(* The loop of mmioDescend from an offset: the header it ends at and where  *)
(* it leaves the file.                                                      *)
Descended(search, wanted) ==
    LET loop[at \in 0..riff.size] ==
            LET chunk == HeaderAt(at)
                data == at + HeaderSize
                form == IF chunk.id \in Lists THEN FormSize ELSE 0
            IN IF data > ParentEnd THEN [found |-> NotFound, position |-> at]
               ELSE IF data > riff.length THEN [found |-> NotFound, position |-> Upto(at)]
               ELSE IF data + form > riff.length
               THEN [found |-> NotFound, position |-> riff.length]
               ELSE IF IsWanted(chunk, search, wanted)
               THEN [found |-> at, position |-> data + form]
               ELSE loop[Behind(data, chunk.size)]
    IN loop[position]

MmioDescend(search, wanted) ==
    /\ ready
    /\ LET result == Descended(search, wanted)
           chunk == HeaderAt(result.found)
       IN /\ position' = result.position
          /\ walked' = [from |-> position, search |-> search, for |-> wanted,
                        found |-> result.found,
                        parent |-> IF inside = <<>> THEN NotFound
                                   ELSE Last(inside).data - HeaderSize]
          /\ inside' = IF result.found = NotFound THEN inside
                       ELSE Append(inside, [id |-> chunk.id, size |-> chunk.size,
                                            data |-> result.found + HeaderSize])
          /\ ready' = (result.found # NotFound /\ chunk.id \in Lists)

(* Wrong: the guest comes back to the data of the chunk.                    *)
MmioAscendToStart ==
    /\ inside # <<>>
    /\ position' = Last(inside).data
    /\ inside' = Front(inside)
    /\ ready' = TRUE
    /\ UNCHANGED walked

MmioAscend ==
    /\ inside # <<>>
    /\ position' = Behind(Last(inside).data, Last(inside).size)
    /\ inside' = Front(inside)
    /\ ready' = TRUE
    /\ UNCHANGED walked

(* mmioRead: as much as there is.                                           *)
MmioRead(n) ==
    /\ inside # <<>> /\ position < riff.length
    /\ position' = Least(position + n, riff.length)
    /\ ready' = FALSE
    /\ UNCHANGED <<inside, walked>>

(* mmioSeek, back to the start of the data.                                 *)
MmioSeek ==
    /\ inside # <<>>
    /\ position' = Last(inside).data
    /\ ready' = FALSE
    /\ UNCHANGED <<inside, walked>>

Ids == {riff.chunks[p].id : p \in DOMAIN riff.chunks}
Forms == {riff.chunks[p].form : p \in DOMAIN riff.chunks}

Next ==
    /\ walks < MaxWalk
    /\ walks' = walks + 1
    /\ UNCHANGED riff
    /\ \/ MmioDescend("any", NoForm)
       \/ \E id \in Ids : MmioDescend("chunk", id)
       \/ \E search \in Lists, form \in Forms : MmioDescend(search, form)
       \/ MmioAscend
       \/ \E n \in {1, 5} : MmioRead(n)
       \/ MmioSeek

Spec == Init /\ [][Next]_vars

-----------------------------------------------------------------------------
(* Every variable has its type.                                             *)
TypeOK ==
    /\ riff \in RiffFiles
    /\ position \in Nat /\ walks \in 0..MaxWalk
    /\ ready \in BOOLEAN
    /\ \A level \in Range(inside) : level.data \in Nat /\ level.size \in Nat
    /\ walked.search \in Searches

(* What mmioDescend finds is the first chunk of its kind that is left of    *)
(* the parent's, however the sizes of those before it come out, and it      *)
(* finds none only if there is none.                                        *)
DescendFindsTheFirst ==
    LET there == {p \in DOMAIN riff.chunks :
            /\ riff.chunks[p].parent = walked.parent
            /\ p >= walked.from
            /\ p + HeaderSize + (IF riff.chunks[p].id \in Lists THEN FormSize ELSE 0)
                 <= riff.length
            /\ IsWanted(riff.chunks[p], walked.search, walked.for)}
    IN walks > 0 => walked.found = (IF there = {} THEN NotFound ELSE Min(there))

(* Where the guest may descend there is a chunk of the list it is in, or    *)
(* the end of it: descending and ascending never lose the headers.          *)
StaysOnChunks ==
    LET parent == IF inside = <<>> THEN NotFound ELSE Last(inside).data - HeaderSize
        end == IF inside = <<>> THEN riff.size
               ELSE Last(inside).data + Padded(Last(inside).size)
    IN ready => \/ position \in DOMAIN riff.chunks /\ riff.chunks[position].parent = parent
                \/ position = end

(* Both, whatever the guest has walked through and been given.              *)
ChunksAreFound == DescendFindsTheFirst /\ StaysOnChunks
=============================================================================
