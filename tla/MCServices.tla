------------------------------ MODULE MCServices ------------------------------
(* Process and Services on small instances: images of two sections, two     *)
(* names of files, RIFF files of five chunks.                               *)
EXTENDS Sequences, TLC, Process, Services

LocalThreads == 1..3

(* What a linker makes.                                                     *)
Linker ==
    INSTANCE MCLoader WITH
        Images <- {}, Registries <- {}, ModuleList <- <<>>, NameList <- <<>>,
        Undecorate <- <<>>, OrdinalOf <- <<>>
LinkedImages == Linker!MCImages
LinkedRegistries == Linker!MCRegistries
LinkedModules == Linker!MCModules
LinkedNames == Linker!MCNames
LinkedUndecorate == Linker!MCUndecorate
LinkedOrdinals == Linker!MCOrdinals

(* Two names of files, the second in lower and in upper case.               *)
LowerOf(p) == IF p = 3 THEN 2 ELSE p

GuestRoot == [drive |-> "C:", rooted |-> TRUE, components |-> <<"game">>]
GuestCharacters == {<<"a">>, <<"lead", "trail">>}
SmallDisplay == [width |-> 2, height |-> 1]

(* A RIFF file of two chunks and a list of one between them, each of any    *)
(* small size, whole or cut off.                                            *)
Chunk(id, form, size, parent) == [id |-> id, form |-> form, size |-> size, parent |-> parent]
Even(n) == n + (n % 2)
RiffFile(a, b, c, missing) ==
    LET list == 20 + Even(a)
        last == list + 20 + Even(b)
        end == last + 8 + Even(c)
    IN [size |-> end, length |-> end - missing,
        chunks |-> (0 :> Chunk("RIFF", "WAVE", end - 8, -1)
                    @@ 12 :> Chunk("fmt", "", a, 0)
                    @@ list :> Chunk("LIST", "INFO", 12 + Even(b), 0)
                    @@ list + 12 :> Chunk("data", "", b, list)
                    @@ last :> Chunk("data", "", c, 0))]
SmallRiffFiles ==
    {RiffFile(a, b, c, missing) : a \in 1..2, b \in 1..2, c \in 0..1, missing \in {0, 3, 9}}

-----------------------------------------------------------------------------
MCInit ==
    /\ focus \in {"loader", "threads", "paths", "wildcards"}
                 \cup {"files", "buffers", "direct3d", "multimedia"}
    /\ ProcessInit /\ ServicesInit
MCNext == ProcessNext /\ ServicesNext
MCSpec == MCInit /\ [][MCNext]_<<processVars, servicesVars>>

(* Every variable has its type.                                             *)
PartsTypeOK == ProcessTypeOK /\ ServicesTypeOK

ASSUME ImagesAssumption == Load!LoaderAssumption
ASSUME PatternsAssumption == Match!WildcardAssumption
ASSUME PathAssumption == Path!PathsAssumption
ASSUME FilesAssumption == FileApi!FilesAssumption
ASSUME BuffersAssumption == Buffer!TextAssumption
ASSUME ResourcesAssumption == D3d!Direct3DAssumption
ASSUME ChunksAssumption == Riff!RiffAssumption
=============================================================================
