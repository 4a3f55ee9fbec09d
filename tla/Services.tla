------------------------------- MODULE Services -------------------------------
(***************************************************************************)
(* What the host does when the guest calls it, part by part: files, the     *)
(* calls that fill a buffer, Direct3D 9 and RIFF files.                     *)
(***************************************************************************)
EXTENDS Parts

CONSTANTS
    (* Files                                                                *)
    Spellings, Fold(_), Respells, Bytes, ZeroByte, MaxLength, MaxHandles, MaxFileCalls,
    (* TextBuffers                                                          *)
    Characters, MaxText, MaxCapacity,
    (* Direct3D9                                                            *)
    MaxWord, HalfWord, MaxAllocation, Sizes, Display,
    MaxObjects, MaxWrites, MaxReferences, MaxDirect3DCalls,
    (* Mmio                                                                 *)
    RiffFiles, MaxWalk

VARIABLES
    (* Files                                                                *)
    disk, directories, files, nextFile, searches, nextSearch, standard, console, errorMode, got,
    (* TextBuffers                                                          *)
    api, wide, counted, text, asked,
    (* Direct3D9                                                            *)
    objects, bits, hasGpu, textures, held, unlocked, lock,
    (* Mmio                                                                 *)
    riff, position, inside, ready, walked, walks,
    (* of several parts: the call and the number of calls                   *)
    call, calls

fileVars == <<disk, directories, files, nextFile, searches, nextSearch, standard, console,
              errorMode, got>>
bufferVars == <<api, wide, counted, text, asked>>
direct3dVars == <<objects, bits, hasGpu, textures, held, unlocked, lock>>
mmioVars == <<riff, position, inside, ready, walked, walks>>
servicesVars == <<focus, fileVars, bufferVars, direct3dVars, mmioVars, call, calls>>

FileApi == INSTANCE Files WITH Zero <- ZeroByte, MaxCalls <- MaxFileCalls, steps <- calls
Buffer == INSTANCE TextBuffers
D3d == INSTANCE Direct3D9 WITH MaxCalls <- MaxDirect3DCalls, steps <- calls
Riff == INSTANCE Mmio

-----------------------------------------------------------------------------
FilesUnused == FileApi!Init /\ disk = <<>>
BufferUnused ==
    Unused(api) /\ Unused(wide) /\ Unused(counted) /\ Unused(text) /\ Unused(asked)
D3dUnused ==
    /\ Unused(objects) /\ Unused(bits) /\ Unused(hasGpu) /\ Unused(textures) /\ Unused(held)
    /\ Unused(unlocked) /\ Unused(lock)
MmioUnused ==
    /\ Unused(riff) /\ Unused(position) /\ Unused(inside) /\ Unused(ready)
    /\ Unused(walked) /\ Unused(walks)

ServicesInit ==
    /\ Focused("files", FileApi!Init, FilesUnused)
    /\ Focused("buffers", Buffer!Init, BufferUnused)
    /\ Focused("direct3d", D3d!Init, D3dUnused)
    /\ Focused("multimedia", Riff!Init, MmioUnused)
    /\ focus \notin {"buffers", "direct3d"} => Unused(call)
    /\ calls = 0

ServicesNext ==
    /\ UNCHANGED focus
    /\ Focused("files", FileApi!Next, UNCHANGED fileVars)
    /\ Focused("buffers", Buffer!Next, UNCHANGED bufferVars)
    /\ Focused("direct3d", D3d!Next, UNCHANGED direct3dVars)
    /\ Focused("multimedia", Riff!Next, UNCHANGED mmioVars)
    /\ focus \notin {"buffers", "direct3d"} => UNCHANGED call
    /\ focus \notin {"files", "direct3d"} => UNCHANGED calls

ServicesSpec == ServicesInit /\ [][ServicesNext]_servicesVars

-----------------------------------------------------------------------------
(* Every variable of the part in focus has its type.                        *)
ServicesTypeOK ==
    /\ focus = "files" => FileApi!TypeOK
    /\ focus = "buffers" => Buffer!TypeOK
    /\ focus = "direct3d" => D3d!TypeOK
    /\ focus = "multimedia" => Riff!TypeOK

(* TextBuffers: nothing is written behind the end of a buffer, and a        *)
(* terminator at the end of what is; a buffer of the size that was told is  *)
(* large enough; the guest can tell whether it has the text.                *)
BuffersSuffice == focus = "buffers" => Buffer!BuffersSuffice

(* Direct3D9: the count of an object is the references to it; the GPU gets  *)
(* as many bytes as it wants, and shows what was unlocked last; what        *)
(* LockBuffer gives out lies in the memory of the buffer.                   *)
ResourcesCoherent ==
    focus = "direct3d" => D3d!ResourcesCoherent

(* Mmio: mmioDescend finds the first chunk of its kind, if there is one,    *)
(* and descending and ascending never lose the headers of the chunks.       *)
ChunksAreFound == focus = "multimedia" => Riff!ChunksAreFound

(* Files: what the guest sees of files and handles is what FileContract      *)
(* promises, in every spelling of a name.                                   *)
FilesKeepTheirContract == FileApi!FilesKeepTheirContract

(* Files: the spellings of a name find the same file (docs/                 *)
(* TARGET_EUPHORIA.md:72: "case-insensitive path lookup").                  *)
LookupIgnoresCase == focus = "files" => FileApi!LookupIgnoresCase
=============================================================================
