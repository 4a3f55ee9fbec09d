------------------------------- MODULE Process --------------------------------
(***************************************************************************)
(* What a process of the guest is made of, part by part: its image and the  *)
(* APIs bound to it, the state its threads keep apart, and the names of its *)
(* files.  ThreadLocal, which has proofs of its own, is extended.           *)
(***************************************************************************)
EXTENDS Parts, ThreadLocal

CONSTANTS
    (* Loader                                                               *)
    Images, Registries, ModuleList, NameList, Undecorate, OrdinalOf,
    PageCells, ThunkSlots, TlsRoom, MaxCallbacks, MaxSteps,
    (* Paths                                                                *)
    PathNames, Drives, Root, MaxComponents,
    (* Wildcard                                                             *)
    Letters, MaxPattern, MaxValue

VARIABLES
    (* Loader                                                               *)
    image, registry, phase, memory, access, thunks, exports, block, callbacks, ran, given,
    (* Paths                                                                *)
    directory, path, full, resolved,
    (* Wildcard                                                             *)
    pattern, value, at, star, retry, result

loaderVars == <<image, registry, phase, memory, access, thunks, exports, block, callbacks,
                ran, given>>
localVars == <<threadVars, errorVars, tlsVars, sectionVars, word, locker>>
pathVars == <<directory, path, full, resolved>>
wildcardVars == <<pattern, value, at, star, retry, result>>
processVars == <<focus, loaderVars, localVars, pathVars, wildcardVars, steps>>

Load == INSTANCE Loader
Path == INSTANCE Paths WITH Names <- PathNames
Match == INSTANCE Wildcard

-----------------------------------------------------------------------------
LoaderUnused ==
    /\ Unused(image) /\ Unused(registry) /\ Unused(phase) /\ Unused(memory) /\ Unused(access)
    /\ Unused(thunks) /\ Unused(exports) /\ Unused(block) /\ Unused(callbacks)
    /\ Unused(ran) /\ Unused(given)
ThreadUnused == Init /\ static = 0
PathUnused == Unused(directory) /\ Unused(path) /\ Unused(full) /\ Unused(resolved)
WildcardUnused ==
    /\ Unused(pattern) /\ Unused(value) /\ Unused(at) /\ Unused(star) /\ Unused(retry)
    /\ Unused(result)

ProcessInit ==
    /\ Focused("loader", Load!Init, LoaderUnused)
    /\ Focused("threads", Init, ThreadUnused)
    /\ Focused("paths", Path!Init, PathUnused)
    /\ Focused("wildcards", Match!Init, WildcardUnused)

ProcessNext ==
    /\ UNCHANGED focus
    /\ Focused("loader", Load!Next, UNCHANGED loaderVars)
    /\ Focused("threads", Next, UNCHANGED localVars)
    /\ Focused("paths", Path!Next, UNCHANGED pathVars)
    /\ Focused("wildcards", Match!Next, UNCHANGED wildcardVars)
    /\ focus \notin {"loader", "threads"} => UNCHANGED steps

ProcessSpec == ProcessInit /\ [][ProcessNext]_processVars

-----------------------------------------------------------------------------
(* Every variable of the part in focus has its type.                        *)
ProcessTypeOK ==
    /\ focus = "loader" => Load!TypeOK
    /\ TypeOK

(* Loader: what a linker makes can be loaded unless the thunks run out; the *)
(* parser reads the file where the guest finds the same cells in memory; a  *)
(* cell of a section allows what the section declares; the static TLS block *)
(* is the template and its zeros; the callbacks run in order, and the entry *)
(* point after them.                                                        *)
ImageComesToLife ==
    focus = "loader" =>
        /\ Load!WellFormedImagesLoad
        /\ Load!ParserSeesTheImage
        /\ Load!SectionsAsDeclared
        /\ Load!TlsBlockIsTemplate
        /\ Load!CallbacksComeFirst

(* Loader: calling an address the guest has got of an API calls that API,   *)
(* and an API has one address by import, export table and GetProcAddress.   *)
AddressesLeadToTheirApi ==
    focus = "loader" => Load!AddressesLeadToTheirApi /\ Load!OneAddressPerApi

(* Paths: what is opened lies under the guest's root; a complete path has a *)
(* drive and no steps to other directories; a path and its full name open   *)
(* the same file.  Wildcard: the loop finds every match and no other.       *)
NamesMeanFiles ==
    /\ focus = "paths" => Path!NamesMeanFiles
    /\ focus = "wildcards" => Match!MatchesWhatItMeans
=============================================================================
