-------------------------------- MODULE Paths --------------------------------
(***************************************************************************)
(* The two meanings of a path: GetFullPathName completes it by the current  *)
(* directory (absolute_windows_path); a file is opened by its place under   *)
(* the root of the sandbox (SandboxFileSystem), which the guest sees as the *)
(* directory it was started in.                                             *)
(*                                                                          *)
(* A path is a drive, if any, what follows it at a separator or not, and    *)
(* components.  Both separators are one; the case of letters is left out.   *)
(*                                                                          *)
(* Definitions headed "Wrong:" are faulty variants of the definition that   *)
(* follows them; nothing uses them but the tests of the properties.         *)
(***************************************************************************)
EXTENDS Integers, Sequences, SequencesExt

CONSTANTS
    Names,          \* of files and directories
    Drives,
    Root,           \* guest_root: a path with a drive
    MaxComponents   \* bound: on the components of a path

VARIABLES
    directory,      \* current_directory
    path,           \* the last path the guest has used,
    full, resolved  \*   and what the two made of it

vars == <<directory, path, full, resolved>>

NoDrive == "none"
Refused == <<"refused">>
Components == Names \cup {"", ".", ".."}

(* "" is the path without anything.                                         *)
Paths ==
    [drive : Drives \cup {NoDrive}, rooted : BOOLEAN,
     components : UNION {[1..n -> Components] : n \in 0..MaxComponents}]

NoPath == [drive |-> NoDrive, rooted |-> FALSE, components |-> <<>>]
Rooted(drive, components) == [drive |-> drive, rooted |-> TRUE, components |-> components]

(* The root has a drive and names of its own; a name is none of the steps.  *)
PathsAssumption ==
    /\ "C:" \in Drives /\ NoDrive \notin Drives
    /\ Root \in [drive : Drives, rooted : {TRUE}, components : Seq(Names)]
    /\ {"", ".", ".."} \cap Names = {}
    /\ Refused[1] \notin Names
    /\ MaxComponents \in Nat

-----------------------------------------------------------------------------
(* GetFullPathName.                                                         *)

(* Wrong: ".." is a name.                                                   *)
StepThroughKeepsParent(sofar, component) ==
    IF component \in {"", "."} THEN sofar ELSE Append(sofar, component)

StepThrough(sofar, component) ==
    CASE component \in {"", "."} -> sofar
      [] component = ".." -> IF sofar = <<>> THEN sofar ELSE Front(sofar)
      [] OTHER -> Append(sofar, component)

Normalized(components) == FoldLeft(StepThrough, <<>>, components)

(* Of the current directory; "C:" if it has none.                           *)
CurrentDrive(current) == IF current.drive = NoDrive THEN "C:" ELSE current.drive

(* A drive and what follows it are not looked at any closer: "C:a" is "C:\a". *)
AbsolutePath(current, p) ==
    IF p.drive # NoDrive THEN Rooted(p.drive, Normalized(p.components))
    ELSE IF p.rooted THEN Rooted(CurrentDrive(current), Normalized(p.components))
    ELSE Rooted(CurrentDrive(current), Normalized(current.components \o p.components))

-----------------------------------------------------------------------------
(* The sandbox.                                                             *)
Without(dropped, components) ==
    FoldLeft(LAMBDA sofar, c : IF c = dropped THEN sofar ELSE Append(sofar, c), <<>>, components)
WithoutEmpty(components) == Without("", components)
After(prefix, components) == SubSeq(components, Len(prefix) + 1, Len(components))

(* Wrong: the last component of the root stays in front.                    *)
RelativeGuestPathShort(p) ==
    LET components == WithoutEmpty(p.components) IN
    IF p.drive = NoDrive THEN IF p.rooted THEN Refused ELSE components
    ELSE IF /\ p.rooted /\ p.drive = Root.drive
            /\ IsStrictPrefix(Root.components, components)
    THEN After(Front(Root.components), components) ELSE Refused

(* Without the root, if it is drive-qualified; it may only be rooted then.  *)
RelativeGuestPath(p) ==
    LET components == WithoutEmpty(p.components) IN
    IF p.drive = NoDrive THEN IF p.rooted THEN Refused ELSE components
    ELSE IF /\ p.rooted /\ p.drive = Root.drive
            /\ IsStrictPrefix(Root.components, components)
    THEN After(Root.components, components) ELSE Refused

(* Wrong: a path may lead out.                                              *)
ResolveAnywhere(p) ==
    LET relative == Without(".", RelativeGuestPath(p))
    IN IF relative = <<>> THEN Refused ELSE relative

(* The place under the root: the root itself is none, and no path leads out *)
(* of it, even if it would come back.                                       *)
Resolve(p) ==
    LET relative == Without(".", RelativeGuestPath(p))
    IN IF relative = <<>> \/ \E i \in DOMAIN relative : relative[i] = ".." THEN Refused
       ELSE relative

-----------------------------------------------------------------------------
Init ==
    /\ directory = Root
    /\ path = NoPath /\ full = Root /\ resolved = Refused

(* Nothing is made of the new directory: it may have no drive.              *)
SetCurrentDirectory(p) ==
    /\ p # NoPath
    /\ directory' = p
    /\ UNCHANGED <<path, full, resolved>>

UsePath(p) ==
    /\ path' = p
    /\ full' = AbsolutePath(directory, p)
    /\ resolved' = Resolve(p)
    /\ UNCHANGED directory

(* A behaviour is about one directory and one path.                         *)
Next ==
    /\ path = NoPath
    /\ \/ directory = Root /\ \E p \in Paths : Len(p.components) <= 1 /\ SetCurrentDirectory(p)
       \/ \E p \in Paths : UsePath(p)

Spec == Init /\ [][Next]_vars

-----------------------------------------------------------------------------
(* What is opened lies under the root, whatever the path is made of         *)
(* (resolve).                                                               *)
StaysUnderRoot ==
    resolved # Refused => resolved # <<>> /\ \A i \in DOMAIN resolved : resolved[i] \in Names

(* A complete path is one: it has a drive, none of its components is a step *)
(* to another directory, and completing it again changes nothing, wherever  *)
(* the guest is by then (absolute_windows_path).                            *)
FullPathsAreComplete ==
    /\ full.drive \in Drives
    /\ \A i \in DOMAIN full.components : full.components[i] \in Names
    /\ AbsolutePath(directory, full) = full

(* A path that opens a file opens the same one by its full name, as long as *)
(* the guest is in the directory it was started in.                         *)
FullPathMeansTheSame ==
    (resolved # Refused /\ full = AbsolutePath(Root, path)) => Resolve(full) = resolved

(* All of this, for any directory and any path.                             *)
NamesMeanFiles == StaysUnderRoot /\ FullPathsAreComplete /\ FullPathMeansTheSame
=============================================================================
