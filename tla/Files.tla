------------------------------- MODULE Files --------------------------------
(***************************************************************************)
(* Files, directories and searches of the guest: the handlers of kernel32   *)
(* over ProcessIo and SandboxFileSystem (vnrt-win32), which keep the bytes  *)
(* of a file open for writing in a buffer until it is flushed or closed.    *)
(*                                                                          *)
(* Paths have one component, and the file system of the host tells case     *)
(* apart.  The guest opens no directory as a file, and it shares no file    *)
(* that it writes (MayOpen, MayRemove: what share mode 0 would refuse,      *)
(* which the code ignores).  It may give any spelling of a name, but what   *)
(* it writes or makes it spells as the disk does, unless Respells.  The     *)
(* host's own calls succeed.                                                *)
(*                                                                          *)
(* Definitions headed "Wrong:" are faulty variants of the definition that   *)
(* follows them; nothing uses them but the tests of the properties.         *)
(***************************************************************************)
EXTENDS Integers, Sequences, SequencesExt

CONSTANTS
    Spellings,      \* of paths
    Fold(_),        \* the name, in lower case, that a path spells
    Respells,       \* may it write what exists in another spelling?
    Bytes, Zero,
    MaxLength, MaxHandles, MaxCalls     \* bounds of a behaviour

(* Bytes are numbers.                                                       *)
FilesAssumption ==
    /\ Bytes \subseteq Nat /\ Zero \in Nat
    /\ MaxLength \in Nat \ {0} /\ MaxHandles \in Nat
    /\ Respells \in BOOLEAN

VARIABLES
    disk,           \* the bytes of the files under the root
    directories,    \* and the directories
    files,          \* HandleTable<OpenFile>: by handle
    nextFile,       \* its next
    searches,       \* entries not yet returned, by search handle
    nextSearch,     \* next_search_handle
    standard,       \* standard_handles: input, output, error
    console,        \* which of output and error the guest has written to
    errorMode,      \* of the process
    got,            \* history: the last bytes read, the last number told of a file
    steps           \* number of calls, weighted

vars == <<disk, directories, files, nextFile, searches, nextSearch, standard, console,
          errorMode, got, steps>>

Names == {Fold(p) : p \in Spellings}
Strings == UNION {[1..n -> Bytes] : n \in 0..MaxLength}     \* what is written
FirstFile == 4
FirstSearch == 1000
ConsoleHandles == <<1, 2, 3>>

Put(f, x, v) == [y \in DOMAIN f \cup {x} |-> IF y = x THEN v ELSE f[y]]
Without(f, x) == [y \in DOMAIN f \ {x} |-> f[y]]
Least(m, n) == IF m < n THEN m ELSE n

Init ==
    /\ \E present \in SUBSET Spellings :
          /\ \A p, q \in present : Fold(p) = Fold(q) => p = q
          /\ disk \in [present -> [1..1 -> Bytes]]
    /\ directories = {}
    /\ files = [h \in {} |-> 0] /\ nextFile = FirstFile
    /\ searches = [h \in {} |-> 0] /\ nextSearch = FirstSearch
    /\ standard = ConsoleHandles /\ console = {} /\ errorMode = 0
    /\ got = [bytes |-> <<>>, number |-> 0]
    /\ steps = 0

Opened == DOMAIN files
OpenOn(path) == {h \in Opened : Fold(files[h].path) = Fold(path)}

others == <<directories, searches, nextSearch, standard, console, errorMode>>

-----------------------------------------------------------------------------
(* SandboxFileSystem.  What exists is found in any case, the exact spelling *)
(* first; what is written has the spelling that is asked for.               *)
ExistingAs(path) ==
    LET there == DOMAIN disk \cup directories IN
    IF path \in there THEN {path} ELSE {p \in there : Fold(p) = Fold(path)}

FilesystemWrite(path, bytes) == disk' = Put(disk, path, bytes)
FilesystemRemove(path) == \E found \in ExistingAs(path) \ directories : disk' = Without(disk, found)

(* Wrong: a file of that name is not in the way.                            *)
CreateDirectoryOver(path) == directories' = directories \cup {path}

CreateDirectoryAt(path) ==
    path \notin DOMAIN disk \cup directories /\ directories' = directories \cup {path}

RemoveDirectoryAt(path) ==
    \E found \in ExistingAs(path) \cap directories : directories' = directories \ {found}

(* Of a file that is read where it is: a handle of the host.                *)
HostReadFile(opening, found) ==
    [opening EXCEPT !.path = found, !.kind = "stream", !.length = Len(disk[found])]

(* What the guest refrains from.                                            *)
MaySpell(path) == Respells \/ ExistingAs(path) \subseteq {path}

MayOpen(path, writes) ==
    /\ ExistingAs(path) \cap directories = {}
    /\ writes => MaySpell(path)
    /\ \A h \in OpenOn(path) : ~writes /\ ~files[h].writable

MayRemove(path) == OpenOn(path) = {}

-----------------------------------------------------------------------------
(* Opening.                                                                 *)
Insert(file) ==
    /\ nextFile' = nextFile + 4
    /\ files' = Put(files, nextFile, file)

Opening(path, readable, writable) ==
    [path |-> path, kind |-> "buffered", bytes |-> <<>>, cursor |-> 0, length |-> 0,
     readable |-> readable, writable |-> writable, dirty |-> FALSE]

(* Dispositions: CREATE_NEW, CREATE_ALWAYS, OPEN_EXISTING, OPEN_ALWAYS and  *)
(* TRUNCATE_EXISTING.                                                       *)
Refuses(disposition, existed, writable) ==
    \/ disposition = 1 /\ existed
    \/ disposition = 3 /\ ~existed
    \/ disposition = 5 /\ ~(existed /\ writable)

CreatesEmpty(disposition, existed) ==
    disposition \in {1, 2, 5} \/ (disposition = 4 /\ ~existed)

(* A file that is only read stays on the host; any other is read whole.     *)
OpenFile(path, readable, writable, disposition) ==
    LET existed == ExistingAs(path) # {}
        empty == CreatesEmpty(disposition, existed)
        opening == Opening(path, readable, writable)
    IN
    /\ ~Refuses(disposition, existed, writable)
    /\ MayOpen(path, writable \/ empty)
    /\ \/ /\ empty
          /\ FilesystemWrite(path, <<>>)
          /\ Insert(opening)
       \/ /\ ~empty /\ UNCHANGED disk
          /\ \E found \in ExistingAs(path) :
                Insert(IF writable THEN [opening EXCEPT !.bytes = disk[found]]
                       ELSE HostReadFile(opening, found))

OpenDirectory(path) ==
    /\ ExistingAs(path) \cap directories # {}
    /\ Insert([Opening(path, FALSE, FALSE) EXCEPT !.kind = "directory"])
    /\ UNCHANGED disk

CreateFile(path, readable, writable, disposition) ==
    /\ nextFile < FirstFile + 4 * MaxHandles
    /\ \/ OpenFile(path, readable, writable, disposition)
       \/ disposition = 3 /\ OpenDirectory(path)
    /\ UNCHANGED <<others, got>>

-----------------------------------------------------------------------------
(* Reading and writing.                                                     *)
Content(h) == IF files[h].kind = "stream" THEN disk[files[h].path] ELSE files[h].bytes

Reported(h, number) ==
    IF files[h].kind = "directory" THEN got ELSE [got EXCEPT !.number = number]

(* What a read of that length returns.                                      *)
BytesAt(h, length) ==
    SubSeq(Content(h), files[h].cursor + 1, Least(files[h].cursor + length, Len(Content(h))))

ReadFile(h, length) ==
    /\ files[h].readable
    /\ got' = [got EXCEPT !.bytes = BytesAt(h, length)]
    /\ files' = [files EXCEPT ![h].cursor = @ + Len(got'.bytes)]
    /\ UNCHANGED <<disk, nextFile, others>>

Resized(bytes, length) ==
    [i \in 1..length |-> IF i <= Len(bytes) THEN bytes[i] ELSE Zero]

(* Wrong: what lies behind the bytes written is cut off.                    *)
WrittenCuts(bytes, cursor, new) == Resized(bytes, cursor) \o new

Written(bytes, cursor, new) ==
    LET end == cursor + Len(new)
        room == IF Len(bytes) < end THEN Resized(bytes, end) ELSE bytes
    IN [i \in DOMAIN room |-> IF i \in (cursor + 1)..end THEN new[i - cursor] ELSE room[i]]

ProcessWrite(h, new) ==
    /\ files[h].writable
    /\ files[h].cursor + Len(new) <= MaxLength
    /\ files' = [files EXCEPT ![h].bytes = Written(@, files[h].cursor, new),
                              ![h].cursor = @ + Len(new),
                              ![h].dirty = TRUE]
    /\ UNCHANGED console

(* A handle that is no open file may be a standard one.                     *)
WriteHandle(h, new) ==
    \/ h \in Opened /\ ProcessWrite(h, new)
    \/ h \notin Opened /\ h = standard[2] /\ console' = console \cup {"output"} /\ UNCHANGED files
    \/ h \notin Opened /\ h # standard[2] /\ h = standard[3]
       /\ console' = console \cup {"error"} /\ UNCHANGED files

WriteFile(h, new) ==
    /\ WriteHandle(h, new)
    /\ UNCHANGED <<disk, directories, nextFile, searches, nextSearch, standard, errorMode, got>>

(* Wrong: the new length is not marked for writing back.                    *)
SetEndClean(h) == files' = [files EXCEPT ![h].bytes = Resized(@, files[h].cursor)]

SetEnd(h) ==
    files' = [files EXCEPT ![h].bytes = Resized(@, files[h].cursor), ![h].dirty = TRUE]

SetEndOfFile(h) == files[h].writable /\ SetEnd(h) /\ UNCHANGED <<disk, nextFile, others, got>>

Flush(h) ==
    IF files[h].dirty
    THEN FilesystemWrite(files[h].path, files[h].bytes)
         /\ files' = [files EXCEPT ![h].dirty = FALSE]
    ELSE UNCHANGED <<disk, files>>

FlushFileBuffers(h) == Flush(h) /\ UNCHANGED <<nextFile, others, got>>

Base(h, origin) ==
    CASE origin = "start" -> 0
      [] origin = "current" -> files[h].cursor
      [] origin = "end" -> Len(Content(h))

Sought(h, distance, origin) == Base(h, origin) + distance

SetFilePointer(h, distance, origin) ==
    LET position == Sought(h, distance, origin) IN
    /\ position \in 0..MaxLength
    /\ files' = [files EXCEPT ![h].cursor = position]
    /\ got' = Reported(h, position)
    /\ UNCHANGED <<disk, nextFile, others>>

(* The length of a stream is the one it was opened with.                    *)
SizeOf(h) == IF files[h].kind = "stream" THEN files[h].length ELSE Len(files[h].bytes)

GetFileSize(h) ==
    /\ got' = Reported(h, SizeOf(h))
    /\ UNCHANGED <<disk, files, nextFile, others>>

(* Wrong: the buffer goes with the handle.                                  *)
CloseForgets(h) == files' = Without(files, h) /\ UNCHANGED disk

Close(h) ==
    /\ files' = Without(files, h)
    /\ IF files[h].dirty THEN FilesystemWrite(files[h].path, files[h].bytes) ELSE UNCHANGED disk

CloseHandle(h) == Close(h) /\ UNCHANGED <<nextFile, others, got>>

-----------------------------------------------------------------------------
(* Files and directories by name.                                           *)
DeleteFile(path) ==
    /\ MayRemove(path)
    /\ FilesystemRemove(path)
    /\ UNCHANGED <<files, nextFile, others, got>>

Copied(source, destination, failIfExists) ==
    /\ failIfExists => ExistingAs(destination) = {}
    /\ \E found \in ExistingAs(source) \ directories : FilesystemWrite(destination, disk[found])

CopyFile(source, destination, failIfExists) ==
    /\ MayOpen(source, FALSE) /\ MayOpen(destination, TRUE)
    /\ Copied(source, destination, failIfExists)
    /\ UNCHANGED <<files, nextFile, others, got>>

allButDirectories == <<disk, files, nextFile, searches, nextSearch, standard, console,
                        errorMode, got>>

CreateDirectory(path) ==
    MaySpell(path) /\ CreateDirectoryAt(path) /\ UNCHANGED allButDirectories

RemoveDirectory(path) == RemoveDirectoryAt(path) /\ UNCHANGED allButDirectories

Attributes(found) == IF found \in directories THEN 16 ELSE 32

GetFileAttributes(path) ==
    /\ ExistingAs(path) # {}
    /\ \E found \in ExistingAs(path) :
          got' = [got EXCEPT !.number = Attributes(found)]
    /\ UNCHANGED <<disk, files, nextFile, others>>

-----------------------------------------------------------------------------
(* A search is over the names that match when it starts.                    *)
Listings(wanted) ==
    LET matching == {p \in DOMAIN disk \cup directories : Fold(p) \in wanted} IN
    {s \in SetToSeqs(matching) : \A i, j \in DOMAIN s : i < j => Fold(s[i]) <= Fold(s[j])}

allButSearches == <<disk, directories, files, nextFile, standard, console, errorMode, got>>

StartSearch(found) ==
    /\ found # <<>>
    /\ searches' = Put(searches, nextSearch, Tail(found))
    /\ nextSearch' = nextSearch + 4

FindFirstFile(wanted) ==
    /\ nextSearch < FirstSearch + 4 * MaxHandles
    /\ \E found \in Listings(wanted) : StartSearch(found)
    /\ UNCHANGED allButSearches

Advance(s) == searches[s] # <<>> /\ searches' = [searches EXCEPT ![s] = Tail(@)]

FindNextFile(s) ==
    /\ Advance(s)
    /\ UNCHANGED <<nextSearch, allButSearches>>

FindClose(s) ==
    /\ searches' = Without(searches, s)
    /\ UNCHANGED <<nextSearch, allButSearches>>

-----------------------------------------------------------------------------
(* What the process keeps beside its files.                                 *)
allButProcess == <<disk, directories, files, nextFile, searches, nextSearch, console, got>>

ReplaceStandard(i, h) == standard' = [standard EXCEPT ![i] = h]

SetStdHandle(i, h) ==
    /\ ReplaceStandard(i, h)
    /\ UNCHANGED <<errorMode, allButProcess>>

SetErrorMode(mode) ==
    /\ errorMode' = mode
    /\ UNCHANGED <<standard, allButProcess>>

-----------------------------------------------------------------------------
FileCall ==
    \/ \E path \in Spellings, readable, writable \in BOOLEAN, disposition \in 1..5 :
          CreateFile(path, readable, writable, disposition)
    \/ \E h \in Opened, length \in 0..MaxLength : ReadFile(h, length)
    \/ \E h \in Opened \cup {standard[2], standard[3]}, new \in Strings : WriteFile(h, new)
    \/ \E h \in Opened : SetEndOfFile(h)
    \/ \E h \in Opened : FlushFileBuffers(h)
    \/ \E h \in Opened, distance \in {-1, 0, 2}, origin \in {"start", "current", "end"} :
          SetFilePointer(h, distance, origin)
    \/ \E h \in Opened : GetFileSize(h)
    \/ \E h \in Opened : CloseHandle(h)
    \/ \E path \in Spellings : DeleteFile(path)
    \/ \E source, destination \in Spellings, failIfExists \in BOOLEAN :
          CopyFile(source, destination, failIfExists)

OtherCall ==
    \/ \E path \in Spellings : CreateDirectory(path)
    \/ \E path \in Spellings : RemoveDirectory(path)
    \/ \E path \in Spellings : GetFileAttributes(path)
    \/ \E wanted \in SUBSET Names \ {{}} : FindFirstFile(wanted)
    \/ \E s \in DOMAIN searches : FindNextFile(s)
    \/ \E s \in DOMAIN searches : FindClose(s)
    \/ \E i \in 1..3, h \in Opened : SetStdHandle(i, h)
    \/ \E mode \in {1, 2} : SetErrorMode(mode)

(* The bound counts calls about anything but files twice.                   *)
Next ==
    \/ steps < MaxCalls /\ steps' = steps + 1 /\ FileCall
    \/ steps + 1 < MaxCalls /\ steps' = steps + 2 /\ OtherCall

Spec == Init /\ [][Next]_vars

-----------------------------------------------------------------------------
(* Every variable has its type.                                             *)
TypeOK ==
    /\ DOMAIN disk \subseteq Spellings /\ directories \subseteq Spellings \ DOMAIN disk
    /\ \A p \in DOMAIN disk : disk[p] \in Seq(Bytes \cup {Zero})
    /\ \A h \in Opened :
          /\ h < nextFile /\ files[h].path \in Spellings
          /\ files[h].kind \in {"stream", "buffered", "directory"}
          /\ files[h].bytes \in Seq(Bytes \cup {Zero}) /\ files[h].cursor \in 0..MaxLength
    /\ \A s \in DOMAIN searches : s < nextSearch /\ searches[s] \in Seq(Spellings)
    /\ standard \in [1..3 -> Nat] /\ console \subseteq {"output", "error"}

(* What the guest sees of a file: the buffer of a handle it writes, if that *)
(* is ahead of the disk.                                                    *)
DirtyOn(f) == {h \in Opened : files[h].dirty /\ Fold(files[h].path) = f}
SpelledOnDisk(f) == {p \in DOMAIN disk : Fold(p) = f}

Seen(f) ==
    IF DirtyOn(f) # {} THEN files[CHOOSE h \in DirtyOn(f) : TRUE].bytes
    ELSE IF SpelledOnDisk(f) # {} THEN disk[CHOOSE p \in SpelledOnDisk(f) : TRUE]
    ELSE <<-1>>

SeenContents == [f \in Names |-> Seen(f)]

FileHandles ==
    [h \in {g \in Opened : files[g].kind # "directory"} |->
        [file |-> Fold(files[h].path), position |-> files[h].cursor]]

Contract == INSTANCE FileContract WITH
    Handles <- {FirstFile + 4 * i : i \in 0..(MaxHandles - 1)},
    Bytes <- Bytes \cup {Zero},
    contents <- SeenContents,
    opened <- FileHandles

(* What the guest sees of files and handles is what FileContract promises:  *)
(* a write is seen at once by every handle and in every spelling of the     *)
(* name, whatever is buffered (ProcessIo and its callers).                  *)
FilesKeepTheirContract == Contract!ContractSpec

(* The spellings of a name find the same file (docs/TARGET_EUPHORIA.md:72:  *)
(* "case-insensitive path lookup").  Holds while the guest writes a file as *)
(* the disk spells it; else the file is made a second time (write).         *)
LookupIgnoresCase ==
    \A p, q \in Spellings : Fold(p) = Fold(q) => ExistingAs(p) = ExistingAs(q)
=============================================================================
