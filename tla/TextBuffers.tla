----------------------------- MODULE TextBuffers -----------------------------
(***************************************************************************)
(* The calls that give the guest a text in a buffer of the guest's, each    *)
(* with its own convention for the size of the buffer, the answer and the   *)
(* last error (kernel32, user32, psapi, advapi32).  The guest may ask for   *)
(* the size first, and the text may change before it asks again.            *)
(*                                                                          *)
(* A text is a sequence of characters.  A character is one unit of the wide *)
(* encoding and one or two of the ANSI one (Shift-JIS).  A buffer is only   *)
(* absent where the call looks at its address, or has a capacity of 0.      *)
(*                                                                          *)
(* Definitions headed "Wrong:" are faulty variants of the definition that   *)
(* follows them; nothing uses them but the tests of the properties.         *)
(***************************************************************************)
EXTENDS Integers, Sequences, SequencesExt

CONSTANTS
    Characters,     \* as sequences of ANSI units
    MaxText,        \* bound: on characters
    MaxCapacity     \* bound: on units of a buffer

(* A character is a sequence of at least one unit, and no mark of Absent.   *)
TextAssumption ==
    /\ \A c \in Characters : c \in Seq(Range(c)) /\ c # <<>> /\ c # <<"absent">>
    /\ MaxText \in Nat /\ MaxCapacity \in Nat

VARIABLES
    api,            \* the call this behaviour is about
    wide,           \* its W or its A form
    counted,        \* is the text to convert given by its length?
    text,           \* the text it is about, Absent if there is none
    call,           \* the last call: capacity, buffer and result
    asked           \* the size told for this text, None if it has not been

vars == <<api, wide, counted, text, call, asked>>

None == -1
Keep == -1          \* the last error is left alone
Absent == << <<"absent">> >>
Nul == IF wide THEN <<"nul">> ELSE "nul"
Insufficient == 122

Least(m, n) == IF m < n THEN m ELSE n
TextsFrom(n) == UNION {[1..k -> Characters] : k \in n..MaxText}

(* encode_utf16_z and encode_ansi_z, the ends apart.                        *)
EncodeAnsi(t) == FlattenSeq(t)
EncodeUtf16(t) == t
Encoded(t) == IF wide THEN EncodeUtf16(t) ELSE EncodeAnsi(t)
Z(units) == Append(units, Nul)

-----------------------------------------------------------------------------
(* The ways a call may end: with the units it writes, its answer, the last  *)
(* error, and the size it tells, if it does.                                *)
Result(written, answer, error, told) ==
    [written |-> written, answer |-> answer, error |-> error, told |-> told]

Fails(error) == Result(<<>>, 0, error, None)

(* Wrong: one unit more than there is room for.                             *)
RoomForMore(units, capacity, buffer) == buffer /\ Len(units) <= capacity + 1

Room(units, capacity, buffer) == buffer /\ Len(units) <= capacity

(* finish_conversion_bytes.  The terminator is among the units, if any.     *)
FinishConversion(units, capacity, buffer, success) ==
    IF capacity = 0 THEN Result(<<>>, Len(units), success, Len(units))
    ELSE IF Room(units, capacity, buffer) THEN Result(units, Len(units), success, None)
    ELSE Fails(Insufficient)

(* The length is told without its terminator when the text was written and  *)
(* with it when it was not.                                                 *)
Fetch(t, capacity, buffer, success, short) ==
    LET units == Z(Encoded(t)) IN
    IF Room(units, capacity, buffer) THEN Result(units, Len(units) - 1, success, None)
    ELSE Result(<<>>, Len(units), short, Len(units))

(* Wrong: the last unit is not made a terminator.                           *)
TruncatedOpen(units, capacity) == SubSeq(units, 1, capacity)

Truncated(units, capacity) == Z(SubSeq(units, 1, capacity - 1))

(* What fits, without a sign of what does not.                              *)
CopyWhatFits(t, capacity) ==
    LET copied == Least(Len(Encoded(t)), IF capacity = 0 THEN 0 ELSE capacity - 1)
    IN Result(IF capacity = 0 THEN <<>> ELSE Z(SubSeq(Encoded(t), 1, copied)), copied, 0, None)

-----------------------------------------------------------------------------
(* The calls.                                                               *)
GetLocaleInfo(t, capacity, buffer) ==
    LET result == FinishConversion(Z(Encoded(t)), capacity, buffer, 0)
    IN IF capacity = 0 THEN [result EXCEPT !.error = Keep] ELSE result

(* A text converted by its length comes without a terminator.               *)
Converted(t) == IF counted THEN Encoded(t) ELSE Z(Encoded(t))

WideCharToMultiByte(t, capacity, buffer) ==
    FinishConversion(Converted(t), capacity, buffer, 0)
MultiByteToWideChar(t, capacity, buffer) ==
    FinishConversion(Converted(t), capacity, buffer, 0)
LcMapString(t, capacity, buffer) ==
    FinishConversion(Converted(t), capacity, buffer, IF wide THEN Keep ELSE 0)

(* Wrong: a cut path is answered with the length of what was written.       *)
WriteModulePathUnsigned(units, capacity) ==
    IF Len(units) <= capacity THEN Result(units, Len(units) - 1, 0, None)
    ELSE Result(Truncated(units, capacity), capacity - 1, Insufficient, None)

WriteModulePath(units, capacity) ==
    IF Len(units) <= capacity THEN Result(units, Len(units) - 1, 0, None)
    ELSE Result(Truncated(units, capacity), capacity, Insufficient, None)

GetModuleFileName(t, capacity, buffer) ==
    IF ~buffer \/ capacity = 0 THEN Fails(Insufficient)
    ELSE WriteModulePath(Z(Encoded(t)), capacity)

GetModuleBaseName(t, capacity) ==
    IF capacity = 0 THEN Fails(Insufficient) ELSE CopyWhatFits(t, capacity)

GetClassName(t, capacity) == CopyWhatFits(t, capacity)
WriteWindowTitle(t, capacity) == CopyWhatFits(t, capacity)

(* Wrong: the length told leaves the terminator out.                        *)
GetEnvironmentVariableTellsLess(t, capacity, buffer) ==
    IF t = Absent THEN Fails(203)
    ELSE LET result == Fetch(t, capacity, buffer, 0, Insufficient)
         IN [result EXCEPT !.told = IF @ = None THEN None ELSE @ - 1]

GetEnvironmentVariable(t, capacity, buffer) ==
    IF t = Absent THEN Fails(203) ELSE Fetch(t, capacity, buffer, 0, Insufficient)

GetCurrentDirectory(t, capacity, buffer) == Fetch(t, capacity, buffer, 0, Insufficient)
GetSystemDirectory(t, capacity, buffer) == Fetch(t, capacity, buffer, Keep, Keep)
GetShortPathName(t, capacity, buffer) == Fetch(t, capacity, buffer, Keep, Keep)
GetFullPathName(t, capacity) == Fetch(t, capacity, TRUE, Keep, Keep)

(* The size goes to a word of its own; the list ends in two terminators.    *)
GetThreadPreferredUiLanguages(t, capacity, buffer) ==
    LET units == Z(Z(t)) IN
    IF ~buffer /\ capacity = 0 THEN Result(<<>>, 1, 0, Len(units))
    ELSE IF capacity < Len(units) THEN Result(<<>>, 0, Insufficient, Len(units))
    ELSE Result(units, 1, 0, Len(units))

(* So does this one's; what it writes is no text and of one size.           *)
GetTokenInformation(capacity, buffer) ==
    LET units == <<Nul, Nul>> IN
    IF Room(units, capacity, buffer) THEN Result(units, 1, 0, 2)
    ELSE Result(<<>>, 0, Insufficient, 2)

Fetching == {"GetEnvironmentVariable", "GetCurrentDirectory", "GetSystemDirectory",
             "GetShortPathName", "GetFullPathName", "GetModuleFileName"}
Counted == {"WideCharToMultiByte", "MultiByteToWideChar", "LcMapString"}
Converting == Counted \cup {"GetLocaleInfo"}
Copying == {"GetModuleBaseName", "GetClassName", "GetWindowText"}
Sizing == {"GetThreadPreferredUiLanguages", "GetTokenInformation"}

(* The calls that may be given no buffer whatever its capacity.             *)
LooksAtBuffer == (Converting \cup Fetching \cup {"GetTokenInformation"}) \ {"GetFullPathName"}

MayBeEmpty == {"GetEnvironmentVariable", "GetWindowText"}

Outcome(t, capacity, buffer) ==
    CASE api = "GetLocaleInfo" -> GetLocaleInfo(t, capacity, buffer)
      [] api = "WideCharToMultiByte" -> WideCharToMultiByte(t, capacity, buffer)
      [] api = "MultiByteToWideChar" -> MultiByteToWideChar(t, capacity, buffer)
      [] api = "LcMapString" -> LcMapString(t, capacity, buffer)
      [] api = "GetModuleFileName" -> GetModuleFileName(t, capacity, buffer)
      [] api = "GetModuleBaseName" -> GetModuleBaseName(t, capacity)
      [] api = "GetClassName" -> GetClassName(t, capacity)
      [] api = "GetWindowText" -> WriteWindowTitle(t, capacity)
      [] api = "GetEnvironmentVariable" -> GetEnvironmentVariable(t, capacity, buffer)
      [] api = "GetCurrentDirectory" -> GetCurrentDirectory(t, capacity, buffer)
      [] api = "GetSystemDirectory" -> GetSystemDirectory(t, capacity, buffer)
      [] api = "GetShortPathName" -> GetShortPathName(t, capacity, buffer)
      [] api = "GetFullPathName" -> GetFullPathName(t, capacity)
      [] api = "GetThreadPreferredUiLanguages" -> GetThreadPreferredUiLanguages(t, capacity, buffer)
      [] api = "GetTokenInformation" -> GetTokenInformation(capacity, buffer)

-----------------------------------------------------------------------------
NoCall == [capacity |-> 0, buffer |-> FALSE, result |-> Fails(Keep)]

Init ==
    /\ api \in Fetching \cup Converting \cup Copying \cup Sizing
    /\ wide \in CASE api = "WideCharToMultiByte" -> {FALSE}
                 [] api \in {"MultiByteToWideChar"} \cup Sizing -> {TRUE}
                 [] OTHER -> BOOLEAN
    /\ counted \in IF api \in Counted THEN BOOLEAN ELSE {FALSE}
    /\ text \in IF api \in MayBeEmpty THEN TextsFrom(0) ELSE TextsFrom(1)
    /\ call = NoCall
    /\ asked = None

Call(capacity, buffer) ==
    /\ buffer \/ capacity = 0 \/ api \in LooksAtBuffer
    /\ LET result == Outcome(text, capacity, buffer) IN
       /\ call' = [capacity |-> capacity, buffer |-> buffer, result |-> result]
       /\ asked' = IF result.told = None THEN asked ELSE result.told
    /\ UNCHANGED <<api, wide, counted, text>>

(* The guest changes the text, or another thread does.                      *)
Becomes(t) == text' = t /\ asked' = None /\ call' = NoCall /\ UNCHANGED <<api, wide, counted>>

SetEnvironmentVariable(t) == api = "GetEnvironmentVariable" /\ Becomes(t)
SetCurrentDirectory(t) == api \in {"GetCurrentDirectory", "GetFullPathName"} /\ t # <<>> /\ Becomes(t)
SetWindowTitle(t) == api = "GetWindowText" /\ Becomes(t)

Next ==
    \/ \E buffer \in BOOLEAN, capacity \in 0..MaxCapacity : Call(capacity, buffer)
    \/ \E t \in TextsFrom(0) \cup {Absent} : SetEnvironmentVariable(t)
    \/ \E t \in TextsFrom(0) : SetCurrentDirectory(t)
    \/ \E t \in TextsFrom(0) : SetWindowTitle(t)

Spec == Init /\ [][Next]_vars

-----------------------------------------------------------------------------
(* Every variable has its type.                                             *)
TypeOK ==
    /\ wide \in BOOLEAN /\ counted \in BOOLEAN /\ text \in TextsFrom(0) \cup {Absent}
    /\ call.capacity \in 0..MaxCapacity /\ asked \in Int

(* Nothing is written behind the end of the buffer (every call above).      *)
StaysInside == Len(call.result.written) <= IF call.buffer THEN call.capacity ELSE 0

(* All that there is to be written.                                         *)
Whole ==
    CASE api = "GetTokenInformation" -> <<Nul, Nul>>
      [] api = "GetThreadPreferredUiLanguages" -> Z(Z(text))
      [] OTHER -> Converted(text)

(* A buffer of the size that was told is large enough: a guest that asks,   *)
(* allocates and calls again has the text unless it has changed, and is not *)
(* told a larger size for ever.                                             *)
ToldSizeSuffices ==
    (asked # None /\ call.capacity >= asked /\ call.buffer) =>
        call.result.written = Whole

(* What the guest takes for success by the convention of the call.          *)
Claims ==
    LET result == call.result IN
    CASE api \in Converting -> call.capacity # 0 /\ result.answer # 0
      [] api \in Fetching -> result.answer < call.capacity /\ (result.answer # 0 \/ result.error = 0)
      [] api \in Sizing -> call.buffer /\ result.answer = 1
      [] api \in Copying -> result.answer < call.capacity - 1

(* The guest can tell by the answer and the last error whether it has the   *)
(* text.  By a call that copies what fits it cannot tell whether a text     *)
(* that fills the buffer is all there is.                                   *)
SuccessIsTold ==
    (call.buffer /\ text # Absent) =>
        /\ Claims => call.result.written = Whole
        /\ (api \notin Copying /\ call.result.written = Whole) => Claims

(* What is written ends in a terminator, and is the text up to there.       *)
EndsInTerminator ==
    LET written == call.result.written IN
    (written # <<>> /\ ~counted) =>
        /\ Last(written) = Nul
        /\ SubSeq(written, 1, Len(written) - 1) = SubSeq(Whole, 1, Len(written) - 1)

(* What fits is written, and its size and that of the buffer it takes are   *)
(* told as each call does (every call above).                               *)
BuffersSuffice == StaysInside /\ EndsInTerminator /\ ToldSizeSuffices /\ SuccessIsTold
=============================================================================
