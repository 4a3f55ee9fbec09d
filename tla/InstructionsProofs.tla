------------------------- MODULE InstructionsProofs ---------------------------
(***************************************************************************)
(* Proofs about the instructions: the x87 registers implement the stack of  *)
(* FloatingStack, for any number of registers and any numbers; and an       *)
(* instruction on memory does the same however often a fault or the end of  *)
(* a batch interrupts it, for any number of cells and any batch.            *)
(***************************************************************************)
EXTENDS Instructions, SequenceTheorems, WellFoundedInduction, TLAPS

-----------------------------------------------------------------------------
(* Registers.  One turn of the file in either direction.                    *)
LEMMA Turn ==
    ASSUME NEW n \in Nat \ {0}, NEW a \in (-n)..(2 * n - 1)
    PROVE  a % n = IF a < 0 THEN a + n ELSE IF a < n THEN a ELSE a - n
<1>1. CASE a < 0
  BY <1>1
<1>2. CASE a \in 0..(n - 1)
  BY <1>2
<1>3. CASE a >= n
  BY <1>3
<1> QED BY <1>1, <1>2, <1>3

(* The registers count round.                                               *)
At(i) == IF top + i < UnitRegisters THEN top + i ELSE top + i - UnitRegisters
Down == IF top = 0 THEN UnitRegisters - 1 ELSE top - 1

LEMMA Turns ==
    ASSUME Float!X87Assumption, Float!TypeOK
    PROVE  /\ \A i \in 0..UnitRegisters : (top + i) % UnitRegisters = At(i) /\ At(i) \in 0..(UnitRegisters - 1)
           /\ \A i \in 0..(UnitRegisters - 1) : Float!Physical(i) = At(i) /\ Float!Get(i) = file[At(i)]
           /\ \A i \in 0..(UnitRegisters - 1) : Float!Get(i) \in Float!Numbers
           /\ (top - 1) % UnitRegisters = Down /\ Down \in 0..(UnitRegisters - 1)
<1>1. UnitRegisters \in Nat \ {0} /\ top \in 0..(UnitRegisters - 1)
        /\ file \in [0..(UnitRegisters - 1) -> Float!Numbers]
  BY DEF Float!X87Assumption, Float!TypeOK
<1>2. ASSUME NEW i \in 0..UnitRegisters
      PROVE  (top + i) % UnitRegisters = At(i) /\ At(i) \in 0..(UnitRegisters - 1)
  <2>1. top + i \in (-UnitRegisters)..(2 * UnitRegisters - 1)
    BY <1>1
  <2> DEFINE a == top + i
  <2>2. a % UnitRegisters = IF a < 0 THEN a + UnitRegisters ELSE IF a < UnitRegisters THEN a ELSE a - UnitRegisters
    <3> HIDE DEF a
    <3> QED BY <1>1, <2>1, Turn DEF a
  <2> QED BY <1>1, <2>2 DEF At
<1>3. \A i \in 0..(UnitRegisters - 1) : Float!Physical(i) = At(i) /\ Float!Get(i) = file[At(i)]
  <2>1. \A i \in 0..(UnitRegisters - 1) : i \in 0..UnitRegisters
    BY <1>1
  <2> QED BY <1>2, <2>1 DEF Float!Physical, Float!Get
<1>4. (top - 1) % UnitRegisters = Down /\ Down \in 0..(UnitRegisters - 1)
  <2>1. top - 1 \in (-UnitRegisters)..(2 * UnitRegisters - 1)
    BY <1>1
  <2> DEFINE a == top - 1
  <2>2. a % UnitRegisters = IF a < 0 THEN a + UnitRegisters ELSE IF a < UnitRegisters THEN a ELSE a - UnitRegisters
    <3> HIDE DEF a
    <3> QED BY <1>1, <2>1, Turn DEF a
  <2> QED BY <1>1, <2>2 DEF Down
<1> QED BY <1>1, <1>2, <1>3, <1>4

LEMMA TopOfDepth ==
    ASSUME Float!X87Assumption, NEW d \in 0..UnitRegisters
    PROVE  (-d) % UnitRegisters = IF d = 0 THEN 0 ELSE UnitRegisters - d
<1> DEFINE a == -d
<1>1. UnitRegisters \in Nat \ {0} /\ a \in (-UnitRegisters)..(2 * UnitRegisters - 1)
  BY DEF Float!X87Assumption
<1>2. a % UnitRegisters = IF a < 0 THEN a + UnitRegisters ELSE IF a < UnitRegisters THEN a ELSE a - UnitRegisters
  <2> HIDE DEF a
  <2> QED BY <1>1, Turn
<1> QED BY <1>1, <1>2

(* Pushing and popping keep the turn of the file and the depth together.    *)
LEMMA TopMoves ==
    ASSUME Float!X87Assumption, Float!TypeOK, top = (-depth) % UnitRegisters,
           NEW n \in -1..2, n <= depth, depth - n <= UnitRegisters, depth - n >= 0
    PROVE  (top + n) % UnitRegisters \in 0..(UnitRegisters - 1)
             /\ (top + n) % UnitRegisters = (-(depth - n)) % UnitRegisters
<1>1. UnitRegisters \in Nat \ {0} /\ depth \in 0..UnitRegisters /\ depth - n \in 0..UnitRegisters
  BY DEF Float!X87Assumption, Float!TypeOK
<1>2. top = IF depth = 0 THEN 0 ELSE UnitRegisters - depth
  BY <1>1, TopOfDepth
<1>3. (-(depth - n)) % UnitRegisters = IF depth - n = 0 THEN 0 ELSE UnitRegisters - (depth - n)
  BY <1>1, TopOfDepth
<1>4. CASE n = -1
  BY <1>1, <1>2, <1>3, <1>4, Turns DEF Down
<1>5. CASE n \in 0..2
  <2>1. n \in 0..UnitRegisters
    BY <1>1, <1>5
  <2>2. (top + n) % UnitRegisters = At(n)
    BY <2>1, Turns
  <2>3. At(n) = IF depth = n THEN 0 ELSE UnitRegisters - depth + n
    BY <1>1, <1>2, <1>5 DEF At
  <2> QED BY <1>1, <1>3, <1>5, <2>2, <2>3
<1> QED BY <1>4, <1>5

-----------------------------------------------------------------------------
(* Numbers and status words.                                                *)
LEMMA NumbersAreClosed ==
    ASSUME Float!X87Assumption, NEW a \in Float!Numbers, NEW b \in Float!Numbers, NEW op
    PROVE  Float!Result(op, a, b) \in Float!Numbers /\ Float!Value(a) \in Float!Numbers
<1>1. \A n \in Int : n % Size \in 0..(Size - 1)
  BY DEF Float!X87Assumption
<1>2. a # Float!NaN => a \in Int /\ a + 1 \in Int
  BY DEF Float!Numbers, Float!NaN, Float!X87Assumption
<1>3. b # Float!NaN => b \in Int
  BY DEF Float!Numbers, Float!NaN, Float!X87Assumption
<1>4. 0..(Size - 1) \subseteq Float!Numbers /\ Float!NaN \in Float!Numbers
  BY DEF Float!Numbers
<1>5. Float!Value(a) \in Float!Numbers
  BY <1>1, <1>2, <1>4 DEF Float!Value
<1>6. CASE a # Float!NaN /\ b # Float!NaN
  <2>1. a - b \in Int /\ b - a \in Int
    BY <1>2, <1>3, <1>6
  <2> QED BY <1>1, <1>4, <1>5, <1>6, <2>1 DEF Float!Result
<1> QED BY <1>4, <1>5, <1>6 DEF Float!Result

LEMMA Words ==
    ASSUME Float!X87Assumption, NEW w \in SUBSET (0..15), NEW t
    PROVE  /\ Float!TopIn(w, t) \subseteq 0..15
           /\ Float!TopIn(w, t) \cap TopBits = Float!TopIn({}, t)
           /\ Float!TopIn(w, t) \cap Float!Conditions = w \cap Float!Conditions
<1> DEFINE Named == {b \in TopBits : (t \div 2^(b - 11)) % 2 = 1}
<1>1. \A word : Float!TopIn(word, t) = (word \ TopBits) \cup Named
  BY DEF Float!TopIn
<1> HIDE DEF Named
<1>2. Named \subseteq TopBits
  BY DEF Named
<1>3. TopBits \subseteq 0..15 /\ TopBits \cap Float!Conditions = {}
  BY DEF Float!X87Assumption, Float!Conditions, Float!C0, Float!C2, Float!C3
<1> QED BY <1>1, <1>2, <1>3

LEMMA NoTop ==
    ASSUME Float!X87Assumption
    PROVE  Float!TopIn({}, 0) = {}
<1> SUFFICES ASSUME NEW b \in TopBits PROVE (0 \div 2^(b - 11)) % 2 # 1
  BY DEF Float!TopIn
<1>1. b \in {11, 12, 13}
  BY DEF Float!X87Assumption
<1>2. CASE b = 11
  BY <1>2
<1>3. CASE b = 12
  BY <1>3
<1>4. CASE b = 13
  BY <1>4
<1> QED BY <1>1, <1>2, <1>3, <1>4

(* What the condition codes say, and the codes that say it.                 *)
Outcomes == {"less", "equal", "greater", "unordered"}
Told(word) ==
    IF Float!C2 \in word THEN "unordered" ELSE IF Float!C0 \in word THEN "less"
    ELSE IF Float!C3 \in word THEN "equal" ELSE "greater"
CodesOf(outcome) ==
    CASE outcome = "unordered" -> {Float!C0, Float!C2, Float!C3} [] outcome = "less" -> {Float!C0}
      [] outcome = "equal" -> {Float!C3} [] outcome = "greater" -> {}

LEMMA CodesTell ==
    ASSUME NEW a, NEW b, NEW word
    PROVE  /\ Float!Compares(a, b) \in Outcomes /\ Told(word) \in Outcomes
           /\ Float!Codes(a, b) = CodesOf(Float!Compares(a, b))
           /\ Told((word \ Float!Conditions) \cup Float!Codes(a, b)) = Float!Compares(a, b)
<1>1. Float!C0 # Float!C2 /\ Float!C0 # Float!C3 /\ Float!C2 # Float!C3
        /\ Float!C0 \in Float!Conditions /\ Float!C2 \in Float!Conditions
             /\ Float!C3 \in Float!Conditions
  BY DEF Float!C0, Float!C2, Float!C3, Float!Conditions
<1>2. Float!Compares(a, b) \in Outcomes /\ Told(word) \in Outcomes
  BY DEF Float!Compares, Told, Outcomes
<1>3. CASE Float!NaN \in {a, b}
  BY <1>1, <1>2, <1>3 DEF Float!Compares, Float!Codes, CodesOf, Told
<1>4. CASE Float!NaN \notin {a, b} /\ a < b
  BY <1>1, <1>2, <1>4 DEF Float!Compares, Float!Codes, CodesOf, Told
<1>5. CASE Float!NaN \notin {a, b} /\ ~(a < b) /\ a = b
  BY <1>1, <1>2, <1>5 DEF Float!Compares, Float!Codes, CodesOf, Told
<1>6. CASE Float!NaN \notin {a, b} /\ ~(a < b) /\ a # b
  BY <1>1, <1>2, <1>6 DEF Float!Compares, Float!Codes, CodesOf, Told
<1> QED BY <1>3, <1>4, <1>5, <1>6

-----------------------------------------------------------------------------
(* The invariant.  A comparison that is known is in the codes of the status *)
(* word, of AH, and of the flags.                                           *)
Known == Outcomes \cup {Float!Unknown}
StatusTells == truth.status # Float!Unknown => status \cap Float!Conditions = CodesOf(truth.status)
AhTells ==
    truth.ah # Float!Unknown => {c \in Float!Conditions : c - 8 \in ah} = CodesOf(truth.ah)

Inv ==
    /\ Float!TypeOK
    /\ truth \in [status : Known, ah : Known, flags : Known]
    /\ Float!StatusNamesTop
    /\ StatusTells /\ AhTells /\ Float!FlagsTellComparison

Turned(n) ==
    /\ n \in -1..2 /\ n <= depth /\ depth - n <= UnitRegisters
    /\ depth' = depth - n /\ top' = (top + n) % UnitRegisters

FileKept == file' \in [0..(UnitRegisters - 1) -> Float!Numbers]

LEMMA TurnsAreSound ==
    ASSUME Float!X87Assumption, Inv, NEW n, Turned(n)
    PROVE  /\ depth' \in 0..UnitRegisters /\ top' \in 0..(UnitRegisters - 1)
           /\ top' = (-depth') % UnitRegisters
<1>1. UnitRegisters \in Nat \ {0} /\ depth \in 0..UnitRegisters /\ Float!TypeOK /\ top = (-depth) % UnitRegisters
  BY DEF Float!X87Assumption, Inv, Float!TypeOK, Float!StatusNamesTop
<1>2. n \in -1..2 /\ n <= depth /\ depth - n <= UnitRegisters /\ depth - n >= 0
  BY <1>1 DEF Turned
<1>3. /\ (top + n) % UnitRegisters \in 0..(UnitRegisters - 1)
      /\ (top + n) % UnitRegisters = (-(depth - n)) % UnitRegisters
  BY <1>1, <1>2, TopMoves
<1> QED BY <1>1, <1>2, <1>3 DEF Turned

LEMMA MovesKeepInv ==
    ASSUME Float!X87Assumption, Inv, NEW n, Turned(n), FileKept,
           status' = Float!TopIn(status, top'), UNCHANGED Float!conditionVars
    PROVE  Inv'
<1>1. /\ depth' \in 0..UnitRegisters /\ top' \in 0..(UnitRegisters - 1)
      /\ top' = (-depth') % UnitRegisters
  BY TurnsAreSound
<1>2. /\ status' \subseteq 0..15 /\ status' \cap TopBits = Float!TopIn({}, top')
      /\ status' \cap Float!Conditions = status \cap Float!Conditions
  <2>1. status \in SUBSET (0..15)
    BY DEF Inv, Float!TypeOK
  <2> QED BY <2>1, Words
<1> QED BY <1>1, <1>2 DEF Inv, Float!TypeOK, FileKept, Float!StatusNamesTop, StatusTells, AhTells,
             Float!FlagsTellComparison, Float!conditionVars

LEMMA KeepKeepsInv ==
    ASSUME Inv, FileKept, Float!Keep
    PROVE  Inv'
BY DEF Inv, Float!TypeOK, Float!Keep, FileKept, Float!StatusNamesTop, StatusTells, AhTells,
       Float!FlagsTellComparison, Float!conditionVars, Float!TopIn

(* Of the comparison that is told, if one is.                               *)
LEMMA StatusAlone ==
    ASSUME Float!X87Assumption, Inv, NEW n, Turned(n), FileKept, NEW outcome \in Known,
           status' \subseteq 0..15, status' \cap TopBits = Float!TopIn({}, top'),
           outcome # Float!Unknown => status' \cap Float!Conditions = CodesOf(outcome),
           Float!Tells(outcome)
    PROVE  Inv'
<1>1. /\ depth' \in 0..UnitRegisters /\ top' \in 0..(UnitRegisters - 1)
      /\ top' = (-depth') % UnitRegisters
  BY TurnsAreSound
<1>2. truth' = [truth EXCEPT !.status = outcome] /\ ah' = ah /\ conditions' = conditions
  BY DEF Float!Tells
<1>3. truth' \in [status : Known, ah : Known, flags : Known]
  BY <1>2 DEF Inv
<1>4. truth'.status = outcome /\ truth'.ah = truth.ah /\ truth'.flags = truth.flags
  BY <1>2 DEF Inv
<1>5. Float!TypeOK' /\ Float!StatusNamesTop'
  BY <1>1, <1>2 DEF Inv, Float!TypeOK, FileKept, Float!StatusNamesTop
<1>6. StatusTells' /\ AhTells' /\ Float!FlagsTellComparison'
  BY <1>2, <1>4 DEF Inv, StatusTells, AhTells, Float!FlagsTellComparison
<1> QED BY <1>3, <1>5, <1>6 DEF Inv

LEMMA Stays ==
    ASSUME Float!X87Assumption, Float!TypeOK
    PROVE  (top + 0) % UnitRegisters = top
<1>1. UnitRegisters \in Nat \ {0} /\ top \in 0..(UnitRegisters - 1)
  BY DEF Float!X87Assumption, Float!TypeOK
<1> QED BY <1>1

LEMMA Bits ==
    ASSUME Float!X87Assumption
    PROVE  /\ TopBits \subseteq 0..15 /\ TopBits \cap Float!Conditions = {}
           /\ Float!Conditions \subseteq 0..15
           /\ Float!C1 \in 0..15 /\ Float!C2 \in 0..15 /\ Float!C1 \notin TopBits
                /\ Float!C2 \notin TopBits
           /\ TopBits \cap (0..7 \cup {15}) = {} /\ Float!Conditions \cap (0..7 \cup {15}) = {}
BY DEF Float!X87Assumption, Float!Conditions, Float!C0, Float!C1, Float!C2, Float!C3

LEMMA SourcesAreNumbers ==
    ASSUME Float!X87Assumption, Float!TypeOK
    PROVE  Float!Sources \subseteq Float!Numbers
<1>1. \A i \in Float!Places : Float!Get(i) \in Float!Numbers
  BY Turns DEF Float!Places
<1> QED BY <1>1 DEF Float!Sources

LEMMA FcomKeepsInv ==
    ASSUME Float!X87Assumption, Inv, NEW v, NEW pops \in 0..2, Float!Fcom(v, pops)
    PROVE  Inv'
<1> DEFINE word == (status \ Float!Conditions) \cup Float!Codes(Float!Get(0), v)
<1>1. Float!Compares(Float!Get(0), v) \in Known
        /\ Float!Codes(Float!Get(0), v) = CodesOf(Float!Compares(Float!Get(0), v))
  BY CodesTell DEF Known
<1>2. CodesOf(Float!Compares(Float!Get(0), v)) \subseteq Float!Conditions
  BY CodesTell DEF CodesOf, Outcomes, Float!Conditions
<1>3. status \in SUBSET (0..15) /\ status \cap TopBits = Float!TopIn({}, top)
  BY DEF Inv, Float!TypeOK, Float!StatusNamesTop
<1>4. /\ word \in SUBSET (0..15) /\ word \cap TopBits = Float!TopIn({}, top)
      /\ word \cap Float!Conditions = CodesOf(Float!Compares(Float!Get(0), v))
  <2> HIDE DEF word
  <2>1. word = (status \ Float!Conditions) \cup CodesOf(Float!Compares(Float!Get(0), v))
    BY <1>1 DEF word
  <2> QED BY <1>2, <1>3, <2>1, Bits
<1>5. /\ Float!Pops(pops) /\ top' = (top + pops) % UnitRegisters
      /\ status' = (IF pops = 0 THEN word ELSE Float!TopIn(word, top'))
      /\ Float!Tells(Float!Compares(Float!Get(0), v)) /\ file' = file
  BY DEF Float!Fcom
<1> HIDE DEF word
<1>6. Turned(pops) /\ FileKept
  BY <1>5 DEF Turned, Float!Pops, Inv, Float!TypeOK, FileKept, Float!X87Assumption
<1>7. /\ status' \subseteq 0..15 /\ status' \cap TopBits = Float!TopIn({}, top')
      /\ status' \cap Float!Conditions = CodesOf(Float!Compares(Float!Get(0), v))
  <2>1. CASE pops = 0
    BY <1>4, <1>5, <2>1, Stays DEF Inv
  <2>2. CASE pops # 0
    BY <1>4, <1>5, <2>2, Words
  <2> QED BY <2>1, <2>2
<1> QED BY <1>1, <1>5, <1>6, <1>7, StatusAlone

LEMMA ConditionsKeepInv ==
    ASSUME Float!X87Assumption, Inv, Float!Fnstsw \/ Float!Sahf \/ Float!Fnclex
    PROVE  Inv'
<1> USE DEF Inv, StatusTells, AhTells, Float!FlagsTellComparison, Known, Outcomes
<1>1. CASE Float!Fnstsw
  <2>1. /\ ah' = {b - 8 : b \in {c \in status : c >= 8}}
        /\ truth' = [truth EXCEPT !.ah = truth.status]
        /\ UNCHANGED <<file, top, status, depth, conditions>>
    BY <1>1 DEF Float!Fnstsw
  <2>2. status \subseteq 0..15
    BY DEF Float!TypeOK
  <2>3. ah' \subseteq 0..7
    BY <2>1, <2>2
  <2>4. \A c \in Float!Conditions : c - 8 \in ah' <=> c \in status
    BY <2>1, <2>2 DEF Float!Conditions, Float!C0, Float!C2, Float!C3
  <2>5. {c \in Float!Conditions : c - 8 \in ah'} = status \cap Float!Conditions
    BY <2>4
  <2>6. /\ truth' \in [status : Known, ah : Known, flags : Known]
        /\ truth'.ah = truth.status /\ truth'.status = truth.status /\ truth'.flags = truth.flags
    BY <2>1
  <2>7. Float!TypeOK' /\ Float!StatusNamesTop'
    BY <2>1, <2>3 DEF Float!TypeOK, Float!StatusNamesTop
  <2> QED BY <2>1, <2>5, <2>6, <2>7
<1>2. CASE Float!Sahf
  <2>1. /\ conditions' = {f \in DOMAIN Float!SahfBits : Float!SahfBits[f] \in ah}
        /\ truth' = [truth EXCEPT !.flags = truth.ah]
        /\ UNCHANGED <<file, top, status, depth, ah>>
    BY <1>2 DEF Float!Sahf
  <2>2. /\ truth' \in [status : Known, ah : Known, flags : Known]
        /\ truth'.flags = truth.ah /\ truth'.status = truth.status /\ truth'.ah = truth.ah
    BY <2>1
  <2>3. Float!TypeOK' /\ Float!StatusNamesTop'
    BY <2>1 DEF Float!TypeOK, Float!StatusNamesTop
  <2>4. /\ "CF" \in conditions' <=> 0 \in ah
        /\ "PF" \in conditions' <=> 2 \in ah
        /\ "ZF" \in conditions' <=> 6 \in ah
    BY <2>1 DEF Float!SahfBits
  <2>5. \A X : {c \in Float!Conditions : c - 8 \in ah} = X => (0 \in ah <=> Float!C0 \in X)
                  /\ (2 \in ah <=> Float!C2 \in X) /\ (6 \in ah <=> Float!C3 \in X)
    BY DEF Float!Conditions, Float!C0, Float!C2, Float!C3
  <2>6. ASSUME truth.ah # Float!Unknown
        PROVE  /\ 0 \in ah <=> Float!C0 \in CodesOf(truth.ah)
               /\ 2 \in ah <=> Float!C2 \in CodesOf(truth.ah)
               /\ 6 \in ah <=> Float!C3 \in CodesOf(truth.ah)
    BY <2>5, <2>6
  <2>7. ASSUME truth.ah # Float!Unknown
        PROVE  /\ Float!C0 \in CodesOf(truth.ah) <=> truth.ah \in {"less", "unordered"}
               /\ Float!C3 \in CodesOf(truth.ah) <=> truth.ah \in {"equal", "unordered"}
               /\ Float!C2 \in CodesOf(truth.ah) <=> truth.ah = "unordered"
    BY <2>7 DEF CodesOf, Float!C0, Float!C2, Float!C3
  <2>8. Float!FlagsTellComparison'
    BY <2>2, <2>4, <2>6, <2>7
  <2> QED BY <2>1, <2>2, <2>3, <2>8
<1>3. CASE Float!Fnclex
  <2>1. status' = status \ (0..7 \cup {15}) /\ UNCHANGED <<file, top, depth, Float!conditionVars>>
    BY <1>3 DEF Float!Fnclex
  <2>2. /\ status' \subseteq 0..15 /\ status' \cap TopBits = status \cap TopBits
        /\ status' \cap Float!Conditions = status \cap Float!Conditions
    BY <2>1, Bits DEF Float!TypeOK
  <2>3. Float!TypeOK' /\ Float!StatusNamesTop'
    BY <2>1, <2>2 DEF Float!TypeOK, Float!StatusNamesTop, Float!TopIn, Float!conditionVars
  <2> QED BY <2>1, <2>2, <2>3 DEF Float!conditionVars
<1> QED BY <1>1, <1>2, <1>3

LEMMA StepKeepsInv ==
    ASSUME Float!X87Assumption, Inv, Float!Step
    PROVE  Inv'
<1>1. /\ UnitRegisters \in Nat \ {0} /\ top \in 0..(UnitRegisters - 1) /\ depth \in 0..UnitRegisters
      /\ file \in [0..(UnitRegisters - 1) -> Float!Numbers] /\ status \in SUBSET (0..15)
      /\ Float!TypeOK /\ Float!NaN \in Float!Numbers
  BY DEF Inv, Float!TypeOK, Float!X87Assumption, Float!Numbers
<1>2. \A i \in Float!Places : Float!Get(i) \in Float!Numbers
  BY <1>1, Turns DEF Float!Places
<1>3. \A i, v : v \in Float!Numbers => Float!Set(i, v) \in [0..(UnitRegisters - 1) -> Float!Numbers]
  BY <1>1 DEF Float!Set
<1>4. Float!Names(0) => 0 \in Float!Places
  BY <1>1 DEF Float!Places
<1>5. ASSUME NEW v \in Float!Numbers, Float!Fld(v) PROVE Inv'
  <2>1. Turned(-1) /\ status' = Float!TopIn(status, top') /\ UNCHANGED Float!conditionVars
    BY <1>1, <1>5 DEF Float!Fld, Float!Pushes, Float!Push, Float!MoveTop, Turned
  <2>2. FileKept
    BY <1>1, <1>5 DEF Float!Fld, Float!Push, FileKept
  <2> QED BY <2>1, <2>2, MovesKeepInv
<1>6. ASSUME NEW i \in Float!Places, Float!FldSt(i) PROVE Inv'
  BY <1>2, <1>5, <1>6 DEF Float!FldSt
<1>7. ASSUME NEW v \in Float!Numbers, NEW i, file' = Float!Set(i, v), Float!Keep PROVE Inv'
  <2>1. FileKept
    BY <1>3, <1>7 DEF FileKept
  <2> QED BY <1>7, <2>1, KeepKeepsInv
<1>8. ASSUME NEW v \in Float!Numbers, NEW i, file' = Float!Set(i, v), Float!Pops(1),
             Float!MoveTop(1), UNCHANGED Float!conditionVars
      PROVE  Inv'
  <2>1. FileKept
    BY <1>3, <1>8 DEF FileKept
  <2>2. Turned(1) /\ status' = Float!TopIn(status, top')
    BY <1>1, <1>8 DEF Float!Pops, Float!MoveTop, Turned
  <2> QED BY <1>8, <2>1, <2>2, MovesKeepInv
<1>9. \A i \in Float!Places : Float!Fst(i) => Inv'
  BY <1>2, <1>4, <1>7, <1>1 DEF Float!Fst, Float!Names, Float!Places
<1>10. \A i \in Float!Places : Float!Fstp(i) => Inv'
  BY <1>2, <1>4, <1>8, <1>1 DEF Float!Fstp, Float!Names, Float!Places
<1>11. ASSUME Float!FstpMemory PROVE Inv'
  <2>1. FileKept
    BY <1>1, <1>11 DEF Float!FstpMemory, FileKept
  <2>2. Turned(1) /\ status' = Float!TopIn(status, top') /\ UNCHANGED Float!conditionVars
    BY <1>1, <1>11 DEF Float!FstpMemory, Float!Pops, Float!MoveTop, Turned
  <2> QED BY <2>1, <2>2, MovesKeepInv
<1>12. ASSUME NEW i \in Float!Places, Float!Fxch(i) PROVE Inv'
  <2>1. 0 \in Float!Places
    BY <1>1 DEF Float!Places
  <2>2. Float!Set(0, Float!Get(i)) \in [0..(UnitRegisters - 1) -> Float!Numbers]
          /\ Float!Get(0) \in Float!Numbers
    BY <1>2, <1>3, <2>1
  <2>3. FileKept /\ Float!Keep
    BY <1>12, <2>2 DEF Float!Fxch, FileKept
  <2> QED BY <2>3, KeepKeepsInv
<1>13. ASSUME NEW op, NEW i \in Float!Places, Float!Fopp(op, i) PROVE Inv'
  <2>1. Float!Get(i) \in Float!Numbers /\ Float!Get(0) \in Float!Numbers
    BY <1>1, <1>2 DEF Float!Places
  <2>2. Float!Result(op, Float!Get(i), Float!Get(0)) \in Float!Numbers
    BY <2>1, NumbersAreClosed
  <2> QED BY <1>8, <1>13, <2>2 DEF Float!Fopp
<1>14. ASSUME NEW op, NEW i \in Float!Places, NEW v \in Float!Sources, Float!Fop(op, i, v) PROVE Inv'
  <2>1. Float!Get(i) \in Float!Numbers /\ v \in Float!Numbers
    BY <1>1, <1>2, SourcesAreNumbers
  <2>2. Float!Result(op, Float!Get(i), v) \in Float!Numbers
    BY <2>1, NumbersAreClosed
  <2> QED BY <1>7, <1>14, <2>2 DEF Float!Fop
<1>15. Float!Get(0) \in Float!Numbers /\ Float!Value(Float!Get(0)) \in Float!Numbers
  <2>1. Float!Get(0) \in Float!Numbers
    BY <1>1, <1>2 DEF Float!Places
  <2> QED BY <2>1, NumbersAreClosed
<1>16. Float!Fsqrt => Inv'
  BY <1>7, <1>15 DEF Float!Fsqrt
<1>17. ASSUME NEW w \in SUBSET (0..15), NEW complete \in BOOLEAN
       PROVE  /\ Float!ReductionComplete(w, complete) \subseteq 0..15
              /\ Float!ReductionComplete(w, complete) \cap TopBits = w \cap TopBits
  BY Bits DEF Float!ReductionComplete
<1>18. Float!Unknown \in Known
  BY DEF Known
<1>19. ASSUME Float!Fsin PROVE Inv'
  <2>1. FileKept
    BY <1>1, <1>3, <1>15, <1>19 DEF Float!Fsin, FileKept
  <2>2. Turned(0)
    BY <1>1, <1>19, Stays DEF Float!Fsin, Turned
  <2>3. status' \subseteq 0..15 /\ status' \cap TopBits = status \cap TopBits
    BY <1>1, <1>17, <1>19 DEF Float!Fsin
  <2>4. status' \cap TopBits = Float!TopIn({}, top') /\ Float!Tells(Float!Unknown)
    BY <1>19, <2>3 DEF Float!Fsin, Inv, Float!StatusNamesTop
  <2> QED BY <1>18, <2>1, <2>2, <2>3, <2>4, StatusAlone
<1>20. ASSUME Float!Fsincos PROVE Inv'
  <2>1. FileKept
    <3>1. Float!Set(0, Float!Value(Float!Get(0))) \in [0..(UnitRegisters - 1) -> Float!Numbers]
      BY <1>3, <1>15
    <3> QED BY <1>15, <1>20, <3>1 DEF Float!Fsincos, FileKept
  <2>2. Turned(-1)
    BY <1>1, <1>20 DEF Float!Fsincos, Float!Pushes, Turned
  <2>3. Float!TopIn(status, top') \in SUBSET (0..15)
          /\ Float!TopIn(status, top') \cap TopBits = Float!TopIn({}, top')
    BY <1>1, Words
  <2>4. status' = Float!ReductionComplete(Float!TopIn(status, top'), TRUE) /\ Float!Tells(Float!Unknown)
    BY <1>20 DEF Float!Fsincos
  <2>5. status' \subseteq 0..15 /\ status' \cap TopBits = Float!TopIn({}, top')
    BY <1>17, <2>3, <2>4
  <2> QED BY <1>18, <2>1, <2>2, <2>4, <2>5, StatusAlone
<1>21. \A v, pops \in 0..2 : Float!Fcom(v, pops) => Inv'
  BY FcomKeepsInv
<1> QED BY <1>2, <1>5, <1>6, <1>9, <1>10, <1>11, <1>12, <1>13, <1>14, <1>16, <1>19, <1>20,
           FcomKeepsInv, ConditionsKeepInv DEF Float!Step

(* A step of the instructions is one of the unit, or leaves it alone.       *)
LEMMA UnitSteps == [InstructionsNext]_instructionVars => [Float!Next]_(Float!vars)
BY DEF InstructionsNext, Focused, instructionVars, floatVars, Float!vars

LEMMA InvHolds == Float!X87Assumption => (InstructionsSpec => []Inv)
<1> SUFFICES ASSUME Float!X87Assumption PROVE InstructionsSpec => []Inv
  OBVIOUS
<1>1. Float!Init => Inv
  <2> SUFFICES ASSUME Float!Init PROVE Inv
    OBVIOUS
  <2>1. UnitRegisters \in Nat \ {0} /\ 0 \in Float!Numbers
    BY DEF Float!X87Assumption, Float!Numbers
  <2>2. top = (-depth) % UnitRegisters
    BY <2>1, TopOfDepth DEF Float!Init
  <2> QED BY <2>1, <2>2, NoTop DEF Float!Init, Inv, Float!TypeOK, Float!StatusNamesTop,
                                   StatusTells, AhTells,
             Float!FlagsTellComparison, Known
<1>2. Inv /\ [Float!Next]_(Float!vars) => Inv'
  <2> SUFFICES ASSUME Inv, [Float!Next]_(Float!vars) PROVE Inv'
    OBVIOUS
  <2>1. CASE Float!Next
    BY <2>1, StepKeepsInv DEF Float!Next
  <2>2. CASE UNCHANGED Float!vars
    BY <2>2 DEF Float!vars, Inv, Float!TypeOK, Float!StatusNamesTop, StatusTells, AhTells,
             Float!FlagsTellComparison, Float!TopIn
  <2> QED BY <2>1, <2>2
<1>3. InstructionsInit => Float!Init
  BY DEF InstructionsInit
<1> QED BY <1>1, <1>2, <1>3, UnitSteps, PTL DEF InstructionsSpec

-----------------------------------------------------------------------------
(* The refinement.  S is the stack the registers stand for.                 *)
S == [i \in 1..depth |-> Float!Get(i - 1)]

LEMMA StackFacts ==
    ASSUME Float!X87Assumption, Inv
    PROVE  /\ S \in Seq(Float!Numbers) /\ Len(S) = depth /\ depth \in 0..UnitRegisters
           /\ UnitRegisters \in Nat \ {0} /\ UnitRegisters - 1 \in Nat
           /\ \A i \in 0..(depth - 1) : S[i + 1] = Float!Get(i) /\ Float!Get(i) = file[At(i)]
                /\ i \in Float!Places
           /\ Float!Stack!Places = 0..(depth - 1)
           /\ \A i \in Float!Places : Float!Names(i) <=> i \in 0..(depth - 1)
<1>1. UnitRegisters \in Nat \ {0} /\ depth \in 0..UnitRegisters /\ Float!TypeOK
  BY DEF Inv, Float!TypeOK, Float!X87Assumption
<1>2. \A i \in 0..(depth - 1) : i \in 0..(UnitRegisters - 1)
  BY <1>1
<1>3. \A i \in 0..(depth - 1) : Float!Get(i) \in Float!Numbers /\ Float!Get(i) = file[At(i)]
        /\ i \in Float!Places
  BY <1>1, <1>2, Turns DEF Float!Places
<1>4. \A i \in 1..depth : i - 1 \in 0..(depth - 1)
  BY <1>1
<1>5. S \in [1..depth -> Float!Numbers]
  BY <1>3, <1>4 DEF S
<1>6. S \in Seq(Float!Numbers) /\ Len(S) = depth
  BY <1>1, <1>5
<1>7. \A i \in 0..(depth - 1) : S[i + 1] = Float!Get(i)
  BY <1>1 DEF S
<1>8. Float!Stack!Places = 0..(depth - 1)
  BY <1>1, <1>6 DEF Float!Stack!Places, S
<1>9. \A i \in Float!Places : Float!Names(i) <=> i \in 0..(depth - 1)
  BY <1>1 DEF Float!Names, Float!Places
<1> QED BY <1>1, <1>3, <1>6, <1>7, <1>8, <1>9

(* What the steps of the stack say of S.                                    *)
LEMMA StackSteps ==
    /\ Float!Stack!StackInit <=> S = <<>> /\ Told(status) \in Outcomes
    /\ \A v : Float!Stack!Load(v) <=> Len(S) < UnitRegisters /\ S' = <<v>> \o S
         /\ Told(status)' = Told(status)
    /\ Float!Stack!Discard <=> S # <<>> /\ S' = Tail(S) /\ Told(status)' = Told(status)
    /\ \A i, v : Float!Stack!Replace(i, v) <=>
          /\ S' \in {[S EXCEPT ![i + 1] = v], Tail([S EXCEPT ![i + 1] = v])}
          /\ Told(status)' = Told(status)
    /\ \A i : Float!Stack!Store(i) <=> Float!Stack!Replace(i, S[1])
    /\ \A op, i, v : Float!Stack!Operate(op, i, v) <=> Float!Stack!Replace(i,
       Float!Result(op, S[i + 1], v))
    /\ \A i : Float!Stack!Exchange(i) <=>
          /\ S' = [[S EXCEPT ![1] = S[i + 1]] EXCEPT ![i + 1] = S[1]]
          /\ Told(status)' = Told(status)
    /\ \A v, pops : Float!Stack!Compare(v, pops) <=>
          /\ pops <= Len(S) /\ Told(status)' = Float!Compares(S[1], v)
          /\ S' = SubSeq(S, pops + 1, Len(S))
    /\ Float!Stack!Function <=>
          /\ Told(status)' \in Outcomes
          /\ \/ S' \in {S, [S EXCEPT ![1] = Float!Value(S[1])]}
             \/ Len(S) < UnitRegisters /\ S' = <<S[1]>> \o [S EXCEPT ![1] = Float!Value(S[1])]
<1> USE DEF S, Told, Outcomes, Float!Stack!Outcomes
<1>1. Float!Stack!StackInit <=> S = <<>> /\ Told(status) \in Outcomes
  BY DEF Float!Stack!StackInit
<1>2. \A v : Float!Stack!Load(v) <=> Len(S) < UnitRegisters /\ S' = <<v>> \o S
        /\ Told(status)' = Told(status)
  BY DEF Float!Stack!Load
<1>3. Float!Stack!Discard <=> S # <<>> /\ S' = Tail(S) /\ Told(status)' = Told(status)
  BY DEF Float!Stack!Discard
<1>4. \A i, v : Float!Stack!Replace(i, v) <=>
          /\ S' \in {[S EXCEPT ![i + 1] = v], Tail([S EXCEPT ![i + 1] = v])}
          /\ Told(status)' = Told(status)
  BY DEF Float!Stack!Replace, Float!Stack!With
<1>5. \A i : Float!Stack!Store(i) <=> Float!Stack!Replace(i, S[1])
  BY DEF Float!Stack!Store, Float!Stack!St
<1>6. \A op, i, v : Float!Stack!Operate(op, i, v) <=> Float!Stack!Replace(i,
      Float!Result(op, S[i + 1], v))
  BY DEF Float!Stack!Operate, Float!Stack!St
<1>7. \A i : Float!Stack!Exchange(i) <=>
          /\ S' = [[S EXCEPT ![1] = S[i + 1]] EXCEPT ![i + 1] = S[1]]
          /\ Told(status)' = Told(status)
  BY DEF Float!Stack!Exchange, Float!Stack!With, Float!Stack!St
<1>8. \A v, pops : Float!Stack!Compare(v, pops) <=>
          /\ pops <= Len(S) /\ Told(status)' = Float!Compares(S[1], v)
          /\ S' = SubSeq(S, pops + 1, Len(S))
  BY DEF Float!Stack!Compare, Float!Stack!St
<1>9. Float!Stack!Function <=>
          /\ Told(status)' \in Outcomes
          /\ \/ S' \in {S, [S EXCEPT ![1] = Float!Value(S[1])]}
             \/ Len(S) < UnitRegisters /\ S' = <<S[1]>> \o [S EXCEPT ![1] = Float!Value(S[1])]
  BY DEF Float!Stack!Function, Float!Stack!With, Float!Stack!St
<1> QED BY <1>1, <1>2, <1>3, <1>4, <1>5, <1>6, <1>7, <1>8, <1>9

(* The numbers that a file f holds in the registers of the stack.           *)
AtOf(t, i) == IF t + i < UnitRegisters THEN t + i ELSE t + i - UnitRegisters
Pile(f) == [i \in 1..depth |-> f[AtOf(top, i - 1)]]

LEMMA TurnsOf ==
    ASSUME Float!X87Assumption, NEW t \in 0..(UnitRegisters - 1), NEW i \in 0..(UnitRegisters - 1)
    PROVE  (t + i) % UnitRegisters = AtOf(t, i) /\ AtOf(t, i) \in 0..(UnitRegisters - 1)
<1> DEFINE a == t + i
<1>1. UnitRegisters \in Nat \ {0} /\ a \in (-UnitRegisters)..(2 * UnitRegisters - 1)
  BY DEF Float!X87Assumption
<1>2. a % UnitRegisters = IF a < 0 THEN a + UnitRegisters ELSE IF a < UnitRegisters THEN a ELSE a - UnitRegisters
  <2> HIDE DEF a
  <2> QED BY <1>1, Turn
<1> QED BY <1>1, <1>2 DEF AtOf

LEMMA NewStack ==
    ASSUME Float!X87Assumption, Inv, Inv'
    PROVE  /\ S = Pile(file)
           /\ S' = [i \in 1..depth' |-> file'[AtOf(top', i - 1)]]
<1>1. /\ UnitRegisters \in Nat \ {0} /\ depth \in 0..UnitRegisters /\ depth' \in 0..UnitRegisters
      /\ top \in 0..(UnitRegisters - 1) /\ top' \in 0..(UnitRegisters - 1)
  BY DEF Inv, Float!TypeOK, Float!X87Assumption
<1>2. \A i \in 1..depth : (top + (i - 1)) % UnitRegisters = AtOf(top, i - 1)
  <2>1. \A i \in 1..depth : i - 1 \in 0..(UnitRegisters - 1)
    BY <1>1
  <2> QED BY <1>1, <2>1, TurnsOf
<1>3. \A i \in 1..depth' : (top' + (i - 1)) % UnitRegisters = AtOf(top', i - 1)
  <2>1. \A i \in 1..depth' : i - 1 \in 0..(UnitRegisters - 1)
    BY <1>1
  <2> QED BY <1>1, <2>1, TurnsOf
<1> QED BY <1>2, <1>3 DEF S, Pile, Float!Get, Float!Physical

LEMMA Placed ==
    ASSUME Float!X87Assumption, Inv, NEW f \in [0..(UnitRegisters - 1) -> Float!Numbers],
           NEW i \in 0..(depth - 1), NEW v
    PROVE  Pile([f EXCEPT ![Float!Physical(i)] = v]) = [Pile(f) EXCEPT ![i + 1] = v]
<1>1. UnitRegisters \in Nat \ {0} /\ depth \in 0..UnitRegisters /\ top \in 0..(UnitRegisters - 1)
  BY DEF Inv, Float!TypeOK, Float!X87Assumption
<1>2. Float!Physical(i) = AtOf(top, i) /\ AtOf(top, i) \in 0..(UnitRegisters - 1)
  BY <1>1, TurnsOf DEF Float!Physical
<1>3. ASSUME NEW j \in 1..depth
      PROVE  /\ AtOf(top, j - 1) \in 0..(UnitRegisters - 1)
             /\ AtOf(top, j - 1) = AtOf(top, i) <=> j = i + 1
  BY <1>1 DEF AtOf
<1>4. ASSUME NEW j \in 1..depth
      PROVE  [f EXCEPT ![Float!Physical(i)] = v][AtOf(top, j - 1)]
                = IF j = i + 1 THEN v ELSE f[AtOf(top, j - 1)]
  BY <1>2, <1>3
<1>5. i + 1 \in 1..depth
  BY <1>1
<1> QED BY <1>4, <1>5 DEF Pile

LEMMA PushedStack ==
    ASSUME Float!X87Assumption, Inv, Inv', Turned(-1),
           NEW f \in [0..(UnitRegisters - 1) -> Float!Numbers], NEW v, file' = [f EXCEPT ![Down] = v]
    PROVE  S' = <<v>> \o Pile(f)
<1>1. /\ UnitRegisters \in Nat \ {0} /\ depth \in 0..UnitRegisters /\ depth' = depth + 1
      /\ depth < UnitRegisters /\ top \in 0..(UnitRegisters - 1) /\ top' = (top + (-1)) % UnitRegisters
  BY DEF Inv, Float!TypeOK, Float!X87Assumption, Turned
<1>2. top' = Down /\ Down \in 0..(UnitRegisters - 1)
  <2>1. top + (-1) = top - 1
    BY <1>1
  <2> QED BY <1>1, <2>1, Turns DEF Inv
<1>3. ASSUME NEW j \in 2..(depth + 1)
      PROVE  /\ AtOf(Down, j - 1) = AtOf(top, (j - 1) - 1) /\ AtOf(Down, j - 1) # Down
             /\ AtOf(Down, j - 1) \in 0..(UnitRegisters - 1)
  BY <1>1 DEF AtOf, Down
<1>4. AtOf(Down, 1 - 1) = Down
  BY <1>1, <1>2 DEF AtOf
<1>5. S' = [i \in 1..(depth + 1) |-> file'[AtOf(Down, i - 1)]]
  BY <1>1, <1>2, NewStack
<1>6. S' = [i \in 1..(depth + 1) |-> IF i = 1 THEN v ELSE Pile(f)[i - 1]]
  <2>1. \A i \in 1..(depth + 1) : i # 1 => i \in 2..(depth + 1) /\ i - 1 \in 1..depth
    BY <1>1
  <2>2. \A i \in 1..(depth + 1) : i # 1 => file'[AtOf(Down, i - 1)] = Pile(f)[i - 1]
    BY <1>3, <2>1 DEF Pile
  <2>3. file'[AtOf(Down, 1 - 1)] = v
    BY <1>2, <1>4
  <2> QED BY <1>5, <2>2, <2>3
<1>7. Pile(f) \in Seq(Float!Numbers) /\ Len(Pile(f)) = depth
  <2>1. \A i \in 1..depth : AtOf(top, i - 1) \in 0..(UnitRegisters - 1)
    BY <1>1 DEF AtOf
  <2>2. Pile(f) \in [1..depth -> Float!Numbers]
    BY <2>1 DEF Pile
  <2> QED BY <1>1, <2>2
<1> HIDE DEF Pile
<1>8. <<v>> \o Pile(f) = [i \in 1..(depth + 1) |-> IF i = 1 THEN v ELSE Pile(f)[i - 1]]
  BY <1>1, <1>7
<1> QED BY <1>6, <1>8

LEMMA PoppedStack ==
    ASSUME Float!X87Assumption, Inv, Inv', NEW n \in 0..2, Turned(n)
    PROVE  /\ S' = SubSeq(Pile(file'), n + 1, depth)
           /\ n = 0 => S' = Pile(file')
           /\ n = 1 => S' = Tail(Pile(file'))
<1>1. /\ UnitRegisters \in Nat \ {0} /\ depth \in 0..UnitRegisters /\ depth' = depth - n
      /\ n <= depth /\ top \in 0..(UnitRegisters - 1) /\ top' = (top + n) % UnitRegisters
      /\ file' \in [0..(UnitRegisters - 1) -> Float!Numbers]
  BY DEF Inv, Float!TypeOK, Float!X87Assumption, Turned
<1>2. top' = AtOf(top, n)
  <2>1. n \in 0..UnitRegisters
    BY <1>1
  <2> QED BY <1>1, <2>1, Turns DEF Inv, At, AtOf
<1>3. \A j \in 1..(depth - n) : AtOf(AtOf(top, n), j - 1) = AtOf(top, (j + n) - 1)
  BY <1>1 DEF AtOf
<1>4. S' = [j \in 1..(depth - n) |-> file'[AtOf(top, (j + n) - 1)]]
  BY <1>1, <1>2, <1>3, NewStack
<1>5. Pile(file') \in Seq(Float!Numbers) /\ Len(Pile(file')) = depth
  <2>1. \A i \in 1..depth : AtOf(top, i - 1) \in 0..(UnitRegisters - 1)
    BY <1>1 DEF AtOf
  <2>2. Pile(file') \in [1..depth -> Float!Numbers]
    BY <1>1, <2>1 DEF Pile
  <2> QED BY <1>1, <2>2
<1>6. \A j \in 1..(depth - n) : j + n \in 1..depth
  BY <1>1
<1>7. S' = [j \in 1..(depth - n) |-> Pile(file')[j + n]]
  BY <1>4, <1>6 DEF Pile
<1> DEFINE T == Pile(file')
<1>8. T \in Seq(Float!Numbers) /\ Len(T) = depth /\ S' = [j \in 1..(depth - n) |-> T[j + n]]
  BY <1>5, <1>7
<1> HIDE DEF T
<1>9. SubSeq(T, n + 1, depth) = [j \in 1..(depth - n) |-> T[j + n]]
  BY <1>1, <1>8
<1>10. ASSUME n = 0 PROVE S' = T
  BY <1>1, <1>8, <1>10
<1>11. ASSUME n = 1 PROVE S' = Tail(T)
  <2>1. T # <<>>
    BY <1>1, <1>8, <1>11
  <2>2. Tail(T) = SubSeq(T, 2, Len(T))
    BY <1>8, <2>1, TailIsSubSeq
  <2>3. SubSeq(T, n + 1, depth) = S' /\ n + 1 = 2 /\ Len(T) = depth
    BY <1>8, <1>9, <1>11
  <2> QED BY <2>2, <2>3
<1> QED BY <1>8, <1>9, <1>10, <1>11 DEF T

LEMMA ToldKept ==
    ASSUME NEW v, NEW w, v \cap Float!Conditions = w \cap Float!Conditions
    PROVE  Told(v) = Told(w)
<1>1. \A c \in Float!Conditions : c \in v <=> c \in w
  OBVIOUS
<1> QED BY <1>1 DEF Told, Float!Conditions

LEMMA MoveToldKept ==
    ASSUME Float!X87Assumption, Inv, NEW t, status' = Float!TopIn(status, t)
    PROVE  Told(status)' = Told(status)
<1>1. status' \cap Float!Conditions = status \cap Float!Conditions
  BY Words DEF Inv, Float!TypeOK
<1>2. Told(status') = Told(status)
  BY <1>1, ToldKept
<1> QED BY <1>2 DEF Told

LEMMA SameSources ==
    ASSUME Float!X87Assumption, Inv
    PROVE  /\ Float!Numbers \subseteq Float!Stack!Sources
           /\ \A i \in Float!Places : Float!Names(i) => Float!Get(i) \in Float!Stack!Sources
           /\ Float!Sources \subseteq Float!Stack!Sources
           /\ \A i \in Float!Places : Float!Names(i) => i \in Float!Stack!Places
<1>1. Float!Stack!Sources = Float!Numbers \cup {S[i + 1] : i \in Float!Stack!Places}
  BY DEF Float!Stack!Sources, Float!Stack!St, S
<1> QED BY <1>1, StackFacts DEF Float!Sources

(* An action that puts v at place i, and keeps the top or pops it.          *)
LEMMA ReplaceRefines ==
    ASSUME Float!X87Assumption, Inv, Inv', NEW i \in Float!Places, Float!Names(i),
           NEW v \in Float!Numbers,
           file' = Float!Set(i, v),
           \/ UNCHANGED <<top, status, depth>>
           \/ Float!Pops(1) /\ Float!MoveTop(1)
    PROVE  Float!Stack!Replace(i, v)
<1>1. /\ i \in 0..(depth - 1) /\ depth \in 0..UnitRegisters /\ UnitRegisters \in Nat \ {0}
      /\ file \in [0..(UnitRegisters - 1) -> Float!Numbers]
  BY StackFacts DEF Inv, Float!TypeOK
<1>2. Pile(file') = [S EXCEPT ![i + 1] = v]
  <2>1. file' = [file EXCEPT ![Float!Physical(i)] = v]
    BY DEF Float!Set
  <2>2. Pile([file EXCEPT ![Float!Physical(i)] = v]) = [Pile(file) EXCEPT ![i + 1] = v]
    BY <1>1, Placed
  <2>3. S = Pile(file)
    BY NewStack
  <2> QED BY <2>1, <2>2, <2>3
<1>3. CASE UNCHANGED <<top, status, depth>>
  <2>1. S' = Pile(file')
    BY <1>3, NewStack DEF Pile
  <2>2. Told(status)' = Told(status)
    BY <1>3 DEF Told
  <2> QED BY <1>2, <2>1, <2>2, StackSteps
<1>4. CASE Float!Pops(1) /\ Float!MoveTop(1)
  <2>1. Turned(1)
    BY <1>1, <1>4 DEF Turned, Float!Pops, Float!MoveTop
  <2>2. S' = Tail(Pile(file'))
    BY <2>1, PoppedStack
  <2>3. Told(status)' = Told(status)
    BY <1>4, MoveToldKept DEF Float!MoveTop
  <2> QED BY <1>2, <2>2, <2>3, StackSteps
<1> QED BY <1>3, <1>4

LEMMA LoadRefines ==
    ASSUME Float!X87Assumption, Inv, Inv', NEW v, Float!Fld(v)
    PROVE  Float!Stack!Load(v)
<1>1. Turned(-1) /\ file' = [file EXCEPT ![Down] = v]
        /\ status' = Float!TopIn(status, (top + -1) % UnitRegisters)
  <2>1. (top - 1) % UnitRegisters = Down
    BY Turns DEF Inv
  <2>2. file' = [file EXCEPT ![(top - 1) % UnitRegisters] = v] /\ Float!MoveTop(-1) /\ Float!Pushes
    BY DEF Float!Fld, Float!Push
  <2>3. UnitRegisters \in Nat \ {0} /\ depth \in 0..UnitRegisters
    BY DEF Inv, Float!TypeOK, Float!X87Assumption
  <2>4. top' = (top + -1) % UnitRegisters /\ status' = Float!TopIn(status, (top + -1) % UnitRegisters)
    BY <2>2 DEF Float!MoveTop
  <2>5. depth < UnitRegisters /\ depth' = depth + 1
    BY <2>2 DEF Float!Pushes
  <2>6. Turned(-1)
    BY <2>3, <2>4, <2>5 DEF Turned
  <2> QED BY <2>1, <2>2, <2>4, <2>6
<1>2. S' = <<v>> \o S
  BY <1>1, PushedStack, NewStack DEF Inv, Float!TypeOK
<1>3. Told(status)' = Told(status)
  BY <1>1, MoveToldKept
<1>4. Len(S) < UnitRegisters
  BY StackFacts DEF Float!Fld, Float!Pushes
<1> QED BY <1>2, <1>3, <1>4, StackSteps

LEMMA DiscardRefines ==
    ASSUME Float!X87Assumption, Inv, Inv', Float!FstpMemory
    PROVE  Float!Stack!Discard
<1>1. Turned(1) /\ file' = file /\ status' = Float!TopIn(status, (top + 1) % UnitRegisters) /\ depth >= 1
  BY DEF Float!FstpMemory, Float!Pops, Float!MoveTop, Turned, Inv, Float!TypeOK, Float!X87Assumption
<1>2. S' = Tail(S)
  <2>1. S' = Tail(Pile(file'))
    BY <1>1, PoppedStack
  <2>2. S = Pile(file)
    BY NewStack
  <2> QED BY <1>1, <2>1, <2>2
<1>3. Told(status)' = Told(status)
  BY <1>1, MoveToldKept
<1>4. S # <<>>
  BY <1>1, StackFacts
<1> QED BY <1>2, <1>3, <1>4, StackSteps

LEMMA ExchangeRefines ==
    ASSUME Float!X87Assumption, Inv, Inv', NEW i \in Float!Places, Float!Fxch(i)
    PROVE  Float!Stack!Exchange(i)
<1>1. /\ i \in 0..(depth - 1) /\ 0 \in 0..(depth - 1) /\ depth \in 0..UnitRegisters
      /\ UnitRegisters \in Nat \ {0} /\ file \in [0..(UnitRegisters - 1) -> Float!Numbers]
      /\ Float!Get(0) = S[1] /\ Float!Get(i) = S[i + 1] /\ Float!Get(i) \in Float!Numbers
           /\ i \in Float!Places
  <2>1. i \in 0..(depth - 1) /\ depth \in 0..UnitRegisters /\ UnitRegisters \in Nat \ {0}
        /\ file \in [0..(UnitRegisters - 1) -> Float!Numbers]
    BY StackFacts DEF Float!Fxch, Inv, Float!TypeOK
  <2>2. 0 \in 0..(depth - 1)
    BY <2>1
  <2>3. Float!Get(0) = S[0 + 1] /\ Float!Get(i) = S[i + 1]
    BY <2>1, <2>2, StackFacts
  <2>4. Float!Get(i) \in Float!Numbers
    BY Turns DEF Inv, Float!Places
  <2> QED BY <2>1, <2>2, <2>3, <2>4
<1>2. Float!Set(0, Float!Get(i)) \in [0..(UnitRegisters - 1) -> Float!Numbers]
  BY <1>1 DEF Float!Set
<1>3. Pile(file') = [Pile(Float!Set(0, Float!Get(i))) EXCEPT ![i + 1] = Float!Get(0)]
  BY <1>1, <1>2, Placed DEF Float!Fxch
<1>4. Pile(Float!Set(0, Float!Get(i))) = [Pile(file) EXCEPT ![1] = Float!Get(i)]
  <2>1. Pile(Float!Set(0, Float!Get(i))) = [Pile(file) EXCEPT ![0 + 1] = Float!Get(i)]
    BY <1>1, Placed DEF Float!Set
  <2> QED BY <2>1
<1>5. S' = Pile(file')
  BY NewStack DEF Float!Fxch, Float!Keep, Pile
<1>6. Told(status)' = Told(status)
  BY DEF Told, Float!Fxch, Float!Keep
<1>7. S = Pile(file)
  BY NewStack
<1>8. S' = [[S EXCEPT ![1] = S[i + 1]] EXCEPT ![i + 1] = S[1]]
  BY <1>1, <1>3, <1>4, <1>5, <1>7
<1> QED BY <1>6, <1>8, StackSteps

LEMMA FunctionRefines ==
    ASSUME Float!X87Assumption, Inv, Inv', Float!Fsin \/ Float!Fsincos
    PROVE  Float!Stack!Function /\ S # <<>>
<1>1. /\ depth \in 0..UnitRegisters /\ UnitRegisters \in Nat \ {0} /\ depth > 0
      /\ file \in [0..(UnitRegisters - 1) -> Float!Numbers] /\ 0 \in 0..(depth - 1)
      /\ 0 \in 0..(UnitRegisters - 1) /\ Len(S) = depth
  <2>1. depth > 0
    BY DEF Float!Fsin, Float!Fsincos, Float!Names
  <2>2. /\ depth \in 0..UnitRegisters /\ UnitRegisters \in Nat \ {0} /\ Len(S) = depth
        /\ file \in [0..(UnitRegisters - 1) -> Float!Numbers]
    BY StackFacts DEF Inv, Float!TypeOK
  <2> QED BY <2>1, <2>2
<1>2. S # <<>>
  BY <1>1, StackFacts
<1>3. Float!Get(0) = S[1] /\ Float!Get(0) \in Float!Numbers
        /\ Float!Value(Float!Get(0)) \in Float!Numbers
  <2>1. Float!Get(0) = S[0 + 1] /\ Float!Get(0) \in Float!Numbers
    BY <1>1, StackFacts, Turns DEF Inv
  <2> QED BY <2>1, NumbersAreClosed
<1>4. S = Pile(file)
  BY NewStack
<1>5. Pile(Float!Set(0, Float!Value(Float!Get(0)))) = [S EXCEPT ![1] = Float!Value(S[1])]
  <2> DEFINE v == Float!Value(Float!Get(0))
  <2>1. Pile([file EXCEPT ![Float!Physical(0)] = v]) = [Pile(file) EXCEPT ![0 + 1] = v]
    <3>1. 0 \in 0..(depth - 1) /\ file \in [0..(UnitRegisters - 1) -> Float!Numbers]
      BY <1>1
    <3> HIDE DEF v
    <3> QED BY <3>1, Placed
  <2>2. Pile(Float!Set(0, v)) = [Pile(file) EXCEPT ![0 + 1] = v]
    BY <2>1 DEF Float!Set
  <2> QED BY <1>3, <1>4, <2>2
<1>6. Float!Set(0, Float!Value(Float!Get(0))) \in [0..(UnitRegisters - 1) -> Float!Numbers]
  BY <1>1, <1>3 DEF Float!Set
<1>7. Told(status)' \in Outcomes
  <2>1. Told(status') \in Outcomes
    BY DEF Told, Outcomes
  <2> QED BY <2>1 DEF Told
<1>8. CASE Float!Fsin
  <2>1. S' = Pile(file')
    BY <1>8, NewStack DEF Float!Fsin, Pile
  <2>2. file' = file \/ file' = Float!Set(0, Float!Value(Float!Get(0)))
    BY <1>8 DEF Float!Fsin
  <2>3. S' \in {S, [S EXCEPT ![1] = Float!Value(S[1])]}
    BY <1>4, <1>5, <2>1, <2>2
  <2> QED BY <1>2, <1>7, <2>3, StackSteps
<1>9. CASE Float!Fsincos
  <2>1. /\ depth < UnitRegisters /\ depth' = depth + 1 /\ top' = (top - 1) % UnitRegisters
        /\ file' = [Float!Set(0, Float!Value(Float!Get(0))) EXCEPT ![(top - 1) % UnitRegisters] = Float!Get(0)]
    BY <1>9 DEF Float!Fsincos, Float!Pushes
  <2>2. (top - 1) % UnitRegisters = Down /\ (top - 1) % UnitRegisters = (top + -1) % UnitRegisters
    BY Turns DEF Inv, Float!TypeOK, Float!X87Assumption
  <2>3. Turned(-1)
    BY <1>1, <2>1, <2>2 DEF Turned
  <2>4. S' = <<Float!Get(0)>> \o Pile(Float!Set(0, Float!Value(Float!Get(0))))
    BY <1>6, <2>1, <2>2, <2>3, PushedStack
  <2>5. S' = <<S[1]>> \o [S EXCEPT ![1] = Float!Value(S[1])]
    BY <1>3, <1>5, <2>4
  <2> QED BY <1>1, <1>2, <1>7, <2>1, <2>5, StackSteps
<1> QED BY <1>8, <1>9

LEMMA CompareRefines ==
    ASSUME Float!X87Assumption, Inv, Inv', NEW v, NEW pops \in 0..2, Float!Fcom(v, pops)
    PROVE  Float!Stack!Compare(v, pops) /\ S # <<>>
<1> DEFINE word == (status \ Float!Conditions) \cup Float!Codes(Float!Get(0), v)
<1>1. /\ depth \in 0..UnitRegisters /\ UnitRegisters \in Nat \ {0} /\ depth > 0 /\ Len(S) = depth
      /\ 0 \in 0..(depth - 1) /\ pops <= depth
  BY StackFacts DEF Float!Fcom, Float!Names, Float!Pops, Inv, Float!TypeOK, Float!X87Assumption
<1>2. Float!Get(0) = S[1] /\ S # <<>> /\ S = Pile(file)
  <2>1. Float!Get(0) = S[0 + 1]
    BY <1>1, StackFacts
  <2> QED BY <1>1, <2>1, StackFacts, NewStack
<1>3. /\ depth' = depth - pops /\ top' = (top + pops) % UnitRegisters /\ file' = file
      /\ status' = IF pops = 0 THEN word ELSE Float!TopIn(word, (top + pops) % UnitRegisters)
  BY DEF Float!Fcom, Float!Pops
<1>4. Turned(pops)
  BY <1>1, <1>3 DEF Turned
<1>5. S' = SubSeq(S, pops + 1, Len(S))
  <2>1. S' = SubSeq(Pile(file'), pops + 1, depth)
    BY <1>4, PoppedStack
  <2> QED BY <1>1, <1>2, <1>3, <2>1
<1>6. Told(word) = Float!Compares(Float!Get(0), v)
  BY CodesTell
<1>7. word \in SUBSET (0..15)
  <2>1. Float!Codes(Float!Get(0), v) \subseteq Float!Conditions
    BY DEF Float!Codes, Float!Conditions
  <2> QED BY <2>1, Bits DEF Inv, Float!TypeOK
<1> HIDE DEF word
<1>8. Told(status') = Told(word)
  <2>1. status' \cap Float!Conditions = word \cap Float!Conditions
    BY <1>3, <1>7, Words
  <2> QED BY <2>1, ToldKept
<1>9. Told(status)' = Float!Compares(S[1], v)
  BY <1>2, <1>6, <1>8 DEF Told
<1> QED BY <1>1, <1>2, <1>5, <1>9, StackSteps

LEMMA OthersStutter ==
    ASSUME Float!X87Assumption, Inv, Inv', Float!Fnstsw \/ Float!Sahf \/ Float!Fnclex
    PROVE  UNCHANGED <<S, Told(status)>>
<1>1. /\ UNCHANGED <<file, top, depth>>
      /\ \/ status' = status
         \/ status' = status \ (0..7 \cup {15})
  BY DEF Float!Fnstsw, Float!Sahf, Float!Fnclex
<1>2. S' = S
  BY <1>1, NewStack DEF Pile
<1>3. status' \cap Float!Conditions = status \cap Float!Conditions
  BY <1>1, Bits
<1>4. Told(status') = Told(status)
  BY <1>3, ToldKept
<1> QED BY <1>2, <1>4 DEF Told

LEMMA StepRefines ==
    ASSUME Float!X87Assumption, Inv, Inv', Float!Step
    PROVE  Float!Stack!StackNext \/ UNCHANGED Float!Stack!stackVars
<1> USE DEF Float!Stack!StackNext
<1>1. Float!Stack!stackVars = <<S, Told(status)>> /\ Float!Stack!stackVars' = <<S, Told(status)>>'
  BY DEF Float!Stack!stackVars, S, Told
<1>2. \A i \in Float!Places : Float!Names(i) => i \in Float!Stack!Places
        /\ Float!Get(i) = S[i + 1] /\ Float!Get(i) \in Float!Stack!Sources
                                    /\ Float!Get(i) \in Float!Numbers
  BY StackFacts, SameSources, Turns DEF Inv, Float!Places
<1>3. 0 \in Float!Places /\ \A i \in Float!Places : Float!Names(i) => Float!Names(0)
  BY StackFacts DEF Float!Places, Float!Names
<1>4. \A v \in Float!Numbers : Float!Fld(v) => Float!Stack!StackNext
  BY LoadRefines, SameSources
<1>5. \A i \in Float!Places : Float!FldSt(i) => Float!Stack!StackNext
  BY <1>2, LoadRefines DEF Float!FldSt
<1>6. Float!Get(0) = S[1] \/ ~Float!Names(0)
  BY <1>2, <1>3
<1>7. ASSUME NEW i \in Float!Places, Float!Fst(i) \/ Float!Fstp(i) PROVE Float!Stack!StackNext
  <2>1. Float!Names(i) /\ i \in Float!Stack!Places /\ Float!Get(0) \in Float!Numbers
          /\ Float!Get(0) = S[1]
    BY <1>2, <1>3, <1>6, <1>7 DEF Float!Fst, Float!Fstp
  <2>2. Float!Stack!Replace(i, Float!Get(0))
    BY <1>7, <2>1, ReplaceRefines DEF Float!Fst, Float!Fstp, Float!Keep
  <2>3. Float!Stack!Store(i)
    BY <2>1, <2>2, StackSteps
  <2> QED BY <2>1, <2>3
<1>8. ASSUME NEW i \in Float!Places, Float!Fxch(i) PROVE Float!Stack!StackNext
  <2>1. i \in Float!Stack!Places
    BY <1>2, <1>8 DEF Float!Fxch
  <2> QED BY <1>8, <2>1, ExchangeRefines
<1>9. Float!FstpMemory => Float!Stack!StackNext
  BY DiscardRefines
<1>10. ASSUME NEW op \in Float!Stack!Operations, NEW i \in Float!Places, NEW v \in Float!Sources,
              Float!Fop(op, i, v) \/ (Float!Fopp(op, i) /\ v = Float!Get(0))
       PROVE  Float!Stack!StackNext
  <2>1. Float!Names(i) /\ i \in Float!Stack!Places /\ Float!Get(i) = S[i + 1]
          /\ v \in Float!Stack!Sources
        /\ v \in Float!Numbers /\ Float!Get(i) \in Float!Numbers
    BY <1>2, <1>10, SameSources, SourcesAreNumbers DEF Float!Fop, Float!Fopp, Inv
  <2>2. Float!Result(op, Float!Get(i), v) \in Float!Numbers
    BY <2>1, NumbersAreClosed
  <2>3. Float!Stack!Replace(i, Float!Result(op, Float!Get(i), v))
    BY <1>10, <2>1, <2>2, ReplaceRefines DEF Float!Fop, Float!Fopp, Float!Keep
  <2>4. Float!Stack!Operate(op, i, v)
    BY <2>1, <2>3, StackSteps
  <2> QED BY <2>1, <2>4
<1>11. \A op \in Float!Stack!Operations, i \in Float!Places : Float!Fopp(op, i) => Float!Stack!StackNext
  <2>1. \A op : \A i \in Float!Places : Float!Fopp(op, i) => Float!Get(0) \in Float!Sources
    BY <1>3 DEF Float!Fopp, Float!Sources
  <2> QED BY <1>10, <2>1
<1>12. ASSUME Float!Fsqrt PROVE Float!Stack!StackNext
  <2>1. Float!Names(0) /\ 0 \in Float!Stack!Places /\ Float!Get(0) = S[0 + 1]
          /\ Float!Get(0) \in Float!Numbers
    BY <1>2, <1>3, <1>12 DEF Float!Fsqrt
  <2>2. Float!Stack!Replace(0, Float!Value(Float!Get(0)))
    BY <1>3, <1>12, <2>1, NumbersAreClosed, ReplaceRefines DEF Float!Fsqrt, Float!Keep
  <2>3. Float!Stack!St(0) = S[0 + 1]
    BY DEF Float!Stack!St, S
  <2> QED BY <2>1, <2>2, <2>3
<1>13. Float!Fsin \/ Float!Fsincos => Float!Stack!StackNext
  <2> SUFFICES ASSUME Float!Fsin \/ Float!Fsincos PROVE Float!Stack!StackNext
    OBVIOUS
  <2>1. Float!Stack!Function /\ S # <<>>
    BY FunctionRefines
  <2> QED BY <2>1 DEF S
<1>14. ASSUME NEW v \in Float!Sources, NEW pops \in 0..2,
              Float!Fcom(v, pops) PROVE Float!Stack!StackNext
  <2>1. Float!Stack!Compare(v, pops) /\ S # <<>> /\ v \in Float!Stack!Sources
    BY <1>14, CompareRefines, SameSources
  <2> QED BY <2>1 DEF S
<1>15. Float!Fnstsw \/ Float!Sahf \/ Float!Fnclex => UNCHANGED Float!Stack!stackVars
  BY <1>1, OthersStutter
<1>16. \A i \in Float!Places : Float!FldSt(i) \/ Float!Fst(i) \/ Float!Fstp(i) \/ Float!Fxch(i) => Float!Stack!StackNext
  BY <1>5, <1>7, <1>8
<1>17. \A op \in Float!Stack!Operations, i \in Float!Places :
          Float!Fopp(op, i) \/ (\E v \in Float!Sources : Float!Fop(op, i, v)) => Float!Stack!StackNext
  <2> HIDE DEF Float!Stack!StackNext
  <2> QED BY <1>10, <1>11
<1> HIDE DEF Float!Stack!StackNext
<1> QED BY <1>4, <1>9, <1>12, <1>13, <1>14, <1>15, <1>16, <1>17 DEF Float!Step

-----------------------------------------------------------------------------
(* Every variable of the unit has its type.                                 *)
THEOREM TypeCorrect == Float!X87Assumption => (InstructionsSpec => []Float!TypeOK)
<1>1. Inv => Float!TypeOK
  BY DEF Inv
<1> QED BY <1>1, InvHolds, PTL

(* The status word names the register on top, and the stack has turned by   *)
(* as many registers as there are numbers in it (update_x87_top_status).    *)
(* After FNSTSW and SAHF the conditions of unsigned numbers tell how the    *)
(* last two numbers compared, whatever else the status word holds           *)
(* (execute_x87_compare, execute_sahf).                                     *)
THEOREM UnitAlwaysTells == Float!X87Assumption => (InstructionsSpec => []UnitTells)
<1>1. Inv => UnitTells
  BY DEF Inv, UnitTells
<1> QED BY <1>1, InvHolds, PTL

(* The registers are the stack that the instructions promise, whatever they *)
(* held before: each step of the unit is one of FloatingStack, or a stutter *)
(* (x87_push, x87_pop, execute_x87_binary, execute_x87_compare).            *)
THEOREM UnitRefines == Float!X87Assumption => (InstructionsSpec => FloatingStackKept)
<1> SUFFICES ASSUME Float!X87Assumption PROVE InstructionsSpec => FloatingStackKept
  OBVIOUS
<1>1. Float!Init => Float!Stack!StackInit
  <2> SUFFICES ASSUME Float!Init PROVE Float!Stack!StackInit
    OBVIOUS
  <2>1. depth = 0
    BY DEF Float!Init
  <2>2. S = <<>>
    BY <2>1 DEF S
  <2>3. Told(status) \in Outcomes
    BY DEF Told, Outcomes
  <2> QED BY <2>2, <2>3, StackSteps
<1>2. Inv /\ Inv' /\ [Float!Next]_(Float!vars) => [Float!Stack!StackNext]_(Float!Stack!stackVars)
  <2> SUFFICES ASSUME Inv, Inv', [Float!Next]_(Float!vars)
               PROVE  Float!Stack!StackNext \/ UNCHANGED Float!Stack!stackVars
    OBVIOUS
  <2>1. CASE Float!Next
    BY <2>1, StepRefines DEF Float!Next
  <2>2. CASE UNCHANGED Float!vars
    BY <2>2 DEF Float!vars, Float!Stack!stackVars, Float!Get, Float!Physical
  <2> QED BY <2>1, <2>2
<1>3. InstructionsSpec => []Inv
  BY InvHolds
<1>4. InstructionsInit => Float!Init
  BY DEF InstructionsInit
<1> QED BY <1>1, <1>2, <1>3, <1>4, UnitSteps, PTL
       DEF InstructionsSpec, FloatingStackKept, Float!FloatingStackKept, Float!Stack!StackSpec

-----------------------------------------------------------------------------
(* MemoryInstructions.  Pointers that turn by one element, and numbers.     *)
LEMMA ModIs ==
    ASSUME NEW n \in Nat \ {0}, NEW x \in Int
    PROVE  x % n \in 0..(n - 1) /\ x \div n \in Int /\ x = n * (x \div n) + (x % n)
OBVIOUS
LEMMA ModUnique ==
    ASSUME NEW n \in Nat \ {0}, NEW q \in Int, NEW m \in 0..(n - 1)
    PROVE  (n * q + m) % n = m
OBVIOUS
LEMMA NextTurn ==
    ASSUME NEW n \in Nat \ {0}, NEW x \in Int
    PROVE  ((x % n) + 1) % n = (x + 1) % n /\ ((x % n) - 1) % n = (x - 1) % n
<1> DEFINE q == x \div n
           m == x % n
<1>1. m \in 0..(n - 1) /\ q \in Int /\ x = n * q + m
  BY ModIs
<1> HIDE DEF m, q
<1>2. (m + 1) % n = (x + 1) % n
  <2>1. CASE m + 1 \in 0..(n - 1)
    <3>1. x + 1 = n * q + (m + 1)
      BY <1>1
    <3>2. (n * q + (m + 1)) % n = m + 1
      BY <1>1, <2>1, ModUnique
    <3>3. (m + 1) % n = m + 1
      BY <2>1
    <3> QED BY <3>1, <3>2, <3>3
  <2>2. CASE m = n - 1
    <3>1. x + 1 = n * (q + 1) + 0 /\ q + 1 \in Int /\ 0 \in 0..(n - 1) /\ m + 1 = n
      BY <1>1, <2>2
    <3>2. (n * (q + 1) + 0) % n = 0
      BY <3>1, ModUnique
    <3>3. n % n = 0
      OBVIOUS
    <3> QED BY <3>1, <3>2, <3>3
  <2> QED BY <1>1, <2>1, <2>2
<1>3. (m - 1) % n = (x - 1) % n
  <2>1. CASE m - 1 \in 0..(n - 1)
    <3>1. x - 1 = n * q + (m - 1)
      BY <1>1
    <3>2. (n * q + (m - 1)) % n = m - 1
      BY <1>1, <2>1, ModUnique
    <3>3. (m - 1) % n = m - 1
      BY <2>1
    <3> QED BY <3>1, <3>2, <3>3
  <2>2. CASE m = 0
    <3>1. x - 1 = n * (q - 1) + (n - 1) /\ q - 1 \in Int /\ n - 1 \in 0..(n - 1) /\ m - 1 = -1
      BY <1>1, <2>2
    <3>2. (n * (q - 1) + (n - 1)) % n = n - 1
      BY <3>1, ModUnique
    <3>3. (-1) % n = n - 1
      OBVIOUS
    <3> QED BY <3>1, <3>2, <3>3
  <2> QED BY <1>1, <2>1, <2>2
<1> QED BY <1>2, <1>3 DEF m

LEMMA LeastNumber ==
    ASSUME NEW T, T \subseteq Nat, T # {}
    PROVE  \E n \in T : \A m \in T : n <= m
<1>1. PICK n \in T : \A m \in T : <<m, n>> \notin OpToRel(<, Nat)
  BY NatLessThanWellFounded, WFMin
<1>2. \A m \in T : ~(m < n)
  BY <1>1 DEF OpToRel
<1> QED BY <1>2

LEMMA SetInduction ==
    ASSUME NEW T, 0 \in T, \A n \in Nat : n \in T => n + 1 \in T
    PROVE  Nat \subseteq T
<1> SUFFICES ASSUME Nat \ T # {} PROVE FALSE
  OBVIOUS
<1>1. PICK n \in Nat \ T : \A m \in Nat \ T : n <= m
  BY LeastNumber
<1>2. n # 0 /\ n - 1 \in Nat /\ n - 1 \in T
  BY <1>1
<1> QED BY <1>1, <1>2

LEMMA PointersTurn ==
    ASSUME String!StringAssumption, start.r.df \in BOOLEAN,
           NEW p \in String!Addresses, NEW k \in Nat, NEW regs, regs.df = start.r.df
    PROVE  /\ String!Nth(p, k) \in String!Addresses /\ String!Nth(p, 0) = p
           /\ String!Advance(String!Nth(p, k), regs) = String!Nth(p, k + 1)
<1>1. Cells \in Nat \ {0} /\ p \in Int /\ p \in 0..(Cells - 1)
  BY DEF String!StringAssumption, String!Addresses
<1>2. CASE start.r.df
  <2>1. \A i : String!Nth(p, i) = (p - i) % Cells
    BY <1>2 DEF String!Nth, String!Wrapped
  <2>2. String!Advance(String!Nth(p, k), regs) = (((p - k) % Cells) - 1) % Cells
    BY <1>2, <2>1 DEF String!Advance, String!Wrapped
  <2>3. p - k \in Int /\ (p - k) - 1 = p - (k + 1) /\ p - 0 = p /\ p % Cells = p
    BY <1>1
  <2>4. (((p - k) % Cells) - 1) % Cells = ((p - k) - 1) % Cells /\ (p - k) % Cells \in 0..(Cells - 1)
    BY <1>1, <2>3, NextTurn, ModIs
  <2> QED BY <2>1, <2>2, <2>3, <2>4 DEF String!Addresses
<1>3. CASE ~start.r.df
  <2>1. \A i : String!Nth(p, i) = (p + i) % Cells
    BY <1>3 DEF String!Nth, String!Wrapped
  <2>2. String!Advance(String!Nth(p, k), regs) = (((p + k) % Cells) + 1) % Cells
    BY <1>3, <2>1 DEF String!Advance, String!Wrapped
  <2>3. p + k \in Int /\ (p + k) + 1 = p + (k + 1) /\ p + 0 = p /\ p % Cells = p
    BY <1>1
  <2>4. (((p + k) % Cells) + 1) % Cells = ((p + k) + 1) % Cells /\ (p + k) % Cells \in 0..(Cells - 1)
    BY <1>1, <2>3, NextTurn, ModIs
  <2> QED BY <2>1, <2>2, <2>3, <2>4 DEF String!Addresses
<1> QED BY <1>2, <1>3

(* The last of some numbers below n.                                        *)
LEMMA LastOf ==
    ASSUME NEW n \in Nat, NEW T \in SUBSET (0..(n - 1)), T # {}
    PROVE  String!Last(T) \in T /\ \A j \in T : j <= String!Last(T)
<1> DEFINE Bounds == {m \in Nat : \A j \in T : j <= m}
<1>0. \A j \in T : j \in Nat
  OBVIOUS
<1>1. n \in Bounds
  OBVIOUS
<1>2. PICK m \in Bounds : \A i \in Bounds : m <= i
  <2>1. Bounds \subseteq Nat /\ Bounds # {}
    BY <1>1
  <2> HIDE DEF Bounds
  <2> QED BY <2>1, LeastNumber
<1>3. m \in T
  <2> SUFFICES ASSUME m \notin T PROVE FALSE
    OBVIOUS
  <2>1. \A j \in T : j < m
    BY <1>2
  <2>2. m # 0
    <3>1. PICK j \in T : j \in Nat /\ j < m
      BY <1>0, <2>1
    <3> QED BY <3>1
  <2>3. m - 1 \in Bounds
    BY <1>2, <2>1, <2>2
  <2> QED BY <1>2, <2>3
<1>4. \E i \in T : \A j \in T : j <= i
  BY <1>2, <1>3
<1> QED BY <1>4 DEF String!Last

LEMMA LastIsThat ==
    ASSUME NEW n \in Nat, NEW T \in SUBSET (0..(n - 1)), NEW k \in T, \A j \in T : j <= k
    PROVE  String!Last(T) = k
<1>1. String!Last(T) \in T /\ \A j \in T : j <= String!Last(T)
  BY LastOf
<1> DEFINE z == String!Last(T)
<1>2. z \in Nat /\ k \in Nat /\ z <= k /\ k <= z
  <2>1. \A j \in T : j \in Nat
    OBVIOUS
  <2>2. z \in T /\ \A j \in T : j <= z
    BY <1>1
  <2> HIDE DEF z
  <2>3. z \in Nat /\ k \in Nat
    BY <2>1, <2>2
  <2>4. z <= k /\ k <= z
    BY <2>2
  <2> QED BY <2>3, <2>4
<1> HIDE DEF z
<1>3. z = k
  BY <1>2
<1> QED BY <1>3 DEF z

-----------------------------------------------------------------------------
(* Memory after some elements, and what an element that copies reads.       *)
Earlier(i) == {j \in 0..(i - 1) : String!Nth(start.r.edi, j) = String!Nth(start.r.esi, i)}
CopyOf(g, i) ==
    IF Earlier(i) = {} THEN start.memory[String!Nth(start.r.esi, i)]
    ELSE g[String!Last(Earlier(i))]
CopiesUpTo(g, n) == \A i \in 0..(n - 1) : g[i] = CopyOf(g, i)

LEMMA CopyExists ==
    ASSUME NEW n \in Nat
    PROVE  \E g : g = [i \in 0..(n - 1) |-> CopyOf(g, i)]
<1> DEFINE T == {m \in Nat : \E g : CopiesUpTo(g, m)}
<1>0. ASSUME NEW m \in Nat, NEW i \in 0..(m - 1), NEW f, NEW g,
             \A j \in 0..(i - 1) : f[j] = g[j]
      PROVE  CopyOf(f, i) = CopyOf(g, i)
  <2>1. CASE Earlier(i) = {}
    BY <2>1 DEF CopyOf
  <2>2. CASE Earlier(i) # {}
    <3>1. i \in Nat /\ Earlier(i) \in SUBSET (0..(i - 1))
      BY DEF Earlier
    <3>2. String!Last(Earlier(i)) \in 0..(i - 1)
      BY <2>2, <3>1, LastOf
    <3> QED BY <1>0, <2>2, <3>2 DEF CopyOf
  <2> QED BY <2>1, <2>2
<1>1. 0 \in T
  BY DEF CopiesUpTo
<1>2. ASSUME NEW m \in Nat, m \in T PROVE m + 1 \in T
  <2>1. PICK g : CopiesUpTo(g, m)
    BY <1>2
  <2> DEFINE h == [i \in 0..m |-> CopyOf(g, i)]
  <2>2. ASSUME NEW i \in 0..m PROVE h[i] = CopyOf(h, i)
    <3>1. i \in 0..((m + 1) - 1) /\ m + 1 \in Nat
      BY <2>2
    <3>2. \A j \in 0..(i - 1) : h[j] = g[j]
      <4>1. \A j \in 0..(i - 1) : j \in 0..m /\ j \in 0..(m - 1)
        BY <2>2
      <4> QED BY <2>1, <4>1 DEF CopiesUpTo
    <3>3. h[i] = CopyOf(g, i)
      OBVIOUS
    <3> HIDE DEF h
    <3> QED BY <1>0, <3>1, <3>2, <3>3
  <2> HIDE DEF h
  <2>3. CopiesUpTo(h, m + 1)
    BY <2>2 DEF CopiesUpTo
  <2> QED BY <2>3
<1>3. n \in T
  <2> HIDE DEF T
  <2> QED BY <1>1, <1>2, SetInduction
<1>4. PICK g : CopiesUpTo(g, n)
  BY <1>3
<1> DEFINE h == [i \in 0..(n - 1) |-> g[i]]
<1>5. ASSUME NEW i \in 0..(n - 1) PROVE h[i] = CopyOf(h, i)
  <2>1. \A j \in 0..(i - 1) : h[j] = g[j]
    BY <1>5
  <2>2. h[i] = CopyOf(g, i)
    BY <1>4 DEF CopiesUpTo
  <2> HIDE DEF h
  <2> QED BY <1>0, <1>5, <2>1, <2>2
<1>6. h = [i \in 0..(n - 1) |-> CopyOf(h, i)]
  BY <1>5
<1> QED BY <1>6

LEMMA CopiedIs ==
    ASSUME Cells \in Nat, NEW i \in 0..(Cells - 1)
    PROVE  String!Copied[i] = CopyOf(String!Copied, i)
<1>1. String!Copied = CHOOSE g : g = [j \in 0..(Cells - 1) |-> CopyOf(g, j)]
  BY DEF String!Copied, CopyOf, Earlier
<1>2. \E g : g = [j \in 0..(Cells - 1) |-> CopyOf(g, j)]
  BY CopyExists
<1>3. String!Copied = [j \in 0..(Cells - 1) |-> CopyOf(String!Copied, j)]
  BY <1>1, <1>2
<1> QED BY <1>3

Moving == String!op \in {"movs", "stos"}
WritesTo(c, k) == {i \in 0..(k - 1) : String!Nth(start.r.edi, i) = c}

LEMMA MemoryIs ==
    ASSUME Moving, NEW k
    PROVE  /\ String!MemoryAfter(k) = [c \in String!Addresses |-> String!MemoryAfter(k)[c]]
           /\ \A c \in String!Addresses :
                String!MemoryAfter(k)[c] =
                   IF WritesTo(c, k) = {} THEN start.memory[c] ELSE String!Stored(String!Last(WritesTo(c, k)))
BY DEF Moving, String!MemoryAfter, WritesTo

LEMMA MemoryGrows ==
    ASSUME Moving, NEW k \in Nat
    PROVE  String!MemoryAfter(k + 1)
              = [String!MemoryAfter(k) EXCEPT ![String!Nth(start.r.edi, k)] = String!Stored(k)]
<1> DEFINE place == String!Nth(start.r.edi, k)
           before == String!MemoryAfter(k)
           after == String!MemoryAfter(k + 1)
<1>1. ASSUME NEW c \in String!Addresses, c = place PROVE after[c] = String!Stored(k)
  <2>1. k \in WritesTo(c, k + 1) /\ WritesTo(c, k + 1) \in SUBSET (0..((k + 1) - 1))
        /\ \A j \in WritesTo(c, k + 1) : j <= k
    BY <1>1 DEF WritesTo
  <2>2. String!Last(WritesTo(c, k + 1)) = k
    <3>1. k + 1 \in Nat
      OBVIOUS
    <3> QED BY <2>1, <3>1, LastIsThat
  <2> HIDE DEF place
  <2> QED BY <2>1, <2>2, MemoryIs
<1>2. ASSUME NEW c \in String!Addresses, c # place PROVE after[c] = before[c]
  <2>1. WritesTo(c, k + 1) = WritesTo(c, k)
    <3>1. \A i \in 0..((k + 1) - 1) : i = k \/ i \in 0..(k - 1)
      OBVIOUS
    <3>2. \A i \in 0..(k - 1) : i \in 0..((k + 1) - 1)
      OBVIOUS
    <3> QED BY <1>2, <3>1, <3>2 DEF WritesTo
  <2> HIDE DEF place
  <2> QED BY <2>1, MemoryIs
<1>3. before = [c \in String!Addresses |-> before[c]] /\ after = [c \in String!Addresses |-> after[c]]
  BY MemoryIs
<1> HIDE DEF before, after, place
<1>4. after = [before EXCEPT ![place] = String!Stored(k)]
  BY <1>1, <1>2, <1>3
<1> QED BY <1>4 DEF before, after, place

LEMMA MemoryBegins ==
    ASSUME DOMAIN start.memory = String!Addresses,
           start.memory = [c \in DOMAIN start.memory |-> start.memory[c]]
    PROVE  String!MemoryAfter(0) = start.memory
<1>1. CASE Moving
  <2>1. \A c : WritesTo(c, 0) = {}
    BY DEF WritesTo
  <2>2. \A c \in String!Addresses : String!MemoryAfter(0)[c] = start.memory[c]
    BY <1>1, <2>1, MemoryIs
  <2>3. String!MemoryAfter(0) = [c \in String!Addresses |-> String!MemoryAfter(0)[c]]
    BY <1>1, MemoryIs
  <2> QED BY <2>2, <2>3
<1>2. CASE ~Moving
  BY <1>2 DEF Moving, String!MemoryAfter
<1> QED BY <1>1, <1>2

LEMMA MemoryRead ==
    ASSUME Cells \in Nat, String!op = "movs", NEW k \in 0..(Cells - 1),
           String!Nth(start.r.esi, k) \in String!Addresses
    PROVE  String!MemoryAfter(k)[String!Nth(start.r.esi, k)] = String!Stored(k)
<1> DEFINE c == String!Nth(start.r.esi, k)
<1>1. WritesTo(c, k) = Earlier(k)
  BY DEF WritesTo, Earlier
<1>2. String!MemoryAfter(k)[c]
        = IF Earlier(k) = {} THEN start.memory[c] ELSE String!Stored(String!Last(Earlier(k)))
  <2> HIDE DEF c
  <2>1. Moving
    BY DEF Moving
  <2>2. c \in String!Addresses
    BY DEF c
  <2> QED BY <1>1, <2>1, <2>2, MemoryIs
<1>3. String!Copied[k] = IF Earlier(k) = {} THEN start.memory[c] ELSE String!Copied[String!Last(Earlier(k))]
  BY CopiedIs DEF CopyOf
<1>4. \A i : String!Stored(i) = String!Copied[i]
  BY DEF String!Stored
<1> HIDE DEF c
<1>5. String!MemoryAfter(k)[c] = String!Stored(k)
  BY <1>2, <1>3, <1>4
<1> QED BY <1>5 DEF c

-----------------------------------------------------------------------------
(* Registers as they are while a string instruction runs, and how each of   *)
(* them follows from the number of elements done.                           *)
Rec(esi, edi, ecx, a, zf, df) ==
    [esi |-> esi, edi |-> edi, ecx |-> ecx, df |-> df, esp |-> 2, ebp |-> 3, a |-> a, zf |-> zf]

LEMMA FieldsOf ==
    ASSUME NEW esi, NEW edi, NEW ecx, NEW a, NEW zf, NEW df, NEW x, x = Rec(esi, edi, ecx, a, zf, df)
    PROVE  x.esi = esi /\ x.edi = edi /\ x.ecx = ecx /\ x.a = a /\ x.zf = zf /\ x.df = df
BY Zenon DEF Rec

SetEsi(x, v) == [x EXCEPT !.esi = v]
SetEdi(x, v) == [x EXCEPT !.edi = v]
SetEcx(x, v) == [x EXCEPT !.ecx = v]
SetAcc(x, v) == [x EXCEPT !.a = v]
SetZf(x, v) == [x EXCEPT !.zf = v]

LEMMA FieldsChange ==
    ASSUME NEW esi, NEW edi, NEW ecx, NEW a, NEW zf, NEW df, NEW v
    PROVE  /\ SetEsi(Rec(esi, edi, ecx, a, zf, df), v) = Rec(v, edi, ecx, a, zf, df)
           /\ SetEdi(Rec(esi, edi, ecx, a, zf, df), v) = Rec(esi, v, ecx, a, zf, df)
           /\ SetEcx(Rec(esi, edi, ecx, a, zf, df), v) = Rec(esi, edi, v, a, zf, df)
           /\ SetAcc(Rec(esi, edi, ecx, a, zf, df), v) = Rec(esi, edi, ecx, v, zf, df)
           /\ SetZf(Rec(esi, edi, ecx, a, zf, df), v) = Rec(esi, edi, ecx, a, v, df)
BY DEF Rec, SetEsi, SetEdi, SetEcx, SetAcc, SetZf

Reading == String!op \in {"movs", "cmps", "lods"}
Esi(k) == IF Reading THEN String!Nth(start.r.esi, k) ELSE start.r.esi
Edi(k) == IF String!op = "lods" THEN start.r.edi ELSE String!Nth(start.r.edi, k)
Ecx(k) == IF String!repeat = "none" THEN start.r.ecx ELSE start.r.ecx - k
Acc(k) == IF String!op = "lods"
  /\ k > 0 THEN start.memory[String!Nth(start.r.esi, k - 1)] ELSE start.r.a
Zf(k) == IF String!op \in String!Comparing /\ k > 0 THEN String!Equal(k - 1) ELSE start.r.zf
RegsOf(k, ecx) == Rec(Esi(k), Edi(k), ecx, Acc(k), Zf(k), start.r.df)

(* The instruction as it starts.                                            *)
Started ==
    /\ start.op \in String!Strings \cup String!Others
    /\ start.repeat \in {"none", "rep", "repne"}
    /\ start.op \in String!Others => start.repeat = "none"
    /\ start.r = Rec(start.r.esi, start.r.edi, start.r.ecx, start.r.a, start.r.zf, start.r.df)
    /\ start.r.esi \in String!Addresses /\ start.r.edi \in String!Addresses
    /\ start.r.ecx \in 0..Cells /\ start.r.df \in BOOLEAN
    /\ start.memory = [c \in String!Addresses |-> start.memory[c]]

Changed(x, esi, edi, a, zf, ecx) ==
    [x EXCEPT !.esi = esi, !.edi = edi, !.a = a, !.zf = zf, !.ecx = ecx]

LEMMA ManyChange ==
    ASSUME NEW esi, NEW edi, NEW ecx, NEW a, NEW zf, NEW df,
           NEW d, NEW e, NEW c, NEW b, NEW z
    PROVE  Changed(Rec(esi, edi, ecx, a, zf, df), d, e, b, z, c) = Rec(d, e, c, b, z, df)
<1> DEFINE x == Rec(esi, edi, ecx, a, zf, df)
<1>1. Changed(x, d, e, b, z, c) = SetEcx(SetZf(SetAcc(SetEdi(SetEsi(x, d), e), b), z), c)
  <2> HIDE DEF x
  <2> QED BY DEF Changed, SetEsi, SetEdi, SetEcx, SetAcc, SetZf
<1>2. SetEsi(x, d) = Rec(d, edi, ecx, a, zf, df)
  BY FieldsChange
<1> QED BY <1>1, <1>2, FieldsChange

LEMMA RegistersAre ==
    ASSUME Started, NEW k
    PROVE  String!RegistersAfter(k) = RegsOf(k, Ecx(k))
<1>1. String!RegistersAfter(k) = Changed(start.r, Esi(k), Edi(k), Acc(k), Zf(k), Ecx(k))
  BY DEF String!RegistersAfter, Changed, Esi, Reading, Edi, Acc, Zf, Ecx
<1>2. start.r = Rec(start.r.esi, start.r.edi, start.r.ecx, start.r.a, start.r.zf, start.r.df)
  BY DEF Started
<1>3. Changed(start.r, Esi(k), Edi(k), Acc(k), Zf(k), Ecx(k)) = RegsOf(k, Ecx(k))
  BY <1>2, ManyChange DEF RegsOf
<1> QED BY <1>1, <1>3

LEMMA PointersMove ==
    ASSUME String!StringAssumption, Started, NEW k \in Nat, NEW ecx, NEW a, NEW zf
    PROVE  /\ Reading => \A edi : String!Source(Rec(Esi(k), edi, ecx, a, zf, start.r.df))
                                     = Rec(Esi(k + 1), edi, ecx, a, zf, start.r.df)
           /\ String!op # "lods" => \A esi : String!Destination(Rec(esi, Edi(k), ecx, a, zf,
              start.r.df))
                                     = Rec(esi, Edi(k + 1), ecx, a, zf, start.r.df)
<1>1. start.r.df \in BOOLEAN /\ start.r.esi \in String!Addresses /\ start.r.edi \in String!Addresses
  BY DEF Started
<1>2. ASSUME Reading, NEW edi
      PROVE  String!Source(Rec(Esi(k), edi, ecx, a, zf, start.r.df))
                = Rec(Esi(k + 1), edi, ecx, a, zf, start.r.df)
  <2> DEFINE x == Rec(Esi(k), edi, ecx, a, zf, start.r.df)
  <2>1. x.esi = Esi(k) /\ x.df = start.r.df
    BY FieldsOf
  <2>2. Esi(k) = String!Nth(start.r.esi, k) /\ Esi(k + 1) = String!Nth(start.r.esi, k + 1)
    BY <1>2 DEF Esi
  <2> HIDE DEF x
  <2>3. String!Advance(x.esi, x) = Esi(k + 1)
    BY <1>1, <2>1, <2>2, PointersTurn
  <2>4. String!Source(x) = SetEsi(x, Esi(k + 1))
    BY <2>3 DEF String!Source, SetEsi
  <2>5. x = Rec(Esi(k), edi, ecx, a, zf, start.r.df)
    BY DEF x
  <2> QED BY <2>4, <2>5, FieldsChange
<1>3. ASSUME String!op # "lods", NEW esi
      PROVE  String!Destination(Rec(esi, Edi(k), ecx, a, zf, start.r.df))
                = Rec(esi, Edi(k + 1), ecx, a, zf, start.r.df)
  <2> DEFINE x == Rec(esi, Edi(k), ecx, a, zf, start.r.df)
  <2>1. x.edi = Edi(k) /\ x.df = start.r.df
    BY FieldsOf
  <2>2. Edi(k) = String!Nth(start.r.edi, k) /\ Edi(k + 1) = String!Nth(start.r.edi, k + 1)
    BY <1>3 DEF Edi
  <2> HIDE DEF x
  <2>3. String!Advance(x.edi, x) = Edi(k + 1)
    BY <1>1, <2>1, <2>2, PointersTurn
  <2>4. String!Destination(x) = SetEdi(x, Edi(k + 1))
    BY <2>3 DEF String!Destination, SetEdi
  <2>5. x = Rec(esi, Edi(k), ecx, a, zf, start.r.df)
    BY DEF x
  <2> QED BY <2>4, <2>5, FieldsChange
<1> QED BY <1>2, <1>3

LEMMA NextIs ==
    ASSUME NEW k \in Nat
    PROVE  /\ ~Reading => Esi(k + 1) = Esi(k)
           /\ Reading => Esi(k) = String!Nth(start.r.esi, k)
           /\ String!op = "lods" => Edi(k + 1) = Edi(k) /\ Acc(k + 1) = start.memory[Esi(k)]
           /\ String!op # "lods" => Acc(k + 1) = Acc(k) /\ Acc(k) = start.r.a
                                    /\ Edi(k) = String!Nth(start.r.edi, k)
           /\ String!op \in String!Comparing => Zf(k + 1) = String!Equal(k)
           /\ String!op \notin String!Comparing => Zf(k + 1) = Zf(k)
<1>1. k + 1 > 0 /\ (k + 1) - 1 = k
  OBVIOUS
<1> QED BY <1>1 DEF Reading, Esi, Edi, Acc, Zf

ElementDone(s, k, ecx) ==
    String!Element(s) = [memory |-> String!MemoryAfter(k + 1), r |-> RegsOf(k + 1, ecx)]

LEMMA ElementIs ==
    ASSUME String!StringAssumption, Started, start.op \in String!Strings, NEW k \in 0..(Cells - 1),
           NEW ecx, NEW s, s.memory = String!MemoryAfter(k), s.r = RegsOf(k, ecx)
    PROVE  ElementDone(s, k, ecx)
<1> DEFINE df == start.r.df
<1>1. k \in Nat /\ k + 1 \in Nat
  BY DEF String!StringAssumption
<1>2. s.r.esi = Esi(k) /\ s.r.edi = Edi(k) /\ s.r.a = Acc(k) /\ s.r.ecx = ecx
  BY FieldsOf DEF RegsOf
<1>3. s.r = Rec(Esi(k), Edi(k), ecx, Acc(k), Zf(k), df)
  BY DEF RegsOf
<1>4. RegsOf(k + 1, ecx) = Rec(Esi(k + 1), Edi(k + 1), ecx, Acc(k + 1), Zf(k + 1), df)
  BY DEF RegsOf
<1> HIDE DEF df
<1>5. CASE start.op = "movs"
  <2>1. String!Element(s) = [memory |-> [s.memory EXCEPT ![s.r.edi] = s.memory[s.r.esi]],
                             r |-> String!Destination(String!Source(s.r))]
    BY <1>5 DEF String!Element, String!op
  <2>2. Reading /\ Moving /\ String!op = "movs" /\ String!op # "lods"
          /\ String!op \notin String!Comparing
    BY <1>5 DEF Reading, Moving, String!op, String!Comparing
  <2>3. String!Destination(String!Source(s.r)) = RegsOf(k + 1, ecx)
    <3>1. String!Source(s.r) = Rec(Esi(k + 1), Edi(k), ecx, Acc(k), Zf(k), df)
      BY <1>1, <1>3, <2>2, PointersMove DEF df
    <3>2. String!Destination(String!Source(s.r)) = Rec(Esi(k + 1), Edi(k + 1), ecx, Acc(k), Zf(k), df)
      BY <1>1, <3>1, <2>2, PointersMove DEF df
    <3> QED BY <1>1, <1>4, <2>2, <3>2, NextIs
  <2>4. s.memory[s.r.esi] = String!Stored(k) /\ s.r.edi = String!Nth(start.r.edi, k)
    <3>1. Esi(k) = String!Nth(start.r.esi, k) /\ Edi(k) = String!Nth(start.r.edi, k)
      BY <1>1, <2>2, NextIs
    <3>2. String!Nth(start.r.esi, k) \in String!Addresses
      <4>1. start.r.esi \in String!Addresses /\ start.r.df \in BOOLEAN
        BY DEF Started
      <4> QED BY <1>1, <4>1, PointersTurn
    <3>3. Cells \in Nat
      BY DEF String!StringAssumption
    <3> QED BY <1>2, <2>2, <3>1, <3>2, <3>3, MemoryRead
  <2>5. String!MemoryAfter(k + 1)
          = [String!MemoryAfter(k) EXCEPT ![String!Nth(start.r.edi, k)] = String!Stored(k)]
    BY <1>1, <2>2, MemoryGrows
  <2>6. [s.memory EXCEPT ![s.r.edi] = s.memory[s.r.esi]] = String!MemoryAfter(k + 1)
    BY <2>4, <2>5, Zenon
  <2> QED BY <2>1, <2>3, <2>6, Zenon DEF ElementDone
<1>6. CASE start.op = "stos"
  <2>1. String!Element(s) = [memory |-> [s.memory EXCEPT ![s.r.edi] = s.r.a],
                             r |-> String!Destination(s.r)]
    BY <1>6 DEF String!Element, String!op
  <2>2. ~Reading /\ Moving /\ String!op # "lods" /\ String!op # "movs"
          /\ String!op \notin String!Comparing
    BY <1>6 DEF Reading, Moving, String!op, String!Comparing
  <2>3. String!Destination(s.r) = RegsOf(k + 1, ecx)
    <3>1. String!Destination(s.r) = Rec(Esi(k), Edi(k + 1), ecx, Acc(k), Zf(k), df)
      BY <1>1, <1>3, <2>2, PointersMove DEF df
    <3> QED BY <1>1, <1>4, <2>2, <3>1, NextIs
  <2>4. s.r.a = String!Stored(k) /\ s.r.edi = String!Nth(start.r.edi, k)
    BY <1>1, <1>2, <2>2, NextIs DEF String!Stored
  <2>5. String!MemoryAfter(k + 1)
          = [String!MemoryAfter(k) EXCEPT ![String!Nth(start.r.edi, k)] = String!Stored(k)]
    BY <1>1, <2>2, MemoryGrows
  <2>6. [s.memory EXCEPT ![s.r.edi] = s.r.a] = String!MemoryAfter(k + 1)
    BY <2>4, <2>5, Zenon
  <2> QED BY <2>1, <2>3, <2>6, Zenon DEF ElementDone
<1>7. ~Moving => String!MemoryAfter(k) = start.memory /\ String!MemoryAfter(k + 1) = start.memory
  BY DEF Moving, String!MemoryAfter
<1>8. CASE start.op = "lods"
  <2>1. String!Element(s) = [memory |-> s.memory,
                             r |-> String!Source([s.r EXCEPT !.a = s.memory[s.r.esi]])]
    BY <1>8 DEF String!Element, String!op
  <2>2. Reading /\ ~Moving /\ String!op = "lods" /\ String!op \notin String!Comparing
    BY <1>8 DEF Reading, Moving, String!op, String!Comparing
  <2>3. [s.r EXCEPT !.a = s.memory[s.r.esi]] = Rec(Esi(k), Edi(k), ecx, Acc(k + 1), Zf(k), df)
    <3>1. s.memory[s.r.esi] = Acc(k + 1)
      BY <1>1, <1>2, <1>7, <2>2, NextIs
    <3>2. [s.r EXCEPT !.a = s.memory[s.r.esi]] = SetAcc(s.r, Acc(k + 1))
      BY <3>1 DEF SetAcc
    <3> QED BY <1>3, <3>2, FieldsChange
  <2>4. String!Source([s.r EXCEPT !.a = s.memory[s.r.esi]]) = RegsOf(k + 1, ecx)
    <3>1. String!Source(Rec(Esi(k), Edi(k), ecx, Acc(k + 1), Zf(k), df))
            = Rec(Esi(k + 1), Edi(k), ecx, Acc(k + 1), Zf(k), df)
      BY <1>1, <2>2, PointersMove DEF df
    <3> QED BY <1>1, <1>4, <2>2, <2>3, <3>1, NextIs
  <2> QED BY <1>7, <2>1, <2>2, <2>4, Zenon DEF ElementDone
<1>9. CASE start.op = "cmps"
  <2>1. String!Element(s) = [memory |-> s.memory,
           r |-> String!Destination(String!Source(
                    [s.r EXCEPT !.zf = (s.memory[s.r.esi] = s.memory[s.r.edi])]))]
    BY <1>9 DEF String!Element, String!op
  <2>2. Reading /\ ~Moving /\ String!op # "lods" /\ String!op = "cmps" /\ String!op \in String!Comparing
    BY <1>9 DEF Reading, Moving, String!op, String!Comparing
  <2>3. (s.memory[s.r.esi] = s.memory[s.r.edi]) = Zf(k + 1)
    <3>1. Esi(k) = String!Nth(start.r.esi, k) /\ Edi(k) = String!Nth(start.r.edi, k)
          /\ Zf(k + 1) = String!Equal(k)
      BY <1>1, <2>2, NextIs
    <3>2. String!Equal(k)
            = (start.memory[String!Nth(start.r.esi, k)] = start.memory[String!Nth(start.r.edi, k)])
      BY <2>2 DEF String!Equal
    <3>3. s.memory = start.memory
      BY <1>7, <2>2
    <3> QED BY <1>2, <3>1, <3>2, <3>3, Zenon
  <2>4. [s.r EXCEPT !.zf = (s.memory[s.r.esi] = s.memory[s.r.edi])]
          = Rec(Esi(k), Edi(k), ecx, Acc(k), Zf(k + 1), df)
    <3>1. [s.r EXCEPT !.zf = (s.memory[s.r.esi] = s.memory[s.r.edi])] = SetZf(s.r, Zf(k + 1))
      BY <2>3, Zenon DEF SetZf
    <3> QED BY <1>3, <3>1, FieldsChange
  <2>5. String!Source(Rec(Esi(k), Edi(k), ecx, Acc(k), Zf(k + 1), df))
            = Rec(Esi(k + 1), Edi(k), ecx, Acc(k), Zf(k + 1), df)
    BY <1>1, <2>2, PointersMove DEF df
  <2>6. String!Destination(Rec(Esi(k + 1), Edi(k), ecx, Acc(k), Zf(k + 1), df))
            = Rec(Esi(k + 1), Edi(k + 1), ecx, Acc(k), Zf(k + 1), df)
    BY <1>1, <2>2, PointersMove DEF df
  <2>7. Acc(k + 1) = Acc(k)
    BY <1>1, <2>2, NextIs
  <2>8. String!Destination(String!Source(
           [s.r EXCEPT !.zf = (s.memory[s.r.esi] = s.memory[s.r.edi])])) = RegsOf(k + 1, ecx)
    BY <1>4, <2>4, <2>5, <2>6, <2>7
  <2> QED BY <1>7, <2>1, <2>2, <2>8, Zenon DEF ElementDone
<1>10. CASE start.op = "scas"
  <2>1. String!Element(s) = [memory |-> s.memory,
           r |-> String!Destination([s.r EXCEPT !.zf = (s.r.a = s.memory[s.r.edi])])]
    BY <1>10 DEF String!Element, String!op
  <2>2. ~Reading /\ ~Moving /\ String!op # "lods" /\ String!op # "cmps"
          /\ String!op \in String!Comparing
    BY <1>10 DEF Reading, Moving, String!op, String!Comparing
  <2>3. (s.r.a = s.memory[s.r.edi]) = Zf(k + 1)
    <3>1. Acc(k) = start.r.a /\ Edi(k) = String!Nth(start.r.edi, k) /\ Zf(k + 1) = String!Equal(k)
      BY <1>1, <2>2, NextIs
    <3>2. String!Equal(k) = (start.r.a = start.memory[String!Nth(start.r.edi, k)])
      BY <2>2 DEF String!Equal
    <3>3. s.memory = start.memory
      BY <1>7, <2>2
    <3> QED BY <1>2, <3>1, <3>2, <3>3, Zenon
  <2>4. [s.r EXCEPT !.zf = (s.r.a = s.memory[s.r.edi])]
          = Rec(Esi(k), Edi(k), ecx, Acc(k), Zf(k + 1), df)
    <3>1. [s.r EXCEPT !.zf = (s.r.a = s.memory[s.r.edi])] = SetZf(s.r, Zf(k + 1))
      BY <2>3, Zenon DEF SetZf
    <3> QED BY <1>3, <3>1, FieldsChange
  <2>5. String!Destination(Rec(Esi(k), Edi(k), ecx, Acc(k), Zf(k + 1), df))
            = Rec(Esi(k), Edi(k + 1), ecx, Acc(k), Zf(k + 1), df)
    BY <1>1, <2>2, PointersMove DEF df
  <2>6. Acc(k + 1) = Acc(k) /\ Esi(k + 1) = Esi(k)
    BY <1>1, <2>2, NextIs
  <2>7. String!Destination([s.r EXCEPT !.zf = (s.r.a = s.memory[s.r.edi])]) = RegsOf(k + 1, ecx)
    BY <1>4, <2>4, <2>5, <2>6
  <2> QED BY <1>7, <2>1, <2>2, <2>7, Zenon DEF ElementDone
<1> QED BY <1>5, <1>6, <1>8, <1>9, <1>10 DEF String!Strings

-----------------------------------------------------------------------------
(* How many elements there are to do.                                       *)
Undecided(k) == \A j \in 1..k : j \notin String!Deciding

LEMMA WantedIs ==
    ASSUME Started, start.repeat # "none", NEW k \in Nat
    PROVE  /\ k \in String!Deciding /\ Undecided(k - 1) => String!Wanted = k
           /\ k = start.r.ecx /\ Undecided(k) => String!Wanted = k
<1>1. String!Deciding \subseteq 1..start.r.ecx /\ start.r.ecx \in Nat
  BY DEF String!Deciding, Started
<1>2. ASSUME k \in String!Deciding, Undecided(k - 1) PROVE String!Wanted = k
  <2>1. \A j \in String!Deciding : j \in Nat /\ k <= j
    <3> SUFFICES ASSUME NEW j \in String!Deciding, j < k PROVE FALSE
      BY <1>1
    <3>1. j \in 1..(k - 1)
      BY <1>1
    <3> QED BY <1>2, <3>1 DEF Undecided
  <2>2. String!Wanted = CHOOSE m \in String!Deciding : \A j \in String!Deciding : m <= j
    BY <1>2 DEF String!Wanted, String!repeat
  <2> DEFINE w == CHOOSE m \in String!Deciding : \A j \in String!Deciding : m <= j
  <2>3. w \in String!Deciding /\ \A j \in String!Deciding : w <= j
    BY <1>2, <2>1
  <2> HIDE DEF w
  <2>4. w <= k /\ k <= w /\ w \in Nat /\ k \in Nat
    BY <1>2, <2>1, <2>3
  <2>5. w = k
    BY <2>4
  <2> QED BY <2>2, <2>5 DEF w
<1>3. ASSUME k = start.r.ecx, Undecided(k) PROVE String!Wanted = k
  <2>1. String!Deciding = {}
    BY <1>1, <1>3 DEF Undecided
  <2> QED BY <1>3, <2>1 DEF String!Wanted, String!repeat
<1> QED BY <1>2, <1>3

(* The state of the loop of one step.                                       *)
Iterated(b) ==
    IF b.why # "more" THEN b
    ELSE IF ~(String!Touched(b.r) \subseteq mapped) THEN [b EXCEPT !.why = "fault"]
    ELSE LET e == String!Counted(String!Element(b)) IN
         [memory |-> e.memory, r |-> e.r,
          why |-> IF e.r.ecx = 0 \/ ~String!MayRepeat(e.r) THEN "done" ELSE "more"]

StandsAt(b, k) ==
    /\ b = [memory |-> String!MemoryAfter(k), r |-> RegsOf(k, start.r.ecx - k), why |-> b.why]
    /\ \/ b.why \in {"more", "fault"} /\ Undecided(k) /\ k < start.r.ecx
       \/ b.why = "done" /\ k = String!Wanted

Stands(b) == \E k \in 0..start.r.ecx : StandsAt(b, k)

LEMMA DecidesIs ==
    ASSUME Started, NEW k \in Nat, k < start.r.ecx, NEW regs, regs.zf = Zf(k + 1), start.repeat # "none"
    PROVE  String!MayRepeat(regs) <=> k + 1 \notin String!Deciding
<1>1. start.r.ecx \in Nat /\ k + 1 \in 1..start.r.ecx /\ (k + 1) - 1 = k
  BY DEF Started
<1>2. CASE String!op \in String!Comparing
  <2>1. regs.zf = String!Equal(k)
    BY <1>2, NextIs
  <2>2. k + 1 \in String!Deciding <=> String!Equal(k) = (String!repeat = "repne")
    BY <1>1, <1>2 DEF String!Deciding
  <2>3. String!Equal(k) \in BOOLEAN
    BY DEF String!Equal
  <2>4. String!MayRepeat(regs) <=> IF String!repeat = "repne" THEN ~String!Equal(k) ELSE String!Equal(k)
    BY <1>2, <2>1, Zenon DEF String!MayRepeat
  <2>5. CASE String!repeat = "repne"
    BY <2>2, <2>3, <2>4, <2>5
  <2>6. CASE String!repeat # "repne"
    BY <2>2, <2>3, <2>4, <2>6
  <2> QED BY <2>5, <2>6
<1>3. CASE String!op \notin String!Comparing
  BY <1>3 DEF String!MayRepeat, String!Deciding
<1> QED BY <1>2, <1>3

LEMMA CountedIs ==
    ASSUME NEW m, NEW k, NEW ecx
    PROVE  String!Counted([memory |-> m, r |-> RegsOf(k, ecx)])
              = [memory |-> m, r |-> RegsOf(k, ecx - 1)]
<1> DEFINE x == RegsOf(k, ecx)
<1>1. x.ecx = ecx /\ SetEcx(x, ecx - 1) = RegsOf(k, ecx - 1)
  BY FieldsOf, FieldsChange DEF RegsOf
<1> HIDE DEF x
<1>2. String!Counted([memory |-> m, r |-> x]) = [memory |-> m, r |-> SetEcx(x, x.ecx - 1)]
  BY DEF String!Counted, SetEcx
<1> QED BY <1>1, <1>2 DEF x

LEMMA IteratedStands ==
    ASSUME String!StringAssumption, Started, start.op \in String!Strings, start.repeat # "none",
           NEW b, Stands(b)
    PROVE  Stands(Iterated(b))
<1> DEFINE N == start.r.ecx
<1>1. PICK k \in 0..N : StandsAt(b, k)
  BY DEF Stands
<1>2. N \in 0..Cells /\ Cells \in Nat
  BY DEF Started, String!StringAssumption
<1>3. CASE b.why # "more"
  BY <1>3 DEF Iterated
<1>4. CASE b.why = "more" /\ ~(String!Touched(b.r) \subseteq mapped)
  <2>1. Iterated(b) = [b EXCEPT !.why = "fault"]
    BY <1>4 DEF Iterated
  <2>2. [b EXCEPT !.why = "fault"]
          = [memory |-> String!MemoryAfter(k), r |-> RegsOf(k, N - k), why |-> "fault"]
    BY <1>1 DEF StandsAt
  <2>3. Undecided(k) /\ k < N
    BY <1>1, <1>4 DEF StandsAt
  <2>4. StandsAt(Iterated(b), k)
    BY <2>1, <2>2, <2>3 DEF StandsAt
  <2> QED BY <2>4 DEF Stands
<1>5. CASE b.why = "more" /\ String!Touched(b.r) \subseteq mapped
  <2> DEFINE e == String!Counted(String!Element(b))
             m == String!MemoryAfter(k + 1)
             x == RegsOf(k + 1, N - (k + 1))
             why == IF x.ecx = 0 \/ ~String!MayRepeat(x) THEN "done" ELSE "more"
  <2>1. Undecided(k) /\ k < N /\ b.memory = String!MemoryAfter(k) /\ b.r = RegsOf(k, N - k)
    BY <1>1, <1>5 DEF StandsAt
  <2>2. k \in Nat /\ k \in 0..(Cells - 1) /\ k + 1 \in 0..N /\ (N - k) - 1 = N - (k + 1) /\ N \in Nat
        /\ k + 1 \in Nat /\ (k + 1) - 1 = k
    BY <1>2, <2>1
  <2>3. String!Element(b) = [memory |-> m, r |-> RegsOf(k + 1, N - k)]
    BY <2>1, <2>2, ElementIs DEF ElementDone
  <2>4. e = [memory |-> m, r |-> x]
    BY <2>2, <2>3, CountedIs
  <2>5. Iterated(b) = [memory |-> e.memory, r |-> e.r,
                       why |-> IF e.r.ecx = 0 \/ ~String!MayRepeat(e.r) THEN "done" ELSE "more"]
    BY <1>5 DEF Iterated
  <2>6. e.memory = m /\ e.r = x
    <3> HIDE DEF e, m, x
    <3> QED BY <2>4
  <2>7. Iterated(b) = [memory |-> m, r |-> x, why |-> why]
    <3> HIDE DEF e, m, x
    <3> QED BY <2>5, <2>6
  <2>8. x.ecx = N - (k + 1) /\ x.zf = Zf(k + 1)
    BY FieldsOf DEF RegsOf
  <2> HIDE DEF m, e, x
  <2>9. String!MayRepeat(x) <=> k + 1 \notin String!Deciding
    BY <2>1, <2>2, <2>8, DecidesIs
  <2>10. StandsAt(Iterated(b), k + 1)
    <3>1. k + 1 \notin String!Deciding => Undecided(k + 1)
      <4>1. \A j \in 1..(k + 1) : j = k + 1 \/ j \in 1..k
        BY <2>2
      <4> QED BY <2>1, <4>1 DEF Undecided
    <3>2. CASE k + 1 \in String!Deciding
      <4>1. String!Wanted = k + 1
        BY <2>1, <2>2, <3>2, WantedIs
      <4>2. Iterated(b) = [memory |-> m, r |-> x, why |-> "done"]
        BY <2>7, <2>9, <3>2
      <4> QED BY <4>1, <4>2 DEF StandsAt, m, x
    <3>3. CASE k + 1 \notin String!Deciding /\ k + 1 = N
      <4>1. String!Wanted = k + 1
        BY <2>2, <3>1, <3>3, WantedIs
      <4>2. x.ecx = 0
        BY <2>2, <2>8, <3>3
      <4>3. Iterated(b) = [memory |-> m, r |-> x, why |-> "done"]
        BY <2>7, <4>2
      <4> QED BY <4>1, <4>3 DEF StandsAt, m, x
    <3>4. CASE k + 1 \notin String!Deciding /\ k + 1 # N
      <4>1. x.ecx # 0 /\ k + 1 < N
        BY <2>2, <2>8, <3>4
      <4>2. Iterated(b) = [memory |-> m, r |-> x, why |-> "more"]
        BY <2>7, <2>9, <3>4, <4>1
      <4> QED BY <3>1, <3>4, <4>1, <4>2 DEF StandsAt, m, x
    <3> QED BY <3>2, <3>3, <3>4
  <2> QED BY <2>2, <2>10 DEF Stands
<1> QED BY <1>3, <1>4, <1>5

(* The loop, after any number of rounds.                                    *)
Round(s, g, i) ==
    IF i = 0 THEN [memory |-> s.memory, r |-> s.r, why |-> "more"] ELSE Iterated(g[i - 1])
RoundsUpTo(s, g, n) == \A i \in 0..n : g[i] = Round(s, g, i)

LEMMA RoundsExist ==
    ASSUME NEW s, NEW n \in Nat
    PROVE  \E g : g = [i \in 0..n |-> Round(s, g, i)]
<1> DEFINE T == {m \in Nat : \E g : RoundsUpTo(s, g, m)}
<1>1. 0 \in T
  <2> DEFINE g == [i \in 0..0 |-> [memory |-> s.memory, r |-> s.r, why |-> "more"]]
  <2>1. ASSUME NEW i \in 0..0 PROVE g[i] = Round(s, g, i)
    <3>1. i = 0 /\ g[i] = [memory |-> s.memory, r |-> s.r, why |-> "more"]
      OBVIOUS
    <3> HIDE DEF g
    <3> QED BY <3>1 DEF Round
  <2> HIDE DEF g
  <2>2. RoundsUpTo(s, g, 0)
    BY <2>1 DEF RoundsUpTo
  <2> QED BY <2>2
<1>2. ASSUME NEW m \in Nat, m \in T PROVE m + 1 \in T
  <2>1. PICK g : RoundsUpTo(s, g, m)
    BY <1>2
  <2> DEFINE h == [i \in 0..(m + 1) |-> Round(s, g, i)]
  <2>2. ASSUME NEW i \in 0..(m + 1) PROVE h[i] = Round(s, h, i)
    <3>1. CASE i = 0
      BY <3>1 DEF Round
    <3>2. CASE i # 0
      <4>1. i - 1 \in 0..m /\ i - 1 \in 0..(m + 1)
        BY <3>2
      <4>2. h[i - 1] = g[i - 1]
        BY <2>1, <4>1 DEF RoundsUpTo
      <4>3. h[i] = Round(s, g, i)
        OBVIOUS
      <4> HIDE DEF h
      <4> QED BY <3>2, <4>2, <4>3 DEF Round
    <3> QED BY <3>1, <3>2
  <2> HIDE DEF h
  <2>3. RoundsUpTo(s, h, m + 1)
    BY <2>2 DEF RoundsUpTo
  <2> QED BY <2>3
<1>3. n \in T
  <2> HIDE DEF T
  <2> QED BY <1>1, <1>2, SetInduction
<1>4. PICK g : RoundsUpTo(s, g, n)
  BY <1>3
<1> DEFINE h == [i \in 0..n |-> g[i]]
<1>5. ASSUME NEW i \in 0..n PROVE h[i] = Round(s, h, i)
  <2>1. h[i] = Round(s, g, i)
    BY <1>4 DEF RoundsUpTo
  <2>2. i # 0 => h[i - 1] = g[i - 1]
    BY <1>5
  <2> HIDE DEF h
  <2> QED BY <2>1, <2>2 DEF Round
<1>6. h = [i \in 0..n |-> Round(s, h, i)]
  BY <1>5
<1> QED BY <1>6

LEMMA IterateStands ==
    ASSUME String!StringAssumption, Started, start.op \in String!Strings, start.repeat # "none",
           NEW s, NEW n \in Nat, Stands([memory |-> s.memory, r |-> s.r, why |-> "more"])
    PROVE  Stands(String!Iterate(s, n))
<1> DEFINE f == CHOOSE g : g = [i \in 0..n |-> Round(s, g, i)]
<1>1. String!Iterate(s, n) = f[n]
  BY DEF String!Iterate, Round, Iterated
<1>2. f = [i \in 0..n |-> Round(s, f, i)]
  BY RoundsExist
<1> HIDE DEF f
<1> DEFINE T == {m \in Nat : m \in 0..n => Stands(f[m])}
<1>3. 0 \in T
  <2>1. f[0] = [memory |-> s.memory, r |-> s.r, why |-> "more"]
    BY <1>2 DEF Round
  <2> QED BY <2>1
<1>4. ASSUME NEW m \in Nat, m \in T PROVE m + 1 \in T
  <2> SUFFICES ASSUME m + 1 \in 0..n PROVE Stands(f[m + 1])
    OBVIOUS
  <2>1. m \in 0..n /\ m + 1 # 0 /\ (m + 1) - 1 = m
    OBVIOUS
  <2>2. f[m + 1] = Iterated(f[m])
    BY <1>2, <2>1 DEF Round
  <2> QED BY <1>4, <2>1, <2>2, IteratedStands
<1>5. n \in T
  <2> HIDE DEF T
  <2> QED BY <1>3, <1>4, SetInduction
<1> QED BY <1>1, <1>5

-----------------------------------------------------------------------------
(* Where every instruction stands.                                          *)
Repeating == start.op \in String!Strings /\ start.repeat # "none"
Single == start.op \in String!Strings /\ start.repeat = "none"

OtherDone ==
    /\ start.op = "push" =>
          /\ r = [start.r EXCEPT !.esp = String!Wrapped(@ - 1)]
          /\ memory = [start.memory EXCEPT ![r.esp] = r.a]
    /\ start.op = "pop" =>
          /\ r = [start.r EXCEPT !.a = start.memory[start.r.esp], !.esp = String!Wrapped(@ + 1)]
          /\ memory = start.memory
    /\ (start.op = "pop memory" /\ start.r.edi \in start.mapped) =>
          /\ r = [start.r EXCEPT !.esp = String!Wrapped(@ + 1)]
          /\ memory = [start.memory EXCEPT ![r.edi] = start.memory[start.r.esp]]
    /\ start.op = "leave" =>
          /\ r.ebp = start.memory[start.r.ebp] /\ r.esp = String!Wrapped(start.r.ebp + 1)
          /\ memory = start.memory
    /\ start.op = "xchg" =>
          /\ r = [start.r EXCEPT !.a = start.memory[r.edi]]
          /\ memory = [start.memory EXCEPT ![r.edi] = start.r.a]

RepeatedAt(k) ==
    /\ memory = String!MemoryAfter(k) /\ r = RegsOf(k, start.r.ecx - k)
    /\ \/ at # "next" /\ Undecided(k) /\ (k < start.r.ecx \/ (k = 0 /\ start.r.ecx = 0))
       \/ at = "next" /\ k = String!Wanted

SingleAt ==
    /\ at # "next" => memory = start.memory /\ r = start.r
    /\ at = "next" => memory = String!MemoryAfter(1) /\ r = RegsOf(1, start.r.ecx)

OtherAt ==
    /\ at # "next" =>
          /\ memory = start.memory
          /\ \/ r = start.r
             \/ start.op = "leave" /\ r = [start.r EXCEPT !.esp = start.r.ebp]
             \/ start.op = "pop memory" /\ start.r.edi \notin start.mapped
    /\ at = "next" => OtherDone

StringInv ==
    /\ Started
    /\ start.mapped \subseteq mapped
    /\ at \in {"here", "fault", "next"}
    /\ Repeating => \E k \in 0..start.r.ecx : RepeatedAt(k)
    /\ Single => SingleAt
    /\ start.op \in String!Others => OtherAt

NthFrom(st, pointer, i) == String!Wrapped(IF st.r.df THEN pointer - i ELSE pointer + i)
CopiedFrom(st) ==
    LET v[i \in 0..(Cells - 1)] ==
            LET earlier == {j \in 0..(i - 1) : NthFrom(st, st.r.edi, j) = NthFrom(st, st.r.esi, i)}
            IN IF earlier = {} THEN st.memory[NthFrom(st, st.r.esi, i)] ELSE v[String!Last(earlier)]
    IN v

WantedOf(st, deciding) ==
    IF st.repeat = "none" THEN 1
    ELSE IF deciding = {} THEN st.r.ecx
    ELSE CHOOSE k \in deciding : \A j \in deciding : k <= j

LEMMA StartKept ==
    ASSUME UNCHANGED start
    PROVE  /\ \A k : String!MemoryAfter(k)' = String!MemoryAfter(k)
           /\ \A k, ecx : RegsOf(k, ecx)' = RegsOf(k, ecx)
           /\ \A k : Undecided(k)' = Undecided(k)
           /\ String!Wanted' = String!Wanted
           /\ Started' = Started
<1> USE DEF String!op, String!repeat, String!Nth
<1>1. String!Copied' = String!Copied
  <2>1. String!Copied = CopiedFrom(start)
    BY DEF String!Copied, CopiedFrom, NthFrom
  <2>2. String!Copied' = CopiedFrom(start)'
    BY DEF String!Copied, CopiedFrom, NthFrom
  <2>3. CopiedFrom(start)' = CopiedFrom(start)
    OBVIOUS
  <2> QED BY <2>1, <2>2, <2>3
<1>2. \A k : String!Stored(k)' = String!Stored(k)
  BY <1>1, Zenon DEF String!Stored
<1>3. \A k : String!MemoryAfter(k)' = String!MemoryAfter(k)
  BY <1>2, Zenon DEF String!MemoryAfter
<1>4. \A k : String!Equal(k)' = String!Equal(k)
  BY Zenon DEF String!Equal
<1>5. \A k, ecx : RegsOf(k, ecx)' = RegsOf(k, ecx)
  BY <1>4, Zenon DEF RegsOf, Esi, Reading, Edi, Acc, Zf
<1>6. String!Deciding' = String!Deciding
  BY <1>4, Zenon DEF String!Deciding
<1>7. \A k : Undecided(k)' = Undecided(k)
  BY <1>6, Zenon DEF Undecided
<1>8. String!Wanted' = String!Wanted
  <2>1. String!Wanted = WantedOf(start, String!Deciding)
    BY DEF String!Wanted, WantedOf
  <2>2. String!Wanted' = WantedOf(start', String!Deciding')
    BY DEF String!Wanted, WantedOf
  <2> QED BY <1>6, <2>1, <2>2
<1>9. Started' = Started
  BY Zenon DEF Started
<1> QED BY <1>3, <1>5, <1>7, <1>8, <1>9

LEMMA RegsBegin ==
    ASSUME String!StringAssumption, Started
    PROVE  RegsOf(0, start.r.ecx) = start.r /\ String!MemoryAfter(0) = start.memory
<1>1. start.r.esi \in String!Addresses /\ start.r.edi \in String!Addresses /\ start.r.df \in BOOLEAN
  BY DEF Started
<1>2. String!Nth(start.r.esi, 0) = start.r.esi /\ String!Nth(start.r.edi, 0) = start.r.edi
  BY <1>1, PointersTurn
<1>3. Esi(0) = start.r.esi /\ Edi(0) = start.r.edi /\ Acc(0) = start.r.a /\ Zf(0) = start.r.zf
  BY <1>2 DEF Esi, Edi, Acc, Zf
<1>4. start.r = Rec(start.r.esi, start.r.edi, start.r.ecx, start.r.a, start.r.zf, start.r.df)
  BY DEF Started
<1>5. RegsOf(0, start.r.ecx) = start.r
  BY <1>3, <1>4, Zenon DEF RegsOf
<1>6. DOMAIN start.memory = String!Addresses
      /\ start.memory = [c \in DOMAIN start.memory |-> start.memory[c]]
  BY DEF Started
<1> QED BY <1>5, <1>6, MemoryBegins

LEMMA StringBegins ==
    ASSUME String!StringAssumption, String!Init
    PROVE  StringInv
<1>1. PICK o \in String!Strings \cup String!Others, repetition \in {"none", "rep", "repne"},
           edi \in String!Addresses, ecx \in 0..Cells, df \in BOOLEAN,
           contents \in [String!Addresses -> CellValues], pages \in Mappings :
        /\ o \in String!Others => repetition = "none" /\ ecx = 0 /\ ~df
        /\ start = [op |-> o, repeat |-> repetition, r |-> String!Registers(edi, ecx, df),
                    memory |-> contents, mapped |-> pages]
  BY DEF String!Init
<1>2. memory = start.memory /\ mapped = start.mapped /\ r = start.r /\ at = "here"
  BY DEF String!Init
<1>3. start.r = Rec(0, edi, ecx, 1, FALSE, df)
  BY <1>1 DEF String!Registers, Rec
<1>4. /\ start.op = o /\ start.repeat = repetition /\ start.memory = contents
  BY <1>1
<1>5. Started
  <2>1. /\ start.r.esi = 0 /\ start.r.edi = edi /\ start.r.ecx = ecx /\ start.r.a = 1
        /\ start.r.zf = FALSE /\ start.r.df = df
    <3> DEFINE no == FALSE
    <3>1. start.r = Rec(0, edi, ecx, 1, no, df)
      BY <1>3
    <3> HIDE DEF no
    <3>2. /\ start.r.esi = 0 /\ start.r.edi = edi /\ start.r.ecx = ecx /\ start.r.a = 1
          /\ start.r.zf = no /\ start.r.df = df
      BY <3>1, FieldsOf
    <3> QED BY <3>2 DEF no
  <2>2. start.r = Rec(start.r.esi, start.r.edi, start.r.ecx, start.r.a, start.r.zf, start.r.df)
    BY <1>3, <2>1, Zenon
  <2>3. 0 \in String!Addresses
    BY DEF String!StringAssumption, String!Addresses
  <2>4. start.op \in String!Others => start.repeat = "none"
    BY <1>1, <1>4
  <2>5. start.r.df \in BOOLEAN
    BY <2>1, Zenon
  <2>6. start.memory = [c \in String!Addresses |-> start.memory[c]]
    BY <1>4
  <2>7. start.r.ecx \in 0..Cells /\ start.r.esi \in String!Addresses /\ start.r.edi \in String!Addresses
    BY <2>1, <2>3
  <2>8. start.op \in String!Strings \cup String!Others /\ start.repeat \in {"none", "rep", "repne"}
    BY <1>4
  <2> QED BY <2>2, <2>4, <2>5, <2>6, <2>7, <2>8 DEF Started
<1>6. Repeating => \E k \in 0..start.r.ecx : RepeatedAt(k)
  <2>1. start.r.ecx \in Nat
    BY <1>5 DEF Started
  <2>2. RegsOf(0, start.r.ecx - 0) = start.r /\ String!MemoryAfter(0) = start.memory
    <3>1. start.r.ecx - 0 = start.r.ecx
      BY <2>1
    <3> QED BY <1>5, <3>1, RegsBegin
  <2>3. Undecided(0)
    BY DEF Undecided
  <2>4. RepeatedAt(0)
    BY <1>2, <2>1, <2>2, <2>3 DEF RepeatedAt
  <2> QED BY <2>1, <2>4
<1>7. SingleAt /\ OtherAt
  BY <1>2 DEF SingleAt, OtherAt
<1> QED BY <1>2, <1>5, <1>6, <1>7 DEF StringInv

LEMMA RepeatedStep ==
    ASSUME String!StringAssumption, StringInv, at = "here", Repeating,
           String!RepeatedString, UNCHANGED <<start, mapped>>
    PROVE  at' \in {"here", "fault", "next"} /\ \E k \in 0..start.r.ecx : RepeatedAt(k)'
<1> DEFINE N == start.r.ecx
           s == String!Iterate([memory |-> memory, r |-> r], String!Least(r.ecx, MaxRep))
<1>1. PICK k \in 0..N : RepeatedAt(k)
  BY DEF StringInv
<1>2. N \in Nat /\ Started /\ MaxRep \in Nat
  BY DEF StringInv, Started, String!StringAssumption
<1>3. /\ memory = String!MemoryAfter(k) /\ r = RegsOf(k, N - k) /\ Undecided(k)
      /\ k < N \/ (k = 0 /\ N = 0)
  BY <1>1 DEF RepeatedAt
<1>4. r.ecx = N - k
  BY <1>3, FieldsOf DEF RegsOf
<1>5. /\ \A j : String!MemoryAfter(j)' = String!MemoryAfter(j)
      /\ \A j : \A e : RegsOf(j, e)' = RegsOf(j, e)
      /\ \A j : Undecided(j)' = Undecided(j)
      /\ String!Wanted' = String!Wanted /\ N' = N
  BY StartKept
<1>6. CASE r.ecx = 0 /\ at' = "next" /\ UNCHANGED <<memory, r>>
  <2>1. k = N
    BY <1>2, <1>4, <1>6
  <2>2. String!Wanted = k
    BY <1>2, <1>3, <2>1, WantedIs DEF Repeating
  <2>3. RepeatedAt(k)'
    BY <1>3, <1>5, <1>6, <2>2 DEF RepeatedAt
  <2> QED BY <1>6, <2>3
<1>7. CASE /\ r.ecx # 0 /\ memory' = s.memory /\ r' = s.r
           /\ at' = CASE s.why = "fault" -> "fault" [] s.why = "done" -> "next" [] OTHER -> "here"
  <2>1. k < N /\ r.ecx \in Nat
    BY <1>2, <1>3, <1>4, <1>7
  <2>2. String!Least(r.ecx, MaxRep) \in Nat
    BY <1>2, <2>1 DEF String!Least
  <2> DEFINE b == [memory |-> memory, r |-> r, why |-> "more"]
             b0 == [memory |-> memory, r |-> r]
  <2>3. Stands(b)
    <3>1. b = [memory |-> String!MemoryAfter(k), r |-> RegsOf(k, N - k), why |-> b.why]
            /\ b.why = "more"
      BY <1>3
    <3> HIDE DEF b
    <3>2. StandsAt(b, k)
      BY <1>3, <2>1, <3>1 DEF StandsAt
    <3> QED BY <3>2 DEF Stands
  <2>4. b = [memory |-> b0.memory, r |-> b0.r, why |-> "more"]
    OBVIOUS
  <2>5. s = String!Iterate(b0, String!Least(r.ecx, MaxRep))
    OBVIOUS
  <2> HIDE DEF b, b0, s
  <2>6. Stands(s)
    BY <1>2, <2>2, <2>3, <2>4, <2>5, IterateStands DEF Repeating
  <2>7. PICK n \in 0..N : StandsAt(s, n)
    BY <2>6 DEF Stands
  <2>8. memory' = String!MemoryAfter(n) /\ r' = RegsOf(n, N - n)
    BY <1>7, <2>7 DEF StandsAt
  <2>9. \/ at' \in {"here", "fault"} /\ Undecided(n) /\ n < N
        \/ at' = "next" /\ n = String!Wanted
    BY <1>7, <2>7 DEF StandsAt
  <2>10. RepeatedAt(n)'
    BY <1>5, <2>8, <2>9 DEF RepeatedAt
  <2> QED BY <2>9, <2>10
<1> QED BY <1>6, <1>7 DEF String!RepeatedString

LEMMA SingleStep ==
    ASSUME String!StringAssumption, StringInv, at = "here", Single,
           String!SingleString, UNCHANGED <<start, mapped>>
    PROVE  at' \in {"here", "fault", "next"} /\ SingleAt'
<1> DEFINE b == [memory |-> memory, r |-> r]
<1>1. memory = start.memory /\ r = start.r /\ Started
  BY DEF StringInv, SingleAt
<1>2. /\ \A j : String!MemoryAfter(j)' = String!MemoryAfter(j)
      /\ \A j : \A e : RegsOf(j, e)' = RegsOf(j, e)
  BY StartKept
<1>3. CASE at' = "fault" /\ UNCHANGED <<memory, r>>
  BY <1>1, <1>3 DEF SingleAt
<1>4. CASE memory' = String!Element(b).memory /\ r' = String!Element(b).r /\ at' = "next"
  <2>1. b.memory = String!MemoryAfter(0) /\ b.r = RegsOf(0, start.r.ecx)
    BY <1>1, RegsBegin
  <2>2. 0 \in 0..(Cells - 1)
    BY DEF String!StringAssumption
  <2> HIDE DEF b
  <2>3. String!Element(b) = [memory |-> String!MemoryAfter(0 + 1), r |-> RegsOf(0 + 1, start.r.ecx)]
    BY <1>1, <2>1, <2>2, ElementIs DEF ElementDone, Single
  <2>4. memory' = String!MemoryAfter(1) /\ r' = RegsOf(1, start.r.ecx)
    <3>1. 0 + 1 = 1
      OBVIOUS
    <3>2. String!Element(b).memory = String!MemoryAfter(0 + 1)
          /\ String!Element(b).r = RegsOf(0 + 1, start.r.ecx)
      BY <2>3
    <3> QED BY <1>4, <3>1, <3>2
  <2> QED BY <1>2, <1>4, <2>4 DEF SingleAt
<1> QED BY <1>3, <1>4 DEF String!SingleString

LEMMA OtherStep ==
    ASSUME StringInv, at = "here", start.op \in String!Others,
           \/ String!Push \/ String!Pop \/ String!PopMemory \/ String!Leave \/ String!Exchange,
           UNCHANGED <<start, mapped>>
    PROVE  at' \in {"here", "fault", "next"} /\ OtherAt'
<1> USE DEF String!op, String!Fault, String!Done
<1>1. /\ memory = start.memory
      /\ \/ r = start.r
         \/ start.op = "leave" /\ r = [start.r EXCEPT !.esp = start.r.ebp]
         \/ start.op = "pop memory" /\ start.r.edi \notin start.mapped
      /\ start.mapped \subseteq mapped
  BY DEF StringInv, OtherAt
<1>2. DOMAIN start.r = {"esi", "edi", "ecx", "df", "esp", "ebp", "a", "zf"}
  BY DEF StringInv, Started, Rec
<1>3. CASE String!Push
  <2>1. start.op = "push" /\ r = start.r
    BY <1>1, <1>3 DEF String!Push
  <2>2. CASE at' = "fault" /\ UNCHANGED <<memory, r>>
    BY <1>1, <2>1, <2>2 DEF OtherAt
  <2>3. CASE /\ at' = "next"
             /\ memory' = [memory EXCEPT ![String!Wrapped(r.esp - 1)] = r.a]
             /\ r' = [r EXCEPT !.esp = String!Wrapped(r.esp - 1)]
    <3>1. r' = [start.r EXCEPT !.esp = String!Wrapped(@ - 1)] /\ r'.a = start.r.a
          /\ r'.esp = String!Wrapped(start.r.esp - 1)
      BY <1>2, <2>1, <2>3
    <3>2. memory' = [start.memory EXCEPT ![r'.esp] = r'.a]
      BY <1>1, <2>1, <2>3, <3>1
    <3>3. OtherDone'
      BY <2>1, <3>1, <3>2 DEF OtherDone
    <3> QED BY <2>3, <3>3 DEF OtherAt
  <2> QED BY <1>3, <2>2, <2>3 DEF String!Push
<1>4. CASE String!Pop
  <2>1. start.op = "pop" /\ r = start.r /\ UNCHANGED memory
    BY <1>1, <1>4 DEF String!Pop
  <2>2. CASE at' = "fault" /\ UNCHANGED r
    BY <1>1, <2>1, <2>2 DEF OtherAt
  <2>3. CASE at' = "next" /\ r' = [String!Popped EXCEPT !.a = memory[r.esp]]
    <3>1. r' = [start.r EXCEPT !.a = start.memory[start.r.esp], !.esp = String!Wrapped(@ + 1)]
      BY <1>1, <1>2, <2>1, <2>3 DEF String!Popped
    <3>2. OtherDone'
      BY <1>1, <2>1, <3>1 DEF OtherDone
    <3> QED BY <2>3, <3>2 DEF OtherAt
  <2> QED BY <1>4, <2>2, <2>3 DEF String!Pop
<1>5. CASE String!PopMemory
  <2>1. start.op = "pop memory"
    BY <1>5 DEF String!PopMemory
  <2>2. CASE at' = "fault" /\ UNCHANGED <<memory, r>>
    BY <1>1, <2>1, <2>2 DEF OtherAt
  <2>3. CASE r.edi \notin mapped /\ at' = "fault" /\ UNCHANGED memory
    BY <1>1, <2>1, <2>3 DEF OtherAt
  <2>4. CASE /\ at' = "next" /\ r' = String!Popped /\ memory' = [memory EXCEPT ![r.edi] = memory[r.esp]]
    <3>1. ASSUME start.r.edi \in start.mapped
          PROVE  /\ r' = [start.r EXCEPT !.esp = String!Wrapped(@ + 1)]
                 /\ memory' = [start.memory EXCEPT ![r'.edi] = start.memory[start.r.esp]]
      <4>1. r = start.r
        BY <1>1, <2>1, <3>1
      <4>2. r' = [start.r EXCEPT !.esp = String!Wrapped(@ + 1)] /\ r'.edi = start.r.edi
        BY <1>2, <2>4, <4>1 DEF String!Popped
      <4> QED BY <1>1, <2>4, <4>1, <4>2
    <3>2. OtherDone'
      BY <2>1, <3>1 DEF OtherDone
    <3> QED BY <2>4, <3>2 DEF OtherAt
  <2> QED BY <1>5, <2>2, <2>3, <2>4 DEF String!PopMemory
<1>6. CASE String!Leave
  <2> DEFINE framed == [r EXCEPT !.esp = r.ebp]
  <2>1. start.op = "leave" /\ UNCHANGED memory
    BY <1>6 DEF String!Leave
  <2>2. framed = [start.r EXCEPT !.esp = start.r.ebp] /\ r.ebp = start.r.ebp
    BY <1>1, <1>2, <2>1
  <2>3. CASE at' = "fault" /\ r' = framed
    BY <1>1, <2>1, <2>2, <2>3 DEF OtherAt
  <2>4. CASE at' = "next" /\ r' = [framed EXCEPT !.ebp = memory[r.ebp], !.esp = String!Wrapped(@ + 1)]
    <3>1. framed.esp = start.r.ebp /\ DOMAIN framed = DOMAIN start.r
      BY <1>2, <2>2
    <3> HIDE DEF framed
    <3>2. r'.ebp = start.memory[start.r.ebp] /\ r'.esp = String!Wrapped(start.r.ebp + 1)
      BY <1>1, <1>2, <2>2, <2>4, <3>1
    <3>3. OtherDone'
      BY <1>1, <2>1, <3>2 DEF OtherDone
    <3> QED BY <2>4, <3>3 DEF OtherAt
  <2> QED BY <1>6, <2>3, <2>4 DEF String!Leave
<1>7. CASE String!Exchange
  <2>1. start.op = "xchg" /\ r = start.r
    BY <1>1, <1>7 DEF String!Exchange
  <2>2. CASE at' = "fault" /\ UNCHANGED <<memory, r>>
    BY <1>1, <2>1, <2>2 DEF OtherAt
  <2>3. CASE /\ at' = "next" /\ memory' = [memory EXCEPT ![r.edi] = r.a]
             /\ r' = [r EXCEPT !.a = memory[r.edi]]
    <3>1. r'.edi = start.r.edi /\ r' = [start.r EXCEPT !.a = start.memory[start.r.edi]]
      BY <1>1, <1>2, <2>1, <2>3
    <3>2. memory' = [start.memory EXCEPT ![start.r.edi] = start.r.a]
      BY <1>1, <2>1, <2>3
    <3>3. OtherDone'
      BY <2>1, <3>1, <3>2 DEF OtherDone
    <3> QED BY <2>3, <3>3 DEF OtherAt
  <2> QED BY <1>7, <2>2, <2>3 DEF String!Exchange
<1> QED BY <1>3, <1>4, <1>5, <1>6, <1>7

LEMMA KindsApart ==
    ASSUME Started
    PROVE  /\ start.op \in String!Others => ~Repeating /\ ~Single
           /\ Repeating => ~Single
BY DEF Started, Repeating, Single, String!Strings, String!Others

LEMMA InstructionStep ==
    ASSUME String!StringAssumption, StringInv, [String!Next]_String!vars
    PROVE  StringInv'
<1>1. CASE String!Execute /\ UNCHANGED start
  <2>1. at = "here" /\ UNCHANGED <<start, mapped>>
        /\ \/ String!RepeatedString \/ String!SingleString
           \/ (String!Push \/ String!Pop \/ String!PopMemory \/ String!Leave \/ String!Exchange)
    BY <1>1 DEF String!Execute
  <2>2. Started /\ Started' /\ (start.mapped \subseteq mapped)'
    BY <2>1, StartKept DEF StringInv
  <2>3. Repeating' = Repeating /\ Single' = Single /\ start' = start
    BY <2>1 DEF Repeating, Single
  <2>4. CASE String!RepeatedString
    <3>1. Repeating
      BY <2>4 DEF String!RepeatedString, Repeating, String!op, String!repeat
    <3>2. at' \in {"here", "fault", "next"} /\ \E k \in 0..start.r.ecx : RepeatedAt(k)'
      BY <2>1, <2>4, <3>1, RepeatedStep
    <3>3. (Repeating => \E k \in 0..start.r.ecx : RepeatedAt(k))'
      BY <2>3, <3>2
    <3> QED BY <2>2, <2>3, <3>1, <3>2, <3>3, KindsApart DEF StringInv
  <2>5. CASE String!SingleString
    <3>1. Single
      BY <2>5 DEF String!SingleString, Single, String!op, String!repeat
    <3>2. at' \in {"here", "fault", "next"} /\ SingleAt'
      BY <2>1, <2>5, <3>1, SingleStep
    <3> QED BY <2>2, <2>3, <3>1, <3>2, KindsApart DEF StringInv
  <2>6. CASE String!Push \/ String!Pop \/ String!PopMemory \/ String!Leave \/ String!Exchange
    <3>1. start.op \in String!Others
      BY <2>6 DEF String!Push, String!Pop, String!PopMemory, String!Leave, String!Exchange,
                  String!Others, String!op
    <3>2. at' \in {"here", "fault", "next"} /\ OtherAt'
      BY <2>1, <2>6, <3>1, OtherStep
    <3> QED BY <2>2, <2>3, <3>1, <3>2, KindsApart DEF StringInv
  <2> QED BY <2>1, <2>4, <2>5, <2>6
<1>2. CASE (\E cell \in String!Addresses : String!Handle(cell)) /\ UNCHANGED start
  <2>1. at = "fault" /\ at' = "here" /\ UNCHANGED <<memory, r, start>> /\ start.mapped \subseteq mapped'
    BY <1>2 DEF String!Handle, StringInv
  <2>2. ASSUME NEW k, RepeatedAt(k) PROVE RepeatedAt(k)'
    BY <2>1, <2>2, StartKept DEF RepeatedAt
  <2>3. Repeating' = Repeating /\ Single' = Single
    BY <2>1 DEF Repeating, Single
  <2>4. (Repeating => \E k \in 0..start.r.ecx : RepeatedAt(k))'
    BY <2>1, <2>2, <2>3 DEF StringInv
  <2>5. (Single => SingleAt)'
    BY <2>1, <2>3 DEF StringInv, SingleAt
  <2>6. (start.op \in String!Others => OtherAt)'
    BY <2>1 DEF StringInv, OtherAt
  <2>7. Started'
    BY <2>1, StartKept DEF StringInv
  <2> QED BY <2>1, <2>4, <2>5, <2>6, <2>7 DEF StringInv
<1>3. CASE UNCHANGED String!vars
  <2>1. UNCHANGED <<start, memory, mapped, r, at>>
    BY <1>3 DEF String!vars
  <2>2. ASSUME NEW k, RepeatedAt(k) PROVE RepeatedAt(k)'
    BY <2>1, <2>2, StartKept DEF RepeatedAt
  <2>3. Repeating' = Repeating /\ Single' = Single /\ Started'
    BY <2>1, StartKept DEF Repeating, Single, StringInv
  <2>4. (Repeating => \E k \in 0..start.r.ecx : RepeatedAt(k))'
    BY <2>1, <2>2, <2>3 DEF StringInv
  <2>5. (Single => SingleAt)'
    <3>1. CASE ~Single
      BY <2>3, <3>1
    <3>2. CASE Single
      <4>1. SingleAt
        BY <3>2 DEF StringInv
      <4>2. String!MemoryAfter(1)' = String!MemoryAfter(1)
            /\ \A e : RegsOf(1, e)' = RegsOf(1, e)
        BY <2>1, StartKept
      <4>3. SingleAt'
        BY <2>1, <4>1, <4>2 DEF SingleAt
      <4> QED BY <4>3
    <3> QED BY <3>1, <3>2
  <2>6. (start.op \in String!Others => OtherAt)'
    <3>1. OtherAt' = OtherAt
      BY <2>1 DEF OtherAt, OtherDone
    <3> QED BY <2>1, <3>1 DEF StringInv
  <2> QED BY <2>1, <2>3, <2>4, <2>5, <2>6 DEF StringInv
<1> QED BY <1>1, <1>2, <1>3 DEF String!Next

LEMMA StandsResumed ==
    ASSUME String!StringAssumption, StringInv
    PROVE  String!InstructionsResume
<1>1. Started
  BY DEF StringInv
<1>2. \A k : String!IsAfter(k) <=> memory = String!MemoryAfter(k) /\ r = RegsOf(k, Ecx(k))
  BY <1>1, RegistersAre DEF String!IsAfter
<1>3. ASSUME NEW k \in 0..start.r.ecx, RepeatedAt(k), Repeating
      PROVE  String!IsAfter(k) /\ start.r.ecx - r.ecx = k
  <2>1. Ecx(k) = start.r.ecx - k /\ start.r.ecx \in Nat
    BY <1>1, <1>3 DEF Ecx, Repeating, String!repeat, Started
  <2>2. r.ecx = start.r.ecx - k
    BY <1>3, FieldsOf DEF RepeatedAt, RegsOf
  <2>3. start.r.ecx - r.ecx = k
    BY <2>1, <2>2
  <2>4. String!IsAfter(k)
    BY <1>2, <1>3, <2>1 DEF RepeatedAt
  <2> QED BY <2>3, <2>4
<1>4. String!ElementsInOrder
  <2> SUFFICES ASSUME String!op \in String!Strings, String!repeat # "none"
               PROVE  String!IsAfter(start.r.ecx - r.ecx)
    BY DEF String!ElementsInOrder
  <2>1. Repeating
    BY DEF Repeating, String!op, String!repeat
  <2>2. PICK k \in 0..start.r.ecx : RepeatedAt(k)
    BY <2>1 DEF StringInv
  <2> QED BY <1>3, <2>1, <2>2
<1>5. ASSUME at = "next", start.op \in String!Strings PROVE String!IsAfter(String!Wanted)
  <2>1. CASE Repeating
    <3>1. PICK k \in 0..start.r.ecx : RepeatedAt(k)
      BY <2>1 DEF StringInv
    <3>2. String!Wanted = k
      BY <1>5, <3>1 DEF RepeatedAt
    <3> QED BY <1>3, <2>1, <3>1, <3>2
  <2>2. CASE ~Repeating
    <3>1. Single /\ SingleAt
      BY <1>5, <2>2 DEF Repeating, Single, StringInv
    <3>2. String!Wanted = 1 /\ Ecx(1) = start.r.ecx
      BY <3>1 DEF Single, String!Wanted, String!repeat, Ecx
    <3>3. memory = String!MemoryAfter(1) /\ r = RegsOf(1, start.r.ecx)
      BY <1>5, <3>1 DEF SingleAt
    <3> QED BY <1>2, <3>2, <3>3
  <2> QED BY <2>1, <2>2
<1>6. ASSUME at = "next" PROVE OtherDone
  <2>1. CASE start.op \in String!Others
    BY <1>6, <2>1 DEF StringInv, OtherAt
  <2>2. CASE start.op \notin String!Others
    BY <2>2 DEF OtherDone, String!Others
  <2> QED BY <2>1, <2>2
<1>7. String!InterruptedOrNot
  <2> SUFFICES ASSUME at = "next"
               PROVE  (start.op \in String!Strings => String!IsAfter(String!Wanted)) /\ OtherDone
    BY DEF String!InterruptedOrNot, OtherDone, String!op
  <2> QED BY <1>5, <1>6
<1> QED BY <1>4, <1>7 DEF String!InstructionsResume

ResumeInv == focus = "string" => StringInv

(* For any number of cells, any batch and any pages: wherever a repeated    *)
(* string instruction stops it has done what its registers say, and every   *)
(* instruction on memory ends as if it had never been interrupted           *)
(* (execute_string, execute_leave and the other instructions of the stack). *)
THEOREM InterruptionsLeaveNoTrace ==
    String!StringAssumption => (InstructionsSpec => []InstructionsResume)
<1> SUFFICES ASSUME String!StringAssumption PROVE InstructionsSpec => []InstructionsResume
  OBVIOUS
<1>1. InstructionsInit => ResumeInv
  BY StringBegins DEF InstructionsInit, Focused, ResumeInv
<1>2. ResumeInv /\ [InstructionsNext]_instructionVars => ResumeInv'
  <2> SUFFICES ASSUME ResumeInv, [InstructionsNext]_instructionVars, focus' = "string"
               PROVE  StringInv'
    BY DEF ResumeInv
  <2>1. focus = "string" /\ [String!Next]_String!vars
    BY DEF InstructionsNext, Focused, instructionVars, stringVars, String!vars
  <2> QED BY <2>1, InstructionStep DEF ResumeInv
<1>3. ResumeInv => InstructionsResume
  BY StandsResumed DEF ResumeInv, InstructionsResume
<1> QED BY <1>1, <1>2, <1>3, PTL DEF InstructionsSpec
=============================================================================
