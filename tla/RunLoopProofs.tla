---------------------------- MODULE RunLoopProofs ----------------------------
(***************************************************************************)
(* Theorems about the run loop, for every guest program, every number of    *)
(* callbacks and handlers and every budget: the suspended host calls mirror *)
(* the guest stack, the batched loop reports an exit it has seen, and an    *)
(* exception is refused as nested only while a handler runs.                *)
(*                                                                          *)
(* The inductive invariant says of every place control may return to (eip,  *)
(* the words of the stack, and the place an exception is to be continued)   *)
(* what it finds there: see LeadsBack.                                      *)
(***************************************************************************)
EXTENDS RunLoop, TLAPS

(* The handler of the pending exception is running or has just returned.    *)
(* EndDialog may abandon it and leave the exception pending.                *)
Live ==
    /\ pending # None
    /\ \/ eip = "exception"
       \/ pending.base < Depth /\ stack[pending.base + 1] = "exception"

(* A return to w that leaves n words on the stack finds what it resumes.    *)
LeadsBack(w, n) ==
    /\ w = "callback" => \E i \in DOMAIN frames : frames[i].base = n
    /\ w = "exception" => pending # None /\ pending.base = n
    /\ w = "tls" => n = 0 /\ tls # NotActive
    /\ w = "exit" => n = 0 /\ tls = NotActive

FrameInPlace(f) ==
    /\ f.base <= Depth /\ stack[f.base] = f.ret
    /\ \/ f.base < Depth /\ stack[f.base + 1] = "callback"
       \/ f.base = Depth /\ eip = "callback"
       \/ Live /\ f.base = pending.base /\ pending.eip = "callback"

FramesInPlace == \A i \in DOMAIN frames : FrameInPlace(frames[i])
FramesAscend == \A i, j \in DOMAIN frames : i < j => frames[i].base < frames[j].base
WordsInPlace == \A p \in 1..Depth : LeadsBack(stack[p], p - 1)
HandlerInPlace == Live => pending.eip # "exception" /\ LeadsBack(pending.eip, pending.base)

Aligned ==
    /\ FramesInPlace
    /\ FramesAscend
    /\ WordsInPlace
    /\ LeadsBack(eip, Depth)
    /\ HandlerInPlace

(* The exception that is pending is being handled.                          *)
Served == pending # None => Live

(* The types of what Aligned is about.                                      *)
Typed ==
    /\ program \in Program
    /\ eip \in Words \cup {"thunk"}
    /\ stack \in Seq(Words)
    /\ frames \in Seq(Frame)
    /\ tls \in {NotActive} \cup 0..program.tlsCallbacks
    /\ pending \in Exception

(* w is put on top of the stack.                                            *)
Pushed(words, w) == stack' = Append(words, w)

sight == <<eip, stack, frames, tls, pending, program>>

-----------------------------------------------------------------------------
(* Sequences.                                                               *)
LEMMA LenSeq ==
    ASSUME NEW S, NEW s \in Seq(S)
    PROVE  Len(s) \in Nat /\ DOMAIN s = 1..Len(s)
  OBVIOUS

LEMMA CutSeq ==
    ASSUME NEW S, NEW s \in Seq(S), NEW n \in 0..Len(s)
    PROVE  /\ SubSeq(s, 1, n) \in Seq(S)
           /\ Len(SubSeq(s, 1, n)) = n
           /\ \A i \in 1..n : SubSeq(s, 1, n)[i] = s[i]
  OBVIOUS

LEMMA ExtendSeq ==
    ASSUME NEW S, NEW s \in Seq(S), NEW e \in S
    PROVE  /\ Append(s, e) \in Seq(S)
           /\ Len(Append(s, e)) = Len(s) + 1
           /\ \A i \in 1..Len(s) : Append(s, e)[i] = s[i]
           /\ Append(s, e)[Len(s) + 1] = e
  OBVIOUS

LEMMA EndsSeq ==
    ASSUME NEW S, NEW s \in Seq(S), s # <<>>
    PROVE  /\ Len(s) \in Nat \ {0}
           /\ Last(s) = s[Len(s)] /\ Last(s) \in S
           /\ Front(s) \in Seq(S) /\ Len(Front(s)) = Len(s) - 1
           /\ \A i \in 1..(Len(s) - 1) : Front(s)[i] = s[i]
<1>1. Len(s) \in Nat \ {0}
  OBVIOUS
<1>2. Last(s) = s[Len(s)] /\ Last(s) \in S
  BY <1>1 DEF Last
<1>3. Front(s) = SubSeq(s, 1, Len(s) - 1)
  BY DEF Front
<1>4. Len(s) - 1 \in 0..Len(s)
  BY <1>1
<1> DEFINE n == Len(s) - 1
<1>5. /\ SubSeq(s, 1, n) \in Seq(S) /\ Len(SubSeq(s, 1, n)) = n
      /\ \A i \in 1..n : SubSeq(s, 1, n)[i] = s[i]
  <2> HIDE DEF n
  <2> QED
    BY <1>4, CutSeq DEF n
<1> QED
  BY <1>1, <1>2, <1>3, <1>5

(* A suspended call is one of the sequence, and has a base and a word.      *)
LEMMA FrameTypes ==
    ASSUME Typed, NEW i \in DOMAIN frames
    PROVE  /\ frames[i] \in Frame
           /\ frames[i].base \in Nat \ {0} /\ frames[i].ret \in Words
           /\ i \in 1..Len(frames) /\ Len(frames) \in Nat
<1>1. i \in 1..Len(frames) /\ Len(frames) \in Nat /\ frames[i] \in Frame
  BY DEF Typed
<1> QED
  BY <1>1 DEF Frame

-----------------------------------------------------------------------------
(* A step that leaves control as it is.                                     *)
LEMMA StutterAligned ==
    ASSUME Typed, Aligned, UNCHANGED sight
    PROVE  Typed' /\ Aligned' /\ (Served => Served')
  BY DEF sight, Typed, Aligned, FramesInPlace, FrameInPlace, FramesAscend, WordsInPlace,
         HandlerInPlace, LeadsBack, Live, Depth, Served

(* In guest code or at an import no suspended call is on top of the stack.  *)
LEMMA FramesBelow ==
    ASSUME Typed, Aligned, eip \in {"code", "thunk"}, NEW i \in DOMAIN frames
    PROVE  frames[i].base < Depth
  BY FrameTypes DEF Typed, Exception, Aligned, FramesInPlace, FrameInPlace, Live, Depth

(* A return from guest code or from an API.                                 *)
LEMMA PopAligned ==
    ASSUME Typed, Aligned, eip \in {"code", "thunk"}, Pop,
           UNCHANGED <<frames, tls, pending, program>>
    PROVE  Typed' /\ Aligned' /\ (Served => Served')
<1>1. /\ Depth \in Nat \ {0} /\ eip' = stack[Depth] /\ eip' \in Words
      /\ stack' \in Seq(Words) /\ Depth' = Depth - 1
      /\ \A p \in 1..(Depth - 1) : stack'[p] = stack[p]
  BY EndsSeq DEF Typed, Pop, Depth
<1>2. Typed'
  BY <1>1 DEF Typed
<1>3. pending.base \in Nat
  BY DEF Typed, Exception
<1>4. Live <=> Live'
  BY <1>1, <1>3 DEF Live, Aligned, WordsInPlace, LeadsBack
<1>5. FramesInPlace'
  <2> SUFFICES ASSUME NEW i \in DOMAIN frames PROVE FrameInPlace(frames[i])'
    BY DEF FramesInPlace
  <2>1. frames[i].base \in Nat \ {0} /\ frames[i].base < Depth
    BY FrameTypes, FramesBelow
  <2>2. FrameInPlace(frames[i])
    BY DEF Aligned, FramesInPlace
  <2> QED
    BY <1>1, <1>3, <1>4, <2>1, <2>2 DEF FrameInPlace
<1>6. FramesAscend'
  BY DEF Aligned, FramesAscend
<1>7. WordsInPlace'
  BY <1>1 DEF Aligned, WordsInPlace, LeadsBack
<1>8. LeadsBack(eip, Depth)'
  BY <1>1 DEF Aligned, WordsInPlace, LeadsBack
<1>9. HandlerInPlace'
  BY <1>4 DEF Aligned, HandlerInPlace, LeadsBack
<1>10. Served => Served'
  BY <1>4 DEF Served
<1> QED
  BY <1>10, <1>2, <1>5, <1>6, <1>7, <1>8, <1>9 DEF Aligned

(* Guest code that goes on, or calls an import with or without a return     *)
(* word.                                                                    *)
LEMMA HopAligned ==
    ASSUME Typed, Aligned, eip \in {"code", "thunk"}, eip' \in {"code", "thunk"},
           stack' = stack \/ Pushed(stack, "code"),
           UNCHANGED <<frames, tls, pending, program>>
    PROVE  Typed' /\ Aligned' /\ (Served => Served')
<1>1. /\ Depth \in Nat /\ Depth' \in Nat /\ Depth <= Depth' /\ stack' \in Seq(Words)
      /\ \A p \in 1..Depth : stack'[p] = stack[p]
      /\ \A p \in 1..Depth' : p > Depth => stack'[p] = "code"
  <2>1. stack \in Seq(Words) /\ Len(stack) \in Nat /\ "code" \in Words
    BY LenSeq DEF Typed, Words
  <2>2. CASE stack' = stack
    BY <2>1, <2>2 DEF Depth
  <2>3. CASE Pushed(stack, "code")
    <3>1. /\ stack' \in Seq(Words) /\ Len(stack') = Len(stack) + 1
          /\ \A p \in 1..Len(stack) : stack'[p] = stack[p]
          /\ stack'[Len(stack) + 1] = "code"
      BY <2>1, <2>3, ExtendSeq DEF Pushed
    <3> QED
      BY <2>1, <3>1 DEF Depth
  <2> QED
    BY <2>2, <2>3
<1>2. Typed'
  BY <1>1 DEF Typed, Words
<1>3. pending.base \in Nat
  BY DEF Typed, Exception
<1>4. Live <=> Live'
  BY <1>1, <1>3 DEF Live
<1>5. FramesInPlace'
  <2> SUFFICES ASSUME NEW i \in DOMAIN frames PROVE FrameInPlace(frames[i])'
    BY DEF FramesInPlace
  <2>1. frames[i].base \in Nat \ {0} /\ frames[i].base < Depth
    BY FrameTypes, FramesBelow
  <2>2. FrameInPlace(frames[i])
    BY DEF Aligned, FramesInPlace
  <2> QED
    BY <1>1, <1>3, <1>4, <2>1, <2>2 DEF FrameInPlace
<1>6. FramesAscend'
  BY DEF Aligned, FramesAscend
<1>7. WordsInPlace'
  <2> SUFFICES ASSUME NEW p \in 1..Depth' PROVE LeadsBack(stack[p], p - 1)'
    BY DEF WordsInPlace
  <2>1. CASE p <= Depth
    BY <1>1, <2>1 DEF Aligned, WordsInPlace, LeadsBack
  <2>2. CASE p > Depth
    BY <1>1, <2>2 DEF LeadsBack
  <2> QED
    BY <1>1, <2>1, <2>2
<1>8. LeadsBack(eip, Depth)'
  BY DEF LeadsBack
<1>9. HandlerInPlace'
  BY <1>4 DEF Aligned, HandlerInPlace, LeadsBack
<1>10. Served => Served'
  BY <1>4 DEF Served
<1> QED
  BY <1>10, <1>2, <1>5, <1>6, <1>7, <1>8, <1>9 DEF Aligned

(* An exception in guest code: the handler starts above the stack.          *)
LEMMA FaultAligned ==
    ASSUME Typed, Aligned, eip = "code", pending = None,
           pending' \in Exception, pending' # None,
           pending'.base = Depth, pending'.eip = "code",
           eip' = "code", Pushed(stack, "exception"),
           UNCHANGED <<frames, tls, program>>
    PROVE  Typed' /\ Aligned' /\ (Served => Served')
<1>1. /\ Depth \in Nat /\ Depth' = Depth + 1 /\ stack' \in Seq(Words)
      /\ \A p \in 1..Depth : stack'[p] = stack[p]
      /\ stack'[Depth + 1] = "exception"
  BY ExtendSeq DEF Typed, Pushed, Depth, Words, Sentinels
<1>2. Typed'
  BY <1>1 DEF Typed, Words
<1>3. ~Live
  BY DEF Live
<1>5. FramesInPlace'
  <2> SUFFICES ASSUME NEW i \in DOMAIN frames PROVE FrameInPlace(frames[i])'
    BY DEF FramesInPlace
  <2>1. frames[i].base \in Nat \ {0} /\ frames[i].base < Depth
    BY FrameTypes, FramesBelow
  <2>2. FrameInPlace(frames[i])
    BY DEF Aligned, FramesInPlace
  <2> QED
    BY <1>1, <1>3, <2>1, <2>2 DEF FrameInPlace
<1>6. FramesAscend'
  BY DEF Aligned, FramesAscend
<1>7. WordsInPlace'
  <2> SUFFICES ASSUME NEW p \in 1..Depth' PROVE LeadsBack(stack[p], p - 1)'
    BY DEF WordsInPlace
  <2>1. CASE p <= Depth
    BY <1>1, <2>1 DEF Aligned, WordsInPlace, LeadsBack
  <2>2. CASE p = Depth + 1
    BY <1>1, <2>2 DEF LeadsBack
  <2> QED
    BY <1>1, <2>1, <2>2
<1>8. LeadsBack(eip, Depth)'
  BY DEF LeadsBack
<1>9. HandlerInPlace'
  BY DEF HandlerInPlace, LeadsBack
<1>10. Served'
  <2>1. pending'.base < Depth'
    BY <1>1
  <2> QED
    BY <1>1, <2>1 DEF Served, Live
<1> QED
  BY <1>10, <1>2, <1>5, <1>6, <1>7, <1>8, <1>9 DEF Aligned

(* An exception raised by an API, which returns to its caller first.        *)
LEMMA RaiseAligned ==
    ASSUME Typed, Aligned, eip = "thunk", stack # <<>>, pending = None,
           pending' \in Exception, pending' # None,
           pending'.base = Depth - 1, pending'.eip = Last(stack),
           eip' = "code", Pushed(Front(stack), "exception"),
           UNCHANGED <<frames, tls, program>>
    PROVE  Typed' /\ Aligned' /\ (Served => Served')
<1>0. /\ Depth \in Nat \ {0} /\ Last(stack) = stack[Depth] /\ Last(stack) \in Words
      /\ Front(stack) \in Seq(Words) /\ Len(Front(stack)) = Depth - 1
      /\ \A p \in 1..(Depth - 1) : Front(stack)[p] = stack[p]
  BY EndsSeq DEF Typed, Depth
<1>1. /\ Depth' = Depth /\ stack' \in Seq(Words)
      /\ \A p \in 1..(Depth - 1) : stack'[p] = stack[p]
      /\ stack'[Depth] = "exception"
  <2>1. "exception" \in Words
    BY DEF Words, Sentinels
  <2> QED
    BY <1>0, <2>1, ExtendSeq DEF Pushed, Depth
<1>2. Typed'
  BY <1>1 DEF Typed, Words
<1>3. ~Live
  BY DEF Live
<1>4. LeadsBack(stack[Depth], Depth - 1)
  BY <1>0 DEF Aligned, WordsInPlace
<1>5. FramesInPlace'
  <2> SUFFICES ASSUME NEW i \in DOMAIN frames PROVE FrameInPlace(frames[i])'
    BY DEF FramesInPlace
  <2>1. frames[i].base \in Nat \ {0} /\ frames[i].base < Depth
    BY FrameTypes, FramesBelow
  <2>2. FrameInPlace(frames[i])
    BY DEF Aligned, FramesInPlace
  <2>3. frames[i].base <= Depth' /\ (stack[frames[i].base] = frames[i].ret)'
    BY <1>0, <1>1, <2>1, <2>2 DEF FrameInPlace
  <2>4. CASE frames[i].base + 1 < Depth
    BY <1>0, <1>1, <1>3, <2>1, <2>2, <2>3, <2>4 DEF FrameInPlace
  <2>5. CASE frames[i].base + 1 = Depth
    <3>1. stack[Depth] = "callback"
      BY <1>0, <1>3, <2>1, <2>2, <2>5 DEF FrameInPlace
    <3>2. Live'
      BY <1>0, <1>1 DEF Live
    <3> QED
      BY <1>0, <2>1, <2>3, <2>5, <3>1, <3>2 DEF FrameInPlace
  <2> QED
    BY <1>0, <2>1, <2>4, <2>5
<1>6. FramesAscend'
  BY DEF Aligned, FramesAscend
<1>7. WordsInPlace'
  <2> SUFFICES ASSUME NEW p \in 1..Depth' PROVE LeadsBack(stack[p], p - 1)'
    BY DEF WordsInPlace
  <2>1. CASE p < Depth
    BY <1>0, <1>1, <2>1, SMTT(30) DEF Aligned, WordsInPlace, LeadsBack
  <2>2. CASE p = Depth
    BY <1>0, <1>1, <2>2 DEF LeadsBack
  <2> QED
    BY <1>0, <1>1, <2>1, <2>2
<1>8. LeadsBack(eip, Depth)'
  BY DEF LeadsBack
<1>9. HandlerInPlace'
  BY <1>0, <1>4 DEF HandlerInPlace, LeadsBack
<1>10. Served'
  BY <1>0, <1>1 DEF Served, Live
<1> QED
  BY <1>10, <1>2, <1>5, <1>6, <1>7, <1>8, <1>9 DEF Aligned

-----------------------------------------------------------------------------
(* A handler has returned.                                                  *)

(* The pending exception is there, and the stack is as it was.              *)
LEMMA HandlerReturns ==
    ASSUME Typed, Aligned, eip = "exception"
    PROVE  /\ Live /\ pending.base = Depth /\ Depth \in Nat
           /\ SubSeq(stack, 1, pending.base) = stack
  BY DEF Typed, Aligned, LeadsBack, Live, Depth

(* Only the topmost call can be at the top of the stack.                    *)
LEMMA TopmostFrame ==
    ASSUME Typed, Aligned, NEW i \in DOMAIN frames, frames[i].base = Depth
    PROVE  i = Len(frames) /\ frames # <<>>
<1> SUFFICES ASSUME i # Len(frames) PROVE FALSE
  BY FrameTypes DEF Typed
<1>1. i \in 1..Len(frames) /\ Len(frames) \in Nat /\ i < Len(frames)
      /\ Len(frames) \in DOMAIN frames
  BY FrameTypes DEF Typed
<1>2. frames[i].base < frames[Len(frames)].base
  BY <1>1 DEF Aligned, FramesAscend
<1>3. frames[Len(frames)].base <= Depth
  BY <1>1 DEF Aligned, FramesInPlace, FrameInPlace
<1>4. frames[Len(frames)].base \in Nat /\ Depth \in Nat
  BY <1>1, FrameTypes DEF Typed, Depth
<1> QED
  BY <1>2, <1>3, <1>4

(* It continues the guest where the exception was.                          *)
LEMMA ContinueAligned ==
    ASSUME Typed, Aligned, eip = "exception", eip' = pending.eip,
           stack' = Below(pending.base), pending' = None,
           UNCHANGED <<frames, tls, program>>
    PROVE  Typed' /\ Aligned' /\ (Served => Served')
<1>1. Live /\ pending.base = Depth /\ Depth \in Nat /\ stack' = stack /\ Depth' = Depth
  BY HandlerReturns DEF Below, Depth
<1>2. pending.eip \in Words /\ pending.eip # "exception" /\ LeadsBack(pending.eip, Depth)
  BY <1>1 DEF Typed, Exception, Aligned, HandlerInPlace
<1>3. None \in Exception
  BY RunLoopAssumption DEF None, Exception, Words
<1>4. Typed'
  BY <1>1, <1>2, <1>3 DEF Typed
<1>5. \A p \in 1..Depth : stack[p] # "exception"
  BY <1>1 DEF Aligned, WordsInPlace, LeadsBack
<1>6. FramesInPlace'
  <2> SUFFICES ASSUME NEW i \in DOMAIN frames PROVE FrameInPlace(frames[i])'
    BY DEF FramesInPlace
  <2>1. FrameInPlace(frames[i])
    BY DEF Aligned, FramesInPlace
  <2> QED
    BY <1>1, <2>1 DEF FrameInPlace
<1>7. WordsInPlace'
  BY <1>1, <1>5 DEF Aligned, WordsInPlace, LeadsBack
<1>8. LeadsBack(eip, Depth)'
  BY <1>1, <1>2 DEF LeadsBack
<1>9. HandlerInPlace'
  BY DEF HandlerInPlace, Live
<1> QED
  BY <1>4, <1>6, <1>7, <1>8, <1>9 DEF Aligned, FramesAscend, Served

(* It leaves the exception to the next handler.                             *)
LEMMA SearchAligned ==
    ASSUME Typed, Aligned, eip = "exception", pending' \in Exception, pending' # None,
           pending'.base = pending.base, pending'.eip = pending.eip,
           eip' = "code", Pushed(SubSeq(stack, 1, pending.base), "exception"),
           UNCHANGED <<frames, tls, program>>
    PROVE  Typed' /\ Aligned' /\ (Served => Served')
<1>0. Live /\ pending.base = Depth /\ Pushed(stack, "exception")
  BY HandlerReturns DEF Pushed
<1>1. /\ Depth \in Nat /\ Depth' = Depth + 1 /\ stack' \in Seq(Words)
      /\ \A p \in 1..Depth : stack'[p] = stack[p]
      /\ stack'[Depth + 1] = "exception"
  BY <1>0, ExtendSeq DEF Typed, Pushed, Depth, Words, Sentinels
<1>2. Typed'
  BY <1>1 DEF Typed, Words
<1>3. pending' # None /\ Live'
  BY <1>0, <1>1 DEF Live
<1>4. FramesInPlace'
  <2> SUFFICES ASSUME NEW i \in DOMAIN frames PROVE FrameInPlace(frames[i])'
    BY DEF FramesInPlace
  <2>1. frames[i].base \in Nat \ {0}
    BY FrameTypes
  <2>2. FrameInPlace(frames[i])
    BY DEF Aligned, FramesInPlace
  <2> QED
    BY <1>0, <1>1, <1>3, <2>1, <2>2 DEF FrameInPlace
<1>5. FramesAscend'
  BY DEF Aligned, FramesAscend
<1>6. WordsInPlace'
  <2> SUFFICES ASSUME NEW p \in 1..Depth' PROVE LeadsBack(stack[p], p - 1)'
    BY DEF WordsInPlace
  <2>1. CASE p <= Depth
    BY <1>0, <1>1, <2>1 DEF Aligned, WordsInPlace, LeadsBack
  <2>2. CASE p = Depth + 1
    BY <1>0, <1>1, <1>3, <2>2 DEF LeadsBack
  <2> QED
    BY <1>1, <2>1, <2>2
<1>7. LeadsBack(eip, Depth)'
  BY DEF LeadsBack
<1>8. HandlerInPlace'
  BY <1>0 DEF Aligned, HandlerInPlace, LeadsBack
<1> QED
  BY <1>2, <1>3, <1>4, <1>5, <1>6, <1>7, <1>8 DEF Aligned, Served

-----------------------------------------------------------------------------
(* Start-up: one word on an empty stack leads to another.                   *)
LEMMA StartAligned ==
    ASSUME Typed, Aligned, eip = "tls", eip' = "code",
           \/ tls > 0 /\ tls' = tls - 1 /\ stack' = <<"tls">>
           \/ tls <= 0 /\ tls' = NotActive /\ stack' = <<"exit">>,
           UNCHANGED <<frames, pending, program>>
    PROVE  Typed' /\ Aligned' /\ (Served => Served')
<1>1. Depth = 0 /\ tls # NotActive /\ tls \in 0..program.tlsCallbacks
  BY DEF Typed, Aligned, LeadsBack
<1>2. /\ stack' \in Seq(Words) /\ Depth' = 1
      /\ \/ stack'[1] = "tls" /\ tls' # NotActive /\ tls' \in 0..program.tlsCallbacks
         \/ stack'[1] = "exit" /\ tls' = NotActive
  <2>1. program.tlsCallbacks \in Nat
    BY DEF Typed, Program
  <2>2. CASE tls > 0 /\ tls' = tls - 1 /\ stack' = <<"tls">>
    BY <1>1, <2>1, <2>2 DEF Depth, Words, Sentinels, NotActive
  <2>3. CASE tls <= 0 /\ tls' = NotActive /\ stack' = <<"exit">>
    BY <1>1, <2>1, <2>3 DEF Depth, Words, Sentinels, NotActive
  <2> QED
    BY <2>2, <2>3
<1>3. Typed'
  BY <1>2 DEF Typed, Words
<1>4. DOMAIN frames = {}
  <2>1. ASSUME NEW i \in DOMAIN frames PROVE FALSE
    BY <1>1, FrameTypes DEF Aligned, FramesInPlace, FrameInPlace
  <2> QED
    BY <2>1
<1>5. ~Live'
  <2>1. pending.base \in Nat
    BY DEF Typed, Exception
  <2> QED
    BY <1>2, <2>1 DEF Live
<1>6. WordsInPlace'
  BY <1>2 DEF WordsInPlace, LeadsBack
<1>7. Served => Served'
  <2>1. pending.base \in Nat
    BY DEF Typed, Exception
  <2>2. ~Live
    BY <1>1, <2>1 DEF Live
  <2> QED
    BY <2>2 DEF Served
<1> QED
  BY <1>3, <1>4, <1>5, <1>6, <1>7 DEF Aligned, FramesInPlace, FramesAscend, HandlerInPlace, LeadsBack

-----------------------------------------------------------------------------
(* Suspended host calls.                                                    *)

(* A return from a callback finds the call it was made for.                 *)
LEMMA CallbackReturns ==
    ASSUME Typed, Aligned, eip = "callback"
    PROVE  frames # <<>> /\ Last(frames).base = Depth
<1>1. PICK i \in DOMAIN frames : frames[i].base = Depth
  BY DEF Aligned, LeadsBack
<1> QED
  BY <1>1, TopmostFrame DEF Last

Cuts(n) == stack' = SubSeq(stack, 1, n)
Unwinds(n) == frames' = SubSeq(frames, 1, n)

LEMMA CutWords ==
    ASSUME Typed, NEW n \in 0..Depth, Cuts(n)
    PROVE  /\ stack' \in Seq(Words) /\ Depth' = n
           /\ \A p \in 1..n : stack'[p] = stack[p]
  BY CutSeq DEF Typed, Cuts, Depth

(* The call at n, and all that is suspended above it, is left; its return   *)
(* word was at the top of what stays.                                       *)
LEMMA LeaveAligned ==
    ASSUME Typed, Aligned, NEW n \in DOMAIN frames, NEW f, f = frames[n],
           eip' = f.ret, Unwinds(n - 1),
           Cuts(f.base - 1), UNCHANGED <<tls, pending, program>>,
           eip # "exception"
    PROVE  Typed' /\ Aligned' /\ (f.base = Depth /\ Served => Served')
<1>1. f.base \in Nat \ {0} /\ f.ret \in Words /\ n \in 1..Len(frames) /\ Len(frames) \in Nat
  BY FrameTypes
<1>2. f.base <= Depth /\ stack[f.base] = f.ret /\ Depth \in Nat
  BY DEF Aligned, FramesInPlace, FrameInPlace, Typed, Depth
<1>0. LeadsBack(stack[f.base], f.base - 1)
  <2>1. f.base \in 1..Depth
    BY <1>1, <1>2
  <2> QED
    BY <2>1 DEF Aligned, WordsInPlace
<1>3. /\ stack' \in Seq(Words) /\ Depth' = f.base - 1
      /\ \A p \in 1..(f.base - 1) : stack'[p] = stack[p]
  <2>1. f.base - 1 \in 0..Depth
    BY <1>1, <1>2
  <2> QED
    BY <2>1, CutWords
<1>4. /\ frames' \in Seq(Frame) /\ Len(frames') = n - 1
      /\ \A i \in 1..(n - 1) : frames'[i] = frames[i]
  <2>1. n - 1 \in 0..Len(frames) /\ frames \in Seq(Frame)
    BY <1>1 DEF Typed
  <2> QED
    BY <2>1, CutSeq DEF Unwinds
<1>5. DOMAIN frames' = 1..(n - 1)
  BY <1>1, <1>4
<1>6. Typed'
  BY <1>1, <1>3, <1>4 DEF Typed
<1>7. pending.base \in Nat
  BY DEF Typed, Exception
<1>8. Live' <=> pending # None /\ pending.base < f.base /\ stack[pending.base + 1] = "exception"
  <2>1. CASE eip' = "exception"
    <3>1. LeadsBack(stack[f.base], f.base - 1)
      BY <1>0
    <3>2. pending # None /\ pending.base = f.base - 1 /\ stack[f.base] = "exception"
      BY <1>2, <2>1, <3>1 DEF LeadsBack
    <3> QED
      BY <1>1, <1>2, <2>1, <3>2 DEF Live
  <2>2. CASE eip' # "exception"
    <3>1. CASE pending.base + 1 = f.base
      <4>1. pending.base = Depth' /\ ~(Depth' < Depth')
        BY <1>1, <1>3, <1>7, <3>1
      <4>2. stack[pending.base + 1] # "exception"
        BY <1>2, <2>2, <3>1
      <4> QED
        BY <2>2, <4>1, <4>2 DEF Live
    <3>2. CASE pending.base + 1 < f.base
      <4>1. pending.base + 1 \in 1..(f.base - 1)
        BY <1>1, <1>7, <3>2
      <4>2. stack'[pending.base + 1] = stack[pending.base + 1] /\ pending.base < Depth'
        <5> DEFINE b == pending.base
        <5>1. stack'[b + 1] = stack[b + 1]
          BY <1>3, <4>1
        <5>2. b < Depth' /\ b \in Nat
          <6> HIDE DEF b
          <6>1. b \in Nat /\ f.base \in Nat /\ b + 1 < f.base /\ Depth' = f.base - 1
            BY <1>1, <1>3, <1>7, <3>2 DEF b
          <6> QED
            BY <6>1
        <5> QED
          BY <5>1, <5>2
      <4>3. pending.base < f.base
        BY <1>1, <1>7, <3>2
      <4> QED
        BY <2>2, <4>2, <4>3 DEF Live
    <3>3. CASE pending.base + 1 > f.base
      BY <1>1, <1>3, <1>7, <2>2, <3>3 DEF Live
    <3> QED
      BY <1>1, <1>7, <3>1, <3>2, <3>3
  <2> QED
    BY <2>1, <2>2
<1>9. Live' => Live
  BY <1>1, <1>2, <1>7, <1>8 DEF Live
<1>10. \A i \in DOMAIN frames' :
          /\ frames'[i] = frames[i] /\ frames[i].base \in Nat \ {0}
          /\ frames[i].base < f.base /\ i \in DOMAIN frames
  <2> SUFFICES ASSUME NEW i \in 1..(n - 1)
               PROVE  frames[i].base \in Nat \ {0} /\ frames[i].base < f.base /\ i \in DOMAIN frames
    BY <1>4, <1>5
  <2>1. i \in DOMAIN frames /\ i < n
    BY <1>1 DEF Typed
  <2> QED
    BY <2>1, FrameTypes DEF Aligned, FramesAscend
<1>11. FramesInPlace'
  <2> SUFFICES ASSUME NEW i \in DOMAIN frames' PROVE FrameInPlace(frames[i])'
    BY DEF FramesInPlace
  <2>1. FrameInPlace(frames[i])
    BY <1>10 DEF Aligned, FramesInPlace
  <2>2. frames[i].base <= Depth' /\ stack'[frames[i].base] = frames[i].ret
    BY <1>1, <1>3, <1>10, <2>1 DEF FrameInPlace
  <2>3. CASE stack[frames[i].base + 1] = "callback"
    <3> DEFINE b == frames[i].base
    <3>1. b \in Nat \ {0} /\ b < f.base /\ frames'[i] = frames[i]
      BY <1>10
    <3>2. CASE b + 1 = f.base
      <4>1. b = Depth' /\ eip' = "callback"
        BY <1>1, <1>2, <1>3, <2>3, <3>1, <3>2, SMTT(30)
      <4> QED
        BY <2>2, <3>1, <4>1 DEF FrameInPlace
    <3>3. CASE b + 1 < f.base
      <4>1. b + 1 \in 1..(f.base - 1)
        BY <1>1, <3>1, <3>3
      <4>2. b < Depth' /\ stack'[b + 1] = "callback"
        <5>1. stack[b + 1] = "callback"
          BY <2>3
        <5> HIDE DEF b
        <5>2. stack'[b + 1] = stack[b + 1]
          BY <1>3, <4>1
        <5>3. b < Depth'
          BY <1>1, <1>3, <3>1, <3>3
        <5> QED
          BY <5>1, <5>2, <5>3
      <4> QED
        BY <2>2, <3>1, <4>2 DEF FrameInPlace
    <3> QED
      BY <1>1, <3>1, <3>2, <3>3
  <2>4. CASE Live /\ frames[i].base = pending.base /\ pending.eip = "callback"
    <3>1. Live'
      BY <1>8, <1>10, <2>4 DEF Live
    <3> QED
      BY <1>10, <2>2, <2>4, <3>1 DEF FrameInPlace
  <2>5. frames[i].base # Depth
    BY <1>1, <1>2, <1>10
  <2> QED
    BY <2>1, <2>3, <2>4, <2>5 DEF FrameInPlace
<1>12. FramesAscend'
  BY <1>10 DEF Aligned, FramesAscend
<1>13. ASSUME NEW w, NEW m \in Nat, m < f.base, LeadsBack(w, m) PROVE LeadsBack(w, m)'
  <2>1. ASSUME w = "callback" PROVE \E i \in DOMAIN frames' : frames'[i].base = m
    <3>1. PICK i \in DOMAIN frames : frames[i].base = m
      BY <1>13, <2>1 DEF LeadsBack
    <3>2. i \in 1..Len(frames) /\ (n < i => f.base < frames[i].base)
      BY <3>1, FrameTypes DEF Aligned, FramesAscend
    <3>3. i < n
      BY <1>1, <1>13, <3>1, <3>2
    <3> QED
      BY <1>1, <1>4, <1>5, <3>1, <3>2, <3>3
  <2> QED
    BY <1>13, <2>1 DEF LeadsBack
<1>14. WordsInPlace'
  <2> SUFFICES ASSUME NEW p \in 1..Depth' PROVE LeadsBack(stack[p], p - 1)'
    BY DEF WordsInPlace
  <2>1. p \in 1..Depth /\ stack'[p] = stack[p] /\ p - 1 \in Nat /\ p - 1 < f.base
    BY <1>1, <1>2, <1>3
  <2>2. LeadsBack(stack[p], p - 1)
    BY <2>1 DEF Aligned, WordsInPlace
  <2> QED
    BY <1>13, <2>1, <2>2
<1>15. LeadsBack(eip, Depth)'
  <2>1. LeadsBack(f.ret, f.base - 1)
    BY <1>0, <1>2
  <2> QED
    BY <1>1, <1>3, <1>13, <2>1
<1>16. HandlerInPlace'
  <2> SUFFICES ASSUME Live' PROVE pending.eip # "exception" /\ LeadsBack(pending.eip, pending.base)'
    BY DEF HandlerInPlace
  <2>1. pending.eip # "exception" /\ LeadsBack(pending.eip, pending.base)
    BY <1>9 DEF Aligned, HandlerInPlace
  <2>2. pending.base < f.base
    BY <1>8
  <2> QED
    BY <1>7, <1>13, <2>1, <2>2
<1>17. f.base = Depth /\ Served => Served'
  BY <1>8 DEF Served, Live
<1> QED
  BY <1>17, <1>6, <1>11, <1>12, <1>14, <1>15, <1>16 DEF Aligned

(* The next callback of the topmost call starts where the last one has      *)
(* returned.                                                                *)
LEMMA AgainAligned ==
    ASSUME Typed, Aligned, eip = "callback", eip' = "code", Pushed(stack, "callback"),
           frames' \in Seq(Frame), Len(frames') = Len(frames),
           \A i \in DOMAIN frames : frames'[i].base = frames[i].base /\ frames'[i].ret = frames[i].ret,
           UNCHANGED <<tls, pending, program>>
    PROVE  Typed' /\ Aligned' /\ (Served => Served')
<1>1. /\ Depth \in Nat /\ Depth' = Depth + 1 /\ stack' \in Seq(Words)
      /\ \A p \in 1..Depth : stack'[p] = stack[p]
      /\ stack'[Depth + 1] = "callback"
  <2>1. stack \in Seq(Words) /\ Len(stack) \in Nat /\ "callback" \in Words
    BY LenSeq DEF Typed, Words, Sentinels
  <2>2. /\ stack' \in Seq(Words) /\ Len(stack') = Len(stack) + 1
        /\ \A p \in 1..Len(stack) : stack'[p] = stack[p]
        /\ stack'[Len(stack) + 1] = "callback"
    BY <2>1, ExtendSeq DEF Pushed
  <2> QED
    BY <2>1, <2>2 DEF Depth
<1>2. DOMAIN frames' = DOMAIN frames
  BY DEF Typed
<1>3. Typed'
  BY <1>1 DEF Typed, Words
<1>4. pending.base \in Nat
  BY DEF Typed, Exception
<1>5. Live <=> Live'
  BY <1>1, <1>4, SMTT(30) DEF Live
<1>6. ASSUME NEW w, NEW m, LeadsBack(w, m) PROVE LeadsBack(w, m)'
  BY <1>2, <1>6 DEF LeadsBack
<1>7. FramesInPlace'
  <2> SUFFICES ASSUME NEW i \in DOMAIN frames PROVE FrameInPlace(frames[i])'
    BY <1>2 DEF FramesInPlace
  <2> DEFINE b == frames[i].base
  <2>1. b \in Nat \ {0}
    BY FrameTypes
  <2>2. FrameInPlace(frames[i])
    BY DEF Aligned, FramesInPlace
  <2>3. b <= Depth /\ stack[b] = frames[i].ret /\ stack'[b] = stack[b]
    BY <1>1, <2>1, <2>2 DEF FrameInPlace
  <2>4. \/ b < Depth /\ stack[b + 1] = "callback"
        \/ b = Depth
        \/ Live /\ b = pending.base /\ pending.eip = "callback"
    BY <2>2 DEF FrameInPlace
  <2>5. CASE b < Depth /\ stack[b + 1] = "callback"
    BY <1>1, <2>1, <2>3, <2>5 DEF FrameInPlace
  <2>6. CASE b = Depth
    BY <1>1, <2>1, <2>3, <2>6 DEF FrameInPlace
  <2>7. CASE Live /\ b = pending.base /\ pending.eip = "callback"
    BY <1>1, <1>5, <2>1, <2>3, <2>7 DEF FrameInPlace
  <2> QED
    BY <2>4, <2>5, <2>6, <2>7
<1>8. FramesAscend'
  BY <1>2 DEF Aligned, FramesAscend
<1>9. WordsInPlace'
  <2> SUFFICES ASSUME NEW p \in 1..Depth' PROVE LeadsBack(stack[p], p - 1)'
    BY DEF WordsInPlace
  <2>1. CASE p <= Depth
    <3>1. p \in 1..Depth /\ stack'[p] = stack[p]
      BY <1>1, <2>1
    <3>2. LeadsBack(stack[p], p - 1)
      BY <3>1 DEF Aligned, WordsInPlace
    <3> QED
      BY <1>6, <3>1, <3>2
  <2>2. CASE p = Depth + 1
    <3>1. LeadsBack("callback", Depth)
      BY DEF Aligned
    <3> QED
      BY <1>1, <1>6, <2>2, <3>1
  <2> QED
    BY <1>1, <2>1, <2>2
<1>10. LeadsBack(eip, Depth)'
  BY DEF LeadsBack
<1>11. HandlerInPlace'
  BY <1>5, <1>6 DEF Aligned, HandlerInPlace
<1>12. Served => Served'
  BY <1>5 DEF Served
<1> QED
  BY <1>12, <1>3, <1>7, <1>8, <1>9, <1>10, <1>11 DEF Aligned

Suspends(f) == frames' = Append(frames, f)

(* A host call is suspended and its first callback starts.                  *)
LEMMA SuspendAligned ==
    ASSUME Typed, Aligned, eip = "thunk", stack # <<>>, eip' = "code",
           NEW f \in Frame, f.base = Depth, f.ret = Last(stack),
           Suspends(f), Pushed(stack, "callback"),
           UNCHANGED <<tls, pending, program>>
    PROVE  Typed' /\ Aligned' /\ (Served => Served')
<1>1. /\ Depth \in Nat \ {0} /\ Depth' = Depth + 1 /\ stack' \in Seq(Words)
      /\ \A p \in 1..Depth : stack'[p] = stack[p]
      /\ stack'[Depth + 1] = "callback" /\ f.ret = stack[Depth]
  <2>1. Depth \in Nat \ {0} /\ Last(stack) = stack[Depth]
    BY EndsSeq DEF Typed, Depth
  <2>2. stack \in Seq(Words) /\ "callback" \in Words
    BY DEF Typed, Words, Sentinels
  <2> QED
    BY <2>1, <2>2, ExtendSeq DEF Pushed, Depth
<1>2. /\ frames' \in Seq(Frame) /\ Len(frames) \in Nat /\ Len(frames') = Len(frames) + 1
      /\ DOMAIN frames = 1..Len(frames) /\ DOMAIN frames' = 1..(Len(frames) + 1)
      /\ \A i \in DOMAIN frames : frames'[i] = frames[i]
      /\ frames'[Len(frames) + 1] = f
  BY ExtendSeq DEF Typed, Suspends
<1>3. Typed'
  BY <1>1, <1>2 DEF Typed, Words
<1>4. pending.base \in Nat
  BY DEF Typed, Exception
<1>5. Live <=> Live'
  BY <1>1, <1>4 DEF Live
<1>6. ASSUME NEW w, NEW m, LeadsBack(w, m) PROVE LeadsBack(w, m)'
  BY <1>2, <1>6 DEF LeadsBack
<1>7. FramesInPlace'
  <2> SUFFICES ASSUME NEW i \in DOMAIN frames' PROVE FrameInPlace(frames[i])'
    BY DEF FramesInPlace
  <2>1. CASE i \in DOMAIN frames
    <3> DEFINE b == frames[i].base
    <3>1. b \in Nat \ {0} /\ b < Depth /\ frames'[i] = frames[i]
      BY <1>2, <2>1, FrameTypes, FramesBelow
    <3>2. FrameInPlace(frames[i])
      BY <2>1 DEF Aligned, FramesInPlace
    <3>3. b + 1 \in 1..Depth /\ stack'[b] = stack[b] /\ stack'[b + 1] = stack[b + 1]
      BY <1>1, <3>1
    <3> QED
      BY <1>1, <1>5, <3>1, <3>2, <3>3 DEF FrameInPlace
  <2>2. CASE i = Len(frames) + 1
    BY <1>1, <1>2, <2>2 DEF FrameInPlace
  <2> QED
    BY <1>2, <2>1, <2>2
<1>8. FramesAscend'
  <2> SUFFICES ASSUME NEW i \in DOMAIN frames', NEW j \in DOMAIN frames', i < j
               PROVE  frames'[i].base < frames'[j].base
    BY DEF FramesAscend
  <2>1. i \in DOMAIN frames
    BY <1>2
  <2>2. CASE j \in DOMAIN frames
    BY <1>2, <2>1, <2>2 DEF Aligned, FramesAscend
  <2>3. CASE j = Len(frames) + 1
    BY <1>2, <2>1, <2>3, FramesBelow
  <2> QED
    BY <1>2, <2>2, <2>3
<1>9. WordsInPlace'
  <2> SUFFICES ASSUME NEW p \in 1..Depth' PROVE LeadsBack(stack[p], p - 1)'
    BY DEF WordsInPlace
  <2>1. CASE p <= Depth
    <3>1. p \in 1..Depth /\ stack'[p] = stack[p]
      BY <1>1, <2>1
    <3>2. LeadsBack(stack[p], p - 1)
      BY <3>1 DEF Aligned, WordsInPlace
    <3> QED
      BY <1>6, <3>1, <3>2
  <2>2. CASE p = Depth + 1
    <3>1. \E i \in DOMAIN frames' : frames'[i].base = p - 1
      BY <1>1, <1>2, <2>2
    <3> QED
      BY <1>1, <2>2, <3>1 DEF LeadsBack
  <2> QED
    BY <1>1, <2>1, <2>2
<1>10. LeadsBack(eip, Depth)'
  BY DEF LeadsBack
<1>11. HandlerInPlace'
  BY <1>5, <1>6 DEF Aligned, HandlerInPlace
<1>12. Served => Served'
  BY <1>5 DEF Served
<1> QED
  BY <1>12, <1>3, <1>7, <1>8, <1>9, <1>10, <1>11 DEF Aligned

-----------------------------------------------------------------------------
(* The steps.                                                               *)

Rest ==
    /\ program \in Programs
    /\ target \in BOOLEAN /\ halted \in BOOLEAN /\ exited \in BOOLEAN
    /\ consumed \in 0..Budget
    /\ error \in Errors
    /\ pc \in {"head", "interpreter"} \cup Outcomes

LEMMA TypeParts == TypeOK <=> Typed /\ Rest
<1>1. program \in Programs => program \in Program
  BY RunLoopAssumption
<1> QED
  BY <1>1 DEF TypeOK, Typed, Rest

(* What every step does to the invariant.                                   *)
Preserves == Typed' /\ Aligned' /\ (Served => Served')

LEMMA GuestPreserves ==
    ASSUME Typed, Aligned, UNCHANGED program, CallImport \/ TailCallImport \/ Return \/ Hlt
    PROVE  Preserves
<1>1. CASE CallImport
  <2>1. eip = "code" /\ eip' = "thunk" /\ Pushed(stack, "code") /\ UNCHANGED <<frames, tls, pending>>
    BY <1>1 DEF CallImport, GuestStep, Unaffected, Pushed
  <2> QED
    BY <2>1, HopAligned DEF Preserves
<1>2. CASE TailCallImport
  <2>1. eip = "code" /\ eip' = "thunk" /\ stack' = stack /\ UNCHANGED <<frames, tls, pending>>
    BY <1>2 DEF TailCallImport, GuestStep, Unaffected
  <2> QED
    BY <2>1, HopAligned DEF Preserves
<1>3. CASE Return
  <2>1. eip = "code" /\ Pop /\ UNCHANGED <<frames, tls, pending>>
    BY <1>3 DEF Return, GuestStep, Unaffected
  <2> QED
    BY <2>1, PopAligned DEF Preserves
<1>4. CASE Hlt
  <2>1. UNCHANGED sight
    BY <1>4 DEF Hlt, GuestStep, Unaffected, sight
  <2> QED
    BY <2>1, StutterAligned DEF Preserves
<1> QED
  BY <1>1, <1>2, <1>3, <1>4

LEMMA FailPreserves ==
    ASSUME Typed, Aligned, UNCHANGED program, NEW reason, Fail(reason)
    PROVE  Preserves
<1>1. UNCHANGED sight
  BY DEF Fail, sight
<1> QED
  BY <1>1, StutterAligned DEF Preserves

LEMMA ExitPreserves ==
    ASSUME Typed, Aligned, UNCHANGED program, SetExitCode \/ ExitInitialThread
    PROVE  Preserves
<1>1. CASE SetExitCode
  <2>1. UNCHANGED sight
    BY <1>1 DEF SetExitCode, sight
  <2> QED
    BY <2>1, StutterAligned DEF Preserves
<1>2. CASE ExitInitialThread
  BY <1>1, <1>2, FailPreserves DEF ExitInitialThread
<1> QED
  BY <1>1, <1>2

(* A record of a dispatched exception.                                      *)
LEMMA DispatchRecord ==
    ASSUME NEW base \in Nat, NEW at \in Words, NEW c \in BOOLEAN
    PROVE  LET r == [base |-> base, eip |-> at, visited |-> 1, continuable |-> c]
           IN  r \in Exception /\ r # None /\ r.base = base /\ r.eip = at
<1> DEFINE r == [base |-> base, eip |-> at, visited |-> 1, continuable |-> c]
<1>1. r \in Exception
  BY RunLoopAssumption DEF Exception
<1>2. r.visited = 1 /\ None.visited = 0
  BY DEF None
<1> QED
  BY <1>1, <1>2

LEMMA CpuExceptionPreserves ==
    ASSUME Typed, Aligned, UNCHANGED program, CpuException
    PROVE  Preserves
<1>1. eip = "code" /\ UNCHANGED <<frames, tls>>
  BY DEF CpuException, Dispatch
<1>2. CASE UNCHANGED <<eip, stack, pending>>
  BY <1>1, <1>2, StutterAligned DEF Preserves, sight
<1>3. ASSUME pending = None, eip' = "code", Pushed(stack, "exception"),
             pending' = [base |-> Depth, eip |-> "code", visited |-> 1, continuable |-> TRUE]
      PROVE  Preserves
  <2>1. Depth \in Nat /\ "code" \in Words
    BY DEF Typed, Depth, Words
  <2>2. pending' \in Exception /\ pending' # None /\ pending'.base = Depth /\ pending'.eip = "code"
    BY <1>3, <2>1, DispatchRecord
  <2> QED
    BY <1>1, <1>3, <2>2, FaultAligned DEF Preserves
<1> QED
  BY <1>1, <1>2, <1>3 DEF CpuException, Dispatch, Pushed, Depth

LEMMA RaisePreserves ==
    ASSUME Typed, Aligned, UNCHANGED program, RaiseException
    PROVE  Preserves
<1>1. eip = "thunk" /\ stack # <<>> /\ UNCHANGED <<frames, tls>>
  BY DEF RaiseException, HostCall, Dispatch
<1>2. CASE eip' = Last(stack) /\ stack' = Front(stack) /\ UNCHANGED pending
  BY <1>1, <1>2, PopAligned DEF Preserves, Pop
<1>3. ASSUME NEW c \in BOOLEAN, pending = None, eip' = "code",
             Pushed(Front(stack), "exception"),
             pending' = [base |-> Len(Front(stack)), eip |-> Last(stack), visited |-> 1,
                         continuable |-> c]
      PROVE  Preserves
  <2>1. Depth \in Nat \ {0} /\ Len(Front(stack)) = Depth - 1 /\ Last(stack) \in Words
    BY <1>1, EndsSeq DEF Typed, Depth
  <2>2. /\ pending' \in Exception /\ pending' # None
        /\ pending'.base = Depth - 1 /\ pending'.eip = Last(stack)
    BY <1>3, <2>1, DispatchRecord
  <2> QED
    BY <1>1, <1>3, <2>2, RaiseAligned DEF Preserves
<1> QED
  BY <1>1, <1>2, <1>3 DEF RaiseException, Dispatch, Pushed

LEMMA AdvancePreserves ==
    ASSUME Typed, Aligned, UNCHANGED program, eip = "exception", AdvanceExceptionDispatch
    PROVE  Preserves
<1>1. CASE \E reason : Fail(reason)
  BY <1>1, FailPreserves
<1>2. CASE ContinueExecution
  BY <1>2, ContinueAligned DEF ContinueExecution, Preserves
<1>3. CASE ContinueSearch
  <2>1. CASE pending.visited >= MaxChain
    BY <1>3, <2>1, FailPreserves DEF ContinueSearch
  <2>2. CASE ~(pending.visited >= MaxChain)
    <3> DEFINE r == [pending EXCEPT !.visited = @ + 1]
    <3>1. /\ pending' = r /\ eip' = "code" /\ Pushed(SubSeq(stack, 1, r.base), "exception")
          /\ UNCHANGED <<frames, tls>>
      BY <1>3, <2>2 DEF ContinueSearch, EnterHandler, Pushed
    <3>2. pending \in Exception /\ pending.visited \in 0..MaxChain /\ MaxChain \in Nat
      BY RunLoopAssumption DEF Typed, Exception
    <3>3. r \in Exception /\ r.base = pending.base /\ r.eip = pending.eip /\ r.visited >= 1
      BY <2>2, <3>2 DEF Exception
    <3>4. r # None
      <4>1. None.visited = 0
        BY DEF None
      <4>2. r.visited # 0
        BY <3>3
      <4> HIDE DEF r
      <4> QED
        BY <4>1, <4>2
    <3> QED
      BY <3>1, <3>3, <3>4, SearchAligned DEF Preserves
  <2> QED
    BY <2>1, <2>2
<1> QED
  BY <1>1, <1>2, <1>3 DEF AdvanceExceptionDispatch

LEMMA TlsPreserves ==
    ASSUME Typed, Aligned, UNCHANGED program, eip = "tls", AdvanceTlsCallbacks
    PROVE  Preserves
<1>1. tls \in Int
  BY DEF Typed, NotActive
<1>2. CASE stack # <<>>
  BY <1>2, FailPreserves DEF AdvanceTlsCallbacks
<1>3. CASE stack = <<>>
  <2>1. /\ eip' = "code" /\ UNCHANGED <<frames, pending>>
        /\ \/ tls > 0 /\ tls' = tls - 1 /\ stack' = <<"tls">>
           \/ tls <= 0 /\ tls' = NotActive /\ stack' = <<"exit">>
    BY <1>1, <1>3 DEF AdvanceTlsCallbacks
  <2> QED
    BY <2>1, StartAligned DEF Preserves
<1> QED
  BY <1>2, <1>3

LEMMA HostCallbacksPreserve ==
    ASSUME Typed, Aligned, UNCHANGED program, eip = "callback", AdvanceHostCallbacks
    PROVE  Preserves
<1> DEFINE top == Last(frames)
           n == Len(frames)
<1>1. frames # <<>> /\ top.base = Depth
  BY CallbackReturns
<1>2. n \in DOMAIN frames /\ n \in Nat /\ top = frames[n] /\ Front(frames) = SubSeq(frames, 1, n - 1)
  BY <1>1, EndsSeq DEF Typed, Last, Front
<1>3. top \in Frame /\ top.base \in Nat \ {0}
  BY <1>2, FrameTypes
<1>4. CASE top.left = 0
  <2>1. /\ eip' = top.ret /\ Unwinds(n - 1) /\ Cuts(top.base - 1) /\ UNCHANGED <<tls, pending>>
    BY <1>1, <1>2, <1>4 DEF AdvanceHostCallbacks, Unwinds, Cuts, Below
  <2> HIDE DEF top
  <2> QED
    BY <1>1, <1>2, <2>1, LeaveAligned DEF Preserves
<1>5. CASE top.left # 0
  <2>1. /\ eip' = "code" /\ Pushed(Below(top.base), "callback") /\ UNCHANGED <<tls, pending>>
        /\ frames' = [frames EXCEPT ![n].left = @ - 1]
    BY <1>1, <1>5 DEF AdvanceHostCallbacks, EnterCallback, Pushed
  <2>2. Below(top.base) = stack
    BY <1>1 DEF Below, Typed, Depth
  <2>3. Pushed(stack, "callback")
    BY <2>1, <2>2
  <2>4. MaxCallbacks \in Nat
    BY RunLoopAssumption
  <2>5. [frames[n] EXCEPT !.left = @ - 1] \in Frame
    BY <1>2, <1>3, <1>5, <2>4 DEF Frame
  <2>6. frames' = [frames EXCEPT ![n] = [frames[n] EXCEPT !.left = @ - 1]]
    BY <2>1
  <2>7. /\ frames' \in Seq(Frame) /\ Len(frames') = n
        /\ \A i \in DOMAIN frames : frames'[i] = IF i = n THEN [frames[n] EXCEPT !.left = @ - 1]
                                                          ELSE frames[i]
    BY <1>2, <2>5, <2>6 DEF Typed
  <2>8. \A i \in DOMAIN frames : frames'[i].base = frames[i].base /\ frames'[i].ret = frames[i].ret
    <3> SUFFICES ASSUME NEW i \in DOMAIN frames
                 PROVE  frames'[i].base = frames[i].base /\ frames'[i].ret = frames[i].ret
      OBVIOUS
    <3>1. frames[i] \in Frame
      BY FrameTypes
    <3> QED
      BY <2>7, <3>1 DEF Frame
  <2> QED
    BY <2>1, <2>3, <2>7, <2>8, AgainAligned DEF Preserves
<1> QED
  BY <1>4, <1>5

LEMMA SentinelPreserves ==
    ASSUME Typed, Aligned, UNCHANGED program, Sentinel
    PROVE  Preserves
<1>1. CASE eip = "tls" /\ Fail("unmapped target")
  BY <1>1, FailPreserves
<1>2. CASE eip = "tls" /\ AdvanceTlsCallbacks
  BY <1>2, TlsPreserves
<1>3. CASE eip = "callback" /\ AdvanceHostCallbacks
  BY <1>3, HostCallbacksPreserve
<1>4. CASE eip = "exception" /\ AdvanceExceptionDispatch
  BY <1>4, AdvancePreserves
<1>5. CASE eip = "exit" /\ ExitInitialThread
  BY <1>5, ExitPreserves
<1> QED
  BY <1>1, <1>2, <1>3, <1>4, <1>5 DEF Sentinel

LEMMA SuspendPreserves ==
    ASSUME Typed, Aligned, UNCHANGED program, eip = "thunk",
           NEW modal \in BOOLEAN, NEW k \in 1..MaxCallbacks, Suspend(modal, k)
    PROVE  Preserves
<1> DEFINE f == [modal |-> modal, base |-> Depth, ret |-> Last(stack), left |-> k - 1]
<1>1. stack # <<>> /\ eip' = "code" /\ Suspends(f) /\ Pushed(stack, "callback")
      /\ UNCHANGED <<tls, pending>>
  BY DEF Suspend, Suspends, Pushed
<1>2. Depth \in Nat \ {0} /\ Last(stack) \in Words
  BY <1>1, EndsSeq DEF Typed, Depth
<1>3. f \in Frame
  BY <1>2, RunLoopAssumption DEF Frame
<1>4. f.base = Depth /\ f.ret = Last(stack)
  OBVIOUS
<1> HIDE DEF f
<1> QED
  BY <1>1, <1>3, <1>4, SuspendAligned DEF Preserves

LEMMA EndDialogPreserves ==
    ASSUME Typed, Aligned, UNCHANGED program, EndDialog
    PROVE  Typed' /\ Aligned' /\ Does("dialog")
<1>1. CASE Fail("no dialog")
  BY <1>1, FailPreserves DEF EndDialog, Preserves
<1>2. ASSUME NEW n \in DOMAIN frames, CompleteModalDialog(n), UNCHANGED <<tls, pending>>
      PROVE  Typed' /\ Aligned'
  <2>1. eip = "thunk"
    BY DEF EndDialog, HostCall
  <2> DEFINE f == frames[n]
  <2>2. eip' = f.ret /\ Unwinds(n - 1) /\ Cuts(f.base - 1)
    BY <1>2 DEF CompleteModalDialog, Unwinds, Cuts, Below
  <2>3. f = frames[n]
    OBVIOUS
  <2> HIDE DEF f
  <2> QED
    BY <1>2, <2>1, <2>2, <2>3, LeaveAligned
<1> QED
  BY <1>1, <1>2 DEF EndDialog

(* What the invariant says of control is preserved by every step.           *)
LEMMA StepPreserves ==
    ASSUME Typed, Aligned, [Next]_vars
    PROVE  Typed' /\ Aligned' /\ (Does("dialog") \/ (Served => Served'))
<1>1. CASE CallImport \/ TailCallImport \/ Return \/ Hlt
  BY <1>1, GuestPreserves DEF Next, Preserves, vars
<1>2. CASE CpuException
  BY <1>2, CpuExceptionPreserves DEF Next, Preserves, vars
<1>3. CASE Sentinel
  BY <1>3, SentinelPreserves DEF Next, Preserves, vars
<1>4. CASE PlainCall
  BY <1>4, PopAligned DEF PlainCall, HostCall, Next, vars
<1>5. CASE CallbackCall \/ DialogBoxParamA \/ DispatchMessage
  <2>1. /\ eip = "thunk"
        /\ \E modal \in BOOLEAN, k \in 1..MaxCallbacks : Suspend(modal, k)
    <3>1. 1 \in 1..MaxCallbacks
      BY RunLoopAssumption
    <3>2. CASE CallbackCall
      BY <3>2 DEF CallbackCall, HostCall
    <3>3. CASE DialogBoxParamA \/ DispatchMessage
      BY <3>1, <3>3 DEF DialogBoxParamA, DispatchMessage, HostCall
    <3> QED
      BY <1>5, <3>2, <3>3
  <2> QED
    BY <1>5, <2>1, SuspendPreserves DEF Next, Preserves, vars
<1>6. CASE EndDialog
  BY <1>6, EndDialogPreserves DEF Next, vars
<1>7. CASE ExitProcess \/ ExitThread
  BY <1>7, ExitPreserves DEF ExitProcess, ExitThread, Next, Preserves, vars
<1>8. CASE RaiseException
  BY <1>8, RaisePreserves DEF Next, Preserves, vars
<1>9. CASE ReportHalt \/ ExecutionLimit \/ Finished \/ UNCHANGED vars
  <2>1. UNCHANGED sight
    BY <1>9 DEF ReportHalt, ExecutionLimit, Finished, Next, sight, vars, runVars
  <2> QED
    BY <2>1, StutterAligned
<1> QED
  BY <1>1, <1>2, <1>3, <1>4, <1>5, <1>6, <1>7, <1>8, <1>9 DEF Next, Turn

(* The flags, the budget and the outcome.                                   *)
LEMMA StepKeepsRest ==
    ASSUME Rest, [Next]_vars
    PROVE  Rest'
<1>1. Budget \in Nat /\ UNCHANGED <<program, Budget>>
  BY RunLoopAssumption DEF Rest, Program, Budget, Next, vars
<1>2. consumed' \in 0..Budget
  <2>1. consumed' = consumed \/ (consumed < Budget /\ consumed' = consumed + 1)
    BY DEF Next, Turn, vars, runVars, CallImport, TailCallImport, Return, Hlt, GuestStep, CpuException,
           Sentinel, PlainCall, CallbackCall, DialogBoxParamA, DispatchMessage, EndDialog,
           ExitProcess, ExitThread, RaiseException, HostCall, ReportHalt, ExecutionLimit,
           Finished, Charge
  <2> QED
    BY <1>1, <2>1 DEF Rest
<1>3. target' \in BOOLEAN /\ halted' \in BOOLEAN /\ exited' \in BOOLEAN /\ error' \in Errors
      /\ pc' \in {"head", "interpreter"} \cup Outcomes
  <2> USE DEF Rest, Errors, Outcomes
  <2>1. CASE CallImport \/ TailCallImport \/ Return \/ Hlt
    BY <2>1 DEF CallImport, TailCallImport, Return, Hlt, GuestStep, Unaffected
  <2>2. CASE CpuException \/ RaiseException
    BY <2>2 DEF CpuException, RaiseException, Dispatch, Succeed
  <2>3. CASE Sentinel
    BY <2>3 DEF Sentinel, AdvanceTlsCallbacks, AdvanceHostCallbacks, AdvanceExceptionDispatch,
                ContinueExecution, ContinueSearch, ExitInitialThread, SetExitCode, Fail, Succeed
  <2>4. CASE PlainCall \/ CallbackCall \/ DialogBoxParamA \/ DispatchMessage \/ EndDialog
    BY <2>4 DEF PlainCall, CallbackCall, DialogBoxParamA, DispatchMessage, EndDialog, Suspend,
                CompleteModalDialog, Fail, Succeed
  <2>5. CASE ExitProcess \/ ExitThread
    BY <2>5 DEF ExitProcess, ExitThread, ExitInitialThread, SetExitCode, Fail
  <2>6. CASE ReportHalt \/ ExecutionLimit \/ Finished \/ UNCHANGED vars
    <3>1. target' = target /\ halted' = halted /\ exited' = exited /\ error' = error
      BY <2>6 DEF ReportHalt, ExecutionLimit, Finished, vars, runVars
    <3>2. pc' = pc \/ pc' = "halted" \/ pc' = "limit"
      BY <2>6 DEF ReportHalt, ExecutionLimit, Finished, vars, runVars
    <3> QED
      BY <3>1, <3>2
  <2> QED
    BY <2>1, <2>2, <2>3, <2>4, <2>5, <2>6 DEF Next, Turn
<1> QED
  BY <1>1, <1>2, <1>3 DEF Rest, Next, vars, Budget

LEMMA InitAligned ==
    ASSUME Init
    PROVE  Typed /\ Aligned /\ Served /\ Rest
<1>1. program \in Program /\ program.tlsCallbacks \in Nat /\ program.budget \in Nat
  BY RunLoopAssumption DEF Init, Program
<1>2. /\ pending = None /\ frames = <<>> /\ eip = "code"
      /\ Depth = 1 /\ stack \in Seq(Words)
      /\ \/ stack[1] = "tls" /\ tls # NotActive
         \/ stack[1] = "exit" /\ tls = NotActive
  <2>1. CASE program.tlsCallbacks > 0
    <3>1. stack = <<"tls">> /\ tls # NotActive
      BY <1>1, <2>1 DEF Init, NotActive
    <3> QED
      BY <3>1 DEF Init, Depth, Words, Sentinels
  <2>2. CASE ~(program.tlsCallbacks > 0)
    <3>1. stack = <<"exit">> /\ tls = NotActive
      BY <2>2 DEF Init
    <3> QED
      BY <3>1 DEF Init, Depth, Words, Sentinels
  <2> QED
    BY <2>1, <2>2
<1>3. tls \in {NotActive} \cup 0..program.tlsCallbacks
  BY <1>1 DEF Init
<1>4. None \in Exception
  BY RunLoopAssumption DEF None, Exception, Words
<1>5. Typed
  BY <1>1, <1>2, <1>3, <1>4 DEF Typed, Words
<1>6. ~Live
  BY <1>2 DEF Live
<1>7. DOMAIN frames = {}
  BY <1>2
<1>8. WordsInPlace
  BY <1>2 DEF WordsInPlace, LeadsBack
<1>9. Rest
  <2>1. 0 \in 0..Budget
    BY <1>1 DEF Budget
  <2> QED
    BY <2>1 DEF Rest, Init, Errors, Outcomes
<1> QED
  BY <1>2, <1>5, <1>6, <1>7, <1>8, <1>9
     DEF Aligned, FramesInPlace, FramesAscend, HandlerInPlace, LeadsBack, Served

-----------------------------------------------------------------------------
(* The inductive invariant.                                                 *)
Inv ==
    /\ Typed /\ Rest /\ Aligned
    /\ Does("dialog") \/ Served

LEMMA InvInductive == Spec => []Inv
<1>1. Init => Inv
  BY InitAligned DEF Inv
<1>2. Inv /\ [Next]_vars => Inv'
  BY StepPreserves, StepKeepsRest DEF Inv, Does, Next, vars
<1> QED
  BY <1>1, <1>2, PTL DEF Spec

(* Every variable has its type, whatever the program does: no return word   *)
(* is lost, and the loop never charges more than its budget (run_batched).  *)
THEOREM TypeCorrect == Spec => []TypeOK
<1>1. Inv => TypeOK
  BY TypeParts DEF Inv
<1> QED
  BY <1>1, InvInductive, PTL

-----------------------------------------------------------------------------
(* The errors a run may end with.                                           *)
ErrorsInPlace ==
    /\ EveryReturnIsExpected
    /\ error = "nested exception" => pending # None
    /\ error # NoError => pc = "failed"

(* A run that has failed does nothing more.                                 *)
LEMMA FailedIsOver ==
    ASSUME pc \in Outcomes, [Next]_vars
    PROVE  UNCHANGED vars
  BY DEF Outcomes, Next, Turn, vars, CallImport, TailCallImport, Return, Hlt, GuestStep, CpuException,
         Sentinel, PlainCall, CallbackCall, DialogBoxParamA, DispatchMessage, EndDialog, ExitProcess,
         ExitThread, RaiseException, HostCall, ReportHalt, ExecutionLimit, Finished, AtHead,
         Interpreting

(* The checks of the handlers of the sentinels.                             *)
LEMMA SentinelErrors ==
    ASSUME Typed, Aligned, Sentinel
    PROVE  \/ UNCHANGED error
           \/ pc' = "failed" /\ error' \in {"noncontinuable", "exception chain", "disposition",
                                            "unhandled exception", "exit in callback"}
<1>1. CASE eip = "tls"
  <2>1. Depth = 0 /\ tls # NotActive
    BY <1>1 DEF Aligned, LeadsBack
  <2>2. stack = <<>>
    BY <2>1 DEF Depth, Typed
  <2> QED
    BY <1>1, <2>1, <2>2 DEF Sentinel, AdvanceTlsCallbacks, Succeed
<1>2. CASE eip = "callback"
  <2>1. frames # <<>> /\ Last(frames).base = Depth
    BY <1>2, CallbackReturns
  <2> QED
    BY <1>2, <2>1 DEF Sentinel, AdvanceHostCallbacks, Succeed
<1>3. CASE eip = "exception"
  <2>1. pending # None
    BY <1>3, HandlerReturns DEF Live
  <2> QED
    BY <1>3, <2>1 DEF Sentinel, AdvanceExceptionDispatch, ContinueExecution, ContinueSearch, Fail, Succeed
<1>4. CASE eip = "exit"
  BY <1>4 DEF Sentinel, ExitInitialThread, SetExitCode, Fail
<1> QED
  BY <1>1, <1>2, <1>3, <1>4 DEF Sentinel

LEMMA StepKeepsErrors ==
    ASSUME Typed, Aligned, ErrorsInPlace, [Next]_vars
    PROVE  ErrorsInPlace'
<1> USE DEF ErrorsInPlace, EveryReturnIsExpected, NoError
<1>1. CASE pc = "failed"
  <2>1. UNCHANGED vars
    BY <1>1, FailedIsOver DEF Outcomes
  <2> QED
    BY <2>1 DEF vars, runVars
<1>2. CASE pc # "failed"
  <2>0. error = NoError
    BY <1>2
  <2>1. CASE CallImport \/ TailCallImport \/ Return \/ Hlt
    BY <2>0, <2>1 DEF CallImport, TailCallImport, Return, Hlt, GuestStep, Unaffected
  <2>2. CASE CpuException \/ RaiseException
    BY <2>0, <2>2 DEF CpuException, RaiseException, Dispatch, Succeed
  <2>3. CASE Sentinel
    BY <2>0, <2>3, SentinelErrors
  <2>4. CASE PlainCall \/ CallbackCall \/ DialogBoxParamA \/ DispatchMessage \/ EndDialog
    BY <2>0, <2>4 DEF PlainCall, CallbackCall, DialogBoxParamA, DispatchMessage, EndDialog, Suspend,
                CompleteModalDialog, Fail, Succeed
  <2>5. CASE ExitProcess \/ ExitThread
    BY <2>0, <2>5 DEF ExitProcess, ExitThread, ExitInitialThread, SetExitCode, Fail
  <2>6. CASE ReportHalt \/ ExecutionLimit \/ Finished \/ UNCHANGED vars
    BY <2>0, <2>6 DEF ReportHalt, ExecutionLimit, Finished, vars, runVars
  <2> QED
    BY <2>1, <2>2, <2>3, <2>4, <2>5, <2>6 DEF Next, Turn
<1> QED
  BY <1>1, <1>2

LEMMA ErrorsInvariant == Spec => [](Inv /\ ErrorsInPlace)
<1>1. Init => Inv /\ ErrorsInPlace
  BY InitAligned DEF Inv, Init, ErrorsInPlace, EveryReturnIsExpected, NoError
<1>2. Inv /\ ErrorsInPlace /\ [Next]_vars => (Inv /\ ErrorsInPlace)'
  BY StepPreserves, StepKeepsRest, StepKeepsErrors DEF Inv, Does, Next, vars
<1> QED
  BY <1>1, <1>2, PTL DEF Spec

(* Whatever nests and however it is left, the suspended host calls mirror   *)
(* the guest stack, every return to a sentinel finds what it resumes, and a *)
(* return from the entry point is at the top level (lib.rs:759, 810-886).   *)
THEOREM StacksMirror == Spec => []StacksStayAligned
<1> SUFFICES ASSUME Inv, ErrorsInPlace PROVE StacksStayAligned
  BY ErrorsInvariant, PTL
<1> USE DEF Inv
<1>1. FramesOnStack
  <2> SUFFICES ASSUME NEW i \in DOMAIN frames
               PROVE  LET f == frames[i] IN
                      /\ f.base <= Depth /\ stack[f.base] = f.ret
                      /\ i > 1 => frames[i - 1].base < f.base
                      /\ \/ f.base < Depth /\ stack[f.base + 1] = "callback"
                         \/ f.base = Depth /\ i = Len(frames) /\ eip = "callback"
                         \/ f.base = pending.base /\ pending.eip = "callback"
    BY DEF FramesOnStack
  <2>1. FrameInPlace(frames[i])
    BY DEF Aligned, FramesInPlace
  <2>2. ASSUME i > 1 PROVE frames[i - 1].base < frames[i].base
    <3>1. i - 1 \in DOMAIN frames /\ i - 1 < i
      BY <2>2 DEF Typed
    <3> QED
      BY <3>1 DEF Aligned, FramesAscend
  <2>3. frames[i].base = Depth => i = Len(frames)
    BY TopmostFrame
  <2> QED
    BY <2>1, <2>2, <2>3 DEF FrameInPlace
<1>2. EveryReturnIsExpected
  BY DEF ErrorsInPlace
<1>3. ReturnAtTopLevel
  <2> SUFFICES ASSUME eip = "exit" PROVE frames = <<>> /\ tls = NotActive
    BY DEF ReturnAtTopLevel
  <2>1. Depth = 0 /\ tls = NotActive
    BY DEF Aligned, LeadsBack
  <2>2. ASSUME frames # <<>> PROVE FALSE
    <3>1. 1 \in DOMAIN frames
      BY <2>2 DEF Typed
    <3>2. frames[1].base \in Nat \ {0} /\ frames[1].base <= Depth
      BY <3>1, FrameTypes DEF Aligned, FramesInPlace, FrameInPlace
    <3> QED
      BY <2>1, <3>2
  <2> QED
    BY <2>1, <2>2
<1> QED
  BY <1>1, <1>2, <1>3 DEF StacksStayAligned

(* Without dialogs, which may abandon a handler, an exception is refused as *)
(* nested only while a handler is on the stack (exceptions.rs:74).          *)
THEOREM NestedIsNested == Spec => []NestedErrorIsNested
<1>1. ASSUME Inv, Live PROVE "exception" \in Range(stack) \cup {eip}
  <2>1. CASE eip = "exception"
    BY <2>1
  <2>2. CASE pending.base < Depth /\ stack[pending.base + 1] = "exception"
    <3>1. pending.base \in Nat /\ stack \in Seq(Words)
      BY <1>1 DEF Inv, Typed, Exception
    <3>2. pending.base + 1 \in DOMAIN stack
      BY <2>2, <3>1, LenSeq DEF Depth
    <3> QED
      BY <2>2, <3>2 DEF Range
  <2> QED
    BY <1>1, <2>1, <2>2 DEF Live
<1>2. Inv /\ ErrorsInPlace => NestedErrorIsNested
  BY <1>1 DEF Inv, Served, ErrorsInPlace, NestedErrorIsNested, NestedMeansNested
<1> QED
  BY <1>2, ErrorsInvariant, PTL

-----------------------------------------------------------------------------
(* The batched loop, and a guest without tail calls: a host call always     *)
(* returns to guest code, so the loop finds no sentinel at its head, and    *)
(* looks at the exit code whenever it is set.                               *)
NothingAtHead ==
    /\ eip = "thunk" => stack # <<>> /\ Last(stack) = "code"
    /\ \A i \in DOMAIN frames : frames[i].ret = "code"
    /\ pending.eip = "code"
    /\ pc = "head" => eip = "code"
    /\ exited => pc = "exited"

Batched == ~Traced /\ ~Does("tail call")

LEMMA LeaveToCode ==
    ASSUME Typed, NothingAtHead, NEW n \in DOMAIN frames, Unwinds(n - 1)
    PROVE  frames[n].ret = "code" /\ \A i \in DOMAIN frames' : frames'[i].ret = "code"
<1>1. n \in 1..Len(frames) /\ Len(frames) \in Nat /\ frames \in Seq(Frame)
  BY DEF Typed
<1>2. n - 1 \in 0..Len(frames)
  BY <1>1
<1>3. frames' \in Seq(Frame) /\ Len(frames') = n - 1 /\ \A i \in 1..(n - 1) : frames'[i] = frames[i]
  BY <1>1, <1>2, CutSeq DEF Unwinds
<1>4. \A i \in DOMAIN frames' : i \in DOMAIN frames /\ frames'[i] = frames[i]
  BY <1>1, <1>3
<1> QED
  BY <1>4 DEF NothingAtHead

LEMMA GuestKeepsHead ==
    ASSUME Typed, NothingAtHead, Batched, ~exited,
           CallImport \/ TailCallImport \/ Return \/ Hlt
    PROVE  NothingAtHead'
<1>1. pc' = "interpreter" /\ UNCHANGED <<frames, pending, exited>> /\ eip = "code"
  BY DEF CallImport, TailCallImport, Return, Hlt, GuestStep, Unaffected, Batched
<1>2. eip' = "thunk" => stack' # <<>> /\ Last(stack') = "code"
  <2>1. CASE CallImport
    <3>1. stack' = Append(stack, "code") /\ "code" \in Words
      BY <2>1 DEF CallImport, Words
    <3>2. /\ stack' \in Seq(Words) /\ Len(stack') = Len(stack) + 1 /\ Len(stack) \in Nat
          /\ stack'[Len(stack) + 1] = "code"
      BY <3>1, ExtendSeq DEF Typed
    <3> QED
      BY <3>2 DEF Last
  <2>2. CASE TailCallImport
    BY <2>2 DEF TailCallImport, Batched
  <2>3. CASE Return
    <3>1. eip' \in Words
      BY <2>3, EndsSeq DEF Return, Pop, Typed
    <3> QED
      BY <3>1 DEF Words, Sentinels
  <2>4. CASE Hlt
    BY <1>1, <2>4 DEF Hlt
  <2> QED
    BY <2>1, <2>2, <2>3, <2>4
<1> QED
  BY <1>1, <1>2 DEF NothingAtHead

LEMMA SentinelKeepsHead ==
    ASSUME Typed, Aligned, NothingAtHead, Batched, ~exited, Sentinel
    PROVE  NothingAtHead'
<1>0. ~AtHead
  BY DEF NothingAtHead, AtHead, Recognised, Sentinels
<1>1. CASE eip = "tls"
  BY <1>1 DEF Sentinel, AdvanceTlsCallbacks, Fail, Succeed, NothingAtHead
<1>2. CASE eip = "callback"
  <2> DEFINE top == Last(frames)
             n == Len(frames)
  <2>1. /\ frames # <<>> /\ top.base = Depth /\ AdvanceHostCallbacks
        /\ n \in DOMAIN frames /\ n \in Nat /\ top = frames[n]
        /\ Front(frames) = SubSeq(frames, 1, n - 1)
    BY <1>2, CallbackReturns, EndsSeq DEF Sentinel, Typed, Last, Front
  <2>2. pc' = "head" /\ UNCHANGED <<pending, exited>>
    BY <2>1 DEF AdvanceHostCallbacks, Succeed
  <2>3. CASE top.left = 0
    <3>1. eip' = frames[n].ret /\ Unwinds(n - 1)
      BY <2>1, <2>3 DEF AdvanceHostCallbacks, Unwinds
    <3>2. eip' = "code" /\ \A i \in DOMAIN frames' : frames'[i].ret = "code"
      BY <2>1, <3>1, LeaveToCode
    <3> QED
      BY <2>2, <3>2 DEF NothingAtHead
  <2>4. CASE top.left # 0
    <3>1. eip' = "code" /\ frames' = [frames EXCEPT ![n].left = @ - 1]
      BY <2>1, <2>4 DEF AdvanceHostCallbacks, EnterCallback
    <3>2. ASSUME NEW i \in DOMAIN frames' PROVE frames'[i].ret = "code"
      <4>1. i \in DOMAIN frames
        BY <3>1
      <4>2. frames[i] \in Frame /\ frames[i].ret = "code"
        BY <4>1, FrameTypes DEF NothingAtHead
      <4> QED
        BY <3>1, <4>1, <4>2 DEF Frame
    <3> QED
      BY <2>2, <3>1, <3>2 DEF NothingAtHead
  <2> QED
    BY <2>3, <2>4
<1>3. CASE eip = "exception"
  <2>1. pending \in Exception /\ pending.eip = "code"
    BY DEF Typed, NothingAtHead
  <2>2. CASE ContinueExecution
    BY <2>1, <2>2 DEF ContinueExecution, Succeed, NothingAtHead, None
  <2>3. CASE \E reason : Fail(reason)
    BY <1>3, <2>3 DEF Fail, NothingAtHead
  <2>4. CASE ContinueSearch
    <3>1. CASE pending.visited >= MaxChain
      BY <2>3, <2>4, <3>1 DEF ContinueSearch
    <3>2. CASE ~(pending.visited >= MaxChain)
      <4>1. /\ pending' = [pending EXCEPT !.visited = @ + 1] /\ eip' = "code" /\ pc' = "head"
            /\ UNCHANGED <<frames, exited>>
        BY <2>4, <3>2 DEF ContinueSearch, EnterHandler, Succeed
      <4>2. pending'.eip = "code"
        BY <2>1, <4>1 DEF Exception
      <4> QED
        BY <4>1, <4>2 DEF NothingAtHead
    <3> QED
      BY <3>1, <3>2
  <2> QED
    BY <1>3, <2>2, <2>3, <2>4 DEF Sentinel, AdvanceExceptionDispatch
<1>4. CASE eip = "exit"
  BY <1>0, <1>4 DEF Sentinel, ExitInitialThread, SetExitCode, Fail, NothingAtHead
<1> QED
  BY <1>1, <1>2, <1>3, <1>4 DEF Sentinel

LEMMA CallsKeepHead ==
    ASSUME Typed, Aligned, NothingAtHead, Batched, ~exited,
           PlainCall \/ CallbackCall \/ DialogBoxParamA \/ DispatchMessage \/ EndDialog
    PROVE  NothingAtHead'
<1>1. eip = "thunk" /\ stack # <<>> /\ Last(stack) = "code"
  BY DEF PlainCall, CallbackCall, DialogBoxParamA, DispatchMessage, EndDialog, HostCall, NothingAtHead
<1>2. CASE PlainCall
  BY <1>1, <1>2 DEF PlainCall, Pop, Succeed, NothingAtHead
<1>3. ASSUME NEW modal, NEW k, Suspend(modal, k) PROVE NothingAtHead'
  <2> DEFINE f == [modal |-> modal, base |-> Depth, ret |-> Last(stack), left |-> k - 1]
  <2>1. frames' = Append(frames, f) /\ f.ret = "code"
    BY <1>1, <1>3 DEF Suspend
  <2>2. frames \in Seq(Frame) /\ Len(frames) \in Nat
    BY DEF Typed
  <2>3. ASSUME NEW i \in DOMAIN frames' PROVE frames'[i].ret = "code"
    <3> HIDE DEF f
    <3>1. (i \in DOMAIN frames /\ frames'[i] = frames[i]) \/ frames'[i] = f
      BY <2>1, <2>2
    <3> QED
      BY <2>1, <3>1 DEF NothingAtHead
  <2> QED
    BY <1>3, <2>3 DEF Suspend, Succeed, NothingAtHead
<1>4. CASE EndDialog
  <2>1. CASE Fail("no dialog")
    BY <1>1, <2>1 DEF Fail, NothingAtHead
  <2>2. ASSUME NEW n \in DOMAIN frames, CompleteModalDialog(n), Succeed, UNCHANGED <<pending, exited>>
        PROVE  NothingAtHead'
    <3>1. eip' = frames[n].ret /\ Unwinds(n - 1)
      BY <2>2 DEF CompleteModalDialog, Unwinds
    <3>2. eip' = "code" /\ \A i \in DOMAIN frames' : frames'[i].ret = "code"
      BY <3>1, LeaveToCode
    <3> QED
      BY <2>2, <3>2 DEF NothingAtHead, Succeed
  <2> QED
    BY <1>4, <2>1, <2>2 DEF EndDialog
<1> QED
  BY <1>2, <1>3, <1>4 DEF CallbackCall, DialogBoxParamA, DispatchMessage

LEMMA StepKeepsHead ==
    ASSUME Typed, Aligned, NothingAtHead, Batched, [Next]_vars
    PROVE  NothingAtHead'
<1>1. CASE exited \/ UNCHANGED vars
  <2>1. UNCHANGED vars
    BY <1>1, FailedIsOver DEF NothingAtHead, Outcomes
  <2> QED
    BY <2>1 DEF NothingAtHead, vars, runVars
<1>2. CASE ~exited
  <2>1. CASE CallImport \/ TailCallImport \/ Return \/ Hlt
    BY <1>2, <2>1, GuestKeepsHead
  <2>2. ASSUME NEW words, NEW continuable, Dispatch("code", words, continuable)
        PROVE  NothingAtHead'
    <3>1. UNCHANGED <<frames, exited>> /\ eip' = "code"
      BY <2>2 DEF Dispatch
    <3>2. pending'.eip = "code"
      <4>1. CASE UNCHANGED pending
        BY <4>1 DEF NothingAtHead
      <4>2. CASE pending' = [base |-> Len(words), eip |-> "code", visited |-> 1,
                             continuable |-> continuable]
        BY <4>2
      <4> QED
        BY <2>2, <4>1, <4>2 DEF Dispatch
    <3> QED
      BY <1>2, <3>1, <3>2 DEF NothingAtHead
  <2>3. CASE CpuException \/ RaiseException
    BY <2>2, <2>3 DEF CpuException, RaiseException, HostCall, NothingAtHead
  <2>4. CASE Sentinel
    BY <1>2, <2>4, SentinelKeepsHead
  <2>5. CASE PlainCall \/ CallbackCall \/ DialogBoxParamA \/ DispatchMessage \/ EndDialog
    BY <1>2, <2>5, CallsKeepHead
  <2>6. CASE ExitProcess \/ ExitThread
    <3>1. ~AtHead
      BY DEF NothingAtHead, AtHead, Recognised, Sentinels
    <3>2. CASE SetExitCode
      BY <3>1, <3>2 DEF SetExitCode, NothingAtHead
    <3>3. CASE Fail("exit in callback")
      BY <1>2, <3>3 DEF Fail, NothingAtHead
    <3> QED
      BY <2>6, <3>2, <3>3 DEF ExitProcess, ExitThread, ExitInitialThread
  <2>7. CASE ReportHalt \/ ExecutionLimit \/ Finished
    BY <1>2, <2>7 DEF ReportHalt, ExecutionLimit, Finished, runVars, NothingAtHead
  <2> QED
    BY <1>1, <2>1, <2>3, <2>4, <2>5, <2>6, <2>7 DEF Next, Turn
<1> QED
  BY <1>1, <1>2

(* The batched loop reports every exit of a guest that makes no tail calls  *)
(* to the host: it does not reach its limit instead (lib.rs:614, 720).      *)
THEOREM ExitsAreReported == Spec => []BatchedReportsItsExit
<1> DEFINE I == Inv /\ (Batched => NothingAtHead)
<1>1. Init => I
  <2>1. Init => NothingAtHead
    BY DEF Init, NothingAtHead, None
  <2> QED
    BY <2>1, InitAligned DEF Inv
<1>2. I /\ [Next]_vars => I'
  BY StepPreserves, StepKeepsRest, StepKeepsHead DEF Inv, Batched, Does, Next, vars
<1>3. I => BatchedReportsItsExit
  BY DEF Batched, NothingAtHead, BatchedReportsItsExit, ExitIsReported
<1> QED
  BY <1>1, <1>2, <1>3, PTL DEF Spec
=============================================================================
