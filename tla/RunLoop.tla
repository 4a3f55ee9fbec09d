------------------------------- MODULE RunLoop -------------------------------
(***************************************************************************)
(* The run loop of the runtime (vnrt-runtime/src/lib.rs) for one guest      *)
(* thread: host calls, host calls suspended while guest callbacks run,      *)
(* modal dialogs, structured exceptions (exceptions.rs), the TLS callbacks  *)
(* and the entry point of process start-up (process.rs), and the end of a   *)
(* run.                                                                     *)
(*                                                                          *)
(* Control enters guest code with a return word on the guest stack that is  *)
(* no address of the program but a sentinel; when guest code returns to it  *)
(* the loop resumes what it had put aside.  The stack is the sequence of    *)
(* its return words; esp is its length.  Arguments, which callee and caller *)
(* agree to clean, and every other word are left out.                       *)
(*                                                                          *)
(* The loop has two forms: run_batched interprets until something external  *)
(* happens, run_traced looks at every instruction.  Both treat a sentinel   *)
(* they find at their head differently from one that the interpreter        *)
(* reports: see AtHead.                                                     *)
(*                                                                          *)
(* Definitions headed "Wrong:" are faulty variants of the definition that   *)
(* follows them; nothing uses them but the tests of the properties.         *)
(***************************************************************************)
EXTENDS Integers, Sequences, SequencesExt

CONSTANTS
    Traced,         \* run_traced (trace logging is on) or run_batched
    Programs,       \* what may be run
    MaxCallbacks,   \* bound: callbacks one host call asks for
    MaxChain        \* MAX_EXCEPTION_CHAIN_DEPTH (64)

(* A run is of a guest that does no more than its features say, with the    *)
(* TLS callbacks of its image, for RunLimits::max_instructions.             *)
GuestFeatures == {"tail call", "dialog", "exception"}
Program == [features: SUBSET GuestFeatures, tlsCallbacks: Nat, budget: Nat]

ASSUME RunLoopAssumption ==
    /\ Traced \in BOOLEAN
    /\ Programs \subseteq Program
    /\ MaxCallbacks \in Nat \ {0}
    /\ MaxChain \in Nat \ {0}

(* Where eip and the return words point: guest code, an import thunk, or a  *)
(* sentinel (TLS_CALLBACK_, HOST_CALLBACK_, EXCEPTION_HANDLER_ and          *)
(* THREAD_EXIT_RETURN_ADDRESS).                                             *)
Sentinels == {"tls", "callback", "exception", "exit"}
Words == {"code"} \cup Sentinels

VARIABLES
    program,
    eip,
    stack,
    frames,     \* suspended_host_calls, the innermost last
    tls,        \* pending_tls_callbacks, or NotActive after start-up
    pending,    \* pending_exception
    target,     \* guest_callback_targets holds the dialog procedure
    halted,     \* cpu.state.halted
    exited,     \* exit_code is set
    consumed,   \* instructions charged to this run
    error,      \* the error run returns, or NoError
    pc          \* "head" of the loop, in the interpreter, or the outcome

runVars == <<eip, stack, frames, tls, pending, target, halted, exited, consumed, error, pc>>
vars == <<program, runVars>>

Does(feature) == feature \in program.features
Budget == program.budget

NotActive == -1
NoError == "none"
None == [base |-> 0, eip |-> "code", visited |-> 0, continuable |-> TRUE]

(* A suspended host call: its return word ret was at stack[base], and left  *)
(* callbacks follow the one that is running.                                *)
Frame == [modal: BOOLEAN, base: Nat \ {0}, ret: Words, left: 0..MaxCallbacks]
Exception == [base: Nat, eip: Words, visited: 0..MaxChain, continuable: BOOLEAN]
Errors == {NoError, "tls frame", "no continuation", "callback frame", "no pending exception",
           "nested exception", "unhandled exception", "noncontinuable", "exception chain",
           "disposition", "exit in callback", "no dialog", "unmapped target"}
Outcomes == {"exited", "halted", "limit", "failed"}

TypeOK ==
    /\ program \in Programs
    /\ eip \in Words \cup {"thunk"}
    /\ stack \in Seq(Words)
    /\ frames \in Seq(Frame)
    /\ tls \in {NotActive} \cup 0..program.tlsCallbacks
    /\ pending \in Exception
    /\ target \in BOOLEAN /\ halted \in BOOLEAN /\ exited \in BOOLEAN
    /\ consumed \in 0..Budget
    /\ error \in Errors
    /\ pc \in {"head", "interpreter"} \cup Outcomes

(* load_with_config: the first TLS callback, or the entry point at once.    *)
Init ==
    /\ program \in Programs
    /\ eip = "code"
    /\ IF program.tlsCallbacks > 0 THEN stack = <<"tls">> /\ tls = program.tlsCallbacks - 1
                                   ELSE stack = <<"exit">> /\ tls = NotActive
    /\ frames = <<>>
    /\ pending = None
    /\ target = FALSE /\ halted = FALSE /\ exited = FALSE
    /\ consumed = 0
    /\ error = NoError
    /\ pc = "head"

-----------------------------------------------------------------------------
(* Control.                                                                 *)

Depth == Len(stack)
Below(n) == SubSeq(stack, 1, n)

(* The loop looks for a sentinel before it interprets.                      *)
Recognised == eip \in Sentinels \ {"tls"} \/ (eip = "tls" /\ tls # NotActive)
AtHead == pc = "head" /\ Recognised
Interpreting == pc = "interpreter" \/ (pc = "head" /\ ~Recognised)

(* Wrong: a sentinel at the head of the loop is not charged.                *)
ChargeInterpreter ==
    /\ consumed < Budget
    /\ consumed' = IF AtHead THEN consumed ELSE consumed + 1

(* Every turn of the loop and every instruction costs one unit.             *)
Charge == consumed < Budget /\ consumed' = consumed + 1

Fail(reason) ==
    /\ error' = reason
    /\ pc' = "failed"
    /\ UNCHANGED <<eip, stack, frames, tls, pending, target, halted, exited>>

(* What a handler that succeeds leaves alone is listed by the handler.      *)
Succeed == pc' = "head" /\ UNCHANGED error

(* Wrong: the exit code is never looked at after an external event.         *)
SetExitCodeUnnoticed ==
    /\ exited' = TRUE /\ halted' = TRUE
    /\ pc' = "head"
    /\ UNCHANGED <<eip, stack, frames, tls, pending, target, error>>

(* The exit code is looked at after an external event, unless that was a    *)
(* sentinel at the head of the loop, which `continue's past the test.       *)
SetExitCode ==
    /\ exited' = TRUE /\ halted' = TRUE
    /\ pc' = IF AtHead THEN "head" ELSE "exited"
    /\ UNCHANGED <<eip, stack, frames, tls, pending, target, error>>

(* Return to the word on top of the stack.                                  *)
Pop == stack # <<>> /\ eip' = Last(stack) /\ stack' = Front(stack)

-----------------------------------------------------------------------------
(* Guest instructions.                                                      *)

GuestStep ==
    /\ Interpreting /\ ~halted /\ eip = "code"
    /\ Charge
    /\ pc' = IF Traced THEN "head" ELSE "interpreter"

Unaffected == UNCHANGED <<frames, tls, pending, target, exited, error>>

CallImport ==
    /\ GuestStep
    /\ eip' = "thunk"
    /\ stack' = Append(stack, "code")
    /\ UNCHANGED halted /\ Unaffected

(* A function that ends with a jump through the import table.               *)
TailCallImport ==
    /\ Does("tail call")
    /\ GuestStep
    /\ stack # <<>>
    /\ eip' = "thunk"
    /\ UNCHANGED <<stack, halted>> /\ Unaffected

Return ==
    /\ GuestStep
    /\ Pop
    /\ UNCHANGED halted /\ Unaffected

Hlt ==
    /\ GuestStep
    /\ halted' = TRUE
    /\ UNCHANGED <<eip, stack>> /\ Unaffected

-----------------------------------------------------------------------------
(* Structured exceptions.                                                   *)

EnterHandler(record) ==
    /\ pending' = record
    /\ eip' = "code"
    /\ stack' = Append(SubSeq(stack, 1, record.base), "exception")

(* dispatch_guest_exception with eip and the stack as they are at the       *)
(* exception; the chain of fs:[0] may be empty.                             *)
Dispatch(at, words, continuable) ==
    /\ \/ /\ error' = IF pending = None THEN "unhandled exception" ELSE "nested exception"
          /\ pc' = "failed"
          /\ eip' = at /\ stack' = words
          /\ UNCHANGED pending
       \/ /\ pending = None
          /\ pending' = [base |-> Len(words), eip |-> at, visited |-> 1,
                         continuable |-> continuable]
          /\ eip' = "code" /\ stack' = Append(words, "exception")
          /\ Succeed
    /\ UNCHANGED <<frames, tls, target, halted, exited>>

CpuException ==
    /\ Does("exception")
    /\ Interpreting /\ ~halted /\ eip = "code"
    /\ Charge
    /\ Dispatch(eip, stack, TRUE)

(* Wrong: the exception stays pending.                                      *)
ContinueExecutionKeepsPending ==
    /\ pending.continuable
    /\ eip' = pending.eip
    /\ stack' = Below(pending.base)
    /\ Succeed
    /\ UNCHANGED <<frames, tls, pending, target, halted, exited>>

(* Disposition 0: back to where the exception happened.                     *)
ContinueExecution ==
    /\ pending.continuable
    /\ eip' = pending.eip
    /\ stack' = Below(pending.base)
    /\ pending' = None
    /\ Succeed
    /\ UNCHANGED <<frames, tls, target, halted, exited>>

(* Disposition 1: the next handler on the chain.                            *)
ContinueSearch ==
    IF pending.visited >= MaxChain THEN Fail("exception chain")
    ELSE /\ EnterHandler([pending EXCEPT !.visited = @ + 1])
         /\ Succeed
         /\ UNCHANGED <<frames, tls, target, halted, exited>>

(* advance_exception_dispatch: the handler has returned a disposition.      *)
AdvanceExceptionDispatch ==
    IF pending = None THEN Fail("no pending exception")
    ELSE \/ ContinueExecution
         \/ ~pending.continuable /\ Fail("noncontinuable")
         \/ ContinueSearch
         \/ Fail("unhandled exception")
         \/ Fail("disposition")

-----------------------------------------------------------------------------
(* The other sentinels.                                                     *)

(* Wrong: one callback too many.                                            *)
AdvanceTlsCallbacksPastEnd ==
    IF stack # <<>> THEN Fail("tls frame")
    ELSE /\ eip' = "code"
         /\ tls' = tls - 1
         /\ stack' = IF tls < 0 THEN <<"exit">> ELSE <<"tls">>
         /\ Succeed
         /\ UNCHANGED <<frames, pending, target, halted, exited>>

(* The next TLS callback, or the entry point.                               *)
AdvanceTlsCallbacks ==
    IF stack # <<>> THEN Fail("tls frame")
    ELSE /\ eip' = "code"
         /\ IF tls > 0 THEN tls' = tls - 1 /\ stack' = <<"tls">>
                       ELSE tls' = NotActive /\ stack' = <<"exit">>
         /\ Succeed
         /\ UNCHANGED <<frames, pending, target, halted, exited>>

EnterCallback(frame) ==
    /\ eip' = "code"
    /\ stack' = Append(Below(frame.base), "callback")

(* Wrong: the queue is taken for not empty when it is.                      *)
AdvanceHostCallbacksOnceMore ==
    IF frames = <<>> THEN Fail("no continuation")
    ELSE LET top == Last(frames) IN
         IF Depth # top.base THEN Fail("callback frame")
         ELSE /\ EnterCallback(top)
              /\ frames' = [frames EXCEPT ![Len(frames)].left = @ - 1]
              /\ Succeed
              /\ UNCHANGED <<tls, pending, target, halted, exited>>

(* A callback has returned: the next one, or back to the caller of the API. *)
AdvanceHostCallbacks ==
    IF frames = <<>> THEN Fail("no continuation")
    ELSE LET top == Last(frames) IN
         IF Depth # top.base THEN Fail("callback frame")
         ELSE /\ IF top.left = 0
                 THEN frames' = Front(frames) /\ eip' = top.ret /\ stack' = Below(top.base - 1)
                 ELSE /\ EnterCallback(top)
                      /\ frames' = [frames EXCEPT ![Len(frames)].left = @ - 1]
              /\ Succeed
              /\ UNCHANGED <<tls, pending, target, halted, exited>>

(* exit_guest_thread_internal of the initial thread, when nobody waits (the *)
(* wake pass and the other threads are in GuestScheduler).                  *)
ExitInitialThread ==
    IF frames # <<>> THEN Fail("exit in callback")
    ELSE SetExitCode

Sentinel ==
    /\ AtHead \/ (Interpreting /\ ~halted)
    /\ Charge
    /\ \/ eip = "tls" /\ IF tls = NotActive THEN Fail("unmapped target")
                                            ELSE AdvanceTlsCallbacks
       \/ eip = "callback" /\ AdvanceHostCallbacks
       \/ eip = "exception" /\ AdvanceExceptionDispatch
       \/ eip = "exit" /\ ExitInitialThread

-----------------------------------------------------------------------------
(* Host calls.                                                              *)

HostCall == Interpreting /\ ~halted /\ eip = "thunk" /\ Charge

(* An API that needs no guest code.                                         *)
PlainCall ==
    /\ HostCall
    /\ Pop
    /\ Succeed
    /\ UNCHANGED <<frames, tls, pending, target, halted, exited>>

(* dispatch_host_call with guest_callbacks not empty.                       *)
Suspend(modal, callbacks) ==
    /\ stack # <<>>
    /\ frames' = Append(frames, [modal |-> modal, base |-> Depth, ret |-> Last(stack),
                                 left |-> callbacks - 1])
    /\ eip' = "code"
    /\ stack' = Append(stack, "callback")
    /\ Succeed
    /\ UNCHANGED <<tls, pending, halted, exited>>

(* EnumWindows, EnumSystemLocales, ... (one callback per item), SendMessage.*)
CallbackCall ==
    /\ HostCall
    /\ \E n \in 1..MaxCallbacks : Suspend(FALSE, n)
    /\ UNCHANGED target

(* DialogBoxParamA runs the dialog procedure once, with WM_INITDIALOG.      *)
DialogBoxParamA ==
    /\ Does("dialog")
    /\ HostCall
    /\ target' = TRUE
    /\ Suspend(TRUE, 1)

(* DispatchMessage of a message to the dialog.                              *)
DispatchMessage ==
    /\ Does("dialog")
    /\ HostCall
    /\ target
    /\ Suspend(FALSE, 1)
    /\ UNCHANGED target

(* Wrong: the calls nested in the dialog stay suspended.                    *)
CompleteModalDialogKeepsNested(i) ==
    /\ frames' = RemoveAt(frames, i)
    /\ eip' = frames[i].ret
    /\ stack' = Below(frames[i].base - 1)
    /\ target' = FALSE

(* Wrong: the modal frame itself stays suspended.                           *)
CompleteModalDialogKeepsModal(i) ==
    /\ frames' = SubSeq(frames, 1, i)
    /\ eip' = frames[i].ret
    /\ stack' = Below(frames[i].base - 1)
    /\ target' = FALSE

(* complete_modal_dialog: resume the caller of the innermost DialogBox and  *)
(* abandon what is nested in it.                                            *)
CompleteModalDialog(i) ==
    /\ frames' = SubSeq(frames, 1, i - 1)
    /\ eip' = frames[i].ret
    /\ stack' = Below(frames[i].base - 1)
    /\ target' = FALSE

EndDialog ==
    /\ Does("dialog")
    /\ HostCall
    /\ \/ \E i \in DOMAIN frames :
          /\ frames[i].modal
          /\ \A j \in DOMAIN frames : j > i => ~frames[j].modal
          /\ CompleteModalDialog(i)
          /\ Succeed
          /\ UNCHANGED <<tls, pending, halted, exited>>
       \/ /\ \A i \in DOMAIN frames : ~frames[i].modal
          /\ Fail("no dialog")

ExitProcess == HostCall /\ SetExitCode

ExitThread == HostCall /\ ExitInitialThread

(* The call returns to the guest before the exception is dispatched.        *)
RaiseException ==
    /\ Does("exception")
    /\ HostCall
    /\ stack # <<>>
    /\ \E continuable \in BOOLEAN : Dispatch(Last(stack), Front(stack), continuable)

-----------------------------------------------------------------------------
(* The end of the run.                                                      *)

ReportHalt ==
    /\ Interpreting /\ halted
    /\ Charge
    /\ pc' = "halted"
    /\ UNCHANGED <<eip, stack, frames, tls, pending, target, halted, exited, error>>

ExecutionLimit ==
    /\ pc \in {"head", "interpreter"}
    /\ consumed = Budget
    /\ pc' = "limit"
    /\ UNCHANGED <<eip, stack, frames, tls, pending, target, halted, exited, consumed, error>>

Finished == pc \in Outcomes /\ UNCHANGED runVars

Turn ==
    \/ CallImport \/ TailCallImport \/ Return \/ Hlt \/ CpuException
    \/ Sentinel
    \/ PlainCall \/ CallbackCall \/ DialogBoxParamA \/ DispatchMessage \/ EndDialog
    \/ ExitProcess \/ ExitThread \/ RaiseException
    \/ ReportHalt \/ ExecutionLimit \/ Finished

Next == Turn /\ UNCHANGED program

(* The host thread does nothing but run the loop.                           *)
Spec == Init /\ [][Next]_vars /\ WF_vars(Next)

-----------------------------------------------------------------------------
(* Properties.                                                              *)

(* The suspended host calls mirror the guest stack: the return word of each *)
(* is still where the call left it, the word above it is the sentinel of    *)
(* the callback it waits for (unless the callback is just returning, or     *)
(* raised an exception by its last jump), and calls suspended later sit     *)
(* higher.  So                                                              *)
(* whatever nests (callbacks, dialogs, exception handlers) and whichever    *)
(* way a frame is resumed or abandoned, the loop resumes the caller that    *)
(* made the call, on its own stack (lib.rs:833-855,                         *)
(* host_context.rs:247-255).                                                *)
FramesOnStack ==
    \A i \in DOMAIN frames :
        LET f == frames[i] IN
        /\ f.base <= Depth /\ stack[f.base] = f.ret
        /\ i > 1 => frames[i - 1].base < f.base
        /\ \/ f.base < Depth /\ stack[f.base + 1] = "callback"
           \/ f.base = Depth /\ i = Len(frames) /\ eip = "callback"
           \/ f.base = pending.base /\ pending.eip = "callback"

(* A return to a sentinel finds what it resumes: the checks in              *)
(* advance_tls_callbacks, advance_host_callbacks and                        *)
(* advance_exception_dispatch never fail for a guest that keeps its stack   *)
(* (lib.rs:811, 831, 833, exceptions.rs:158).                               *)
EveryReturnIsExpected ==
    error \notin {"tls frame", "no continuation", "callback frame", "no pending exception",
                  "unmapped target"}

(* When a thread procedure or the entry point returns, no host call is      *)
(* still suspended and start-up is over: the refusal "ExitThread with       *)
(* suspended Host callbacks" (lib.rs:759) never meets a plain return.       *)
ReturnAtTopLevel == eip = "exit" => frames = <<>> /\ tls = NotActive

(* The suspended calls and the guest stack are aligned, whatever nests.     *)
StacksStayAligned == FramesOnStack /\ EveryReturnIsExpected /\ ReturnAtTopLevel

(* A run that reaches its limit did not end before: "Run until termination  *)
(* or an explicit execution limit" (lib.rs:614).                            *)
ExitIsReported == pc = "limit" => ~exited

(* It is so in the batched loop for a guest that makes no tail calls to the *)
(* host; a tail call may return to a sentinel, which the loop finds at its  *)
(* head.                                                                    *)
BatchedReportsItsExit == ~Traced /\ ~Does("tail call") => ExitIsReported

(* "nested Guest exception during SEH dispatch" (exceptions.rs:74) is said  *)
(* only while a handler's activation is on the stack.                       *)
NestedMeansNested == error = "nested exception" => "exception" \in Range(stack) \cup {eip}

(* It is so of a guest without dialogs.                                     *)
NestedErrorIsNested == ~Does("dialog") => NestedMeansNested

(* A run ends, whatever the guest does: every turn of the loop is charged.  *)
RunReturns == <>(pc \in Outcomes)
=============================================================================
