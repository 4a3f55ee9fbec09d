----------------------------- MODULE Instructions -----------------------------
(* The instructions whose properties have proofs: those on memory and those *)
(* of the x87 unit, part by part.  The unit stays as it is at the start     *)
(* where it is not in focus.                                                *)
EXTENDS Parts

CONSTANTS
    Cells, CellValues, MaxRep, Mappings,     \* MemoryInstructions
    Size, UnitRegisters, TopBits, MaxSteps   \* X87

VARIABLES
    start, memory, mapped, r, at,                               \* MemoryInstructions
    file, top, status, ah, conditions, depth, truth, steps      \* X87

stringVars == <<start, memory, mapped, r, at>>
floatVars == <<file, top, status, ah, conditions, depth, truth, steps>>
instructionVars == <<focus, stringVars, floatVars>>

String == INSTANCE MemoryInstructions WITH Values <- CellValues
Float == INSTANCE X87 WITH Registers <- UnitRegisters, flags <- conditions

-----------------------------------------------------------------------------
StringUnused == Unused(memory) /\ Unused(mapped) /\ Unused(r)

(* Arithmetic has the remaining two variables of MemoryInstructions too.    *)
InstructionsInit ==
    /\ Focused("string", String!Init, StringUnused)
    /\ Float!Init

InstructionsNext ==
    /\ UNCHANGED focus
    /\ Focused("string", String!Next, UNCHANGED <<memory, mapped, r>>)
    /\ Focused("float", Float!Next, UNCHANGED floatVars)

InstructionsSpec == InstructionsInit /\ [][InstructionsNext]_instructionVars

-----------------------------------------------------------------------------
(* Every variable has its type.                                             *)
InstructionsTypeOK ==
    /\ focus = "string" => String!TypeOK
    /\ Float!TypeOK

(* X87: the status word names the register on top, and after FNSTSW and     *)
(* SAHF the flags tell how two numbers compare.                             *)
UnitTells == Float!StatusNamesTop /\ Float!FlagsTellComparison

(* MemoryInstructions: wherever a repeated instruction stops, it has done   *)
(* the elements that its registers say are done, and when it is over what   *)
(* it does without faults and batches.                                      *)
InstructionsResume == focus = "string" => String!InstructionsResume

(* X87: the registers are the stack of FloatingStack.                       *)
FloatingStackKept == Float!FloatingStackKept
=============================================================================
