------------------------------ MODULE MCMachine -------------------------------
(***************************************************************************)
(* The machine under the guest, part by part: the address space and its     *)
(* allocators, integer arithmetic, instructions on memory, and the x87      *)
(* unit.  A behaviour is of one part, the `focus' it starts with; the       *)
(* variables of the others are unused, or stay as at the start.             *)
(***************************************************************************)
EXTENDS MCAddressSpace, Instructions

VARIABLES program, eax, edx, flags, fault       \* Arithmetic; start and at too

integerVars == <<program, eax, edx, fault>>

Trials ==
    INSTANCE MCArithmetic WITH ByteBits <- 2, DwordBits <- 5, Programs <- {}
Integer ==
    INSTANCE Arithmetic WITH ByteBits <- 2, DwordBits <- 5, Programs <- Trials!MCPrograms

SomeMappings == {0..3, {0, 1}, {2}, {}}

ASSUME UnitAssumption == Float!X87Assumption
ASSUME CellsAssumption == String!StringAssumption

-----------------------------------------------------------------------------
SpaceUnused == Init /\ image = {6}
IntegerUnused == Unused(program) /\ Unused(eax) /\ Unused(edx) /\ Unused(flags) /\ Unused(fault)

MachineInit ==
    /\ focus \in {"space", "integer", "string", "float"}
    /\ Focused("space", Init, SpaceUnused)
    /\ Focused("integer", Integer!Init, IntegerUnused)
    /\ InstructionsInit
    /\ focus \notin {"integer", "string"} => Unused(start) /\ Unused(at)

MachineNext ==
    /\ Focused("space", Next, UNCHANGED vars)
    /\ Focused("integer", Integer!Next, UNCHANGED <<integerVars, flags>>)
    /\ InstructionsNext
    /\ focus \notin {"integer", "string"} => UNCHANGED <<start, at>>

MachineSpec ==
    MachineInit /\ [][MachineNext]_<<vars, integerVars, flags, instructionVars>>

-----------------------------------------------------------------------------
(* Every variable has its type.                                             *)
PartsTypeOK ==
    /\ TypeOK
    /\ focus = "integer" => Integer!TypeOK
    /\ InstructionsTypeOK

(* The instructions compute what their numbers mean.  Arithmetic: sums are  *)
(* those of an adder of single bits; a condition after a comparison tells   *)
(* the order; shifts move each bit to its place; ADD and ADC, SUB and SBB,  *)
(* and the double shifts work on numbers of two words; a product divides    *)
(* back; a division is exact or raises the divide error.  X87: UnitTells.   *)
InstructionsCompute ==
    /\ focus = "integer" =>
          /\ Integer!SumsAreTheAdders
          /\ Integer!ConditionsCompare
          /\ Integer!ShiftsMoveBits
          /\ Integer!PairsActAsOne
          /\ Integer!ProductsDivideBack
          /\ Integer!DivisionIsExact
    /\ UnitTells
=============================================================================
