SPECIFICATION Spec
CONSTANTS
    Traced = FALSE
    Programs <- BatchedPrograms
    MaxCallbacks = 2
    MaxChain = 2
INVARIANTS
    TypeOK
    StacksStayAligned
    BatchedReportsItsExit
    NestedErrorIsNested
PROPERTIES
    RunReturns
