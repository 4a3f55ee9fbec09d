SPECIFICATION Spec
CONSTANTS
    Traced = TRUE
    Programs <- TracedPrograms
    MaxCallbacks = 2
    MaxChain = 2
INVARIANTS
    ExitIsReported
