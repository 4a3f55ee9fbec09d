SPECIFICATION Spec
CONSTANTS
    Traced = FALSE
    Programs <- DialogPrograms
    MaxCallbacks = 2
    MaxChain = 2
INVARIANTS
    NestedMeansNested
