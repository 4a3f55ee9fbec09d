SPECIFICATION MCSpec
CONSTANTS
    e1 = e1
    e2 = e2
    Events = {e1, e2}
    Mutexes = {m1, m2}
    Names = {n1}
    NoName = NoName
    NoHandle = NoHandle
    Pending = Pending
    MaxThreads = 3
    MaxReferences = 2
    MaxRecursion = 1
    Disciplined = FALSE
    Waits <- WaitsJoin
INVARIANTS
    NameTablesConsistent
PROPERTIES
    CallsReturn
