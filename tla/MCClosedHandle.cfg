SPECIFICATION Spec
CONSTANTS
    e1 = e1
    e2 = e2
    m1 = m1
    m2 = m2
    Events = {e1}
    Mutexes = {m1}
    Names = {}
    NoName = NoName
    NoHandle = NoHandle
    Pending = Pending
    MaxThreads = 3
    Disciplined = FALSE
    MaxReferences = 1
    MaxRecursion = 2
    Waits <- WaitsMixed
INVARIANTS
    WakesDelivered
