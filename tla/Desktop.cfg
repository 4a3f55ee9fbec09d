SPECIFICATION Spec
CONSTANTS
    ClassNames <- SomeNames
    Lower <- LowerCase
    Procedures = {"p"}
    Messages = {"WM_USER"}
    NestDialogs = FALSE
    MaxWindows = 2
    MaxMenus = 1
    MaxPosts = 3
    MaxFrames = 2
    Budgets <- SomeBudgets
    MaxObjects = 1
    MaxMemoryDcs = 1
INVARIANTS
    TypeOK
    WindowsCoherent
    MessagesArrive
    SelectionsHold
CHECK_DEADLOCK FALSE
