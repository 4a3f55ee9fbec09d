SPECIFICATION MachineSpec
CONSTANTS
    PageCount = 20
    PageSize = 4
    Granularity = 2
    HeaderSize = 1
    HeapBase = 4
    HeapLimit = 7
    VirtualLimit = 10
    StackBase = 14
    StackPages = 1
    TebBase = 18
    WorkerStackPages = 1
    WorkerTlsBase = 0
    HostModules = {12}
    ProcessData = {3}
    MaxThreads = 4
    Images <- SomeImages
    BlockSizes = {0, 3}
    Maximums = {0, 4}
    PageRuns = {1, 2}
    Protections <- SomeProtections
    MaxCalls = 5
    Cells = 4
    CellValues = {0, 1}
    MaxRep = 2
    Mappings <- SomeMappings
    Size = 2
    UnitRegisters = 4
    TopBits = {11, 12}
    MaxSteps = 6
INVARIANTS
    PartsTypeOK
    PagesAccountedFor
    BlocksKeepApart
    InstructionsCompute
    InstructionsResume
PROPERTIES
    FloatingStackKept
CHECK_DEADLOCK FALSE
