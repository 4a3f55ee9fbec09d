SPECIFICATION MCSpec
CONSTANTS
    Threads <- LocalThreads
    Main = 1
    Slots = {0, 1}
    Values = {0, 5}
    Sections = {"s"}
    WordModulus = 8
    MaxCalls = 7
    Images <- LinkedImages
    Registries <- LinkedRegistries
    ModuleList <- LinkedModules
    NameList <- LinkedNames
    Undecorate <- LinkedUndecorate
    OrdinalOf <- LinkedOrdinals
    PageCells = 8
    ThunkSlots = 9
    TlsRoom = 4
    MaxCallbacks = 4
    MaxSteps = 2
    Spellings = {1, 2, 3}
    Fold <- LowerOf
    Respells = FALSE
    Bytes = {1}
    ZeroByte = 0
    MaxLength = 2
    MaxHandles = 2
    MaxFileCalls = 5
    PathNames = {"game", "x"}
    Drives = {"C:", "D:"}
    Root <- GuestRoot
    MaxComponents = 3
    Letters = {"a", "b"}
    MaxPattern = 4
    MaxValue = 3
    Characters <- GuestCharacters
    MaxText = 3
    MaxCapacity = 8
    MaxWord = 15
    HalfWord = 2
    MaxAllocation = 13
    Sizes = {1, 12}
    Display <- SmallDisplay
    MaxObjects = 5
    MaxWrites = 2
    MaxReferences = 2
    MaxDirect3DCalls = 5
    RiffFiles <- SmallRiffFiles
    MaxWalk = 6
INVARIANTS
    PartsTypeOK
    ImageComesToLife
    AddressesLeadToTheirApi
    ThreadsKeepTheirOwn
    NamesMeanFiles
    BuffersSuffice
    ResourcesCoherent
    ChunksAreFound
PROPERTIES
    FilesKeepTheirContract
CHECK_DEADLOCK FALSE
