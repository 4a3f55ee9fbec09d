SPECIFICATION Spec
CONSTANTS
  PageCount = 2
  PageSize = 3
  Values = {"store", "jump"}
  Zero = "store"
  MaxGeneration = 5
  Length <- MCLength
  Terminal = {"jump"}
  Invalid = {}
  MaxLength = 2
  MaxBlock = 2
  MaxDecoded = 2
  MaxBlocks = 1
  Targets <- MCTargets
  Stores <- MCStores
  Written <- MCWritten
  Offered <- MCOffered
  Programs <- MCPrograms
INVARIANTS
  TypeOK
  CacheSound
  CodeIsCurrent
  BatchNeverFails
CHECK_DEADLOCK FALSE
