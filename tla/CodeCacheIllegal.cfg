SPECIFICATION Spec
CONSTANTS
  PageCount = 2
  PageSize = 3
  Values = {"store", "jump", "bad"}
  Zero = "store"
  MaxGeneration = 5
  Length <- MCLength
  Terminal = {"jump"}
  Invalid = {"bad"}
  MaxLength = 2
  MaxBlock = 2
  MaxDecoded = 2
  MaxBlocks = 1
  Targets <- MCTargets
  Stores <- MCIllegalStores
  Written <- MCIllegalWritten
  Offered <- MCOffered
  Programs <- MCPrograms
INVARIANT
  IllegalIsAtEip
CHECK_DEADLOCK FALSE
