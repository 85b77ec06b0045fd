CONSTANTS
  x = x
  y = y
  none = none
  Desc <- MCDesc
  NoDesc <- none
  Addr <- MCAddr
  CacheSize = 2
  Blocks <- MCBlocks
  MaxVersion = 1
  Written <- MCWritten
  Translate <- CallReturn
  Optimizations = {"BlockLinking", "ReturnStackBuffer"}
  EnableCycleCounting = TRUE
  CheckHaltOnMemoryAccess = TRUE
  Fastmem = TRUE
  MaxTicks = 2
  RSBCount = 2
  Garbage <- MCGarbage
  HostReasons = {"MemoryAbort"}
  HostPC = {x}
  Ranges = {{2}}
SPECIFICATION ArmSpec
INVARIANTS
  ArmInv
  SpaceInv
  RelocationsCurrent
  ArmStaleIsPending
  ArmRunSeesInvalidations
  PredictionsValid
PROPERTIES
  SpaceSpec
  ArmRunsGuestUntilOverrun
