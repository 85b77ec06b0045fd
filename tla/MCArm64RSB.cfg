CONSTANTS
  x = x
  y = y
  none = none
  Desc <- MCDesc
  NoDesc <- none
  Addr <- MCAddr
  CacheSize = 2
  Blocks <- MCBlocks
  MaxVersion = 0
  Written <- MCWritten
  Translate <- CallReturn
  Optimizations = {"BlockLinking", "ReturnStackBuffer"}
  EnableCycleCounting = TRUE
  CheckHaltOnMemoryAccess = TRUE
  Fastmem = TRUE
  MaxTicks = 3
  RSBCount = 2
  Garbage <- MCGarbage
  HostReasons = {"MemoryAbort"}
  HostPC = {x}
  Ranges = {}
SPECIFICATION ArmSpec
PROPERTIES
  ArmRunsGuest
