CONSTANTS
  x = x
  y = y
  xs = xs
  ys = ys
  none = none
  Desc <- MCDesc
  NoDesc <- none
  Addr <- MCAddr
  CacheSize = 2
  RSBSize = 2
  Bucket = {1}
  Hash <- MCHash
  Blocks <- MCBlocks
  Loc <- MCLoc
  SingleStep <- MCSingleStep
  MaxVersion = 1
  Written <- MCWritten
  Translate <- Services
  Optimizations = {"BlockLinking", "ReturnStackBuffer"}
  CycleCounting = {TRUE}
  IsA32 = TRUE
  CheckHaltOnMemoryAccess = TRUE
  Fastmem_ = FALSE
  MaxTicks = 2
  HostReasons = {"MemoryAbort"}
  HostPC = {x}
  Ranges <- TopRange
  HostCalls = {"Run"}
SPECIFICATION JitSpec
INVARIANTS
  MxcsrTracked
  MxcsrSwitched
  ReturnsForAReason
PROPERTIES
  RunsGuest
