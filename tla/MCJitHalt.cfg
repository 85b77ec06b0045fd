CONSTANTS
  x = x
  y = y
  xs = xs
  ys = ys
  none = none
  Desc <- MCDesc
  NoDesc <- none
  Addr <- MCAddr
  CacheSize = 2
  RSBSize = 2
  Bucket = {1}
  Hash <- MCHash
  Blocks <- MCBlocks
  Loc <- MCLoc
  SingleStep <- MCSingleStep
  MaxVersion = 0
  Written <- MCWritten
  Translate <- Spin
  Optimizations = {"BlockLinking"}
  CycleCounting = {TRUE, FALSE}
  IsA32 = FALSE
  CheckHaltOnMemoryAccess = FALSE
  Fastmem_ = FALSE
  MaxTicks = 2
  HostReasons = {"UserDefined", "CacheInvalidation"}
  HostPC = {x}
  Ranges <- TopAndEmptyRanges
  HostCalls = {"Run"}
SPECIFICATION BusyJitSpec
PROPERTIES
  HaltStopsRun
  RequestsAreServed
