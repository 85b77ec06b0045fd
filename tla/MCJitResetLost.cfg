CONSTANTS
  x = x
  y = y
  xs = xs
  ys = ys
  none = none
  Desc <- MCDesc
  NoDesc <- none
  Addr <- MCAddr
  CacheSize = 2
  RSBSize = 2
  Bucket = {1}
  Hash <- MCHash
  Blocks <- MCBlocks
  Loc <- MCLoc
  SingleStep <- MCSingleStep
  MaxVersion = 1
  Written <- MCWritten
  Translate <- CallReturn
  Optimizations = {"BlockLinking", "ReturnStackBuffer", "FastDispatch"}
  CycleCounting = {TRUE}
  IsA32 = FALSE
  CheckHaltOnMemoryAccess = FALSE
  Fastmem_ = FALSE
  MaxTicks = 2
  HostReasons = {"UserDefined"}
  HostPC = {x}
  Ranges <- TopRange
  HostCalls = {"Run", "Reset"}
SPECIFICATION JitSpec
INVARIANTS
  RunSeesInvalidations
