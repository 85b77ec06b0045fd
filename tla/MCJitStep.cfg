CONSTANTS
  x = x
  y = y
  xs = xs
  ys = ys
  none = none
  Desc <- MCDesc
  NoDesc <- none
  Addr <- MCAddr
  CacheSize = 3
  RSBSize = 2
  Bucket = {1}
  Hash <- MCHash
  Blocks <- MCBlocks
  Loc <- MCLoc
  SingleStep <- MCSingleStep
  MaxVersion = 0
  Written <- MCWritten
  Translate <- LoadCall
  Optimizations = {"BlockLinking", "ReturnStackBuffer"}
  CycleCounting = {TRUE}
  IsA32 = FALSE
  CheckHaltOnMemoryAccess = FALSE
  Fastmem_ = TRUE
  MaxTicks = 1
  HostReasons = {"UserDefined"}
  HostPC = {x}
  Ranges = {}
  HostCalls = {"Run", "Step", "SetPC", "Reset"}
SPECIFICATION JitSpec
INVARIANTS
  StepInv
  StepIsSingle
PROPERTIES
  RunsGuest
