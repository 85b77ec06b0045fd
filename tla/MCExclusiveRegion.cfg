CONSTANTS
  p1 = p1
  p2 = p2
  Proc = {p1, p2}
  Inline = {p2}
  Unit = {0, 1}
  Value = {0, 1}
  Access <- Overlapping
  INVALID_EXCLUSIVE_ADDRESS = INVALID
  Nobody = Nobody
SPECIFICATION Spec
INVARIANT RegionIsExclusive
