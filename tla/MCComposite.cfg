SPECIFICATION Spec
CONSTANTS
  base = base
  overlay = overlay
  Layers = {base, overlay}
  Order <- MCOrder
  FrameCount = 2
  Total <- MCTotal
  Limit <- MCLimit
  Queue = 1
  Copies = {0, 1, 2}
  Damaged <- MCDamaged
  BadFilters = {overlay}
  BadRaster = {base}
  None = None
INVARIANTS
  DecodeTypeOK
  EndIsExplained
  VerdictNamesTheCause
  NoFailureIsLost
PROPERTIES
  DecodeReturns

CHECK_DEADLOCK FALSE
