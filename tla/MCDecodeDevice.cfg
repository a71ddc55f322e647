SPECIFICATION Spec
CONSTANTS
  Pulls = {p1, p2}
  NoJob = NoJob
  NoRender = NoRender
  NoGeneration = NoGeneration
  CpuColour = CpuColour
  DcpXyz = DcpXyz
  HeldBack = 1
  IdlePolls = 1
  Encodes = {e1}
  MaxJobs = 2
  MaxGeneration = 1
  Renders = {DcpXyz, Imf}
  Displays = {Srgb, Profile}
INVARIANTS TypeOK NoJobLostOrDoubled LeaseExclusive BatchUnderLease
PROPERTIES EncodeGoesFirst EncodeGetsTheDevice EveryJobEnds
CHECK_DEADLOCK FALSE
