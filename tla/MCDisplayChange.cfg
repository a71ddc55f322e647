SPECIFICATION Spec
CONSTANTS
  Pulls = {p1, p2}
  NoJob = NoJob
  NoRender = NoRender
  NoGeneration = NoGeneration
  CpuColour = CpuColour
  DcpXyz = DcpXyz
  HeldBack = 1
  IdlePolls = 1
  Encodes = {}
  MaxJobs = 2
  MaxGeneration = 1
  Renders = {DcpXyz}
  Displays = {Srgb, Profile}
PROPERTY NewDisplayGetsItsBatch
CHECK_DEADLOCK FALSE
