SPECIFICATION Spec
CONSTANTS
  Pulls = {p1, p2}
  NoJob = NoJob
  NoRender = NoRender
  NoGeneration = NoGeneration
  CpuColour = CpuColour
  DcpXyz = DcpXyz
  HeldBack = 1
  IdlePolls = 1
  Encodes = {e1}
  MaxJobs = 1
  MaxGeneration = 0
  Renders = {DcpXyz}
  Displays = {Srgb}
INVARIANT OneBatchAtATime
CHECK_DEADLOCK FALSE
