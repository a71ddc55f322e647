SPECIFICATION Spec
CONSTANTS
  a = a
  b = b
  Compositions = {a, b}
  First = a
  FrameCount <- MCFrameCount
  Scales = {0, 1}
  Displays = {"srgb"}
  DefaultDisplay = "srgb"
  Bad <- MCBad
  Workers = 1
  ClockSources = {"sound"}
  None = None
  SeekTo = {0, 2}
  MaxCommands = 2
  MaxLate = 1
  MaxDecoding = 1
INVARIANTS
  PlayerTypeOK
  CacheHoldsTheFramesItNames
  ScreenShowsTheCurrentFrame
  NeverAheadOfTheClock
  InFlightIsOnItsWay
PROPERTIES
  ComesToRest

CHECK_DEADLOCK FALSE
