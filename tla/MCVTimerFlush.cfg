SPECIFICATION AllSpec
CONSTANTS
  NR_PRTY = 3
  NoVT = NoVT
  VT = {v1, v2}
  Periods = {1, 3}
  Handling = TRUE
  Waits = {"TIMEOUT"}
INVARIANT
  QuietFlushRunsAll
PROPERTIES
  Progress
