INIT Init
NEXT Next
CONSTANTS
  NR_PRTY = 2
  NoVT = NoVT
  VT = {v1, v2, v3}
  Periods = {1, 2, 3}
  Handling = TRUE
  Waits = {"TIMEOUT", "WAKEUP"}
SYMMETRY Symm
INVARIANTS
  DeltaExact
  OnePlace
PROPERTIES
  ImplementsTimers
