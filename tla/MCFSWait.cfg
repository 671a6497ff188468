CONSTANTS
  p1 = p1
  p2 = p2
  p3 = p3
  Slots <- MCSlots
  Confs <- MCConfs
  PIPE_SIZE = 2
  NR_LOCKS = 2
  MAX_FILE_POS = 2
  MaxBytes = 5
SPECIFICATION Spec
CHECK_DEADLOCK FALSE
INVARIANTS
  CountsExact
  PipeWaits
  
  LocksKept
PROPERTIES
  FSListens
