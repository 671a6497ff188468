INIT AllInit
NEXT AllNext
CONSTANTS
  NR_PRTY = 4
  Proc = {p1, p2, p3}
  Sem = {s1, s2}
  NoProc = NoProc
  NoSem = NoSem
  BasePrty = {2, 3}
  SemAttrs <- PlainAttrs
  Timeouts = {"NOWAIT", "FOREVER"}
  Sleeping = TRUE
  Leaving = FALSE
  BPIP = FALSE
  StaleRp = {"own", "any", "fault"}
  MinValue <- Lowest
  MaxValue = 2
SYMMETRY Symm
CHECK_DEADLOCK FALSE
INVARIANTS
  Scheduled
  GrantedToCarrier
  PlainWaitersCounted
  InheritOutranksWaiters
PROPERTIES
  PlainMostUrgentFirst
  ImplementsSemaphores
