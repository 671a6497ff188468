INIT Init
NEXT Next
CONSTANTS
  NR_PRTY = 4
  Proc = {p1, p2, p3, p4}
  Sem = {s1, s2}
  NoProc = NoProc
  NoSem = NoSem
  BasePrty = {1, 2, 3}
  SemAttrs <- InheritAttrs
  Timeouts = {"FOREVER"}
  Sleeping = TRUE
  Leaving = FALSE
  BPIP = TRUE
  StaleRp = {"own"}
  MinValue <- Lowest
  MaxValue = 2
SYMMETRY Symm
CHECK_DEADLOCK FALSE
PROPERTIES
  MostUrgentFirst
