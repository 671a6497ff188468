INIT Init
NEXT Next
CONSTANTS
  NR_PRTY = 3
  Proc = {p1, p2, p3}
  Sem = {s1, s2}
  NoProc = NoProc
  NoSem = NoSem
  BasePrty = {1, 2}
  SemAttrs <- TimedAttrs
  Timeouts = {"FOREVER", "TIMED"}
  Sleeping = FALSE
  Leaving = FALSE
  BPIP = FALSE
  StaleRp = {"own", "any", "fault"}
  MinValue <- Lowest
  MaxValue = 2
SYMMETRY Symm
CHECK_DEADLOCK FALSE
INVARIANTS
  UpFindsWaiter
