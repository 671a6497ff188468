SPECIFICATION FairSpec
CONSTANTS
  a = a
  b = b
  c = c
  Proc = {a, b, c}
  NoProc = NoProc
  NR_PRTY = 4
  NR_MESSAGES = 2
  Confs <- MCConfs
INVARIANTS
  
  Scheduled
  
  ReceiverOutranksQueue
PROPERTIES
  Answered
