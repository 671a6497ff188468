SPECIFICATION FairSpec
CONSTANTS
  Tasks <- MCTasks
  MM = "MM"
  FS = "FS"
  Users <- MCUsers
  TTY = "TTY"
  DISK = "DISK"
  SYSTASK = "SYSTASK"
  CLOCK = "CLOCK"
  Confs <- MCConfs
  MaxForks = 1
INVARIANTS
  Scheduled
  MessagesKept
  NoHopelessSend
  SignalsCounted
  HungIsKnown
PROPERTIES
  
  CallIsServed
CHECK_DEADLOCK FALSE
