SPECIFICATION FairSpec
CONSTANTS
  disk = disk
  line = line
  soft = soft
  Irq = {disk, line, soft}
  NR_PRTY = 4
  Confs <- MCConfs
INVARIANTS
  UrgentFirst
  
PROPERTIES
  Settles
  
