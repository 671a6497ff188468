\* Four links and three priorities: every list reaches the lengths 0 to 4,
\* so that an object is removed from the head, the tail and the middle.
\* Four inodes and five zones in small blocks: a file reaches its double
\* indirect zone, a directory its second block, and both maps run full.
\* Four processes and four clicks: memory and the process table run full.
SPECIFICATION TablesSpec
CONSTANTS
  NR_PRTY = 3
  Link = {l1, l2, l3, l4}
  NULL = NULL
  Setups <- AllSetups
  Copied = {TRUE}
  s_ninodes = 4
  s_firstdatazone = 3
  NrZones = 5
  NR_DZONES = 1
  NR_INDIRECTS = 1
  NR_DIR_ENTRIES = 3
  BITCHUNK_BITS = 2
  LINK_MAX = 4
  NR_PROCS = 4
  NR_HOLES = 8
  Chunks <- TwoChunks
  Programs <- TwoPrograms
INVARIANTS
  LinksConsistent
  GetReturnsHighest
  ZonesOwnedOnce
  InodesExact
  TreeKept
  MemoryPartitioned
  NeverPanics
PROPERTIES
  ImplementsQueue
