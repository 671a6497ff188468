\* Two names in the root directory and one free slot of the inode table.
SPECIFICATION FSSpec
CONSTANTS
  Setups <- OnlyLinks
  Copied = {TRUE}
  s_ninodes = 4
  s_firstdatazone = 3
  NrZones = 5
  NR_DZONES = 1
  NR_INDIRECTS = 1
  NR_DIR_ENTRIES = 3
  BITCHUNK_BITS = 2
  LINK_MAX = 4
INVARIANTS
  NamesUnique
