SPECIFICATION FairSpec
CONSTANTS
  HEADER_SIZE = 6
  UsizeMax = 127
  MaxModules = 2
  BootModules <- MCBootModules
INVARIANTS
  TypeInv
  EntriesApart
  ReadsBack
  CutNoticed
PROPERTIES
  BootGoesOn
