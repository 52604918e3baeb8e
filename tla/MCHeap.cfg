SPECIFICATION FairSpec
CONSTANTS
  WordMax = 1023
  Extents <- MCExtents
  Sizes <- MCSizes
  Ptrs <- MCPtrs
INVARIANTS
  HeapWellFormed
  Coalesced
  BlocksIntact
  PanicsJustified
PROPERTIES
  CallsEnd
  ImplementsBlockAllocator
