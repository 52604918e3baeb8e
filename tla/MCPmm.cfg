SPECIFICATION FairSpec
CONSTANTS
  PAGE_SIZE = 4
  MAX_PHYSICAL_BYTES = 40
  AddrMax = 90
  Boots <- MCBoots
  Requests <- MCRequests
  Devices <- MCDevices
INVARIANTS
  OnlyUsableLent
PROPERTIES
  SearchEnds
  ImplementsFrameAllocator
