SPECIFICATION FairSpec
CONSTANTS
  N = 9
  KERNEL_DIR = 3
  LARGE = 1
  DIR = 2
  Garbage <- MCGarbage
  FRAMES = 50
  HEAP_PAGES = 3
  KERNEL_HEAP_VIRTUAL_START = 486
  ACPI_MAPPING_BASE = 324
  ACPI_MAPPING_LIMIT = 486
  virtual_base = 567
  virtual_size = 162
  USER_PROGRAM_BASE = 81
  HEADER = 2
  FADT = 3
  Machines <- MCMachines
INVARIANTS
  FramesApart
  UserConfined
  RangesMapped
  AcpiPanicJustified
PROPERTIES
  ImplementsAddressSpace
  BootEnds
