SPECIFICATION CommandSpec
CONSTANTS
  Tables <- MCTables
  UINT16_MAX = 98
  Lines <- EveryLine
  INT_MAX = 999
  PRINT_BUF_SIZE = 1024
  Ticks <- MCTicks
  Radix <- MCRadix
  MaxSeconds = 2
  kernel_start = 4096
  kernel_end = 70000
INVARIANTS
  ShutdownTypeInv
  SleepsAsWritten
  DateNear
PROPERTIES
  CommandMeant
  TimesReadBack
