SPECIFICATION Spec
CONSTANTS
  IPC_QUEUE_CAPACITY = 2
  IPC_MAX_PAYLOAD = 3
  IPC_MAX_ENDPOINTS = 3
  MaxKeys = 0
  MaxTicks = 1
  MaxCalls = 0
  Payload <- MCPayload
  Lengths = {1, 3}
  LowHalves = 1
  HighHalves = 1
  TicksPerSecond = 1
INVARIANTS
  ExitReturns
