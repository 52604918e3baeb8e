SPECIFICATION FairSpec
CONSTANTS
  IPC_QUEUE_CAPACITY = 2
  IPC_MAX_PAYLOAD = 3
  IPC_MAX_ENDPOINTS = 3
  MaxKeys = 3
  MaxTicks = 1
  MaxCalls = 1
  Payload <- MCPayload
  Lengths = {1, 3}
  LowHalves = 2
  HighHalves = 2
  TicksPerSecond = 3
INVARIANTS
  KeysInOrder
  KeyAnnounced
  KernelResumed
  RepliesInStep
  UptimeNear
PROPERTIES
  ContextKept
  KeysHandled
