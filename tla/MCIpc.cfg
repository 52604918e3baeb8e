SPECIFICATION Spec
CONSTANTS
  IPC_QUEUE_CAPACITY = 2
  IPC_MAX_ENDPOINTS = 3
  IPC_MAX_PAYLOAD = 2
  Ids <- MCIds
  Senders <- MCSenders
  Buffers <- MCBuffers
  Lengths <- MCLengths
INVARIANTS
  RingConsistent
PROPERTIES
  ImplementsIpcFifo
