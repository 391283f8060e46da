SPECIFICATION FairSpec
CHECK_DEADLOCK FALSE
CONSTANTS
  MaxClients = 2
  MaxQueuedEvents = 4
  MaxRecvBufferBytes = 7
  MaxSendBufferBytes = 3
  MaxSessionId = 3
  HeaderSize = 2
  MaxPacketSize = 3
  RecvChunk = 4
  Streams <- SomeStreams
  None = None
INVARIANTS
  EventSlotReserved
  RestIsPartial
PROPERTIES
  ImplementsINetwork
  LossIsTold
