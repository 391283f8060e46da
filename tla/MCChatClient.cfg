SPECIFICATION FairSpec
CHECK_DEADLOCK FALSE
CONSTANTS
  HeaderSize = 1
  MaxPacketSize = 2
  RecvChunk = 2
  MaxRecvBuffer = 3
  MaxSendBuffer = 2
  MaxPendingPackets = 2
  ReadSize = 2
  Script <- SomeScript
  Stream <- SomeStream
  Refused = {2}
INVARIANTS
  CommandsGoOut
  StopsForReason
PROPERTIES
  ImplementsDialogue
  ClientEnds
  EveryoneIsServed
