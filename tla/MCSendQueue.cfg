SPECIFICATION SpecPeerReads
CONSTANTS
  t1 = t1
  t2 = t2
  Senders <- MCSenders
  MaxSendQue = 2
  SendLimit = 3
INVARIANTS
  TypeOK
  OneWriteInFlight
  BufferOwned
  NeverStuck
  Fifo
  SenderOrder
PROPERTIES
  ChannelSafety
  StopCloses
  AcceptedSettles
CHECK_DEADLOCK FALSE
