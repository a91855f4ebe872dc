SPECIFICATION LoggerSpec
CONSTANTS
  c1 = c1
  c2 = c2
  e1 = e1
  e2 = e2
  d1 = d1
  n1 = n1
  n2 = n2
  NoEvent = NoEvent
  Worker = Worker
  Nested = Nested
  Main = Main
  Nobody = Nobody
  Producers <- MCProducers
  Consumers <- MCConsumers
  Events <- MCEvents
  Announced <- MCAnnounced
  DirectEvents <- MCDirect
  EarlierEvents <- MCEarlier
  Left <- MCLeft
  MaxSize = 1
  MaxFileSize = 4
  MaxBackup = 3
  Announcements = 2
PROPERTY
  LoggingReturns
CHECK_DEADLOCK FALSE
