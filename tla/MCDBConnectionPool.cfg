SPECIFICATION Spec
CONSTANTS
  r1 = r1
  r2 = r2
  r3 = r3
  r4 = r4
  t1 = t1
  t2 = t2
  c1 = c1
  c2 = c2
  NoConn = NoConn
  Requests <- MCRequests
  Threads <- MCThreads
  ThreadOf <- MCThreadOf
  Conns <- MCConns
  FirstIdle <- MCFirstIdle
  Max = 2
INVARIANTS
  TypeOK
  NoSharing
  Accounting
  NoLostWakeup
PROPERTIES
  LendsConnections
  Answered
CHECK_DEADLOCK FALSE
