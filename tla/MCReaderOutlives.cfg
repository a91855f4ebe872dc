SPECIFICATION Safety
CONSTANTS
  s1 = s1
  s2 = s2
  NoSession = NoSession
  Sessions <- OneSession
  IdleTicks = 1
  MsgLimit = 2
INVARIANTS
  ReaderKeepsSession
CHECK_DEADLOCK FALSE
