SPECIFICATION Spec
CONSTANTS
  s1 = s1
  s2 = s2
  NoSession = NoSession
  Sessions <- OneSession
  IdleTicks = 1
  MsgLimit = 2
INVARIANTS
  TypeOK
  OpenIsRegistered
  LeakCauses
PROPERTIES
  LivesOnce
  SilentIsClosed
  ForgottenIsGone
CHECK_DEADLOCK FALSE
