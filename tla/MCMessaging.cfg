SPECIFICATION Spec
CONSTANTS
  s1 = s1
  s2 = s2
  Sessions <- MCSessions
  Scripts <- MCScripts
  Frail <- MCFrail
  MaxLost = 1
INVARIANTS
  MessagingTypeOK
  Delivery
  OutcomeIsTrue
PROPERTIES
  Answered
  LogicEnds
CHECK_DEADLOCK FALSE
