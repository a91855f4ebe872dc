SPECIFICATION Spec
CONSTANTS
  s1 = s1
  s2 = s2
  s3 = s3
  k1 = k1
  k2 = k2
  n1 = n1
  n2 = n2
  NoSession = NoSession
  NoName = NoName
  Sessions <- MCSessions
  Names <- MCNames
  Clients <- MCClients
  ClientOf <- MCClientOf
  MayClaim <- OwnClaims
  RequestLimit = 3
INVARIANTS
  TypeOK
  RegisteredIsReachable
  NoDanglingName
PROPERTIES
  NamesAreFreed
CHECK_DEADLOCK FALSE
