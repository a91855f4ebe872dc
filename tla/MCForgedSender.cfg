SPECIFICATION Safety
CONSTANTS
  s1 = s1
  s2 = s2
  s3 = s3
  k1 = k1
  k2 = k2
  n1 = n1
  n2 = n2
  NoSession = NoSession
  NoName = NoName
  Sessions <- MCSessions
  Names <- MCNames
  Clients <- MCClients
  ClientOf <- MCClientOf
  MayClaim <- AnyClaims
  RequestLimit = 3
PROPERTIES
  SenderNotForged
CHECK_DEADLOCK FALSE
