SPECIFICATION Spec
CONSTANTS
  s1 = s1
  s2 = s2
  s3 = s3
  Sessions <- MCSessions
  Hardware <- MCHardware
  PortSettings <- MCPorts
  ThreadSettings <- MCThreads
  PoolSettings <- MCPools
INVARIANTS
  ProcessTypeOK
  SignalEndsCleanly
PROPERTIES
  ShutdownCompletes
CHECK_DEADLOCK FALSE
