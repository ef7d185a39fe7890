SPECIFICATION Spec
CONSTANTS
  FixedTimeouts = {3}
  Heartbeats = {0, 30, 60}
  SlotConnects = FALSE
  MaxCalls = 4
  MaxFaults = 5
  MaxOut = 1
INVARIANTS
  SignalsMatchState
  RetryOnlyWhileDown
  RetryWaits
  HeartbeatAsAgreed
PROPERTIES
  ResetBetweenConnections
CHECK_DEADLOCK FALSE
