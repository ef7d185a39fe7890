SPECIFICATION FairSpec
CONSTANTS
  FixedTimeouts = {3}
  Heartbeats = {0, 60}
  SlotConnects = TRUE
  MaxCalls = 3
  MaxFaults = 2
  MaxOut = 1
PROPERTIES
  RecoveryCompletes
  CloseCompletes
CHECK_DEADLOCK FALSE
