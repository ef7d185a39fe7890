SPECIFICATION Spec
CONSTANTS
  MaxMessages = 1
  MaxLosses = 2
  MaxCalls = 3
  Events = {}
PROPERTIES
  WaitMeansNoneLost
CHECK_DEADLOCK FALSE
