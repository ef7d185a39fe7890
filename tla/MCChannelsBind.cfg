SPECIFICATION Spec
CONSTANTS
  Exchanges = {e1}
  Queues = {q1}
  Prefetches = {}
  MaxNumber = 1
  MaxLosses = 2
  MaxCalls = 3
  Events = {"dropped"}
INVARIANTS
  DelayedBindIsDeclared
CHECK_DEADLOCK FALSE
