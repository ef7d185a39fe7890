SPECIFICATION Spec
CONSTANTS
  Exchanges = {e1}
  Queues = {q1}
  Prefetches = {}
  MaxNumber = 2
  MaxLosses = 2
  MaxCalls = 2
  Events = {"shared", "dropped"}
INVARIANTS
  SharedOpenedOnce
CHECK_DEADLOCK FALSE
