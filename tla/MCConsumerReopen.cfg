SPECIFICATION Spec
CONSTANTS
  ConsumerTags = {"t1", "t2"}
  MaxMessages = 1
  Sizes = {1}
  MaxLosses = 1
  MaxCalls = 3
  Events = {"reopen"}
INVARIANTS
  ReopenedIsServed
CHECK_DEADLOCK FALSE
