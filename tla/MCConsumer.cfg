SPECIFICATION FairSpec
CONSTANTS
  ConsumerTags = {"t1", "t2"}
  MaxMessages = 2
  Sizes = {0, 2}
  MaxLosses = 2
  MaxCalls = 3
  Events = {"noWait", "reopen", "stale"}
INVARIANTS
  TypeOK
  ConsumeSentOnce
  ConsumingIsServed
  AckedWereReceived
PROPERTIES
  DeliversWhole
  ConsumeCompletes
CHECK_DEADLOCK FALSE
