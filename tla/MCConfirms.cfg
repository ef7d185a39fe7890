SPECIFICATION FairSpec
CONSTANTS
  MaxMessages = 2
  MaxLosses = 2
  MaxCalls = 3
  Events = {"nack", "zero", "reopen", "offline"}
INVARIANTS
  TypeOK
  TagsInOrder
  DeliveredAreAccepted
PROPERTIES
  ConfirmsArrive
CHECK_DEADLOCK FALSE
