SPECIFICATION Spec
CONSTANTS
  Exchanges = {x1}
  Queues = {q1, q2}
  UserNames = {a}
  NumServer = 2
  MaxCalls = 6
  MaxLosses = 1
INVARIANTS
  TypeOK
  RegisteredAreAlive
  LookupByName
  NoneStale
  DeclaredExists
  OnlyRemoveIsRefused
CHECK_DEADLOCK FALSE
