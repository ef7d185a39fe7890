SPECIFICATION FairSpec
CONSTANTS
  Exchanges = {e1}
  Queues = {q1}
  Prefetches = {1, 2}
  MaxNumber = 2
  MaxLosses = 2
  MaxCalls = 4
  Events = {"shared", "gap", "late", "early", "reset", "delete",
            "again", "unopened", "slot", "outlived", "dropped"}
INVARIANTS
  OpenedIsOpen
  FramesAccepted
  PrefetchAsAgreed
  CloseIsAnswered
PROPERTIES
  OpensWithLink
  DelayedDeclareCompletes
CHECK_DEADLOCK FALSE
