SPECIFICATION FairSpec
CONSTANTS
  NumExchanges = 2
  Shares = FALSE
  FrameMin = 8
  FrameDefault = 9
  FrameMaxes = {7, 9}
  Tolerance = 1
  BodySizes = {0, 2}
  MaxMessages = 2
  MaxLosses = 1
  MaxCalls = 2
INVARIANTS
  NeverRefused
  ReturnedIsStored
  TagsAgree
PROPERTIES
  CallsReturn
CHECK_DEADLOCK FALSE
