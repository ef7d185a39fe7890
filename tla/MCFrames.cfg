SPECIFICATION Spec
CONSTANTS
  Byte = 16
  FloatMax = 100
  CharSigned = TRUE
  Values <- MCValues
  FrameMax = 48
  Channel = 2
  Keys <- MCKeys
  Given <- MCGiven
  Arguments <- MCArguments
  Bodies <- MCBodies
  Parts = {23, 1000}
  MaxFields = 2
INVARIANTS
  FramesInStep
  WithinIsAccepted
  RoundTrip
CHECK_DEADLOCK FALSE
