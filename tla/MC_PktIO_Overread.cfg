CONSTANTS
  Frames <- MCFrames
  MaxCaptures = 2
  MaxOut = 0
  MaxFds = 2
  CharIsSigned = TRUE
  LibnetMayFail = FALSE

SPECIFICATION Spec

CHECK_DEADLOCK FALSE

INVARIANT CaptureKeepsFrame
