CONSTANTS
  Frames <- MCFramesIPv4
  MaxCaptures = 1
  MaxOut = 3
  MaxFds = 2
  CharIsSigned = TRUE
  LibnetMayFail = FALSE

SPECIFICATION Spec

CHECK_DEADLOCK FALSE

INVARIANT ReplayKeepsRunning
