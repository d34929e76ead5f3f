CONSTANTS
  Frames <- MCFramesIPv6
  MaxCaptures = 1
  MaxOut = 2
  MaxFds = 2
  CharIsSigned = TRUE
  LibnetMayFail = FALSE

SPECIFICATION Spec

CHECK_DEADLOCK FALSE

INVARIANT ReplayMatchesFile
