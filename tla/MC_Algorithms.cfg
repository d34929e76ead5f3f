CONSTANTS
  Alphabet = {0, 1, 128}
  MaxCount = 4
  Bases = {0, 7, 214748364, 429496729, 858993459, 1000000000}
  Extra = {0, 5, 6, 7, 9}
  MaxPieces = 3
  DecArgs = {0, 42, 2147483647}
  HexArgs = {0, 171, 74565}
  N = 9
  Box = 3

SPECIFICATION Spec

INVARIANT StrCmpMatchesBytes
INVARIANT StrCpyCopiesString
INVARIANT MemMoveMatchesSnapshot
INVARIANT MemCmpOrdersBuffers
INVARIANT StrNCmpOrdersPrefixes
INVARIANT AtoiInRange
INVARIANT PrintDecRoundTrip
INVARIANT PrintHexRoundTrip
INVARIANT PrintfFollowsFormat
INVARIANT SearchMatchesStack
INVARIANT SolvedIsCompletion
INVARIANT UnsolvedMeansNone
PROPERTY Termination
