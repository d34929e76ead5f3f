CONSTANTS
  Frames <- MCFrames
  MaxCaptures = 2
  MaxOut = 3
  MaxFds = 2
  CharIsSigned = TRUE
  LibnetMayFail = TRUE

SPECIFICATION Spec

\* Both processes may exit (exit(-1) on a pcap or libnet error, a crash on
\* a NULL FILE), and the writer of pktOut.txt writes MaxOut records, after
\* which no step may be left.
CHECK_DEADLOCK FALSE

INVARIANT ReplayFollowsWrites
INVARIANT LengthDecodes
