CONSTANTS
  bPkt = bPkt
  pb1 = pb1
  pb2 = pb2
  pb3 = pb3
  tb1 = tb1
  tb2 = tb2
  mRecv = mRecv
  mSend = mSend
  noFrame = noFrame

SPECIFICATION Spec

INVARIANT NoDmaIntoReleasedPbuf
INVARIANT PoolConserved
PROPERTY RvFrameIORefined
PROPERTY LwipFrameIOSafe
PROPERTY EveryByteEchoed
