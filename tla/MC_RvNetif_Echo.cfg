CONSTANTS
  NumFrames = 3
  FrameLens <- MCFrameLens
  Buffers <- MCBuffers
  PktBuf = bPkt
  MetaRecv = mRecv
  MetaSend = mSend
  Addr <- MCAddr
  NoFrame = noFrame
  TagAdvancesOnRead = TRUE
  bPkt = bPkt
  mRecv = mRecv
  mSend = mSend
  noFrame = noFrame

SPECIFICATION Spec

INVARIANT EchoIntegrity
