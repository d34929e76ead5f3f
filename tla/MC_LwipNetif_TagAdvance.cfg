CONSTANTS
  NumFrames = 3
  FrameLens <- MCFrameLens
  Buffers <- MCBuffers
  PoolBufs <- MCPoolBufs
  PoolBufSize = 32
  StackHoldMax = 1
  TxChains <- MCTxChains
  ReplyInPlace = FALSE
  MetaRecv = mRecv
  MetaSend = mSend
  Addr <- MCAddr
  NoFrame = noFrame
  TagAdvancesOnRead = TRUE
  pb1 = pb1
  pb2 = pb2
  pb3 = pb3
  tb1 = tb1
  tb2 = tb2
  mRecv = mRecv
  mSend = mSend
  noFrame = noFrame

SPECIFICATION Spec

INVARIANT ArmedForHeadFrame
