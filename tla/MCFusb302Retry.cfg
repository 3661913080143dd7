\* The wait period after a failure
CONSTANTS
  w0 = w0
  w1 = w1
  w2 = w2
  Words = {w0}
  ZeroWord = w0
  Packets <- MCPackets
  Headers <- MCHeaders
  TxMessages = {w1}
  QueueSize = 2
  NumMessageIds = 2
  BufWords = 5
  MaxRxFifo = 1
  MaxTxFifo = 1
SPECIFICATION FusbFairSpec
PROPERTY RetryEnds
