\* The payload buffers
CONSTANTS
  w0 = w0
  w1 = w1
  w2 = w2
  Words = {w0, w1, w2}
  ZeroWord = w0
  Packets <- MCPayloadPackets
  Headers <- MCPayloadHeaders
  TxMessages = {w1}
  QueueSize = 6
  NumMessageIds = 2
  BufWords = 6
  MaxRxFifo = 2
  MaxTxFifo = 1
SPECIFICATION FusbSpec
INVARIANT PayloadIntact
