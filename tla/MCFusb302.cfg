\* Safety and liveness of the driver
CONSTANTS
  w0 = w0
  w1 = w1
  w2 = w2
  Words = {w0}
  ZeroWord = w0
  Packets <- MCPackets
  Headers <- MCHeaders
  TxMessages = {w1}
  QueueSize = 2
  NumMessageIds = 2
  BufWords = 5
  MaxRxFifo = 2
  MaxTxFifo = 1
SPECIFICATION FusbFairSpec
INVARIANTS
  TypeOK
  MessagesOnlyInPd
  ProtocolTracksState
  TimerArmed
  RxNotForgotten
  
  CommOnSourceLine
PROPERTIES SourceDetected ImplementsLink
