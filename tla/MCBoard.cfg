\* Queue, debug UART, timeouts, LED and button, I2C
CONSTANTS
  N = 3
  Items = {a, b}
  NoItem = NoItem
  BufLen = 5
  MaxChunk = 2
  Bytes = {"a", "b"}
  Messages <- MCMessages
  HalfWrap = 10
  Margin = 4
  DriverMs = {0, 2, 4}
  KeepAliveMs = {6}
  DelayMs = {1}
  StartupMs = {3}
  Patterns <- MCPatterns
  DebounceMs = 1
  LongPressMs = 3
  MaxLag = 2
  MaxHeld = 4
  NBits = 3
  DeviceAddr <- MCAddress
  Calls <- MCCalls
  Given <- MCGiven
  NoCall = NoCall
SPECIFICATION BoardSpec
INVARIANTS
  QueueTypeOK
  SlotNotShared
  CountReliable
  UartTypeOK
  OneTransfer
  TimingTypeOK
  UnsignedExact
  SignedExact
  HalTypeOK
  I2cTypeOK
  BusReady
PROPERTIES
  ImplementsFifo
  ImplementsStream
  RingDrains
  LedKeepsTime
  ButtonTimed
  OnlyMeantConditions
  ImplementsAccess
