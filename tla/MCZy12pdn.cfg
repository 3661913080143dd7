\* The whole system
CONSTANTS
  Modes <- MCModes
  Adverts <- MCAdverts
  MaxUnread = 3
  MaxDisturb = 3
  MessageEvents = {}
  QueueSize = 6
SPECIFICATION FairSpec
INVARIANTS
  SystemTypeOK
  ContractAgreed
  KeepAliveReady
  OutputAllowed
  RequestHonourable
  CapsAnswered
  LedTruthful
PROPERTIES
  FixedVoltageSupplied
  LinkUsed
