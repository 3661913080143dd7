\* A short press at start
CONSTANTS
  Modes = {9}
  Adverts <- MCFixedAdverts
  MaxUnread = 2
  MaxDisturb = 2
  MessageEvents = {}
  QueueSize = 6
SPECIFICATION FairSpec
PROPERTY FixedModeSettles
