\* Requests that overtake the answer to another one
CONSTANTS
  Modes = {0}
  Adverts <- MCFixedAdverts
  MaxUnread = 2
  MaxDisturb = 4
  MessageEvents = {}
  QueueSize = 6
SPECIFICATION Spec
INVARIANT AlwaysAgreed
