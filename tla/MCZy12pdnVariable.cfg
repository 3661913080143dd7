\* A source with a variable supply
CONSTANTS
  Modes = {0, 12, 100}
  Adverts <- MCVariableAdverts
  MaxUnread = 2
  MaxDisturb = 1
  MessageEvents = {}
  QueueSize = 6
SPECIFICATION Spec
INVARIANT CapsAnswered
