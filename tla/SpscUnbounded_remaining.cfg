\* Three messages in nodes of two, then a close.
SPECIFICATION Spec
CONSTANTS
  MaxMessages = 3
  Closers = {c1}
  NodeCap = 2
  MaxNodes = 3
  MaxCloses = 1
CHECK_DEADLOCK FALSE
PROPERTIES RemainingCanBeReceived
