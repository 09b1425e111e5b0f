\* Nodes of two messages: six messages grow the list twice, and a close links
\* a node of its own.
SPECIFICATION FairSpec
CONSTANTS
  MaxMessages = 6
  Closers = {c1}
  NodeCap = 2
  MaxNodes = 4
  MaxCloses = 1
CHECK_DEADLOCK FALSE
INVARIANTS SafeUntilClose
PROPERTIES ImplementsChannel ErrorsOnlyByClose CallsReturn CloseReleases
