SPECIFICATION Spec
CONSTANTS
  Senders = {s1, s2}
  Receivers = {r1, r2}
  Closers = {c1}
  MaxMessages = 3
  NodeCap = 1
  MaxCloses = 2
SYMMETRY Symmetry
CHECK_DEADLOCK FALSE
INVARIANTS TypeOK SafeUntilGrowth OneCloseGetsThrough SpinningEnds
PROPERTIES ImplementsChannel ErrorsOnlyByClose
