\* Two receivers wait for one sender of two messages on one element; a closer.
SPECIFICATION BoundedSpec
CONSTANTS
  Senders = {s1}
  Receivers = {r1, r2}
  Closers = {c1}
  Messages = {m1, m2}
  NoMsg = NoMsg
  Capacity = 1
  MPMC_MASK_32 = 16
SYMMETRY Symmetry
INVARIANTS
  RegistrySound
  EmptyFlagExact
  NobodySleepsAfterClose
PROPERTIES
  LastTryIsHonest
  SkipIsSafe
