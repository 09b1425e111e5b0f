\* Two elements and four laps: five messages take the laps around and beyond,
\* with calls that try and calls that block; one closer.
SPECIFICATION FairSpec
CONSTANTS
  Messages = {1, 2, 3, 4, 5}
  NoMsg = 0
  Capacity = 2
  LAP_MOD = 4
  Closers = {c1}
INVARIANTS
  ElementExclusive
PROPERTIES
  ImplementsChannel
  FailuresAreHonest
  CallsReturnOrSleep
  CloseReleases
