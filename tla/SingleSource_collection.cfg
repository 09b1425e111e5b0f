\* One source and one adder more than calls, and a second collection.
SPECIFICATION FairSpec
CONSTANTS
  Adders = {a1, a2, a3}
  Keys = {k1, k2, k3}
  MaxLen = 2
  MaxResets = 1
CHECK_DEADLOCK FALSE
INVARIANTS CallExclusive SumIsComplete RefusalsAreHonest
PROPERTIES SumReturns
