\* Two callers of one key; nobody forgets it.
SPECIFICATION Spec
CONSTANTS
  Callers = {t1, t2}
  Forgetters = {}
  Keys = {k1}
  MaxExecs = 2
CHECK_DEADLOCK FALSE
INVARIANTS OnlyOneInFlight
