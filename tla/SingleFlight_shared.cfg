\* Two callers, one of which also forgets: two executions race, share a call,
\* displace each other's call, or find it forgotten.
SPECIFICATION FairSpec
CONSTANTS
  Callers = {t1, t2}
  Forgetters = {t2}
  Keys = {k1, k2}
  MaxExecs = 2
CHECK_DEADLOCK FALSE
INVARIANTS ResultReady
PROPERTIES ImplementsGroup ExecReturns
