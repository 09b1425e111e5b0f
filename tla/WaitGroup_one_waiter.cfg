\* Two members, one waiter, two adds: the group is used for several rounds.
\* One done may come without an add.
SPECIFICATION FairSpec
CONSTANTS
  Members = {a, b}
  Waiters = {w}
  COUNT_MOD = 8
  MaxAdd = 2
  MaxAdds = 2
  MaxUnmatched = 1
INVARIANTS AccountInv NoLostWakeup
PROPERTIES ZeroReleases FirstUnmatchedPanics
