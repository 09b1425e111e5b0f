\* One member, two waiters: both are to be released by one done.
SPECIFICATION FairSpec
CONSTANTS
  Members = {a}
  Waiters = {v, w}
  COUNT_MOD = 8
  MaxAdd = 2
  MaxAdds = 2
  MaxUnmatched = 0
PROPERTIES ZeroReleases
