\* A receiver may be about to sleep when the only message is sent.  Nobody closes.
SPECIFICATION FairSpec
CONSTANTS
  Senders = {s1}
  Receivers = {r1}
  Closers = {}
  Messages = {m1}
  NoMsg = NoMsg
  Capacity = 1
  MPMC_MASK_32 = 16
PROPERTIES NobodySleepsOnWork
