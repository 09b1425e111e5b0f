\* Two senders and two receivers on two elements; three messages, so that the
\* ring wraps; one closer.  The mask is out of reach of three messages.
\* Nothing happens any more once the last handle is gone.
SPECIFICATION HandlesSpec
CONSTANTS
  Senders = {s1, s2}
  Receivers = {r1, r2}
  Closers = {c1}
  Messages = {m1, m2, m3}
  NoMsg = NoMsg
  Capacity = 2
  MPMC_MASK_32 = 16
SYMMETRY Symmetry
CHECK_DEADLOCK FALSE
INVARIANTS
  ElementExclusive
  ConserveInv
  MessagesConserved
  PendingDroppedOnce
PROPERTIES
  ImplementsChannel
  NoClaimAfterClose
  FailuresAreHonest
