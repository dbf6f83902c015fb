CONSTANTS
  Publishers = {p1}
  Subs = {s1}
  RingSize = 2
  ChanCap = 1
  MaxSeq = 2
SPECIFICATION Spec
SYMMETRY Symmetry
CHECK_DEADLOCK FALSE
INVARIANTS
  SubscribeSinceHasNoGap
