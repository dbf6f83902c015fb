CONSTANTS
  Publishers = {p1, p2}
  Subs = {s1}
  RingSize = 2
  ChanCap = 1
  MaxSeq = 4
SPECIFICATION FairSpec
CHECK_DEADLOCK FALSE
INVARIANTS
  TypeOK
  ReplayWindow
  SubscribeHasNoGap
  NoDuplicates
  PublisherOrder
  NoLeakedChannel
  RegisteredAreOpen
PROPERTIES
  PublishReturns
  DetachedStreamEnds
