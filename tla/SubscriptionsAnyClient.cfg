\* One client of each kind: c3 may unsubscribe from what it never subscribed to.
SPECIFICATION FairSpec
CONSTANTS
  c1 = c1
  c3 = c3
  p1 = p1
  p2 = p2
  Conns = {c1, c3}
  Undisciplined = {c3}
  Slow = {c1}
  Projects = {p1}
  Capacity = 1
  MaxPublished <- TwoBroadcasts
  MaxCount = 2
CHECK_DEADLOCK FALSE
INVARIANTS
  TypeOK
  ChannelIffCounted
  LostOnlyToLag
PROPERTIES
  InOrderOnce
  EventuallyPassed
  HangUpNoticed
  ClosedNoticed
