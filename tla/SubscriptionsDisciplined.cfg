\* Clients unsubscribe only from what they subscribed to.
SPECIFICATION FairSpec
CONSTANTS
  c1 = c1
  c2 = c2
  p1 = p1
  p2 = p2
  Conns = {c1, c2}
  Undisciplined = {}
  Slow = {c1}
  Projects = {p1, p2}
  Capacity = 1
  MaxPublished <- IdleAndBusy
  MaxCount = 2
CHECK_DEADLOCK FALSE
INVARIANTS
  SubscribersAttached
  CountCoversReceivers
PROPERTIES
  ServesMembers
