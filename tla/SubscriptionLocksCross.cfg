\* Is every unsubscribe answered?
SPECIFICATION FairSpec
CONSTANTS
  c1 = c1
  c2 = c2
  loop = loop
  p1 = p1
  p2 = p2
  Conns = {c1, c2}
  Unsubscribers = {c2}
  Publisher = loop
  Projects = {p1, p2}
  MaxCount = 2
PROPERTIES
  UnsubscribeReturns
CHECK_DEADLOCK FALSE
