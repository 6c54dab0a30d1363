\* Two connections that subscribe and unsubscribe, and the event loop.
\* The lock orders may cross, and then the three tasks do stop: deadlock is not
\* an error of this model.
SPECIFICATION FairSpec
CONSTANTS
  c1 = c1
  c2 = c2
  loop = loop
  p1 = p1
  p2 = p2
  Conns = {c1, c2}
  Unsubscribers = {c1, c2}
  Publisher = loop
  Projects = {p1, p2}
  MaxCount = 2
PROPERTIES
  CallsAreAtomic
  ReturnsUnlessCrossed
CHECK_DEADLOCK FALSE
