\* One file, which an agent works on, under fairness.
SPECIFICATION FairSpec
CONSTANTS
  f = f
  g = g
  app = app
  Files = {f}
  Keys = {app}
  Owner <- FileOwner
  Prefixed <- FilePrefix
  Restored = {app}
  Default = Default
  AgentFiles = {f}
  Subscribed = app
  Queries = {}
  MaxEvents = 2
PROPERTIES
  EventuallyHandled
\* The daemon exits, and the number of events is bounded: the system may stop.
CHECK_DEADLOCK FALSE
