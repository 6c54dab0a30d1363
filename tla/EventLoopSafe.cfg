\* One restored project with two files; a client subscribes, then asks.
SPECIFICATION Spec
CONSTANTS
  f = f
  g = g
  app = app
  Files = {f, g}
  Keys = {app}
  Owner <- OneOwner
  Prefixed <- OnePrefix
  Restored = {app}
  Default = Default
  AgentFiles = {}
  Subscribed = app
  Queries = {"events", "tree"}
  MaxEvents = 2
INVARIANTS
  TypeOK
  CatchUpComplete
  PatchesRebuildTree
  SeenIsDurable
\* The daemon exits, and the number of events is bounded: the system may stop.
CHECK_DEADLOCK FALSE
