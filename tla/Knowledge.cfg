\* One file analysed by two tasks at once under one permit; two agents and two
\* connections, staleness by the next tick; two pruners beside one writer; two
\* calls of a client, two notifications and a place for one.
\* The bounds on the clock, the days and the counted reports, or a connection
\* that ends, may stop a part.
SPECIFICATION KnowledgeSpec
CHECK_DEADLOCK FALSE
CONSTANTS
  a1 = a1
  c1 = c1
  e1 = e1
  e2 = e2
  NoContent = NoContent
  Files = {f}
  Contents <- TwoContents
  Spoken = {f}
  UsesLlm = TRUE
  MaxConcurrent = 1
  MaxTasks = 2
  Agents = {a1, a2}
  AgentFiles = {f}
  Reporters = {c1, c2}
  Timeout = 0
  MaxClock = 1
  MaxRefs = 2
  LookedAt = f
  Occurrences = {o1, o2}
  NoAgent = NoAgent
  Writers = {w}
  Pruners = {p1, p2}
  Events = {e1, e2}
  Stamp <- OneDayApart
  Batches <- OneBatch
  Retention = 1
  MaxDay = 2
  MaxCalls = 2
  NoteBuffer = 1
  MaxNotes = 2
INVARIANTS
  KnowledgeTypeOK
  CacheFollowsEvents
  ListedIsCounted
  AwarenessConsistent
  RecordedImpliesTables
  AcceptedKept
  ClientTypeOK
  OwnAnswer
PROPERTIES
  WaitersServed
  CallsSettle
