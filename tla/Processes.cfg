\* Paths of up to three names; disks whose scan the depth, the entries, the
\* filter and a link cut short.  One root, a file builds leave behind and one
\* the filter leaves out, two contents.
\* Two machines and two events on one file, over a channel of two messages; two
\* relays and one tick of silence; three starts; two projects and two commands
\* of the plugin.
\* A clock and a set of processes may run out, and the plugin's loop is stuck:
\* a part may stop.
SPECIFICATION ProcessesSpec
CHECK_DEADLOCK FALSE
CONSTANTS
  na = na
  nb = nb
  nc = nc
  r1 = r1
  f1 = f1
  f2 = f2
  Big = Big
  Gone = Gone
  h1 = h1
  h2 = h2
  Names = {na, nb, nc}
  Rank <- Alphabetical
  IgnoredNames = {nc}
  Disks <- TwoDisks
  MaxDepth = 2
  MaxEntries = 3
  Paths <- SomePaths
  Roots = {r1}
  WFiles = {f1, f2}
  RootOf <- OneRoot
  Filtered = {f2}
  BuildFiles = {f1}
  Hashes = {h1, h2}
  MaxReports = 2
  MaxIndex = 2
  m1 = m1
  m2 = m2
  e1 = e1
  e2 = e2
  path = path
  Machines = {m1, m2}
  SyncEvents = {e1, e2}
  Home <- OneHome
  PathOf <- OneFile
  Cap = 2
  MaxNow = 1
  GwProjects = {project}
  GwMachines = {m1, m2}
  Relays = {relay1, relay2}
  Silence = 1
  MaxBuffer = 1
  MaxTicks = 3
  Processes = {d1, d2, d3}
  Nobody = Nobody
  Blank = Blank
  Topics = {t1, t2}
  Commands = {k1, k2}
INVARIANTS
  TreesTypeOK
  ReplicaFollows
  LastHashIsCurrent
  ProcessesTypeOK
  CleanSyncComplete
  ActiveIsRouted
  OneDaemon
  TrackedIsSubscribed
