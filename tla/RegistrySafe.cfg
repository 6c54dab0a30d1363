\* Two clients, two projects, two store writes pending at once.
SPECIFICATION Spec
CONSTANTS
  c1 = c1
  c2 = c2
  a1 = a1
  a2 = a2
  b1 = b1
  a = a
  b = b
  NoPath = NoPath
  Conns = {c1, c2}
  Paths = {a1, b1}
  Unsteady = {b1}
  Ids = {a, b}
  NameOf <- TwoNames
  w1 = w1
  w2 = w2
  Slots = {w1, w2}
  CliIds = {a, b}
  Failing = {a, b}
SYMMETRY Alike
INVARIANTS
  TypeOK
  NoBlindProject
  WatchersAgree
  StoreAgrees
PROPERTIES
  RestoreSettles
