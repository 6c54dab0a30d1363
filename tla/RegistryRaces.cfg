\* Two clients, two directories of one name, two store writes pending at once.
SPECIFICATION Spec
CONSTANTS
  c1 = c1
  c2 = c2
  a1 = a1
  a2 = a2
  b1 = b1
  a = a
  b = b
  NoPath = NoPath
  Conns = {c1, c2}
  Paths = {a1, a2}
  Unsteady = {a1, a2}
  Ids = {a}
  NameOf <- OneName
  w1 = w1
  w2 = w2
  Slots = {w1, w2}
  CliIds = {a}
  Failing = {a}
SYMMETRY Alike
INVARIANTS
  OneWatcherPerProject
