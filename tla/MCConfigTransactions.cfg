SPECIFICATION Spec
CONSTANTS
  Goroutines = {q1, p1, m1, m2, c1, gravity, loader}
  NoOne = NoOne
  Queries = {q1}
  Probes = {p1}
  Requests = {m1, m2}
  Gravity = gravity
  Loader = loader
  Consoles = {c1}
  Rules = {r1}
  Others = {n1, b1}
  Invalid = {b1}
SYMMETRY Symmetry
INVARIANTS TypeOK QueryStable DiskMatchesConfig IndexMatchesConfig CacheIsCurrent WaitsAreServed
PROPERTIES ImplementsConfigStore
CHECK_DEADLOCK FALSE
