SPECIFICATION Spec
CONSTANTS
  Goroutines = {q1, m1, m2, gravity, loader}
  NoOne = NoOne
  Queries = {q1}
  Probes = {}
  Requests = {m1, m2}
  Gravity = gravity
  Loader = loader
  Consoles = {}
  Rules = {r1}
  Others = {n1, b1}
  Invalid = {b1}
INVARIANTS JudgedOnItsOwn
