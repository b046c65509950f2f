SPECIFICATION FairSpec
CONSTANTS
  Goroutines = {p1, m1, gravity, loader}
  NoOne = NoOne
  Queries = {}
  Probes = {p1}
  Requests = {m1}
  Gravity = gravity
  Loader = loader
  Consoles = {}
  Rules = {r1}
  Others = {}
  Invalid = {}
PROPERTIES ProbesAnswered
CHECK_DEADLOCK FALSE
