SPECIFICATION FairSpec
CONSTANTS
  Goroutines = {m1, c1, gravity, loader}
  NoOne = NoOne
  Queries = {}
  Probes = {}
  Requests = {m1}
  Gravity = gravity
  Loader = loader
  Consoles = {c1}
  Rules = {r1}
  Others = {n1}
  Invalid = {}
PROPERTIES CommandsReturn
CHECK_DEADLOCK FALSE
