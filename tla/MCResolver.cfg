SPECIFICATION Spec
CONSTANTS
  Queries = {q1, q2}
  Clients = {c1, c2}
  Names = {n1, n2}
  Addresses = {a1, a2}
  SERVFAIL = SERVFAIL
  CacheSize = 1
  CacheTTL = 2
  MaxTTL = 2
  PerSecond = 2
  MaxClock = 4
  Uint32 = 4
SYMMETRY Symmetry
INVARIANTS TypeOK BlockedNeverAnswered
PROPERTIES CachedRepliesAreAlive
