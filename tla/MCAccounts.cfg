SPECIFICATION Spec
CONSTANTS
  Names = {n1, n2}
  Passwords = {p1, p2}
  Tokens = {t1, t2, t3}
  Clients = {c1, c2}
  Logins = {l1, l2}
  MaxSessions = 2
  MaxEntries = 1
  MaxFailures = 2
  Window = 3
  Block = 1
  Life = 2
  Anonymous = Anonymous
SYMMETRY Symmetry
INVARIANTS TypeOK SessionsAreCurrent AdminRemains GuessesBounded
PROPERTIES OnlyAdminsEdit LiveSessionsKept
