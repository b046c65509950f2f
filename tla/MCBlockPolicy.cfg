SPECIFICATION Spec
CONSTANTS
  wild = wild
  l1 = l1
  l2 = l2
  r1 = r1
  r2 = r2
  Names = {1, 2}
  Patterns = {wild}
  Matching <- MCMatching
  Local = {l1, l2}
  Remote = {r1, r2}
  Yields <- MCYields
  Builtin = {1}
  Legacy = {l1}
  Manual = Manual
  None = None
INVARIANTS TypeOK UnlimitedDecisions LimitsHold OwnListsApply
VIEW Told
