SPECIFICATION FairSpec
CONSTANTS
  Queries = {q1}
  Addresses = {u1, e}
  Endpoints = {e}
  Rule = {u1}
  FailuresNeeded = 2
  MaxListed = 2
CHECK_DEADLOCK FALSE
INVARIANTS TypeOK FailsOnlyWhenAllFail ExcludedHaveFailed
PROPERTIES QueriesEnd ListedRecover
