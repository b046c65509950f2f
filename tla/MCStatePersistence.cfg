SPECIFICATION FairSpec
CONSTANTS
  Handlers = {h1, h2}
  Clearable = {"log"}
  MaxRestarts = 1
  ReadErrors = TRUE
INVARIANTS TypeOK NoLostRequest StopFlushes
PROPERTIES ImplementsDurableState EventuallyDurable StopReturns
CHECK_DEADLOCK FALSE
