\* Every kind of pull of two tickers whose stamps come in any order.
SPECIFICATION Spec
CONSTANTS
  Ids = {i1, i2}
  Times <- MCTimes
  Follows <- MCAnyOrder
  Pulls <- MCAllPulls
  MaxTicks = 2
  MaxUpdates = 2
INVARIANT CursorInv
PROPERTIES
  UpdatesAreNew
  RefusedOnlyWhenPassed
CHECK_DEADLOCK FALSE
