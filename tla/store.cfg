\* Two connections, two names, two registrations, two ticks.
SPECIFICATION FairSpec
CONSTANTS
  Threads = {t1, t2}
  NoThread = NoThread
  Names = {n1, n2}
  NoName = NoName
  Data = {d1}
  Times <- MCTimes
  Calls <- MCCalls
  MaxTickers = 2
  MaxTicks = 2
INVARIANTS
  StoreInv
  UndefinedOnlyWhileReplaced
PROPERTIES
  Implements
  HistoryAppendOnly
  StableIds
  SomeCallReturns
  OnlyOverlapReorders
\* A wild access stops the process.
CHECK_DEADLOCK FALSE
