\* Values through functions and back; the debug functions; three clients.
SPECIFICATION FairSpec
CONSTANTS
  MaxInt = 7
  MaxLong = 31
  MaxDepth = 5
  Unit = 2
  Epsilon = 1
  Numerals <- MCNumerals
  GroupSize = 3
  GroupSetSize = 2
  All <- MCAll
  Inputs <- MCInputs
  Values <- MCValues
  Errors <- MCErrors
  Settings <- MCSettings
  Colon = 58
  Space = 32
  PYTHON <- MCPython
  InvalidLevel <- MCInvalid
  InvalidGroup <- MCInvalid
  Registered <- MCRegistered
  t1 = t1
  t2 = t2
  o1 = o1
  c1 = c1
  c2 = c2
  c3 = c3
  Threads = {t1, t2}
  Others = {o1}
  NoThread = NoThread
  Conns = {c1, c2, c3}
  Programs <- MCPrograms
  Elsewhere = {"push_tick"}
  Ids = {i1}
  Capacity = 1
  TrueRefs = 2
INVARIANTS
  ErrorsReachCaller
  RepliesToCallers
PROPERTIES
  StrayOnlyFromHuge
  RoundTripsSettle
  PlacesKept
  DictsComeBack
  AskingKeepsGroups
  SomeoneRuns
CHECK_DEADLOCK FALSE
