\* Every call, every length, either end going away at any time.
SPECIFICATION FairSpec
CONSTANTS
  Names = {n1}
  Ids = {i1}
  Times = {x1}
  Lengths <- MCLengths
  Data = {d1, d2}
  Nothing = Nothing
  MaxAhead = 3
INVARIANTS
  TypeOK
  InStep
  ResultIsReal
  StoredWhole
  AnsweredBeforeClose
PROPERTIES
  AtMostOnce
  CallReturns
\* A closed connection stops.
CHECK_DEADLOCK FALSE
