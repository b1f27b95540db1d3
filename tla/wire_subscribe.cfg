\* A subscription while the server goes away.
SPECIFICATION Spec
CONSTANTS
  Names = {n1}
  Ids = {i1}
  Times = {x1}
  Lengths <- MCShort
  Data = {d1, d2}
  Nothing = Nothing
  MaxAhead = 3
INVARIANT SubscribedWhenToldSo
CHECK_DEADLOCK FALSE
