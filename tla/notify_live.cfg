\* One listener that keeps waiting and two pushers.
SPECIFICATION FairSpec
CONSTANTS
  Listeners = {l1}
  Pushers = {p1, p2}
  NoOne = NoOne
  Ids = {i1}
  MaxNodes = 2
  Capacity = 1
PROPERTY SomeWalkEnds
CHECK_DEADLOCK FALSE
