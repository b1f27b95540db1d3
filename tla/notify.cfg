\* Two listeners and two pushers of one ticker.
SPECIFICATION Spec
CONSTANTS
  Listeners = {l1, l2}
  Pushers = {p1, p2}
  NoOne = NoOne
  Ids = {i1}
  MaxNodes = 2
  Capacity = 1
INVARIANTS
  NodesAccounted
  EveryoneNotified
  KilledOnlyBySubscriber
PROPERTY OneTickerInOrder
CHECK_DEADLOCK FALSE
SYMMETRY ConnSymmetry
