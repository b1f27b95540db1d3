\* One listener and one pusher.
SPECIFICATION Spec
CONSTANTS
  Listeners = {l1}
  Pushers = {p1}
  NoOne = NoOne
  Ids = {i1}
  MaxNodes = 1
  Capacity = 4
INVARIANT RepliesAndUpdatesApart
CHECK_DEADLOCK FALSE
