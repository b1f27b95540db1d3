\* One ticker followed by its updates, stamps in order and apart.
SPECIFICATION FairSpec
CONSTANTS
  Ids = {i1}
  Times <- MCSpacedTimes
  Follows <- MCSpaced
  Pulls <- MCUpdatesOnly
  MaxTicks = 5
  MaxUpdates = 6
PROPERTIES
  FollowsEveryTick
  EveryTickComes
CHECK_DEADLOCK FALSE
