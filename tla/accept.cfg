\* Five clients that come and go, and four descriptors.
SPECIFICATION FairSpec
CONSTANTS
  MaxFiles = 4
  MaxClients = 5
INVARIANTS
  AcceptInv
  LostOnlyWhenOvertaken
PROPERTIES
  NewestIsServed
  WearsOut
CHECK_DEADLOCK FALSE
