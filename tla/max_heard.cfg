SPECIFICATION FairSpec
CONSTANTS
  Events = {e1}
  e1 = e1
  Watch = Watch
  Silent = Silent
  GuardHistory = 2
  WatchHistory = 4
  OurLookback = 6
  OwnBurst = 1
  MaxHappenings = 3
CHECK_DEADLOCK FALSE
PROPERTY ManagerIsHeard
