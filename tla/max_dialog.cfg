SPECIFICATION Spec
CONSTANTS
  Events = {e1, e2}
  e1 = e1
  e2 = e2
  Watch = Watch
  Silent = Silent
  GuardHistory = 2
  WatchHistory = 4
  OurLookback = 6
  OwnBurst = 1
  MaxHappenings = 3
SYMMETRY Symmetry
VIEW View
CHECK_DEADLOCK FALSE
INVARIANT TypeOK
INVARIANT NoSelfTakeover
INVARIANT GreetedOnce
INVARIANT StoredOnce
INVARIANT GuardSawToIt
