SPECIFICATION FairSpec
CONSTANTS
  r1 = r1
  r2 = r2
  Requests = {r1}
  Guard = guard
  Worker = worker
  Discover = discover
  NoOne = noone
  Rules = {0}
  MaxMisfires = 1
  MaxActs = 1
  MaxPasses = 0
  MaxCrashes = 0
PROPERTIES GuardsPauseLands
CHECK_DEADLOCK FALSE
