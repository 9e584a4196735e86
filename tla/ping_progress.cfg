SPECIFICATION FairSpec
CONSTANTS
  r1 = r1
  r2 = r2
  Requests = {r1, r2}
  Guard = guard
  Worker = worker
  Discover = discover
  NoOne = noone
  Rules = {0}
  MaxMisfires = 1
  MaxActs = 2
  MaxPasses = 1
  MaxCrashes = 0
PROPERTIES RequestsEnd PassEnds
CHECK_DEADLOCK FALSE
