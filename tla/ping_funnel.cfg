SPECIFICATION Spec
CONSTANTS
  r1 = r1
  r2 = r2
  Requests = {r1, r2}
  Guard = guard
  Worker = worker
  Discover = discover
  NoOne = noone
  Rules = {0, 1}
  MaxMisfires = 2
  MaxActs = 2
  MaxPasses = 1
  MaxCrashes = 1
SYMMETRY Symmetry
INVARIANTS TypeOK NoPingAfterPeople NoPingTwice WorkerKeepsItsRow
CHECK_DEADLOCK FALSE
