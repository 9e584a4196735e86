SPECIFICATION FairSpec
CONSTANTS
  Tasks = {t1, t2}
  t1 = t1
  t2 = t2
  Msgs = {m1, m2}
  m1 = m1
  m2 = m2
  Panel = Panel
  NoOne = NoOne
  MaxParts = 1
  MaxHuman = 1
  MaxCrashes = 0
CHECK_DEADLOCK FALSE
PROPERTY MessageIsTakenUp
PROPERTY EveryHandlerEnds
