SPECIFICATION FairSpec
CONSTANTS
  d1 = d1
  d2 = d2
  d3 = d3
  d4 = d4
  t1 = t1
  t2 = t2
  t3 = t3
  l1 = l1
  l2 = l2
  l3 = l3
  l4 = l4
  l5 = l5
  l6 = l6
  l7 = l7
  Dialogs = {d1, d2, d3, d4}
  Tasks = {t1, t2, t3}
  Locks = {l1, l2, l3, l4, l5, l6, l7}
  Threshold = 1
  NoLock = NoLock
  NoDialog = NoDialog
INVARIANT TypeOK
INVARIANT RegistryIsBounded
PROPERTY ImplementsFairMutex
PROPERTY WaiterGetsIn
