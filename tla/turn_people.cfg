SPECIFICATION Spec
CONSTANTS
  Tasks = {t1, t2}
  t1 = t1
  t2 = t2
  Msgs = {m1, m2}
  m1 = m1
  m2 = m2
  Panel = Panel
  NoOne = NoOne
  MaxParts = 2
  MaxHuman = 2
  MaxCrashes = 1
SYMMETRY Symmetry
CONSTRAINT FewDisturbances
CHECK_DEADLOCK FALSE
INVARIANT TypeOK
INVARIANT OneTurnAtATime
INVARIANT TurnsNeverInterleave
INVARIANT AnswersInOrder
INVARIANT MarksAreHonest
INVARIANT OwnEchoIsRecognised
INVARIANT TakeoverHolds
PROPERTY LockIsFairMutex
