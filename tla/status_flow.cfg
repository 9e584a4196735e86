SPECIFICATION Spec
CONSTANTS
  Dialogs = {d1}
  d1 = d1
  Elsewhere = {x}
  x = x
  Sessions = {s1, s2}
  s1 = s1
  s2 = s2
  Facts = {"checkout"}
  Active = {"interested", "calculated", "hot", "data", "prepay", "order"}
  Named = {"calculated", "order", "curator"}
  MinDialogs = 2
  MaxParts = 2
  MaxHappenings = 3
SYMMETRY Symmetry
INVARIANT TypeOK
INVARIANT StatusIsEarned
PROPERTY StatusMovesUp
PROPERTY FunnelSparesTheTaken
PROPERTY AnnouncedOnce
CHECK_DEADLOCK FALSE
