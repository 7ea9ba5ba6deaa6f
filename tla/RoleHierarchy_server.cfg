SPECIFICATION MCSpec
CONSTANTS
  None = None
  Everyone = everyone
  Admin = admin
  Manage = manage
  Trash = trash
  Bits = {admin, manage, trash}
  boss = o
  mate = m
  r1 = r1
  r2 = r2
  Members = {o, m}
  RoleIds = {r1, r2, r3}
  Masks <- MCMasks
  Ops = {k1, k2}
  Exercised <- MCExercised
  Faults = TRUE
  MaxRequests = 5
  MaxNamed = 4
  MaxPosition = 4
SYMMETRY Symmetric
CONSTRAINT Apiece
INVARIANTS TypeOK OwnHeight NothingFromNowhere FoldDecides
PROPERTIES KeepsItsPlace
CHECK_DEADLOCK FALSE
