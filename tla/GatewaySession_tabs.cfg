SPECIFICATION Spec
CONSTANTS
  u1 = u1
  u2 = u2
  d1 = d1
  d2 = d2
  None = None
  Users = {u1}
  Devices = {d1, d2}
  Sockets = {s1, s2}
  Account <- TwoTabs
  Statuses = {"online", "invisible"}
  Via = {"frame", "cookie"}
  Slots = {1}
SYMMETRY TabSymmetry
VIEW LiveState
INVARIANTS RegisteredHasPresence
PROPERTIES NoPrematureOffline
\* The pool of socket names is finite: ghosts (GatewaySession_ghost.cfg) may use it up.
CHECK_DEADLOCK FALSE
