SPECIFICATION Spec
CONSTANTS
  u1 = u1
  u2 = u2
  d1 = d1
  d2 = d2
  None = None
  Users = {u1, u2}
  Devices = {d1, d2}
  Sockets = {s1, s2, s3}
  Account <- OneDeviceEach
  Statuses = {"online", "idle", "invisible"}
  Via = {"frame"}
  Slots = {}
SYMMETRY PeerSymmetry
VIEW LiveState
INVARIANTS ViewFaithful
PROPERTIES ImplementsBoard
\* The pool of socket names is finite: ghosts (GatewaySession_ghost.cfg) may use it up.
CHECK_DEADLOCK FALSE
