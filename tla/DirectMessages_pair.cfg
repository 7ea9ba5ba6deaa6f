SPECIFICATION MCSpec
CONSTANTS
  None = None
  Users = {a, b}
  Watching = {a}
  Ops = {k1, k2}
  Exercised = {"request", "accept", "decline", "cancel", "remove", "block", "unblock", "ignore", "unignore"}
  Faults = TRUE
  MaxRequests = 3
  MaxBoots = 2
  Calls = {c1, c2}
  MaxCalls = 2
  MaxTurns = 1
SYMMETRY Symmetric
CONSTRAINT Scope
INVARIANTS BlockExcludes StoresTell OneChannel NothingPastTheGate
PROPERTIES Consent
CHECK_DEADLOCK FALSE
