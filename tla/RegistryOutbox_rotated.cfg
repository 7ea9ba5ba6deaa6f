SPECIFICATION MCSpec
CONSTANTS
  None = None
  Poller = poller
  Rotators = {r1, r2}
  Requests = {k1, k2}
  Delegations = {d1}
  Urls = {u1}
  MaxRoots = 3
  MaxFaults = 1
  MaxAttempts = 2
  MaxJobs = 3
  MaxRequests = 3
  Asked = {"add", "remove", "sync", "retry", "cancel"}
SYMMETRY Symmetric
VIEW LiveState
INVARIANTS ChainVerifies SeedIsHead DelegationsVouched AtLeastOnce SignedByRoot StatusTells
PROPERTIES TerminalStays
CHECK_DEADLOCK FALSE
