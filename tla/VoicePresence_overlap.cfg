SPECIFICATION FairSpec
CONSTANTS
  None = None
  Faults = TRUE
  Users = {u1}
  Sockets = {s1, s2}
  Channels = {c1, c2}
  Ops = {k1, k2}
  Rows = {r1, r2, r3}

INVARIANTS TypeOK SerialVoiceAgrees
PROPERTIES OnlyLastTabLeaves LeaveIsSeen
