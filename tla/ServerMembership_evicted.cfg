SPECIFICATION Spec
CONSTANTS
  None = None
  Founder = f
  Users = {f, u1}
  Ops = {k1, k2}
  BanIds = {b1, b2}
  MaxUses = 0
  MaxJoins = 1
  Faults = FALSE
  Exercised = {"join", "leave", "kick", "ban", "unban", "transfer", "subscribe"}
INVARIANTS EvictedStaysOut
