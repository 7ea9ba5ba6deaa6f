SPECIFICATION Spec
CONSTANTS
  None = None
  Founder = f
  Users = {f, u1}
  Ops = {k1, k2}
  BanIds = {b1, b2}
  MaxUses = 1
  MaxJoins = 2
  Faults = TRUE
  Exercised = {"join", "leave", "kick", "ban", "unban", "transfer", "subscribe"}
SYMMETRY Symmetric
VIEW LiveState
INVARIANTS TypeOK SerialCount SerialRemoval SerialOwner InviteNotOvercharged
