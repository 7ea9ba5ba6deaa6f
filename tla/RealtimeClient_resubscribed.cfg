SPECIFICATION ClientSpec
CONSTANTS
  None = None
  Topics = {t1}
  Conns = {c1, c2}
  Loops = {l1}
  Calls = {k1}
  MaxCalls = 3
  MaxBreaks = 1
INVARIANTS Resubscribed
CHECK_DEADLOCK FALSE
