SPECIFICATION MCSpec
CONSTANTS
  None = None
  Topics = {t1}
  Channel = t1
  Server = t1
  n1 = n1
  n2 = n2
  n3 = n3
  g1 = g1
  g2 = g2
  Chans = {n1, n2, n3}
  Cats = {g1, g2}
  Acts = {j1, j2}
  Loads = {f1, f2}
  MaxPlace = 4
  MaxActs = 2
  MaxVisits = 2
  MaxThrows = 1
  Asked = {"create", "update", "delete", "restore", "harddelete", "reorder", "addcat", "dropcat", "sortcats", "swap"}
  Conns = {c1, c2}
  Loops = {l1, l2}
  Calls = {k1}
  MaxCalls = 5
  MaxBreaks = 2
  Page = 1
  Jobs = {j1, j2}
  Fetches = {f1, f2}
  MaxPosts = 3
  MaxJobs = 2
  MaxLoads = 3
  MaxFlips = 2
  Exercised = {"post", "send", "embed", "update", "clear", "delete", "restore", "harddelete", "pin", "unpin"}
  MaxFaults = 1
SYMMETRY Symmetric
INVARIANTS PageTypeOK FramesMirror CacheTells SidebarTells PlacesApart NothingVanishes
CHECK_DEADLOCK FALSE
