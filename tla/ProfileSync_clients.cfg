SPECIFICATION SyncFairSpec
CONSTANTS
  Nothing = Nothing
  Failed = Failed
  Clients = {c1, c2}
  Watching = {c1}
  Dids = {d1}
  Hashes = {h1, h2}
  Fetches = {k1, k2}
  MaxChanges = 2
INVARIANTS RefcountExact LoadsAreTracked
PROPERTIES TracksRemote ComesBack
