----------------------------- MODULE ProfileSync -----------------------------
(***************************************************************************)
(* ProfileWatcher together with the profile store of the apps              *)
(* (packages/ts/app-core/src/lib/stores/profiles.svelte.ts): a client      *)
(* loads a profile once, keeps it, and loads it again after PROFILE_UPDATE *)
(* has told it to.  Loads are answered late, and in any order.             *)
(***************************************************************************)
EXTENDS ProfileWatcher

CONSTANTS Failed,   \* what the cache holds after a failed load
          Watching  \* the clients whose store is looked at

ASSUME SyncFailed == Failed \notin Hashes \cup {Nothing}
ASSUME SyncWatching == Watching \subseteq Clients

VARIABLES
  cache,      \* cache[c][d]: the profile (its hash) the client shows, or Nothing
  inflight,   \* inflight[c]: the DIDs the store believes are being loaded
  loads       \* loads[c][d]: loads under way, with the answer once it is made

store == <<cache, inflight, loads>>
allvars == <<watchVars, store>>

(* `old` is history: the profile was invalidated after the load began.     *)
Load == [hash : Hashes \cup {Nothing}, old : BOOLEAN]
NewLoad == [hash |-> Nothing, old |-> FALSE]

StoreTypeOK ==
  /\ cache \in [Watching -> [Dids -> Hashes \cup {Nothing, Failed}]]
  /\ inflight \in [Watching -> SUBSET Dids]
  /\ loads \in [Watching -> [Dids -> SUBSET Load]]

SyncInit ==
  /\ WatchInit
  /\ cache = [c \in Watching |-> [d \in Dids |-> Nothing]]
  /\ inflight = [c \in Watching |-> {}]
  /\ loads = [c \in Watching |-> [d \in Dids |-> {}]]

-----------------------------------------------------------------------------
(* resolveProfile: not cached and not being loaded, so load it.            *)
Resolve(c, d) ==
  /\ cache[c][d] = Nothing /\ d \notin inflight[c]
  /\ inflight' = [inflight EXCEPT ![c] = @ \cup {d}]
  /\ loads' = [loads EXCEPT ![c][d] = @ \cup {NewLoad}]
  /\ UNCHANGED <<watchVars, cache>>

(* The home instance answers a load with the profile of the moment.        *)
Serve(c, d, l) ==
  /\ l \in loads[c][d] /\ l.hash = Nothing
  /\ loads' = [loads EXCEPT ![c][d] =
                 (@ \ {l}) \cup {[l EXCEPT !.hash = remote[d]]}]
  /\ UNCHANGED <<watchVars, cache, inflight>>

(* fetchAndCache ends: the answer, or the failure, is stored whatever has  *)
(* happened since, and `finally` forgets the load the map holds now.       *)
Install(c, d, l, value) ==
  /\ l \in loads[c][d]
  /\ cache' = [cache EXCEPT ![c][d] = value]
  /\ inflight' = [inflight EXCEPT ![c] = @ \ {d}]
  /\ loads' = [loads EXCEPT ![c][d] = @ \ {l}]
  /\ UNCHANGED watchVars

\* Mutant: a failed load is neither stored nor forgotten.
FailureLost(c, d, l) ==
  \/ l.hash # Nothing /\ Install(c, d, l, l.hash)
  \/ /\ l.hash = Nothing
     /\ loads' = [loads EXCEPT ![c][d] = @ \ {l}]
     /\ UNCHANGED <<watchVars, cache, inflight>>

LoadEnds(c, d, l) ==
  \/ l.hash # Nothing /\ Install(c, d, l, l.hash)
  \/ l.hash = Nothing /\ Install(c, d, l, Failed)

Aged(ls) == {[l EXCEPT !.old = TRUE] : l \in ls}

\* Mutant: the load map keeps the load that was under way.
InvalidateCacheOnly(d) ==
  /\ cache' = [c \in Watching |-> [cache[c] EXCEPT ![d] = Nothing]]
  /\ loads' = [c \in Watching |-> [loads[c] EXCEPT ![d] = Aged(@)]]
  /\ UNCHANGED inflight

(* invalidateProfile, in every client: the broadcast goes to all of them.  *)
Invalidate(d) ==
  /\ cache' = [c \in Watching |-> [cache[c] EXCEPT ![d] = Nothing]]
  /\ inflight' = [c \in Watching |-> inflight[c] \ {d}]
  /\ loads' = [c \in Watching |-> [loads[c] EXCEPT ![d] = Aged(@)]]

HashTaken(k) ==
  /\ TakeHash(k)
  /\ IF Broadcasts(k) THEN Invalidate(fetches[k].did) ELSE UNCHANGED store

ServerOnly ==
  /\ \/ \E c \in Clients : SocketFrame(c)
     \/ Poll
     \/ \E k \in Fetches : (\E d \in Dids : StartFetch(k, d)) \/ Answer(k)
                           \/ FetchFails(k)
     \/ \E d \in Dids, h \in Hashes : RemoteChange(d, h)
  /\ UNCHANGED store

ClientStep(c, d) ==
  \/ Resolve(c, d)
  \/ \E l \in loads[c][d] : Serve(c, d, l) \/ LoadEnds(c, d, l)

SyncNext ==
  \/ \E c \in Watching, d \in Dids : ClientStep(c, d)
  \/ \E k \in Fetches : HashTaken(k)
  \/ ServerOnly

SyncSpec == SyncInit /\ [][SyncNext]_allvars

(* Every load ends, answered or not; a client that shows a profile asks    *)
(* for it (the derived expression runs again when the cache entry goes).   *)
SyncFairness ==
  \A c \in Watching, d \in Dids :
    /\ WF_allvars(Resolve(c, d))
    /\ \A l \in Load : WF_allvars(Serve(c, d, l) \/ LoadEnds(c, d, l))

SyncFairSpec == SyncSpec /\ Fairness /\ SyncFairness

-----------------------------------------------------------------------------
Recent(c, d) == {l \in loads[c][d] : ~l.old}

(* While a profile is not shown, the store believes it is being loaded     *)
(* exactly when a load begun since the last invalidation is under way, and *)
(* there is one such load at most: no spinner that nothing will end, and   *)
(* no second request for the same version.                                 *)
LoadsAreTracked ==
  StoreTypeOK /\ \A c \in Watching, d \in Dids :
    /\ cache[c][d] = Nothing => (d \in inflight[c] <=> Recent(c, d) # {})
    /\ d \in inflight[c] => Cardinality(Recent(c, d)) = 1

(* However often it is invalidated, a profile that a client looks at is    *)
(* shown again, or shown as failed, in the end.                            *)
ComesBack == \A c \in Watching, d \in Dids : cache[c][d] = Nothing ~> cache[c][d] # Nothing
=============================================================================
