---------------------------- MODULE Gateway_proofs ----------------------------
(***************************************************************************)
(* What the gateway keeps in memory of its sockets: the profiles they look *)
(* at (ProfileWatcher, and ProfileSync with the stores of the clients),    *)
(* and their sessions and presence (GatewaySession).                       *)
(***************************************************************************)
EXTENDS GatewaySession, ProfileSync, FiniteSetTheorems, TLAPS

-----------------------------------------------------------------------------
(***************************************************************************)
(* The reference counts of the profile watcher are exact for any number of *)
(* sockets, DIDs, hashes and overlapping fetches.  WatchTypeOK and         *)
(* RefcountExact are inductive together: an increment needs the count to   *)
(* be a number, a decrement needs it to be the number of watchers.         *)
(* The in-flight map of the profile store is exact for any number of       *)
(* clients, with the watcher that invalidates at any moment; and the       *)
(* watcher keeps its reference counts in that company.  Tracking is        *)
(* inductive once answers are known to be hashes.                          *)
(***************************************************************************)

WatchInv == WatchTypeOK /\ RefcountExact

(* Some of the sockets is a finite number of sockets. *)
LEMMA WatchersFinite ==
  ASSUME NEW d \in Dids
  PROVE  /\ IsFiniteSet(Watchers(d))
         /\ Cardinality(Watchers(d)) \in Nat
         /\ Cardinality(Watchers(d)) = 0 <=> Watchers(d) = {}
<1>1. Watchers(d) \subseteq Clients
  BY DEF Watchers
<1>2. IsFiniteSet(Watchers(d))
  BY <1>1, FS_Subset, WatcherFinite
<1> QED
  BY <1>2, FS_CardinalityType, FS_EmptySet

LEMMA WatchStarts == WatchInit => WatchInv
<1> SUFFICES ASSUME WatchInit PROVE WatchInv
  OBVIOUS
<1>1. WatchTypeOK
  BY WatcherBound DEF WatchInit, WatchTypeOK
<1>2. RefcountExact
  BY DEF WatchInit, RefcountExact, Watchers
<1> QED
  BY <1>1, <1>2 DEF WatchInv

(* A step that leaves the registrations and the entries' counts alone.     *)
LEMMA SameCounts ==
  ASSUME WatchInv, WatchTypeOK', clientSubs' = clientSubs,
         \A d \in Dids : /\ watches'[d] = Nothing <=> watches[d] = Nothing
                         /\ watches[d] # Nothing =>
                              watches'[d].refcount = watches[d].refcount
  PROVE  RefcountExact'
<1>1. \A d \in Dids : Watchers(d)' = Watchers(d)
  BY DEF Watchers
<1> QED
  BY <1>1 DEF WatchInv, RefcountExact

(* Who watches what after a socket registered `ds`.                        *)
LEMMA WatchersAfterRegister ==
  ASSUME WatchTypeOK, NEW c \in Clients, NEW ds \in SUBSET Dids, Register(c, ds),
         NEW d \in Dids
  PROVE  Watchers(d)' = IF d \in ds \ clientSubs[c]
                        THEN Watchers(d) \cup {c} ELSE Watchers(d)
  BY DEF WatchTypeOK, Register, Watchers

(* Who watches what after a socket unregistered `ds`.                      *)
LEMMA WatchersAfterUnregister ==
  ASSUME WatchTypeOK, NEW c \in Clients, NEW ds \in SUBSET Dids, Unregister(c, ds),
         NEW d \in Dids
  PROVE  Watchers(d)' = IF d \in ds \cap clientSubs[c]
                        THEN Watchers(d) \ {c} ELSE Watchers(d)
  BY DEF WatchTypeOK, Unregister, Watchers

LEMMA RegisterInductive ==
  ASSUME WatchInv, NEW c \in Clients, NEW ds \in SUBSET Dids, Register(c, ds)
  PROVE  WatchInv'
<1>0. WatchTypeOK /\ RefcountExact
  BY DEF WatchInv
<1>1. Registered(c, ds) \in [Dids -> Entry \cup {Nothing}]
  BY <1>0 DEF WatchTypeOK, Registered, Entry
<1>2. WatchTypeOK'
  BY <1>0, <1>1 DEF WatchTypeOK, Register
<1>3. ASSUME NEW d \in Dids
      PROVE  /\ (watches[d] = Nothing <=> Watchers(d) = {})'
             /\ (watches[d] # Nothing => watches[d].refcount = Cardinality(Watchers(d)))'
  <2>1. /\ watches[d] = Nothing <=> Watchers(d) = {}
        /\ watches[d] # Nothing => watches[d].refcount = Cardinality(Watchers(d))
    BY <1>0 DEF RefcountExact
  <2>2. watches'[d] = Registered(c, ds)[d]
    BY DEF Register
  <2>3. CASE d \notin ds \ clientSubs[c]
    <3>1. Watchers(d)' = Watchers(d)
      BY <2>3, <1>0, WatchersAfterRegister
    <3>2. watches'[d] = watches[d]
      BY <2>3, <2>2 DEF Registered
    <3> QED
      BY <2>1, <3>1, <3>2
  <2>4. CASE d \in ds \ clientSubs[c]
    <3>1. Watchers(d)' = Watchers(d) \cup {c}
      BY <2>4, <1>0, WatchersAfterRegister
    <3>2. c \notin Watchers(d)
      BY <2>4 DEF Watchers
    <3>3. Cardinality(Watchers(d) \cup {c}) = Cardinality(Watchers(d)) + 1
      BY <3>2, WatchersFinite, FS_AddElement
    <3>4. CASE watches[d] = Nothing
      <4>1. watches'[d] = [refcount |-> 1, lastHash |-> Nothing]
        BY <2>2, <2>4, <3>4 DEF Registered
      <4>2. Cardinality(Watchers(d)) = 0
        BY <3>4, <2>1, WatchersFinite
      <4>3. watches'[d] \in Entry /\ watches'[d] # Nothing
        BY <4>1, WatcherEntry DEF Entry
      <4> QED
        BY <4>1, <4>2, <4>3, <3>1, <3>3
    <3>5. CASE watches[d] # Nothing
      <4>1. watches'[d] = [watches[d] EXCEPT !.refcount = @ + 1]
        BY <2>2, <2>4, <3>5 DEF Registered
      <4>2. watches[d] \in Entry
        BY <3>5, <1>0 DEF WatchTypeOK
      <4>3. /\ watches'[d] \in Entry
            /\ watches'[d].refcount = watches[d].refcount + 1
        BY <4>1, <4>2 DEF Entry
      <4>4. watches'[d] # Nothing
        BY <4>3, WatcherEntry
      <4> QED
        BY <4>3, <4>4, <3>1, <3>3, <3>5, <2>1
    <3> QED
      BY <3>4, <3>5
  <2> QED
    BY <2>3, <2>4
<1> QED
  BY <1>2, <1>3 DEF WatchInv, RefcountExact

LEMMA UnregisterInductive ==
  ASSUME WatchInv, NEW c \in Clients, NEW ds \in SUBSET Dids, Unregister(c, ds)
  PROVE  WatchInv'
<1>0. WatchTypeOK /\ RefcountExact
  BY DEF WatchInv
<1>1. Unregistered(c, ds) \in [Dids -> Entry \cup {Nothing}]
  BY <1>0 DEF WatchTypeOK, Unregistered, Entry
<1>2. WatchTypeOK'
  BY <1>0, <1>1 DEF WatchTypeOK, Unregister
<1>3. ASSUME NEW d \in Dids
      PROVE  /\ (watches[d] = Nothing <=> Watchers(d) = {})'
             /\ (watches[d] # Nothing => watches[d].refcount = Cardinality(Watchers(d)))'
  <2>1. /\ watches[d] = Nothing <=> Watchers(d) = {}
        /\ watches[d] # Nothing => watches[d].refcount = Cardinality(Watchers(d))
    BY <1>0 DEF RefcountExact
  <2>2. watches'[d] = Unregistered(c, ds)[d]
    BY DEF Unregister
  <2>3. CASE d \notin ds \cap clientSubs[c]
    <3>1. Watchers(d)' = Watchers(d)
      BY <2>3, <1>0, WatchersAfterUnregister
    <3>2. watches'[d] = watches[d]
      BY <2>3, <2>2 DEF Unregistered
    <3> QED
      BY <2>1, <3>1, <3>2
  <2>4. CASE d \in ds \cap clientSubs[c]
    <3>1. Watchers(d)' = Watchers(d) \ {c}
      BY <2>4, <1>0, WatchersAfterUnregister
    <3>2. c \in Watchers(d)
      BY <2>4 DEF Watchers
    <3>3. /\ IsFiniteSet(Watchers(d) \ {c})
          /\ Cardinality(Watchers(d) \ {c}) = Cardinality(Watchers(d)) - 1
          /\ Cardinality(Watchers(d) \ {c}) = 0 <=> Watchers(d) \ {c} = {}
      BY <3>2, WatchersFinite, FS_RemoveElement, FS_EmptySet
    <3>4. /\ watches[d] \in Entry
          /\ watches[d].refcount = Cardinality(Watchers(d))
          /\ watches[d].refcount \in Nat
      BY <3>2, <2>1, <1>0, WatcherEntry DEF WatchTypeOK, Entry
    <3>5. CASE watches[d].refcount - 1 <= 0
      <4>1. watches'[d] = Nothing
        BY <2>2, <2>4, <3>2, <2>1, <3>5 DEF Unregistered
      <4>2. Cardinality(Watchers(d) \ {c}) = 0
        BY <3>2, <3>3, <3>4, <3>5, WatchersFinite
      <4> QED
        BY <4>1, <4>2, <3>1, <3>3
    <3>6. CASE ~(watches[d].refcount - 1 <= 0)
      <4>1. watches'[d] = [watches[d] EXCEPT !.refcount = @ - 1]
        BY <2>2, <2>4, <3>2, <2>1, <3>6 DEF Unregistered
      <4>2. /\ watches'[d] \in Entry
            /\ watches'[d].refcount = watches[d].refcount - 1
        BY <4>1, <3>4, <3>6 DEF Entry
      <4>3. watches'[d] # Nothing
        BY <4>2, WatcherEntry
      <4> QED
        BY <4>2, <4>3, <3>1, <3>3, <3>4, <3>6
    <3> QED
      BY <3>5, <3>6
  <2> QED
    BY <2>3, <2>4
<1> QED
  BY <1>2, <1>3 DEF WatchInv, RefcountExact

LEMMA WatchSteps == WatchInv /\ [WatchNext]_watchVars => WatchInv'
<1> SUFFICES ASSUME WatchInv, [WatchNext]_watchVars PROVE WatchInv'
  OBVIOUS
<1>0. WatchTypeOK
  BY DEF WatchInv
<1>1. CASE \E c \in Clients : SocketFrame(c)
  <2>1. PICK c \in Clients : SocketFrame(c)
    BY <1>1
  <2>2. clientSubs[c] \in SUBSET Dids
    BY <1>0 DEF WatchTypeOK
  <2> QED
    BY <2>1, <2>2, RegisterInductive, UnregisterInductive
       DEF SocketFrame, ForgetClient
<1>2. CASE Poll
  <2>1. WatchTypeOK'
    BY <1>0, <1>2 DEF WatchTypeOK, Poll
  <2> QED
    BY <2>1, <1>2, SameCounts DEF Poll, WatchInv
<1>3. ASSUME NEW k \in Fetches, NEW d \in Dids, StartFetch(k, d) PROVE WatchInv'
  <2>1. WatchTypeOK'
    BY <1>0, <1>3 DEF WatchTypeOK, StartFetch, Fetch
  <2> QED
    BY <2>1, <1>3, SameCounts DEF StartFetch, WatchInv
<1>4. ASSUME NEW k \in Fetches, Answer(k) PROVE WatchInv'
  <2>1. WatchTypeOK'
    BY <1>0, <1>4 DEF WatchTypeOK, Answer, Fetch
  <2> QED
    BY <2>1, <1>4, SameCounts DEF Answer, WatchInv
<1>5. ASSUME NEW k \in Fetches, FetchFails(k) PROVE WatchInv'
  <2>1. WatchTypeOK'
    BY <1>0, <1>5 DEF WatchTypeOK, FetchFails
  <2> QED
    BY <2>1, <1>5, SameCounts DEF FetchFails, WatchInv
<1>6. ASSUME NEW k \in Fetches, TakeHash(k) PROVE WatchInv'
  <2> DEFINE f == fetches[k]
  <2>1. f \in Fetch /\ f.did \in Dids /\ f.hash \in Hashes
    BY <1>0, <1>6 DEF WatchTypeOK, TakeHash, Fetch
  <2>2. Live(k) => watches[f.did] \in Entry
    BY <1>0, <2>1 DEF WatchTypeOK, Live
  <2>3. watches' \in [Dids -> Entry \cup {Nothing}]
    BY <1>0, <1>6, <2>1, <2>2 DEF WatchTypeOK, TakeHash, Entry
  <2>4. WatchTypeOK'
    BY <1>0, <1>6, <2>3 DEF WatchTypeOK, TakeHash
  <2>5. ASSUME NEW d \in Dids
        PROVE  /\ watches'[d] = Nothing <=> watches[d] = Nothing
               /\ watches[d] # Nothing => watches'[d].refcount = watches[d].refcount
    <3>1. CASE Live(k) /\ d = f.did
      <4>1. watches'[d] = [watches[d] EXCEPT !.lastHash = f.hash]
        BY <1>0, <1>6, <3>1 DEF WatchTypeOK, TakeHash
      <4>2. watches'[d] \in Entry /\ watches'[d].refcount = watches[d].refcount
        BY <4>1, <3>1, <2>1, <2>2 DEF Entry
      <4> QED
        BY <4>2, <3>1, <2>2, WatcherEntry
    <3>2. CASE ~(Live(k) /\ d = f.did)
      BY <1>0, <1>6, <3>2 DEF WatchTypeOK, TakeHash
    <3> QED
      BY <3>1, <3>2
  <2> QED
    BY <2>4, <2>5, <1>6, SameCounts DEF TakeHash, WatchInv
<1>7. ASSUME NEW d \in Dids, NEW h \in Hashes, RemoteChange(d, h) PROVE WatchInv'
  <2>1. WatchTypeOK'
    BY <1>0, <1>7, WatcherBound DEF WatchTypeOK, RemoteChange, watcher
  <2> QED
    BY <2>1, <1>7, SameCounts DEF RemoteChange, watcher, WatchInv
<1>8. CASE UNCHANGED watchVars
  <2>1. WatchTypeOK'
    BY <1>0, <1>8 DEF WatchTypeOK, watchVars, watcher
  <2> QED
    BY <2>1, <1>8, SameCounts DEF watchVars, watcher, WatchInv
<1> QED
  BY <1>1, <1>2, <1>3, <1>4, <1>5, <1>6, <1>7, <1>8 DEF WatchNext, Polling

-----------------------------------------------------------------------------
(* The inductive invariant holds in every behaviour of the watcher.        *)
THEOREM WatchKeeps == WatchSpec => []WatchInv
  BY WatchStarts, WatchSteps, PTL DEF WatchSpec

(* Type correctness: register, unregister and the polls keep the maps of   *)
(* the service well-formed; no entry has a count of zero.                  *)
THEOREM WatchTypes == WatchSpec => []WatchTypeOK
<1>1. WatchInv => WatchTypeOK
  BY DEF WatchInv
<1> QED
  BY <1>1, WatchKeeps, PTL

(* register / unregister / forgetClient: a DID is watched exactly while a  *)
(* socket looks at it, counted once for each such socket.                  *)
THEOREM RefcountSafe == WatchSpec => []RefcountExact
<1>1. WatchInv => RefcountExact
  BY DEF WatchInv
<1> QED
  BY <1>1, WatchKeeps, PTL

-----------------------------------------------------------------------------
(* What LoadsAreTracked says of one profile in one client: one load is a   *)
(* set with one member, which is more than its cardinality as long as it   *)
(* is not known to be finite.                                              *)
One(S) == \E l : S = {l}

Tracked(c, d) ==
  /\ cache[c][d] = Nothing => (d \in inflight[c] <=> Recent(c, d) # {})
  /\ d \in inflight[c] => One(Recent(c, d))

Tracking == StoreTypeOK /\ \A c \in Watching, d \in Dids : Tracked(c, d)
SyncInv == WatchInv /\ Tracking

LEMMA OneIsOne == \A S : One(S) => Cardinality(S) = 1
  BY FS_Singleton DEF One

LEMMA SyncInitInductive == SyncInit => SyncInv
<1> SUFFICES ASSUME SyncInit PROVE SyncInv
  OBVIOUS
<1>1. WatchInv
  BY WatchStarts DEF SyncInit
<1>2. StoreTypeOK
  BY DEF SyncInit, StoreTypeOK
<1>3. \A c \in Watching, d \in Dids : Recent(c, d) = {} /\ d \notin inflight[c]
  BY DEF SyncInit, Recent
<1> QED
  BY <1>1, <1>2, <1>3 DEF SyncInv, Tracking, Tracked

(* A step that leaves the store alone.                                     *)
LEMMA SameStore ==
  ASSUME Tracking, UNCHANGED store
  PROVE  Tracking'
<1>1. \A c \in Watching, d \in Dids : Recent(c, d)' = Recent(c, d)
  BY DEF Recent, store
<1> QED
  BY <1>1 DEF Tracking, Tracked, StoreTypeOK, store

(* A step of one client about one profile leaves the others alone.         *)
LEMMA OtherProfiles ==
  ASSUME Tracking, StoreTypeOK', NEW c \in Watching, NEW d \in Dids,
         \A e \in Watching, f \in Dids : (e # c \/ f # d) =>
            /\ cache'[e][f] = cache[e][f] /\ loads'[e][f] = loads[e][f]
            /\ f \in inflight'[e] <=> f \in inflight[e],
         Tracked(c, d)'
  PROVE  Tracking'
<1>1. ASSUME NEW e \in Watching, NEW f \in Dids PROVE Tracked(e, f)'
  <2>1. CASE e = c /\ f = d
    BY <2>1
  <2>2. CASE e # c \/ f # d
    <3>1. Recent(e, f)' = Recent(e, f)
      BY <2>2 DEF Recent
    <3> QED
      BY <2>2, <3>1 DEF Tracking, Tracked
  <2> QED
    BY <2>1, <2>2
<1> QED
  BY <1>1 DEF Tracking, Tracked

LEMMA ResolveTracked ==
  ASSUME Tracking, NEW c \in Watching, NEW d \in Dids, Resolve(c, d)
  PROVE  Tracking'
<1>0. StoreTypeOK /\ Tracked(c, d)
  BY DEF Tracking, Tracked
<1>1. NewLoad \in Load /\ ~NewLoad.old
  BY DEF NewLoad, Load
<1>2. StoreTypeOK'
  BY <1>0, <1>1 DEF StoreTypeOK, Resolve
<1>3. loads'[c][d] = loads[c][d] \cup {NewLoad}
  BY <1>0 DEF StoreTypeOK, Resolve
<1>4. Recent(c, d) = {}
  BY <1>0 DEF Tracked, Resolve
<1>5. Recent(c, d)' = {NewLoad}
  BY <1>1, <1>3, <1>4 DEF Recent
<1>6. d \in inflight'[c]
  BY <1>0 DEF StoreTypeOK, Resolve
<1>7. Tracked(c, d)'
  BY <1>5, <1>6 DEF Tracked, One
<1> QED
  BY <1>0, <1>2, <1>7, OtherProfiles DEF StoreTypeOK, Resolve

LEMMA ServeTracked ==
  ASSUME Tracking, WatchTypeOK, NEW c \in Watching, NEW d \in Dids, NEW l, Serve(c, d, l)
  PROVE  Tracking'
<1> DEFINE m == [l EXCEPT !.hash = remote[d]]
<1>0. StoreTypeOK /\ Tracked(c, d)
  BY DEF Tracking, Tracked
<1>1. l \in Load /\ m \in Load /\ m.old = l.old
  BY <1>0 DEF StoreTypeOK, Serve, Load, WatchTypeOK
<1>2. StoreTypeOK'
  BY <1>0, <1>1 DEF StoreTypeOK, Serve
<1>3. loads'[c][d] = (loads[c][d] \ {l}) \cup {m}
  BY <1>0 DEF StoreTypeOK, Serve
<1>4. l \in loads[c][d] /\ UNCHANGED <<cache, inflight>>
  BY DEF Serve
<1>5. Tracked(c, d)'
  <2>1. CASE l.old
    <3>1. Recent(c, d)' = Recent(c, d)
      BY <2>1, <1>1, <1>3 DEF Recent
    <3> QED
      BY <3>1, <1>0, <1>4 DEF Tracked
  <2>2. CASE ~l.old
    <3>1. Recent(c, d)' = (Recent(c, d) \ {l}) \cup {m}
      BY <2>2, <1>1, <1>3 DEF Recent
    <3>2. l \in Recent(c, d)
      BY <2>2, <1>4 DEF Recent
    <3>3. d \in inflight[c] => Recent(c, d)' = {m}
      <4>1. ASSUME d \in inflight[c] PROVE Recent(c, d) = {l}
        BY <4>1, <3>2, <1>0 DEF Tracked, One
      <4> QED
        BY <4>1, <3>1
    <3> QED
      BY <3>1, <3>2, <3>3, <1>0, <1>4 DEF Tracked, One
  <2> QED
    BY <2>1, <2>2
<1> QED
  BY <1>0, <1>2, <1>5, OtherProfiles DEF StoreTypeOK, Serve

LEMMA InstallTracked ==
  ASSUME Tracking, NEW c \in Watching, NEW d \in Dids, NEW l,
         NEW value \in Hashes \cup {Failed}, Install(c, d, l, value)
  PROVE  Tracking'
<1>0. StoreTypeOK /\ Tracked(c, d)
  BY DEF Tracking, Tracked
<1>1. StoreTypeOK'
  BY <1>0 DEF StoreTypeOK, Install
<1>2. cache'[c][d] = value /\ d \notin inflight'[c]
  BY <1>0 DEF StoreTypeOK, Install
<1>3. value # Nothing
  BY WatcherNone, SyncFailed
<1>4. Tracked(c, d)'
  BY <1>2, <1>3 DEF Tracked
<1> QED
  BY <1>0, <1>1, <1>4, OtherProfiles DEF StoreTypeOK, Install

LEMMA InvalidateTracked ==
  ASSUME Tracking, NEW d \in Dids, Invalidate(d)
  PROVE  Tracking'
<1>0. StoreTypeOK
  BY DEF Tracking
<1>1. \A c \in Watching : Aged(loads[c][d]) \subseteq Load /\ \A l \in Aged(loads[c][d]) : l.old
  <2>1. ASSUME NEW c \in Watching PROVE loads[c][d] \subseteq Load
    BY <1>0 DEF StoreTypeOK
  <2>2. ASSUME NEW l \in Load
        PROVE  [l EXCEPT !.old = TRUE] \in Load /\ [l EXCEPT !.old = TRUE].old
    BY DEF Load
  <2> QED
    BY <2>1, <2>2 DEF Aged
<1>2. StoreTypeOK'
  BY <1>0, <1>1 DEF StoreTypeOK, Invalidate
<1>3. ASSUME NEW c \in Watching, NEW f \in Dids PROVE Tracked(c, f)'
  <2>1. CASE f = d
    <3>1. loads'[c][d] = Aged(loads[c][d]) /\ d \notin inflight'[c]
      BY <1>0 DEF StoreTypeOK, Invalidate
    <3>2. Recent(c, d)' = {}
      BY <3>1, <1>1 DEF Recent
    <3> QED
      BY <2>1, <3>1, <3>2 DEF Tracked
  <2>2. CASE f # d
    <3>1. /\ cache'[c][f] = cache[c][f] /\ loads'[c][f] = loads[c][f]
          /\ f \in inflight'[c] <=> f \in inflight[c]
      BY <2>2, <1>0 DEF StoreTypeOK, Invalidate
    <3>2. Recent(c, f)' = Recent(c, f)
      BY <3>1 DEF Recent
    <3> QED
      BY <3>1, <3>2 DEF Tracking, Tracked
  <2> QED
    BY <2>1, <2>2
<1> QED
  BY <1>2, <1>3 DEF Tracking, Tracked

LEMMA SyncStepInductive == SyncInv /\ [SyncNext]_allvars => SyncInv'
<1> SUFFICES ASSUME SyncInv, [SyncNext]_allvars PROVE SyncInv'
  OBVIOUS
<1>0. WatchInv /\ WatchTypeOK /\ Tracking
  BY DEF SyncInv, WatchInv
<1>1. ASSUME NEW c \in Watching, NEW d \in Dids, ClientStep(c, d) PROVE SyncInv'
  <2>1. UNCHANGED watchVars
    BY <1>1 DEF ClientStep, Resolve, Serve, LoadEnds, Install
  <2>2. WatchInv'
    BY <2>1, <1>0, WatchSteps
  <2>3. CASE Resolve(c, d)
    BY <2>2, <2>3, <1>0, ResolveTracked DEF SyncInv
  <2>4. ASSUME NEW l \in loads[c][d], Serve(c, d, l) PROVE SyncInv'
    BY <2>2, <2>4, <1>0, ServeTracked DEF SyncInv
  <2>5. ASSUME NEW l \in loads[c][d], LoadEnds(c, d, l) PROVE SyncInv'
    <3>1. l \in Load
      BY <1>0 DEF Tracking, StoreTypeOK
    <3>2. PICK value \in Hashes \cup {Failed} : Install(c, d, l, value)
      BY <2>5, <3>1 DEF LoadEnds, Load
    <3> QED
      BY <2>2, <3>2, <1>0, InstallTracked DEF SyncInv
  <2> QED
    BY <1>1, <2>3, <2>4, <2>5 DEF ClientStep
<1>2. ASSUME NEW k \in Fetches, HashTaken(k) PROVE SyncInv'
  <2>1. WatchNext
    BY <1>2 DEF HashTaken, WatchNext, Polling
  <2>2. WatchInv'
    BY <2>1, <1>0, WatchSteps
  <2>3. fetches[k].did \in Dids
    BY <1>0, <1>2 DEF HashTaken, TakeHash, WatchTypeOK, Fetch
  <2> QED
    BY <1>2, <2>2, <2>3, <1>0, InvalidateTracked, SameStore DEF HashTaken, SyncInv
<1>3. CASE ServerOnly
  <2>1. WatchNext /\ UNCHANGED store
    BY <1>3 DEF ServerOnly, WatchNext, Polling
  <2> QED
    BY <2>1, <1>0, WatchSteps, SameStore DEF SyncInv
<1>4. CASE UNCHANGED allvars
  <2>1. UNCHANGED watchVars /\ UNCHANGED store
    BY <1>4 DEF allvars
  <2> QED
    BY <2>1, <1>0, WatchSteps, SameStore DEF SyncInv
<1> QED
  BY <1>1, <1>2, <1>3, <1>4 DEF SyncNext

-----------------------------------------------------------------------------
(* The inductive invariant holds in every behaviour of watcher and stores. *)
THEOREM SyncInductive == SyncSpec => []SyncInv
  BY SyncInitInductive, SyncStepInductive, PTL DEF SyncSpec

(* resolveProfile / fetchAndCache / invalidateProfile: a profile that is   *)
(* not shown is in the in-flight map exactly when a load that is not       *)
(* outdated is under way, and there is one at most.                        *)
THEOREM LoadsSafe == SyncSpec => []LoadsAreTracked
<1>1. SyncInv => LoadsAreTracked
  BY OneIsOne DEF SyncInv, Tracking, Tracked, LoadsAreTracked
<1> QED
  BY <1>1, SyncInductive, PTL

(* The reference counts stay exact whatever the clients load meanwhile.    *)
THEOREM SyncRefcounts == SyncSpec => []RefcountExact
<1>1. SyncInv => RefcountExact
  BY DEF SyncInv, WatchInv
<1> QED
  BY <1>1, SyncInductive, PTL

-----------------------------------------------------------------------------
(***************************************************************************)
(* Proofs about GatewaySession, for any users, devices, sockets, sessions, *)
(* callers of handleIdentify and number of updates being persisted.        *)
(***************************************************************************)

(* Who a socket belongs to: what a handler that resumes after an await     *)
(* finds in the record it captured.                                        *)
SessionOwner ==
  /\ \A s \in clients : peer[s] \in Devices
  /\ \A s \in Sockets, v \in Via :
       /\ identify[s][v] \in {"session", "row"} => peer[s] \in Devices
       /\ identify[s][v] = "row" => userId[s] # None
  /\ \A s \in Sockets : userId[s] # None =>
       /\ peer[s] \in Devices
       /\ userId[s] = Account[peer[s]]

(* A socket is registered only for the user it is authenticated as. *)
RegisteredIdentified ==
  \A u \in Users, s \in Sockets : s \in userSockets[u] => userId[s] = u

(* A device uses a socket it dialled. *)
LinkedPeer ==
  \A d \in Devices : link[d] # None => peer[link[d]] = d

IInv == TypeOK /\ SessionOwner /\ RegisteredIdentified /\ LinkedPeer

-----------------------------------------------------------------------------
USE AccountAssumption, StatusAssumption, ViaAssumption, NoneAssumption

LEMMA InitInductive == Init => IInv
BY DEF Init, IInv, TypeOK, SessionOwner, RegisteredIdentified, LinkedPeer,
       Phases, Shown, Write, NoWrite, AllStatuses

(* What a device is shown of a status is something its store can hold. *)
LEMMA StatusForType ==
  ASSUME NEW d \in Devices, NEW u \in Users, NEW st \in Statuses \cup {None}
  PROVE  StatusFor(d, u, st) \in Shown
BY DEF StatusFor, Shown

LEMMA BroadcastType ==
  ASSUME TypeOK, NEW u \in Users, NEW st \in Statuses \cup {None}
  PROVE  Broadcast(u, st) \in [Devices -> [Users -> Shown]]
BY StatusForType DEF Broadcast, TypeOK

LEMMA RestoredType ==
  ASSUME TypeOK, NEW u \in Users
  PROVE  RestoredPresence(u) \in [Users -> Statuses \cup {None}]
BY DEF RestoredPresence, TypeOK

LEMMA ViewAfterReadyType ==
  ASSUME TypeOK, NEW s \in Sockets, userId[s] \in Users
  PROVE  ViewAfterReady(s) \in [Devices -> [Users -> Shown]]
<1> DEFINE u == userId[s]
           p == RestoredPresence(u)
           others == IF userSockets[u] = {} THEN Broadcast(u, p[u]) ELSE view
           me == peer[s]
<1>1. p \in [Users -> Statuses \cup {None}]
  BY RestoredType
<1>2. others \in [Devices -> [Users -> Shown]]
  BY <1>1, BroadcastType DEF TypeOK
<1>3. CASE s \in open /\ link[me] = s
  <2>1. ASSUME NEW d \in Devices, d = me
        PROVE  [w \in Users |-> IF p[w] = None THEN others[me][w]
                                ELSE StatusFor(me, w, p[w])] \in [Users -> Shown]
    <3>1. ASSUME NEW w \in Users
          PROVE  (IF p[w] = None THEN others[me][w] ELSE StatusFor(me, w, p[w]))
                   \in Shown
      BY <1>1, <1>2, <2>1, StatusForType
    <3> QED BY <3>1
  <2>2. ViewAfterReady(s) = [others EXCEPT ![me] =
           [w \in Users |-> IF p[w] = None THEN @[w] ELSE StatusFor(me, w, p[w])]]
    BY <1>3 DEF ViewAfterReady
  <2> QED BY <1>2, <2>1, <2>2
<1>4. CASE ~(s \in open /\ link[me] = s)
  BY <1>2, <1>4 DEF ViewAfterReady
<1> QED BY <1>3, <1>4

-----------------------------------------------------------------------------
(* Every action preserves the inductive invariant. *)
LEMMA StepInductive == IInv /\ [Next]_vars => IInv'
<1> SUFFICES ASSUME IInv, [Next]_vars PROVE IInv'
  OBVIOUS
<1> USE DEF IInv, SessionOwner, RegisteredIdentified, LinkedPeer
<1>1. ASSUME NEW d \in Devices, NEW s \in Sockets, NEW cookie \in BOOLEAN,
             Connect(d, s, cookie)
      PROVE  IInv'
  BY <1>1 DEF Connect, Fresh, TypeOK, Phases
<1>2. ASSUME NEW s \in Sockets, SendIdentify(s) PROVE IInv'
  BY <1>2 DEF SendIdentify, TypeOK, Phases, gateway, device
<1>3. ASSUME NEW s \in Sockets, NEW v \in Via, SessionFound(s, v) PROVE IInv'
  <2>1. peer[s] \in Devices /\ Account[peer[s]] \in Users
    BY <1>3 DEF SessionFound, TypeOK
  <2>2. TypeOK'
    BY <1>3, <2>1 DEF SessionFound, TypeOK, Phases, device
  <2>3. RegisteredIdentified'
    BY <1>3, <2>1 DEF SessionFound, TypeOK, device
  <2>4. /\ UNCHANGED <<clients, peer, link>>
        /\ \A r \in Sockets : userId'[r] = IF r = s THEN Account[peer[s]] ELSE userId[r]
        /\ \A r \in Sockets, w \in Via :
             identify'[r][w] = IF r = s /\ w = v THEN "row" ELSE identify[r][w]
    BY <1>3 DEF SessionFound, TypeOK, device
  <2>5. SessionOwner'
    <3>1. \A r \in clients' : peer'[r] \in Devices
      BY <2>4
    <3>2. ASSUME NEW r \in Sockets, NEW w \in Via
          PROVE  /\ identify'[r][w] \in {"session", "row"} => peer'[r] \in Devices
                 /\ identify'[r][w] = "row" => userId'[r] # None
      BY <2>1, <2>4
    <3>3. ASSUME NEW r \in Sockets, userId'[r] # None
          PROVE  peer'[r] \in Devices /\ userId'[r] = Account'[peer'[r]]
      BY <2>1, <2>4, <3>3
    <3> QED BY <3>1, <3>2, <3>3
  <2>6. LinkedPeer'
    BY <2>4
  <2> QED BY <2>2, <2>3, <2>5, <2>6
<1>4. ASSUME NEW s \in Sockets, NEW v \in Via, IdentifyRefused(s, v) PROVE IInv'
  BY <1>4 DEF IdentifyRefused, TypeOK, Phases, gateway, device
<1>5. ASSUME NEW s \in Sockets, NEW v \in Via, RegisterSocket(s, v) PROVE IInv'
  <2>1. userId[s] \in Users
    BY <1>5 DEF RegisterSocket, TypeOK
  <2>2. presences' \in [Users -> Statuses \cup {None}]
    BY <1>5, <2>1, RestoredType DEF RegisterSocket
  <2>3. view' \in [Devices -> [Users -> Shown]]
    BY <1>5, <2>1, ViewAfterReadyType DEF RegisterSocket
  <2>4. TypeOK'
    BY <1>5, <2>1, <2>2, <2>3 DEF RegisterSocket, TypeOK, Phases
  <2>5. RegisteredIdentified'
    BY <1>5, <2>1 DEF RegisterSocket, TypeOK
  <2> QED BY <1>5, <2>4, <2>5 DEF RegisterSocket, TypeOK
<1>6. ASSUME NEW d \in Devices, DeviceDrops(d) PROVE IInv'
  BY <1>6 DEF DeviceDrops, TypeOK, gateway, pending
<1>7. ASSUME NEW s \in Sockets, Disconnect(s) PROVE IInv'
  <2>1. view' \in [Devices -> [Users -> Shown]]
    <3>1. CASE IsLast(s)
      <4>1. userId[s] \in Users
        BY <1>7, <3>1 DEF Disconnect, IsLast, TypeOK
      <4>2. Broadcast(userId[s], None) \in [Devices -> [Users -> Shown]]
        BY <4>1, BroadcastType
      <4>3. view' = [d \in Devices |-> IF link[d] = s THEN view[d]
                                        ELSE Broadcast(userId[s], None)[d]]
        BY <1>7, <3>1 DEF Disconnect
      <4> QED BY <4>2, <4>3 DEF TypeOK
    <3>2. CASE ~IsLast(s)
      <4>1. view' = view
        BY <1>7, <3>2 DEF Disconnect
      <4> QED BY <4>1 DEF TypeOK
    <3> QED BY <3>1, <3>2
  <2>2. userSockets' \in [Users -> SUBSET Sockets]
    BY <1>7 DEF Disconnect, TypeOK
  <2>3. presences' \in [Users -> Statuses \cup {None}]
    BY <1>7 DEF Disconnect, TypeOK
  <2>4. clients' \subseteq clients /\ open' \subseteq clients' /\ link' \in [Devices -> Sockets \cup {None}]
    BY <1>7 DEF Disconnect, TypeOK
  <2>5. UNCHANGED <<userId, identify, writes, peer, preferred>>
    BY <1>7 DEF Disconnect, pending
  <2>6. TypeOK'
    BY <2>1, <2>2, <2>3, <2>4, <2>5 DEF TypeOK
  <2>7. SessionOwner'
    BY <2>4, <2>5
  <2>8. RegisteredIdentified'
    BY <1>7, <2>5 DEF Disconnect, TypeOK
  <2>9. LinkedPeer'
    BY <1>7, <2>5 DEF Disconnect, TypeOK
  <2> QED BY <2>6, <2>7, <2>8, <2>9
<1>8. ASSUME NEW s \in Sockets, DropClient(s) PROVE IInv'
  BY <1>8 DEF DropClient, TypeOK, pending, device
<1>9. ASSUME NEW s \in Sockets, NEW asked \in Statuses \cup {None},
             UpdatePresence(s, asked)
      PROVE  IInv'
  <2> DEFINE u == userId[s]
             st == NextStatus(u, asked)
  <2>1. u \in Users /\ st \in Statuses
    BY <1>9 DEF UpdatePresence, NextStatus, TypeOK
  <2>2. view' \in [Devices -> [Users -> Shown]]
    BY <1>9, <2>1, BroadcastType DEF UpdatePresence
  <2>3. writes' \in [Slots -> Write \cup {NoWrite}]
    <3>1. CASE st = "idle"
      BY <1>9, <3>1 DEF UpdatePresence, TypeOK
    <3>2. CASE st # "idle"
      <4>1. FreeSlot \in Slots
        BY <1>9, <3>2 DEF UpdatePresence, FreeSlot
      <4>2. [user |-> u, status |-> st] \in Write
        BY <2>1, <3>2 DEF Write
      <4>3. writes' = [writes EXCEPT ![FreeSlot] = [user |-> u, status |-> st]]
        BY <1>9, <3>2 DEF UpdatePresence
      <4> QED BY <4>1, <4>2, <4>3 DEF TypeOK
    <3> QED BY <3>1, <3>2
  <2>4. presences' \in [Users -> Statuses \cup {None}]
    BY <1>9, <2>1 DEF UpdatePresence, TypeOK
  <2>5. UNCHANGED <<clients, open, userId, userSockets, identify, peer, link, preferred>>
    BY <1>9 DEF UpdatePresence
  <2> QED BY <2>2, <2>3, <2>4, <2>5 DEF TypeOK
<1>10. ASSUME NEW k \in Slots, Persist(k) PROVE IInv'
  <2>1. writes[k] \in Write
    BY <1>10 DEF Persist, TypeOK
  <2> QED BY <1>10, <2>1 DEF Persist, TypeOK, Write, gateway, device
<1>11. CASE UNCHANGED vars
  BY <1>11 DEF vars, gateway, pending, device, TypeOK
<1> QED BY <1>1, <1>2, <1>3, <1>4, <1>5, <1>6, <1>7, <1>8, <1>9, <1>10, <1>11
        DEF Next

(* Every state of the gateway has the shape its maps, database rows and    *)
(* devices are declared with, and every socket in flight its owner.        *)
THEOREM Inductive == Spec => []IInv
<1>1. Init => IInv  BY InitInductive
<1>2. IInv /\ [Next]_vars => IInv'  BY StepInductive
<1> QED BY <1>1, <1>2, PTL DEF Spec

(* The maps of ChatGateway, the sockets and the devices keep their types.  *)
THEOREM TypeCorrect == Spec => []TypeOK
<1>1. IInv => TypeOK  BY DEF IInv
<1> QED BY <1>1, Inductive, PTL

-----------------------------------------------------------------------------
(* Every step keeps a presence for every registered user. *)
LEMMA StepPresence ==
  IInv /\ RegisteredHasPresence /\ [Next]_vars => RegisteredHasPresence'
<1> SUFFICES ASSUME IInv, RegisteredHasPresence, [Next]_vars
             PROVE  RegisteredHasPresence'
  OBVIOUS
<1> USE DEF RegisteredHasPresence
<1>1. ASSUME NEW s \in Sockets, NEW v \in Via, RegisterSocket(s, v)
      PROVE  RegisteredHasPresence'
  <2>1. userId[s] \in Users
    BY <1>1 DEF RegisterSocket, IInv, TypeOK, SessionOwner
  <2>2. presences' = RestoredPresence(userId[s])
    BY <1>1 DEF RegisterSocket
  <2>3. presences'[userId[s]] # None
    BY <2>1, <2>2 DEF RestoredPresence, IInv, TypeOK
  <2>4. \A u \in Users \ {userId[s]} :
          presences'[u] = presences[u] /\ userSockets'[u] = userSockets[u]
    BY <1>1, <2>1, <2>2 DEF RegisterSocket, RestoredPresence, IInv, TypeOK
  <2> QED BY <2>3, <2>4
<1>2. ASSUME NEW s \in Sockets, Disconnect(s) PROVE RegisteredHasPresence'
  <2>1. CASE IsLast(s)
    <3>1. userId[s] \in Users
      BY <2>1 DEF IsLast, IInv, TypeOK
    <3>2. userSockets'[userId[s]] = {}
      BY <1>2, <2>1, <3>1 DEF Disconnect, IsLast
    <3>3. \A u \in Users \ {userId[s]} :
            presences'[u] = presences[u] /\ userSockets'[u] = userSockets[u]
      BY <1>2, <2>1, <3>1 DEF Disconnect, IInv, TypeOK
    <3> QED BY <3>2, <3>3
  <2>2. CASE ~IsLast(s)
    <3>1. presences' = presences
      BY <1>2, <2>2 DEF Disconnect
    <3>2. \A u \in Users : userSockets'[u] \subseteq userSockets[u]
      BY <1>2 DEF Disconnect, IInv, TypeOK
    <3> QED BY <3>1, <3>2
  <2> QED BY <2>1, <2>2
<1>3. ASSUME NEW s \in Sockets, NEW asked \in Statuses \cup {None},
             UpdatePresence(s, asked)
      PROVE  RegisteredHasPresence'
  <2>1. NextStatus(userId[s], asked) \in Statuses
    BY <1>3 DEF UpdatePresence, NextStatus, IInv, TypeOK
  <2>2. \A u \in Users : presences'[u] = None => presences[u] = None
    BY <1>3, <2>1 DEF UpdatePresence, IInv, TypeOK
  <2>3. userSockets' = userSockets
    BY <1>3 DEF UpdatePresence
  <2> QED BY <2>2, <2>3
<1>4. CASE UNCHANGED <<presences, userSockets>>
  BY <1>4
<1> QED
  BY <1>1, <1>2, <1>3, <1>4
  DEF Next, Connect, SendIdentify, SessionFound, IdentifyRefused, DeviceDrops,
      DropClient, Persist, vars, gateway

(* RegisteredHasPresence for any number of users and sockets: the non-null *)
(* assertion that follows READY in handleIdentify never fails.             *)
THEOREM PresenceSafe == Spec => []RegisteredHasPresence
<1>1. Init => RegisteredHasPresence
  BY DEF Init, RegisteredHasPresence
<1>2. IInv /\ RegisteredHasPresence /\ [Next]_vars => RegisteredHasPresence'
  BY StepPresence
<1> QED BY <1>1, <1>2, Inductive, PTL DEF Spec

-----------------------------------------------------------------------------
(* A device that got READY is on the distribution list of every broadcast. *)
LEMMA ReadyListens ==
  ASSUME IInv, NEW d \in Devices, Ready(d)
  PROVE  Listening(d) /\ link[d] \in Sockets
<1>1. link[d] \in Sockets
  BY DEF Ready, IInv, TypeOK
<1>2. Account[d] \in Users
  OBVIOUS
<1>3. userId[link[d]] = Account[d]
  BY <1>1, <1>2 DEF Ready, IInv, RegisteredIdentified
<1> QED BY <1>1, <1>2, <1>3 DEF Ready, Listening

(* A broadcast brings a ready device up to date about its subject and      *)
(* touches nothing else it shows.                                          *)
LEMMA BroadcastTells ==
  ASSUME IInv, NEW d \in Devices, Ready(d), NEW u \in Users, NEW w \in Users,
         NEW st
  PROVE  Broadcast(u, st)[d][w] = IF w = u THEN StatusFor(d, u, st) ELSE view[d][w]
<1>1. Listening(d)
  BY ReadyListens
<1>2. Broadcast(u, st)[d] = [view[d] EXCEPT ![u] = StatusFor(d, u, st)]
  BY <1>1 DEF Broadcast
<1>3. view[d] \in [Users -> Shown]
  BY DEF IInv, TypeOK
<1> QED BY <1>2, <1>3

(* Every step keeps what ready devices show equal to the presence map. *)
LEMMA StepView == IInv /\ ViewFaithful /\ [Next]_vars => ViewFaithful'
<1> SUFFICES ASSUME IInv, ViewFaithful, [Next]_vars,
                    NEW d \in Devices, Ready(d)',
                    NEW w \in Users, presences'[w] # None
             PROVE  view'[d][w] = StatusFor(d, w, presences'[w])
  BY DEF ViewFaithful, StatusFor
<1>a. Ready(d) /\ presences[w] # None => view[d][w] = StatusFor(d, w, presences[w])
  BY DEF ViewFaithful
<1>b. link'[d] \in clients' \cap open' /\ link'[d] \in userSockets'[Account[d]]
  BY DEF Ready
<1>c. Account[d] \in Users
  OBVIOUS
<1>1. ASSUME NEW e \in Devices, NEW s \in Sockets, NEW cookie \in BOOLEAN,
             Connect(e, s, cookie)
      PROVE  view'[d][w] = StatusFor(d, w, presences'[w])
  <2>1. link'[d] # s
    BY <1>1, <1>b, <1>c DEF Connect, Fresh
  <2>2. link'[d] = link[d]
    BY <1>1, <2>1 DEF Connect, IInv, TypeOK
  <2>3. Ready(d)
    BY <1>1, <1>b, <2>1, <2>2 DEF Connect, Ready
  <2> QED BY <1>1, <1>a, <2>3 DEF Connect
<1>2. ASSUME NEW s \in Sockets, NEW v \in Via, RegisterSocket(s, v)
      PROVE  view'[d][w] = StatusFor(d, w, presences'[w])
  <2> DEFINE u == userId[s]
             p == RestoredPresence(u)
             others == IF userSockets[u] = {} THEN Broadcast(u, p[u]) ELSE view
             me == peer[s]
  <2>1. u \in Users /\ me \in Devices
    BY <1>2 DEF RegisterSocket, IInv, TypeOK, SessionOwner
  <2>2. presences' = p /\ view' = ViewAfterReady(s) /\ link' = link
        /\ clients' = clients /\ open' = open
    BY <1>2 DEF RegisterSocket
  <2>3. others \in [Devices -> [Users -> Shown]]
    <3>1. p[u] \in Statuses \cup {None}
      BY <2>1, RestoredType DEF IInv
    <3>2. Broadcast(u, p[u]) \in [Devices -> [Users -> Shown]]
      BY <2>1, <3>1, BroadcastType DEF IInv
    <3> QED BY <3>2 DEF IInv, TypeOK
  <2>4. CASE link[d] = s
    <3>1. me = d /\ s \in open
      BY <1>b, <2>2, <2>4 DEF IInv, LinkedPeer, TypeOK
    <3>2. view' = [others EXCEPT ![me] =
            [x \in Users |-> IF p[x] = None THEN @[x] ELSE StatusFor(me, x, p[x])]]
      BY <2>2, <2>4, <3>1 DEF ViewAfterReady
    <3>3. view'[d] = [x \in Users |-> IF p[x] = None THEN others[d][x]
                                     ELSE StatusFor(d, x, p[x])]
      BY <2>3, <3>1, <3>2
    <3> QED BY <2>2, <3>3
  <2>5. CASE link[d] # s
    <3>1. Ready(d)
      <4>1. link[d] \in userSockets[Account[d]]
        BY <1>2, <1>b, <1>c, <2>1, <2>2, <2>5 DEF RegisterSocket, IInv, TypeOK
      <4> QED BY <1>b, <2>2, <4>1 DEF Ready
    <3>2. view'[d] = others[d]
      <4>1. CASE s \in open /\ link[me] = s
        <5>1. me # d
          BY <2>5, <4>1
        <5> QED BY <2>2, <2>3, <4>1, <5>1 DEF ViewAfterReady
      <4>2. CASE ~(s \in open /\ link[me] = s)
        BY <2>2, <4>2 DEF ViewAfterReady
      <4> QED BY <4>1, <4>2
    <3>3. CASE userSockets[u] = {}
      <4>1. others[d][w] = IF w = u THEN StatusFor(d, u, p[u]) ELSE view[d][w]
        BY <2>1, <3>1, <3>3, BroadcastTells
      <4>2. w # u => p[w] = presences[w]
        BY DEF RestoredPresence, IInv, TypeOK
      <4> QED BY <1>a, <2>2, <3>1, <3>2, <4>1, <4>2
    <3>4. CASE userSockets[u] # {}
      <4>1. p = presences
        BY <3>4 DEF RestoredPresence
      <4> QED BY <1>a, <2>2, <3>1, <3>2, <3>4, <4>1
    <3> QED BY <3>3, <3>4
  <2> QED BY <2>4, <2>5
<1>3. ASSUME NEW s \in Sockets, Disconnect(s)
      PROVE  view'[d][w] = StatusFor(d, w, presences'[w])
  <2>1. link' = [e \in Devices |-> IF link[e] = s THEN None ELSE link[e]]
    BY <1>3 DEF Disconnect
  <2>2. clients' \subseteq clients /\ open' \subseteq open
    BY <1>3 DEF Disconnect
  <2>3. link[d] # s /\ link'[d] = link[d]
    BY <1>b, <2>1, <2>2 DEF IInv, TypeOK
  <2>4. Ready(d)
    BY <1>3, <1>b, <1>c, <2>2, <2>3 DEF Disconnect, Ready, IInv, TypeOK
  <2>5. CASE IsLast(s)
    <3>1. userId[s] \in Users
      BY <2>5 DEF IsLast, IInv, TypeOK
    <3>2. presences' = [presences EXCEPT ![userId[s]] = None]
      BY <1>3, <2>5 DEF Disconnect
    <3>3. view'[d] = Broadcast(userId[s], None)[d]
      BY <1>3, <2>3, <2>5 DEF Disconnect
    <3>4. w # userId[s] /\ presences'[w] = presences[w]
      BY <3>1, <3>2 DEF IInv, TypeOK
    <3>5. view'[d][w] = view[d][w]
      BY <2>4, <3>1, <3>3, <3>4, BroadcastTells
    <3> QED BY <1>a, <2>4, <3>4, <3>5
  <2>6. CASE ~IsLast(s)
    <3>1. presences' = presences /\ view' = view
      BY <1>3, <2>6 DEF Disconnect
    <3> QED BY <1>a, <2>4, <3>1
  <2> QED BY <2>5, <2>6
<1>4. ASSUME NEW s \in Sockets, NEW asked \in Statuses \cup {None},
             UpdatePresence(s, asked)
      PROVE  view'[d][w] = StatusFor(d, w, presences'[w])
  <2> DEFINE u == userId[s]
             st == NextStatus(u, asked)
  <2>1. u \in Users
    BY <1>4 DEF UpdatePresence, IInv, TypeOK
  <2>2. presences' = [presences EXCEPT ![u] = st] /\ view' = Broadcast(u, st)
    BY <1>4 DEF UpdatePresence
  <2>3. Ready(d)
    BY <1>4, <1>b DEF UpdatePresence, Ready
  <2>4. view'[d][w] = IF w = u THEN StatusFor(d, u, st) ELSE view[d][w]
    BY <2>1, <2>2, <2>3, BroadcastTells
  <2>5. presences'[w] = IF w = u THEN st ELSE presences[w]
    BY <2>1, <2>2 DEF IInv, TypeOK
  <2> QED BY <1>a, <2>3, <2>4, <2>5
<1>5. ASSUME NEW e \in Devices, DeviceDrops(e)
      PROVE  view'[d][w] = StatusFor(d, w, presences'[w])
  <2>1. link'[d] = link[d]
    BY <1>5, <1>b DEF DeviceDrops, gateway, IInv, TypeOK
  <2>2. Ready(d)
    BY <1>5, <1>b, <2>1 DEF DeviceDrops, gateway, Ready
  <2> QED BY <1>5, <1>a, <2>2 DEF DeviceDrops, gateway
<1>6. ASSUME UNCHANGED <<link, userSockets, presences, view>>,
             clients' \subseteq clients, open' \subseteq open
      PROVE  view'[d][w] = StatusFor(d, w, presences'[w])
  BY <1>6, <1>a, <1>b DEF Ready
<1>7. ASSUME NEW s \in Sockets, SendIdentify(s) \/ DropClient(s)
      PROVE  view'[d][w] = StatusFor(d, w, presences'[w])
  BY <1>6, <1>7 DEF SendIdentify, DropClient, gateway, device
<1>8. ASSUME NEW s \in Sockets, NEW v \in Via,
             SessionFound(s, v) \/ IdentifyRefused(s, v)
      PROVE  view'[d][w] = StatusFor(d, w, presences'[w])
  BY <1>6, <1>8 DEF SessionFound, IdentifyRefused, gateway, device
<1>9. ASSUME NEW k \in Slots, Persist(k)
      PROVE  view'[d][w] = StatusFor(d, w, presences'[w])
  BY <1>6, <1>9 DEF Persist, gateway, device
<1>10. CASE UNCHANGED vars
  BY <1>6, <1>10 DEF vars, gateway, device
<1> QED BY <1>1, <1>2, <1>3, <1>4, <1>5, <1>7, <1>8, <1>9, <1>10 DEF Next

(* ViewFaithful for any number of users, devices and sockets: whatever     *)
(* sockets come, go and change status while others are being identified,   *)
(* a device that got READY shows each present user's current status.       *)
THEOREM ViewSafe == Spec => []ViewFaithful
<1>1. Init => ViewFaithful
  BY DEF Init, ViewFaithful
<1>2. IInv /\ ViewFaithful /\ [Next]_vars => ViewFaithful'
  BY StepView
<1> QED BY <1>1, <1>2, Inductive, PTL DEF Spec

-----------------------------------------------------------------------------
(* What makes a device show a user who is present as offline.              *)
LEMMA OfflineOnlyInvisible ==
  ASSUME NEW d \in Devices, NEW u \in Users, NEW st \in Statuses,
         StatusFor(d, u, st) = "offline"
  PROVE  st = "invisible"
BY DEF StatusFor, AllStatuses

(* A first socket leaves its user with a presence.                         *)
LEMMA RestoredPresent ==
  ASSUME IInv, RegisteredHasPresence, NEW u \in Users
  PROVE  /\ RestoredPresence(u)[u] \in Statuses
         /\ \A w \in Users \ {u} : RestoredPresence(u)[w] = presences[w]
BY DEF RestoredPresence, RegisteredHasPresence, IInv, TypeOK

(* No step shows a user as offline who has a socket left and did not turn  *)
(* invisible.                                                              *)
StaysOnline(d, u) ==
  view[d][u] # "offline" /\ view'[d][u] = "offline" =>
    userSockets'[u] = {} \/ presences'[u] = "invisible"

(* Of a broadcast, the device shows a change of its subject only.          *)
LEMMA BroadcastAbout ==
  ASSUME IInv, NEW d \in Devices, NEW u \in Users, NEW w \in Users, NEW st,
         Broadcast(u, st)[d][w] # view[d][w]
  PROVE  w = u /\ Broadcast(u, st)[d][w] = StatusFor(d, u, st)
<1>1. view[d] \in [Users -> Shown]
  BY DEF IInv, TypeOK
<1>2. Broadcast(u, st)[d] = IF Listening(d) THEN [view[d] EXCEPT ![u] = StatusFor(d, u, st)]
                            ELSE view[d]
  BY DEF Broadcast
<1> QED BY <1>1, <1>2

LEMMA StepStaysOnline ==
  ASSUME IInv, RegisteredHasPresence, [Next]_vars, NEW d \in Devices, NEW w \in Users
  PROVE  StaysOnline(d, w)
<1> USE DEF StaysOnline
<1>1. ASSUME NEW s \in Sockets, NEW v \in Via, RegisterSocket(s, v)
      PROVE  StaysOnline(d, w)
  <2> DEFINE u == userId[s]
             p == RestoredPresence(u)
             others == IF userSockets[u] = {} THEN Broadcast(u, p[u]) ELSE view
             me == peer[s]
  <2>1. u \in Users /\ me \in Devices
    BY <1>1 DEF RegisterSocket, IInv, TypeOK, SessionOwner
  <2>2. presences' = p /\ view' = ViewAfterReady(s)
    BY <1>1 DEF RegisterSocket
  <2>3. p[u] \in Statuses /\ p \in [Users -> Statuses \cup {None}]
    BY <2>1, RestoredPresent, RestoredType DEF IInv
  <2>4. others \in [Devices -> [Users -> Shown]]
    BY <2>1, <2>3, BroadcastType DEF IInv, TypeOK
  <2>5. others[d][w] # view[d][w] => w = u /\ others[d][w] = StatusFor(d, u, p[u])
    <3>1. CASE userSockets[u] = {}
      BY <2>1, <3>1, BroadcastAbout
    <3>2. CASE userSockets[u] # {}
      BY <3>2
    <3> QED BY <3>1, <3>2
  <2>6. ViewAfterReady(s) =
          IF s \in open /\ link[me] = s
          THEN [others EXCEPT ![me] =
                 [x \in Users |-> IF p[x] = None THEN @[x] ELSE StatusFor(me, x, p[x])]]
          ELSE others
    BY DEF ViewAfterReady
  <2>7. \/ view'[d][w] = others[d][w]
        \/ p[w] # None /\ view'[d][w] = StatusFor(d, w, p[w])
    <3> HIDE DEF u, p, others, me
    <3>1. CASE s \in open /\ link[me] = s /\ d = me
      <4>1. view'[d] = [x \in Users |-> IF p[x] = None THEN others[d][x] ELSE StatusFor(d, x, p[x])]
        BY <2>1, <2>2, <2>4, <2>6, <3>1
      <4> QED BY <4>1
    <3>2. CASE ~(s \in open /\ link[me] = s /\ d = me)
      BY <2>1, <2>2, <2>4, <2>6, <3>2
    <3> QED BY <3>1, <3>2
  <2>8. ASSUME view[d][w] # "offline", view'[d][w] = "offline"
        PROVE  p[w] = "invisible"
    <3> HIDE DEF p, others
    <3> QED BY <2>1, <2>3, <2>5, <2>7, <2>8, OfflineOnlyInvisible
  <2> QED BY <2>2, <2>8
<1>2. ASSUME NEW s \in Sockets, Disconnect(s) PROVE StaysOnline(d, w)
  <2>1. CASE IsLast(s)
    <3>1. userId[s] \in Users
      BY <2>1 DEF IsLast, IInv, TypeOK
    <3>2. userSockets'[userId[s]] = {}
      BY <1>2, <2>1, <3>1 DEF Disconnect, IsLast
    <3>3. view'[d] = IF link[d] = s THEN view[d] ELSE Broadcast(userId[s], None)[d]
      BY <1>2, <2>1 DEF Disconnect
    <3> QED BY <3>1, <3>2, <3>3, BroadcastAbout
  <2>2. CASE ~IsLast(s)
    BY <1>2, <2>2 DEF Disconnect
  <2> QED BY <2>1, <2>2
<1>3. ASSUME NEW s \in Sockets, NEW asked \in Statuses \cup {None},
             UpdatePresence(s, asked)
      PROVE  StaysOnline(d, w)
  <2> DEFINE u == userId[s]
             st == NextStatus(u, asked)
  <2>1. u \in Users /\ st \in Statuses
    BY <1>3 DEF UpdatePresence, NextStatus, IInv, TypeOK
  <2>2. presences' = [presences EXCEPT ![u] = st] /\ view' = Broadcast(u, st)
    BY <1>3 DEF UpdatePresence
  <2>3. presences'[u] = st
    BY <2>1, <2>2 DEF IInv, TypeOK
  <2> HIDE DEF u, st
  <2> QED BY <2>1, <2>2, <2>3, BroadcastAbout, OfflineOnlyInvisible
<1>4. CASE UNCHANGED view
  BY <1>4
<1> QED
  BY <1>1, <1>2, <1>3, <1>4
  DEF Next, Connect, SendIdentify, SessionFound, IdentifyRefused, DeviceDrops,
      DropClient, Persist, vars, gateway, device

(* NoPrematureOffline for any number of users, devices and sockets: no     *)
(* order of closings, identifications and status changes shows a user      *)
(* offline while a registered socket of theirs remains.                    *)
THEOREM OfflineSafe == Spec => NoPrematureOffline
<1>1. IInv /\ RegisteredHasPresence /\ [Next]_vars =>
        [\A d \in Devices, u \in Users : StaysOnline(d, u)]_vars
  BY StepStaysOnline
<1>2. IInv /\ RegisteredHasPresence /\ [Next]_vars =>
        [\A d \in Devices, u \in Users :
           view[d][u] # "offline" /\ view'[d][u] = "offline" =>
             userSockets'[u] = {} \/ presences'[u] = "invisible"]_vars
  BY <1>1 DEF StaysOnline
<1> QED BY <1>2, Inductive, PresenceSafe, PTL DEF Spec, NoPrematureOffline

-----------------------------------------------------------------------------
(* The refinement.  A step of the gateway is a step of the board if it     *)
(* leaves everybody but u alone, and what devices that are and stay ready  *)
(* show of u is its status, or neither has changed.  Who becomes ready is  *)
(* up to date by ViewFaithful.                                             *)
AboutOne(u) ==
  /\ \A w \in Users \ {u} : presences'[w] = presences[w]
  /\ \A d \in Devices : Ready(d) /\ Ready(d)' =>
       \A w \in Users \ {u} : view'[d][w] = view[d][w]
  /\ \A d \in Devices : Ready(d) /\ Ready(d)' =>
       \/ view'[d][u] = StatusFor(d, u, presences'[u])
       \/ view'[d][u] = view[d][u] /\ presences'[u] = presences[u]

LEMMA AboutOneSteps ==
  ASSUME ViewFaithful', NEW u \in Users, AboutOne(u)
  PROVE  Board!Step
<1>1. Board!ChangesOnly(u)
  BY DEF Board!ChangesOnly, AboutOne
<1>2. Board!Told(u)
  BY DEF Board!Told, Board!Visible, AboutOne, StatusFor
<1>3. Board!BroughtUpToDate
  BY DEF Board!BroughtUpToDate, Board!Visible, ViewFaithful, StatusFor
<1> QED BY <1>1, <1>2, <1>3 DEF Board!Step

LEMMA RegisterAboutOne ==
  ASSUME IInv, RegisteredHasPresence, ViewFaithful, ViewFaithful',
         NEW s \in Sockets, NEW v \in Via, RegisterSocket(s, v)
  PROVE  userId[s] \in Users /\ AboutOne(userId[s])
<1> DEFINE u == userId[s]
           p == RestoredPresence(u)
           others == IF userSockets[u] = {} THEN Broadcast(u, p[u]) ELSE view
           me == peer[s]
<1>1. u \in Users /\ me \in Devices
  BY DEF RegisterSocket, IInv, TypeOK, SessionOwner
<1>2. presences' = p /\ view' = ViewAfterReady(s)
  BY DEF RegisterSocket
<1>3. p[u] \in Statuses /\ p[u] # None /\ \A w \in Users \ {u} : p[w] = presences[w]
  BY <1>1, RestoredPresent
<1>4. others \in [Devices -> [Users -> Shown]]
  BY <1>1, <1>3, BroadcastType DEF IInv, TypeOK
<1>5. ASSUME NEW d \in Devices, Ready(d), NEW w \in Users \ {u}
      PROVE  view'[d][w] = view[d][w]
  <2>1. others[d][w] = view[d][w]
    BY <1>1, <1>5, BroadcastAbout
  <2>2. p[w] # None => view[d][w] = StatusFor(d, w, p[w])
    BY <1>3, <1>5 DEF ViewFaithful
  <2>3. ViewAfterReady(s) =
          IF s \in open /\ link[me] = s
          THEN [others EXCEPT ![me] =
                 [x \in Users |-> IF p[x] = None THEN @[x] ELSE StatusFor(me, x, p[x])]]
          ELSE others
    BY DEF ViewAfterReady
  <2> HIDE DEF u, p, others, me
  <2>4. CASE s \in open /\ link[me] = s /\ d = me
    <3>1. view'[d] = [x \in Users |-> IF p[x] = None THEN others[d][x] ELSE StatusFor(d, x, p[x])]
      BY <1>1, <1>2, <1>4, <2>3, <2>4
    <3> QED BY <1>5, <2>1, <2>2, <3>1
  <2>5. CASE ~(s \in open /\ link[me] = s /\ d = me)
    BY <1>1, <1>2, <1>4, <2>1, <2>3, <2>5
  <2> QED BY <2>4, <2>5
<1>6. \A d \in Devices : Ready(d)' => view'[d][u] = StatusFor(d, u, presences'[u])
  BY <1>1, <1>2, <1>3 DEF ViewFaithful, StatusFor
<1> QED BY <1>1, <1>2, <1>3, <1>5, <1>6 DEF AboutOne

LEMMA DisconnectAboutOne ==
  ASSUME IInv, NEW s \in Sockets, Disconnect(s), IsLast(s)
  PROVE  userId[s] \in Users /\ AboutOne(userId[s])
<1> DEFINE u == userId[s]
<1>1. u \in Users
  BY DEF IsLast, IInv, TypeOK
<1>2. presences' = [presences EXCEPT ![u] = None]
  BY DEF Disconnect
<1>3. ASSUME NEW d \in Devices, Ready(d), Ready(d)', NEW w \in Users
      PROVE  view'[d][w] = IF w = u THEN StatusFor(d, u, None) ELSE view[d][w]
  <2>1. link'[d] = (IF link[d] = s THEN None ELSE link[d]) /\ link'[d] \in open'
    BY <1>3 DEF Disconnect, Ready
  <2>2. link[d] # s
    BY <2>1 DEF Disconnect, IInv, TypeOK
  <2>3. view'[d] = Broadcast(u, None)[d]
    BY <2>2 DEF Disconnect
  <2> QED BY <1>1, <1>3, <2>3, BroadcastTells
<1>4. presences'[u] = None /\ \A w \in Users \ {u} : presences'[w] = presences[w]
  BY <1>1, <1>2 DEF IInv, TypeOK
<1> QED BY <1>1, <1>3, <1>4 DEF AboutOne

LEMMA UpdateAboutOne ==
  ASSUME IInv, NEW s \in Sockets, NEW asked \in Statuses \cup {None},
         UpdatePresence(s, asked)
  PROVE  userId[s] \in Users /\ AboutOne(userId[s])
<1> DEFINE u == userId[s]
           st == NextStatus(u, asked)
<1>1. u \in Users
  BY DEF UpdatePresence, IInv, TypeOK
<1>2. presences' = [presences EXCEPT ![u] = st] /\ view' = Broadcast(u, st)
  BY DEF UpdatePresence
<1>3. presences'[u] = st /\ \A w \in Users \ {u} : presences'[w] = presences[w]
  BY <1>1, <1>2 DEF IInv, TypeOK
<1>4. ASSUME NEW d \in Devices, Ready(d), NEW w \in Users
      PROVE  view'[d][w] = IF w = u THEN StatusFor(d, u, st) ELSE view[d][w]
  BY <1>1, <1>2, <1>4, BroadcastTells
<1> QED BY <1>1, <1>3, <1>4 DEF AboutOne

(* The remaining actions change neither the presences nor what is shown;   *)
(* whoever they are about may stand for the one whose entry may change.    *)
LEMMA NobodyChanges ==
  ASSUME ViewFaithful', UNCHANGED <<presences, view>>, NEW u \in Users
  PROVE  Board!Step
BY AboutOneSteps DEF AboutOne

LEMMA SomebodyAbout ==
  ASSUME IInv, NEW s \in Sockets,
         s \in clients \/ \E v \in Via : identify[s][v] \in {"session", "row"}
  PROVE  Account[peer[s]] \in Users
<1>1. peer[s] \in Devices
  BY DEF IInv, SessionOwner
<1> QED BY <1>1

LEMMA StepBoard ==
  ASSUME IInv, RegisteredHasPresence, ViewFaithful, ViewFaithful', Next
  PROVE  Board!Step
<1>1. ASSUME NEW d \in Devices, NEW s \in Sockets, NEW cookie \in BOOLEAN,
             Connect(d, s, cookie)
      PROVE  Board!Step
  <2>1. Account[d] \in Users
    OBVIOUS
  <2> QED BY <1>1, <2>1, NobodyChanges DEF Connect
<1>2. ASSUME NEW s \in Sockets, SendIdentify(s) \/ DropClient(s) PROVE Board!Step
  <2>1. Account[peer[s]] \in Users
    BY <1>2, SomebodyAbout DEF SendIdentify, DropClient, IInv, TypeOK
  <2> QED BY <1>2, <2>1, NobodyChanges DEF SendIdentify, DropClient, gateway, device
<1>3. ASSUME NEW s \in Sockets, Disconnect(s) PROVE Board!Step
  <2>1. CASE IsLast(s)
    BY <1>3, <2>1, DisconnectAboutOne, AboutOneSteps
  <2>2. CASE ~IsLast(s)
    <3>1. Account[peer[s]] \in Users
      BY <1>3, SomebodyAbout DEF Disconnect, IInv, TypeOK
    <3> QED BY <1>3, <2>2, <3>1, NobodyChanges DEF Disconnect
  <2> QED BY <2>1, <2>2
<1>4. ASSUME NEW s \in Sockets, NEW v \in Via, SessionFound(s, v) \/ IdentifyRefused(s, v)
      PROVE  Board!Step
  <2>1. Account[peer[s]] \in Users
    BY <1>4, SomebodyAbout DEF SessionFound, IdentifyRefused
  <2> QED BY <1>4, <2>1, NobodyChanges DEF SessionFound, IdentifyRefused, gateway, device
<1>5. ASSUME NEW s \in Sockets, NEW v \in Via, RegisterSocket(s, v) PROVE Board!Step
  BY <1>5, RegisterAboutOne, AboutOneSteps
<1>6. ASSUME NEW d \in Devices, DeviceDrops(d) PROVE Board!Step
  <2>1. Account[d] \in Users
    OBVIOUS
  <2> QED BY <1>6, <2>1, NobodyChanges DEF DeviceDrops, gateway
<1>7. ASSUME NEW s \in Sockets, NEW asked \in Statuses \cup {None}, UpdatePresence(s, asked)
      PROVE  Board!Step
  BY <1>7, UpdateAboutOne, AboutOneSteps
<1>8. ASSUME NEW k \in Slots, Persist(k) PROVE Board!Step
  <2>1. writes[k].user \in Users
    BY <1>8 DEF Persist, IInv, TypeOK, Write
  <2> QED BY <1>8, <2>1, NobodyChanges DEF Persist, gateway, device
<1> QED BY <1>1, <1>2, <1>3, <1>4, <1>5, <1>6, <1>7, <1>8 DEF Next

(* The presence half of the gateway, asynchronous as its handlers are,     *)
(* implements the atomic board: every device that got READY is told of     *)
(* every change in the step that makes it, one user at a time, and is up   *)
(* to date about everybody present from the step that makes it ready.      *)
THEOREM GatewayImplementsBoard == Spec => ImplementsBoard
<1>1. Init => Board!Init
  BY DEF Init, Board!Init, Ready
<1>2. IInv /\ RegisteredHasPresence /\ ViewFaithful /\ ViewFaithful' /\ [Next]_vars
        => [Board!Step]_<<presences, {d \in Devices : Ready(d)}, view>>
  <2>1. CASE UNCHANGED vars
    BY <2>1 DEF vars, gateway, device, Ready
  <2> QED BY <2>1, StepBoard
<1> QED
  BY <1>1, <1>2, Inductive, PresenceSafe, ViewSafe, PTL
  DEF Spec, ImplementsBoard, Board!Spec
===============================================================================
