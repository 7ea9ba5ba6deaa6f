---------------------------- MODULE ProfileWatcher ----------------------------
(***************************************************************************)
(* ProfileWatcherService                                                   *)
(* (apps/slyng/api/src/profile-watcher/profile-watcher.service.ts).        *)
(*                                                                         *)
(* Sockets register the DIDs they look at; a DID is watched once however   *)
(* many sockets registered it, by reference count.  Every 30 seconds the   *)
(* hash of each watched DID is fetched from its home instance, and a hash  *)
(* that differs from the last one is broadcast.  A poll does not wait for  *)
(* the poll before it, answers come in any order, and the entry an answer  *)
(* is for may be gone or another one by then.                              *)
(***************************************************************************)
EXTENDS Integers, FiniteSets

CONSTANTS Clients, Dids, Hashes,
          Fetches,      \* bound: fetches in flight (8 per poll in the code)
          MaxChanges,   \* bound: changes of the remote profiles
          Nothing

ASSUME WatcherFinite == IsFiniteSet(Clients)
ASSUME WatcherNone == Nothing \notin Hashes \cup Dids
ASSUME WatcherBound == MaxChanges \in Nat

VARIABLES
  clientSubs,   \* DIDs each socket registered ({} when it has no entry)
  watches,      \* watch entry per DID: refcount and lastHash, or Nothing
  queue,        \* DIDs the running polls have still to fetch
  fetches,      \* fetches in flight: the DID, and the hash once answered
  remote,       \* the hash the home instance of a DID would answer now
  changes       \* how often a remote profile changed (bounded)

watcher == <<clientSubs, watches, queue, fetches>>
watchVars == <<watcher, remote, changes>>

Entry == [refcount : Nat \ {0}, lastHash : Hashes \cup {Nothing}]
ASSUME WatcherEntry == Nothing \notin Entry

Fetch == [did : Dids, hash : Hashes \cup {Nothing}]
ASSUME WatcherFetch == Nothing \notin Fetch

WatchTypeOK ==
  /\ clientSubs \in [Clients -> SUBSET Dids]
  /\ watches \in [Dids -> Entry \cup {Nothing}]
  /\ queue \subseteq Dids
  /\ fetches \in [Fetches -> Fetch \cup {Nothing}]
  /\ remote \in [Dids -> Hashes]
  /\ changes \in 0 .. MaxChanges

WatchInit ==
  /\ clientSubs = [c \in Clients |-> {}]
  /\ watches = [d \in Dids |-> Nothing]
  /\ queue = {}
  /\ fetches = [k \in Fetches |-> Nothing]
  /\ remote \in [Dids -> Hashes]
  /\ changes = 0

-----------------------------------------------------------------------------
\* Mutant: the `sub.has(did)` test is gone.
RegisteredTwice(c, ds) ==
  [d \in Dids |->
     IF d \notin ds THEN watches[d]
     ELSE IF watches[d] = Nothing THEN [refcount |-> 1, lastHash |-> Nothing]
     ELSE [watches[d] EXCEPT !.refcount = @ + 1]]

(* register: a DID the socket already registered is not counted twice.     *)
Registered(c, ds) ==
  [d \in Dids |->
     IF d \notin ds \ clientSubs[c] THEN watches[d]
     ELSE IF watches[d] = Nothing THEN [refcount |-> 1, lastHash |-> Nothing]
     ELSE [watches[d] EXCEPT !.refcount = @ + 1]]

Register(c, ds) ==
  /\ watches' = Registered(c, ds)
  /\ clientSubs' = [clientSubs EXCEPT ![c] = @ \cup ds]
  /\ UNCHANGED <<queue, fetches, remote, changes>>

(* unregister: the entry goes with its last reference.  Without a list,    *)
(* and when the socket disconnects (forgetClient), `ds` is all it had.     *)
Unregistered(c, ds) ==
  [d \in Dids |->
     IF d \notin ds \cap clientSubs[c] \/ watches[d] = Nothing THEN watches[d]
     ELSE IF watches[d].refcount - 1 <= 0 THEN Nothing
     ELSE [watches[d] EXCEPT !.refcount = @ - 1]]

Unregister(c, ds) ==
  /\ watches' = Unregistered(c, ds)
  /\ clientSubs' = [clientSubs EXCEPT ![c] = @ \ ds]
  /\ UNCHANGED <<queue, fetches, remote, changes>>

ForgetClient(c) == Unregister(c, clientSubs[c])

(* pollWatches takes the entries of the moment; an earlier poll may still  *)
(* be running.                                                             *)
Poll ==
  /\ \E d \in Dids : watches[d] # Nothing
  /\ queue' = queue \cup {d \in Dids : watches[d] # Nothing}
  /\ UNCHANGED <<clientSubs, watches, fetches, remote, changes>>

(* drain: the next entry is fetched while there is room.                   *)
StartFetch(k, d) ==
  /\ d \in queue
  /\ fetches[k] = Nothing
  /\ queue' = queue \ {d}
  /\ fetches' = [fetches EXCEPT ![k] = [did |-> d, hash |-> Nothing]]
  /\ UNCHANGED <<clientSubs, watches, remote, changes>>

(* The home instance answers with the hash of the moment.                  *)
Answer(k) ==
  /\ fetches[k] # Nothing /\ fetches[k].hash = Nothing
  /\ fetches' = [fetches EXCEPT ![k].hash = remote[fetches[k].did]]
  /\ UNCHANGED <<clientSubs, watches, queue, remote, changes>>

(* It does not: timeout, an error status, no manifest.                     *)
FetchFails(k) ==
  /\ fetches[k] # Nothing /\ fetches[k].hash = Nothing
  /\ fetches' = [fetches EXCEPT ![k] = Nothing]
  /\ UNCHANGED <<clientSubs, watches, queue, remote, changes>>

(* The answer is taken: broadcast when it differs from the last hash of    *)
(* the entry the DID has now, if it has one.                               *)
Live(k) == watches[fetches[k].did] # Nothing
Broadcasts(k) ==
  /\ Live(k)
  /\ watches[fetches[k].did].lastHash \notin {Nothing, fetches[k].hash}

\* Mutant: only the baseline is stored, never a later hash.
TakeBaseline(k) ==
  /\ fetches[k] # Nothing /\ fetches[k].hash # Nothing
  /\ watches' = IF Live(k) /\ watches[fetches[k].did].lastHash = Nothing
                THEN [watches EXCEPT ![fetches[k].did].lastHash = fetches[k].hash]
                ELSE watches
  /\ fetches' = [fetches EXCEPT ![k] = Nothing]
  /\ UNCHANGED <<clientSubs, queue, remote, changes>>

TakeHash(k) ==
  /\ fetches[k] # Nothing /\ fetches[k].hash # Nothing
  /\ watches' = IF Live(k)
                THEN [watches EXCEPT ![fetches[k].did].lastHash = fetches[k].hash]
                ELSE watches
  /\ fetches' = [fetches EXCEPT ![k] = Nothing]
  /\ UNCHANGED <<clientSubs, queue, remote, changes>>

(* The owner of a profile changes it, on another instance. *)
RemoteChange(d, h) ==
  /\ changes < MaxChanges
  /\ h # remote[d]
  /\ remote' = [remote EXCEPT ![d] = h]
  /\ changes' = changes + 1
  /\ UNCHANGED watcher

SocketFrame(c) ==
  \/ \E ds \in SUBSET Dids : Register(c, ds) \/ Unregister(c, ds)
  \/ ForgetClient(c)

Polling ==
  \/ Poll
  \/ \E k \in Fetches : (\E d \in Dids : StartFetch(k, d)) \/ Answer(k)
                        \/ FetchFails(k) \/ TakeHash(k)

WatchNext ==
  \/ \E c \in Clients : SocketFrame(c)
  \/ Polling
  \/ \E d \in Dids, h \in Hashes : RemoteChange(d, h)

WatchSpec == WatchInit /\ [][WatchNext]_watchVars

(* The interval timer fires for ever, a queued entry gets its turn, and a  *)
(* home instance that is asked for ever answers now and then.              *)
Fairness ==
  /\ WF_watchVars(Poll)
  /\ \A k \in Fetches :
       /\ WF_watchVars(Answer(k) \/ FetchFails(k)) /\ SF_watchVars(Answer(k))
       /\ WF_watchVars(TakeHash(k))
       /\ \A d \in Dids : SF_watchVars(StartFetch(k, d))

-----------------------------------------------------------------------------
Watchers(d) == {c \in Clients : d \in clientSubs[c]}

(* A DID is watched exactly while a socket has it registered, and its      *)
(* reference count is the number of those sockets: no watch leaks, and     *)
(* none is dropped while somebody looks at it.                             *)
RefcountExact ==
  \A d \in Dids :
    /\ watches[d] = Nothing <=> Watchers(d) = {}
    /\ watches[d] # Nothing => watches[d].refcount = Cardinality(Watchers(d))

(* A DID that stays watched ends up with the hash of its home instance,    *)
(* though answers overtake one another and polls overlap.                  *)
UpToDate(d) == watches[d] # Nothing /\ watches[d].lastHash = remote[d]
TracksRemote ==
  \A d \in Dids : []<>(watches[d] = Nothing) \/ <>[]UpToDate(d)
=============================================================================
