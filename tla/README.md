# slyng in TLA+

TLA+ models of slyng, a chat server and its clients, with the TLC runs that check
them and the TLAPS proofs about them. Paths below are relative to the repository;
`api/` stands for `apps/slyng/api/src/`, `core/` for `packages/ts/app-core/src/lib/` and `ui/`
for `packages/ts/ui/src/lib/components/`.

slyng is a single Node process (`api/`, NestJS) over SurrealDB, and clients (a Svelte
app core and a Rust WebSocket client). Nothing in the server holds a lock, and only the
rotation of a root key opens a transaction. What makes it hard is always the same thing: a request or a frame is a chain
of awaited database calls, every await lets other handlers run, and what was read before
an await is acted upon after it. Frames are dispatched fire and forget, so even
the frames of one socket overlap. That is what the models open up: **one action is what
runs between two awaits**, with the database call that ends the wait.

## 1. Inventory

| Component | State | Operations | What is hard | What makes it correct |
|---|---|---|---|---|
| `ChatGateway` sessions and presence (`api/gateway/chat.gateway.ts`) | maps `clients`, `userSockets`, `presences`; `users.preferred_status` | connect, identify (cookie or frame), presence update, heartbeat, disconnect | identification awaits twice; several tabs; half-open sockets; broadcasts racing the READY snapshot | registered users have a presence; devices show the truth after READY; only the last socket takes a user offline |
| Presence store of the apps (`core/stores/presence.svelte.ts`) | status per user | READY, broadcast | survives reconnects | shows nobody online who is not |
| `VoiceService` and voice frames (`api/voice/voice.service.ts`, gateway) | map `states`, table `voice_state`, the lists of other clients | join, leave, update, last socket closes, eviction, restart | join is four calls, leave one; three copies of one fact | the three copies agree; a leave is seen; tabs do not end each other's call |
| `ProfileWatcherService` (`api/profile-watcher`) | refcount and last hash per DID, DIDs per socket | register, unregister, poll | polls overlap; answers out of order; entries vanish while fetched | counts exact; watched profiles tracked |
| Profile store of the apps (`core/stores/profiles.svelte.ts`) | cache, in-flight loads | resolve, load, invalidate | late answers | every load ends, none is doubled, the cache is current |
| `ServerService` (`api/server`) | server row (owner, count), invites | create, join by invite, transfer, delete | check-then-act over several calls; counters written from old reads | owner is a member; invite limits; count right |
| `MemberService` (`api/member`) | member and ban rows | leave, kick, ban, unban, eviction | removal races join and SUBSCRIBE; partial failure of ban | the banned stay out; the removed lose their topics |
| `MemberAccessService` and SUBSCRIBE (`api/auth/member-access.service.ts`, gateway) | topics per socket | subscribe, unsubscribe, evict | authorised before, added after | only members are subscribed |
| Identity: registry outbox (`api/idp/registry.service.ts`, `idp-registry.repository.ts`) | signed hosting records with an outbox status | add, remove, sync, retry, cancel, deliver, republish | at-least-once delivery with backoff; push between two awaits | a record is delivered before it is called so, under the current root |
| Identity: root keys, rotation (`api/idp/rotation.service.ts`) | append-only chain of attestations, delegations | rotate with stored or external key | concurrent appends; delegations signed again afterwards | the chain is linear, the kept seed is its head's, delegations are vouched for |
| `RelationService` (`api/relation`), relations store (`core/stores/relations.svelte.ts`) | friendships, blocks, ignores; what an app shows of them | request, accept, decline, cancel, remove, block, ignore; snapshot, notifications | check-then-act between two users; a snapshot that overwrites notifications | no pending request or friendship across a block; nobody befriended unasked; apps show the rows |
| `RoleService`, overrides, `PermissionGuard` | roles with positions and masks, who holds them, overrides | create, edit, swap, reorder, trash, restore, delete, assign, override, transfer | heights, caps and `role_ids` are read some calls before they are written | positions distinct; nobody raises what is above them; no permission from nowhere |
| `ChannelService`, `CategoryService` (`api/channel`, `api/category`) | channels, participants, categories | DM creation; create, move, trash, restore, delete, reorder and swap the channels and categories of a server | find-then-create; positions read before they are given out; a category dissolved channel by channel | one DM per pair; one position each; a channel never without its heading |
| Server store and sidebar (`core/stores/servers.svelte.ts`, `ui/pages/server-layout.svelte`, `ui/fragments/server-settings/channels-panel.svelte`) | channels and categories of the active server | load, reload, drag, events | drags are shown before they are done; loads overlap events | the sidebar shows what the server has |
| Permission fold (`api/common/permission-fold.ts`) | none | the bits a member has in a channel | pure algorithm | agrees with the documented rule |
| `MessageService`, message store, channel page (`api/message`, `core/stores/messages.svelte.ts`, `ui/pages/channel-page.svelte`) | messages, pins, mentions; the list of an open channel | send, edit, delete, restore, pin, embeds; load, scroll, jump | pages overwrite events; events told late; `mention_count` | the list shows what the server has, in order and without gaps |
| Realtime client (`packages/rust/slyng-client/src/ws`) | connection, queue of frames | connect, reconnect with backoff, send, disconnect | frames queued, sent and asked for again around reconnections; frames handled before identification ends are dropped | the socket is told what the application wants; subscriptions survive reconnection |
| Identity: key-value store, delegations (`api/idp/kv.service.ts`, ...) | rows with TTL and quota | put, take, sweep | quota and single use under overlap | a record is used once |
| Identity: profiles, posts, library, migration | rows of one owner | CRUD, export, import | little | - |
| Database layer (`api/db`) | - | statement wrappers | - | each call of it is one atomic step here |
| Auth, audit log, media, uploads, clips, embeds, proxy, storage | - | I/O, lookups, append-only | - | - |
| Crypto crates, types, other stores, voice engines, UI, native shell | - | - | - | - |

How they interact: the REST services write SurrealDB and call emit helpers of the gateway,
which broadcasts to subscribed sockets; `MemberService` calls `evictFromServer` after a
removal, which takes topics and, through `VoiceService.leave`, voice presence; the
gateway's disconnect handler calls `VoiceService.leave` and `ProfileWatcher.forgetClient`;
the watcher broadcasts PROFILE_UPDATE and the clients' profile store reloads.

The status of each component is in `PROJECT.json` (`components`), and every hazard the
survey found, with the property that watches it or the reason none does yet, under
`hazards`.

## 2. Plan

In the order of what matters most to the users of the program.

| Step | Modules | State |
|---|---|---|
| 1 | `GatewaySession`, `PresenceBoard` (its abstraction), proofs | done |
| 2 | `VoicePresence`, proofs | done |
| 3 | `ProfileWatcher`; `ProfileSync` composes it with the clients' store; proofs of both | done |
| 4 | `ServerMembership`, proofs | done |
| 5 | `RootRotation`; `RegistryOutbox` composes it with the outbox; proofs of both in one module | done |
| 6 | `Relations`; `DirectMessages` composes it with DM creation and the gate of a message; proofs | done |
| 7 | `PermissionFold` over `Orders`; `RoleHierarchy` uses it; proofs of both | done |
| 8 | `RealtimeClient`; `ChannelMessages` composes it with messages and the channel page; proofs | done |
| 9 | `ServerChannels`, over the `RealtimeClient` too; `ChannelPage` puts both together; proofs | done |
| 10 | key-value store (quota, single use), mentions, deletion of a server | not begun |

Abstract specifications: the presence board (written, and implemented by `GatewaySession`). Worth
stating next: a voice room as one variable that `VoicePresence` implements while the handlers of a
user do not overlap, and a watch list as a set of pairs that `ProfileWatcher` implements.

Bounds follow one rule: two of everything that can conflict (users, tabs, handlers, rows,
fetches), three sockets where a half-open one, a new one and an observer have to meet, and
enough repetitions of an environment action for a second occurrence to meet what the first left.

## 3. The modules and the code

Common to all: a handler is a record (`ops`, `identify`, `writes`, `fetches`, `loads`) that
says where it stands, an action is the stretch to the next await, database calls take effect
and answer in one step, `DatabaseFails`/`IdentifyRefused`/`FetchFails` are the error paths.
`None` (`Nothing` in the watcher) stands for an absent map entry or row. SurrealDB's `UPDATE ... MERGE` of a record that is
gone is taken to change nothing, as in SurrealDB 2. Variables and fields commented "history" or
"only read by properties and bounds" (`history`, `past`, `log`, `crossed`, `accepted`, `clash`,
`joins`, `drift`, `raced`, `told`, `bars`, `stale`, `old`) serve the properties and the bounds: no
guard of the code's behaviour reads them.

**GatewaySession** (`api/gateway/chat.gateway.ts`, `core/stores/presence.svelte.ts`).
`clients`, `userSockets`, `presences` are the maps of the class; `open` is `readyState`.
`handleIdentify` is `SendIdentify`/`Connect` (up to `getSession`), `SessionFound` (up to
`users.findOne`), `RegisterSocket` (to the end); `handleDisconnect` is `Disconnect` and, after the
voice clean-up, `DropClient`; `handlePresenceUpdate` is `UpdatePresence` and `Persist`. A
device holds one user's session (`Account`), may give a socket up without the server noticing
(`DeviceDrops`: nothing reads `lastHeartbeat`), and applies what it is sent at once: a WebSocket
is ordered, and `broadcastPresenceUpdate` and READY are sent without an await between reading the
map and sending. `findOne` and `merge` in the persistence of a status are one step; custom
texts are left out except that a frame may carry one alone (`asked = None`).

**PresenceBoard** is what the presence half promises: one board, changed one user at a time, and
every attached device shows each change in the step that makes it. `GatewaySession` maps
`presences` to the board, devices registered on an open socket to `attached`, `view` to `shown`.

**VoicePresence** (`api/voice/voice.service.ts`, voice frames, disconnect, eviction). `states`
is the service's map, `rows` the table, `roster` where the other members draw a user.
`VoiceService.join` is `JoinFrame`, `ChannelFound`/`ChannelMissing`, `SetState`, `FindRow`,
`WriteRow`; `leave` is `StartLeave` and `FinishLeave`, which `Leave` (a frame with a null channel,
or an eviction) and `CloseSocket` begin; `updateState` is `UpdateFrame`/`FinishUpdate` and
`VideoFrame`. The flags of a voice state are left out. Registration is one step here.

**ProfileWatcher** (`api/profile-watcher`). `watches` and `clientSubs` are the maps; `Poll`
queues the entries of the moment, `StartFetch`, `Answer`/`FetchFails` and `TakeHash` are one
fetch; an earlier poll may still run. `RemoteChange` is the environment. A manifest and the
profile behind it are one answer.

**ProfileSync** adds the clients' store (`core/stores/profiles.svelte.ts`): `cache`, `inflight`
and `loads`; `Resolve`, `Serve`, `LoadEnds`, `Invalidate`. PROFILE_UPDATE goes to every client
that is identified, here all of them; `Watching` names those whose store is looked at. `HashTaken`
is `TakeHash` with the broadcast it makes.

**ServerMembership** (`api/server`, `api/member`, `api/auth/member-access.service.ts`, SUBSCRIBE).
`joinByInvite` is `StartJoin`, `JoinChecksBan`, `JoinChecksMember`, `CreateMember`,
`ChargeInvite`, `JoinReadsCount`, `JoinWritesCount`; leave, kick and ban share `StartRemoval`,
`ReadMember`, `DeleteMember`, `Decrement`, then `ReadBans`, `ClearBan`, `InsertBan` for a ban, and
`Evict`; `transferOwnership` is `StartTransfer`, `ReadTarget`, `FlipOwner`; SUBSCRIBE is
`StartSubscribe`, `ChannelsCheckMember`, `AddChannels`, `ServerChecksBan`, `AddServer`. Member
rows have an identity: `op.row` says that the row a removal has read still exists, so that a
removal does not take the row of somebody who has joined again. Who may kick, ban or transfer is
not decided here (somebody always may); the invite's target and expiry, message purges and audit
records are left out, and the role a former owner is given is in `RoleHierarchy`.

**RootRotation** (`api/idp/rotation.service.ts`, `idp-rotation.repository.ts`, `root-key.service.ts`,
`platform.service.ts`, `packages/rust/syr-crypto-core/src/rotation.rs`). `chain` is the table of
attestations by `seq`, `seed` the root whose wrapped seed the identity row has (none if the root
lives on a device), `sigs` the delegations. A rotation is `RotateAegis` or `RotateExternal`, then
`ReadChain`, `Prepare` (the successor, and the new signatures of the delegations, with the
self-check), `AppendRotation` (the one transaction of the server), `Resign` once per delegation, and
the announcement. `DelegateStart`/`CreateDelegation` make a delegation meanwhile. A key is the number
of its making and a signature the key that made it: a forged one is outside of the model.

**RegistryOutbox** (`api/idp/registry.service.ts`, `idp-registry.repository.ts`) extends it: `regs`
and `jobs` are the tables, `tasks` the requests, announcements and the poller at work. Adding is
`StartAdd`, `InsertRegistry`, `EnqueueAsked`; removing `StartRemove`, `EnqueueAsked`, `DropRegistry`;
retry and cancel end in `WriteStatus`; sync is `StartSync`, `ReadActive`, the poller `StartDeliver`,
and both go through the batch they read with `SaveSignature`, `LoadChain`, `Post`, `MarkCompleted`,
`MarkSynced` or `MarkFailed`, `MarkError`; the announcement is `StartRepublish`, `ReadRegistries`,
`ReadAnnounced`, `ClearSignatures`, `AnnounceTo`, `MarkPending`, `ReadUnsigned`, `SignAgain`. What a
registry accepts is external, as the comments on `pushJob` tell it; an answer may be lost. An update
replaces the record a registry holds (`shown`), a takedown takes it away whenever it arrives (`gone`); how a
registry weighs the times that are signed along is not in the repository. `RecordOf` is what it holds.

**Relations** (`api/relation`, `core/stores/relations.svelte.ts`). Every row is about one pair, so
there is one: `pair` is the row of friendship, `blocks` and `ignores` the two lists. The first read
of a request is `StartAny`; then each request has an action per await, and the last one tells both
(`Emit`). `op.row` says that the row a request has read still exists, as in `ServerMembership`.
`store` is what an app shows, `Boot`, `ReadRows`, `ReadLists`, `ApplySnapshot` its start, `Identify`
and `SocketLost` its socket.

**DirectMessages** (`createDM` of `api/channel`, the gate of `MessageService.create`,
`RelationService.canDM`) extends it: the gate is five reads (`unread` blocks in any order, the
policy, the friendship), the search for a channel two, the creation three writes.

**Orders** has what several modules need of lists in ascending order: the enumerations of a set, and the
one that ascends.

**PermissionFold** (`api/common/permission-fold.ts`) is `resolvePermissionFold` with masks as sets of
permissions: layers applied in order, lowest role first. **RoleHierarchy** (`api/role`,
`api/permission-override`, `PermissionGuard`, `transferOwnership`) uses it for every check a request
makes. A reordering lists roles as it likes, one of them twice, too (`RoleReorderInputSchema` is a list of
strings). A request goes through the stages of its kind: list, member, role or override (what it
reads), rank (`Outranks`), cap (`Capped`, a permission one has not got cannot be handed on), and its
writes, one row at a time (`MoveRole`, `Scrub`). `position`, `deleted`, `allow`, `deny` of a role are
all there is of it.

**RealtimeClient** (`packages/rust/slyng-client/src/ws`, native) has the state under the mutex
(`client`), the spawned loops, subscriptions between their two sections (`calls`), and every socket
with the gateway's record of it. `connect_once` is `Dial`, `Hello`, `Flush`, `PumpEnds`; each section
under the mutex is an action. The gateway's side is `Handle` (frames in order, handlers not awaited),
`SessionFound` and `AddTopics`. The application may call at any time.

**ChannelMessages** (`api/message`, `core/stores/messages.svelte.ts`,
`ui/pages/channel-page.svelte`) extends it: `rows` and `pins` are the tables, `jobs` the requests at
work (`Post` or `Request`, `WritePins`, `WriteRow`, `ReadAgain`, `Tell`, `SendAnswered`, and the
embeds of a message resolved in their own time), `app` the list of an open channel, `fetches` its
loads (`Open`, `ScrollUp`, `Jump`, `Flip` when the permission to see removed messages changes;
`Query`; `LoadShown` or `OlderShown`). An event reaches the list if a socket of the client has the
topic. A message is a number, in the order of `created_at`; of its row the model keeps a text that
changes, whether it has embeds, and whether it is removed or pinned. `CacheTells` speaks of an open list
that is `Steady`: no load is about to replace it, no page was put before a list it was not asked for (`log.crossed`),
and of two messages posted at once the newer one was not told of first (`log.rivals`, set by `Tell`). A load
that replaces the list clears both marks, but for what it meets itself: `crossed` stays if its page was read under
another permission, `rivals` if an older message than the newest is still being posted. `Query` reads the rows of a page
and the permission to see removed ones in one step, and keeps which permission it was (`all`).

**ServerChannels** (`api/channel`, `api/category`, `core/stores/servers.svelte.ts` and the two components
that load and drag) extends `RealtimeClient` as well. `channels` and `categories` are the rows, `acts` the
requests at work: `Start...` is what a request reads first, then it has an action per await, in which
the call takes effect and what follows it up to the next one happens. An order of ids (`StartReorder`,
`StartSort`) is dealt the positions the listed rows have, in their order (`ChannelMoves`,
`CategoryMoves`); each row that changes is written and then told (`WriteMove`, `TellMove`).
`sidebar.shown` and `.headings` are what the app shows; a drag of its own changes them at once
(`Reordered`), and is taken back by a reload if the server refuses (`sidebar.due`). `loads` are
`loadServer` and `refreshChannels`: two reads in any order, and then both lists replaced. Of a channel the model
keeps its position, its category and whether it is in the trash; of a category its position.

**ChannelPage** is the page of a server: the messages of a channel and the sidebar, over one
`RealtimeClient`. Neither half reads the other's state. What is proved of any of the three is proved here.

## 4. Runs

| Run | Instance | Shows |
|---|---|---|
| `gateway_board` | 2 users, a device each, 3 sockets; online, idle, invisible | snapshot and broadcasts leave no gap (`ViewFaithful`); the gateway implements the board (`ImplementsBoard`) |
| `gateway_tabs` | 1 user, 2 tabs, cookie and frame identification, a status being saved | whoever is registered is present (`RegisteredHasPresence`); only the last tab takes the user offline (`NoPrematureOffline`) |
| `voice_overlap` | 1 user, 2 sockets, 2 channels, 2 handlers, 3 rows (one is always free), faults, restarts | `TypeOK`; map, table and rosters agree when handlers ran one at a time (`SerialVoiceAgrees`); tabs do not end each other's call (`OnlyLastTabLeaves`); a leave is seen (`LeaveIsSeen`) |
| `sync_clients` | 2 clients, of which one's store is looked at, a DID, 2 fetches, 2 changes | exact reference counts (`RefcountExact`), exact in-flight map (`LoadsAreTracked`); a watched DID is tracked (`TracksRemote`), an invalidated profile comes back (`ComesBack`) |
| `membership_users` | founder and user, 2 handlers, 2 ban rows, an invite for one, 2 joins, faults | `TypeOK`, `SerialCount`, `SerialRemoval`, `SerialOwner`, `InviteNotOvercharged` |
| `outbox_rotated` | a registry, 3 jobs, 3 keys, 2 rotations and 2 requests at once, the poller, a delegation, a failing call; a registry that is removed and added again around a takedown that comes late | the chain (`ChainVerifies`, `SeedIsHead`, `DelegationsVouched`); delivery (`AtLeastOnce`, `StatusTells`), under the current root (`SignedByRoot`), and over once (`TerminalStays`) |
| `relations_pair` | a pair, 2 requests at once out of 3, an app that starts twice, 2 direct calls, a change of policy, faults | `BlockExcludes`, `Consent`, `StoresTell`, `OneChannel`, `NothingPastTheGate` |
| `roles_server` | an owner, a member, 3 roles; 2 requests about roles one after the other, reorderings of up to 4 ids (repeats included) among them, or 2 about permissions that overlap, or overrides of one permission on every level | `OwnHeight`, `KeepsItsPlace`, `NothingFromNowhere`, `FoldDecides`, `TypeOK` |
| `channel_page` | a channel with 3 messages, pages of 1, 2 requests and 2 loads at once, two messages posted at once around two loads, a permission that changes once, or twice; a server with 3 channels and 2 categories, 2 requests and 2 loads at once; a client with 2 sockets, 2 loops, 5 calls, 2 failures | the socket is told what the application wants (`FramesMirror`); the list is what the server has (`CacheTells`), and so is the sidebar (`SidebarTells`), in which no channel is ever under a heading that is gone (`NothingVanishes`) and none shares a position (`PlacesApart`); `PageTypeOK` |
| `gateway_ghost`, `membership_evicted`, `client_resubscribed` | the smallest instance that shows it | a disagreement, see section 7 |

The type invariants of `GatewaySession`, `RegistryOutbox` and `Relations` are proved (section 5) and left
out of the runs. The messages of a channel and the sidebar share a run because they share the client;
neither reads the other's state, and `MCChannelMessages` starts them one at a time.

Properties named `Serial...`, and those that speak of `torn`, `raced`, `tangled`, `loose`, `crossed`, `rivals`, `mixed` or `suspect`, are
conditional on purpose. The code has no locks, and unconditional forms are false (section 7); what it
does keep is stated with the weakest condition found. For `ServerMembership` that is: handlers *about
the same user* did not overlap and none was cut short by a failure. Handlers about other users may
overlap at will, which is where a shared counter, row or topic could still break them (`member_count`
does, so `SerialCount` asks for more). Where a hazard of `PROJECT.json` is such an overlap, the property that is
listed for it does not catch the overlap, which the code does go wrong in, but everything else that could break
the same relation. `Consent`, `ChainVerifies`, `SeedIsHead`,
`DelegationsVouched`, `AtLeastOnce`, `NothingFromNowhere`, `InviteNotOvercharged`, `TerminalStays`,
`NothingPastTheGate` and the properties of the gateway and the watcher hold without such a condition.

Why the bounds are enough: every handler is a straight line that reads rows of one user and
shared counters, so conflicts are pairwise; with two handlers, two rows and two users every pair of
steps is interleaved. Two changes of a remote profile suffice for an answer to be outdated and for
its successor to be, too. Three sockets let a half-open socket of a user, a new one and an
observer's coexist. Pages of one row make every message a boundary of a page, where the code's pages
of fifty would need a hundred rows; nothing in the code depends on the number but `length < limit`.
Every invariant the runs check is also proved for every size (section 5), `NothingVanishes` under a
hypothesis that the instance meets.

Where all bounds together are too many states, an MC module starts from several states in which parts
of them are spent, `Left(...)` in `MCRegistryOutbox`, `MCDirectMessages` and `MCChannelMessages`, and
`Server(...)` in `MCRoleHierarchy`: rotations that overlap without an outbox, requests without a
rotation, one of each, a registry that was added, synced and removed and whose takedown is still to be delivered,
and so on. These are states the program reaches, or idles in. In `MCRoleHierarchy`
three servers are told apart by the number their requests begin at (`MCExercised` says which kinds of
requests the n-th may be), and the constraint `Apiece` keeps the requests about the structure of the
roles apart. `Scope` in `MCDirectMessages` follows an app as long as `StoresTell` speaks of it. `Exercised` and `Asked` name the
requests of an instance; all of them are made.

Reductions: sockets, handlers, ban rows, loops, loads, and users with their devices are
interchangeable (`SYMMETRY`, only in runs without liveness). `LiveState` in `MCGatewaySession`,
`MCServerMembership` and `MCRegistryOutbox` is a `VIEW` that leaves out what no later step reads: the
record of a socket nothing refers to, what a handler has read and is past using, the count once it
has drifted. Socket names are reused when nothing refers to them (`Fresh`); since ghosts keep a name
for ever, the pool may run out, and the gateway's runs do not check for deadlock for that reason
alone. The runs with bounded requests (`outbox_rotated`, `relations_pair`, `roles_server`,
`channel_page`, `client_resubscribed`) do not either: the users of the model stop when their requests
are used up. `Slots`, `Ops`, `Rows`, `BanIds`, `Fetches`, `Jobs`, `Loops`, `Conns` and the `Max...`
bound what the code does not.

Fairness: Node resumes every handler whose database call was answered (weak fairness of the
handler's steps, `Fairness` in `VoicePresence`). In `ProfileWatcher` the interval timer fires for
ever (`WF` of `Poll`), a queued entry gets its turn and an instance that is asked for ever answers now
and then (`SF`): `drain` works its queue off, and without an answer nothing can be learnt. In
`ProfileSync` a load ends by its own timeout and the derived expression that shows a profile runs
again when its entry goes. Nothing is assumed of users. The other modules check no liveness: their
handlers are straight lines that end when their calls do, or the code promises nothing.

## 5. Proofs

TLAPS checks what follows for every value of the constants, from the named assumptions that stand
with them (`ASSUME`): bounds are natural numbers, the sets whose members are counted are finite,
`None` is not a value of what may be absent (`OutboxTasks`, `CallsNone`, `RelationsNone`,
`RelationsEvents`, `RequestsNone`, `VoiceRecords`, `ClientRecords`, `MessageRecords` and `SidebarRecords`
say this of the records of handlers and of what sockets carry), ids of roles are not ids of members, and
ids of channels are not ids of categories.
A module of proofs extends the modules it is about; `Gateway_proofs` is about two that share no variable,
and `PageContents_proofs` goes on where `ChannelPage_proofs` ends.
The specifications are those of the runs without their MC modules. In each module the conjuncts of an
invariant that is inductive are shown to hold initially and to survive each action, one lemma per
action or per group of actions that touch the same variables; the theorems are conjuncts of it, or
steps that start from it.

| Module | Inductive invariant | Theorems |
|---|---|---|
| `Gateway_proofs`, of `GatewaySession` | `IInv`: types, an identification under way belongs to the owner of its socket, a registered socket is identified, a linked device is the peer of its socket; with it the presence of the registered, and the view of those a device was told of | `TypeCorrect`, `PresenceSafe` (`RegisteredHasPresence`), `ViewSafe` (`ViewFaithful`), `OfflineSafe` (`NoPrematureOffline`), `GatewayImplementsBoard` (`ImplementsBoard`) |
| `VoicePresence_proofs` | `IInv`: `TypeOK`; `Held`: a row id that a handler remembers is gone, or still a row of the handler's user; `Orderly`: of a user whose handlers never crossed at most one is at work (`OneHandler`), when none is the three copies agree (`Agrees`), and when one is what it may rely on and has yet to write is told by its stage (`Stands`) | `TypeCorrect` (`TypeOK`), `VoiceAgrees` (`SerialVoiceAgrees`), `TabsApart` (`OnlyLastTabLeaves`) |
| `Gateway_proofs`, of `ProfileWatcher` | `WatchInv`: types and `RefcountExact`; a registration adds one to the cardinality of the watchers, the end of one takes it away (`WatchersAfterRegister`, `WatchersAfterUnregister`) | `WatchTypes`, `RefcountSafe` |
| `Gateway_proofs`, of `ProfileSync` | `SyncInv`: the former, whose lemmas are used again for the steps of the watcher in its company, and `Tracking`: per client and profile one load that is not outdated, or none | `LoadsSafe` (`LoadsAreTracked`), `SyncRefcounts` (`RefcountExact`) |
| `ServerMembership_proofs` | `IInv`: the charges of an invite, and `ChargesCovered`: what a join has read of its uses is covered by the joins made, and one charge less as long as it has yet to charge. `OneByOne`: of a user whose handlers did not overlap at most one is at work, and its stage says how member row, topics, ban and ownership stand (`Local`). `OneCounter`: while nobody at all overlaps, the count differs from the rows by what the one handler owes it (`Tally`) | `TypeCorrect`, `InviteSafe` (`InviteNotOvercharged`), `RemovalSafe` (`SerialRemoval`), `OwnerSafe` (`SerialOwner`), `CountSafe` (`SerialCount`) |
| `RegistryOutbox_proofs`, of `RootRotation` | `IInv`: the chain verifies, the seed is its head's, delegations are vouched for, and `Underway`: a statement a rotation brings to the table had a place in the chain when it was prepared, and is appended only at a free one; so it extends the chain (`Extends`) or is refused | `ChainSafe`, `SeedSafe`, `DelegationsSafe` |
| `RegistryOutbox_proofs` | `OutInv`: the invariant of rotations, and `Knows`: each handler's copies are of jobs that exist, and a handler that is about to mark a job completed or a registry synced has been accepted by it. Jobs are only added, and what they are about never changes (`Grows`), so that what one handler knows survives the others. `Steady`, as long as no rotation crossed the outbox and no call failed (`Calm`): the signatures and statuses of the outbox are those of the head of the chain, but for what the announcement at work has yet to rewrite (`Announces`), and requests and polls sign and send under no other root (`Works`) | `OutboxTypes` (`TypeOK`), `NothingLost` (`AtLeastOnce`), `ChainOfTheOutbox` (`ChainVerifies`, `SeedIsHead`), `OverIsOver` (`TerminalStays`), `SignedSafe` (`SignedByRoot`), `StandingSafe` (`StatusTells`) |
| `DirectMessages_proofs` | `RelInv`: a request that is accepting has seen a row of the other's, and who asks has yet to read every block that was there from the start. `SerialInv`: as long as no two requests about the same rows overlapped, each finds them as its stage supposes (`Serial`), and unless a call failed every app shows the rows but for what a request has yet to tell (`Mirrors`). `GateInv` says of the five reads of the gate of a message that each has seen what was there. `ChannelInv`: every channel has both its participants or a creation that holds it, unless a creation failed, and unless two creations crossed there is one at most, and at most one channel (`OneAtATime`) | `RelationsSafe`, `ConsentHolds` and `DirectConsent` (`Consent`), `GateHolds` (`NothingPastTheGate`), `DirectImplementsRelations` (`DmSpec => Spec`), `SerialRelations`, `BlockSafe` (`BlockExcludes`), `StoresSafe` and `DirectRelations` (`StoresTell`), `OneChannelSafe` (`OneChannel`) |
| `RoleHierarchy_proofs` | `Base`: types, and what each stage of a request has filled in (`Fits`). `Granting`: no role, no override, no row a request has read and no mask that was compared holds what no owner ever gave (`RowsWithin`, `Earned`). `Sound`: unless requests overlapped there is one, and a deletion about to drop a role has listed all its holders (`Covers`). `Level`: what that one request has read of heights is what is there; while a creation moves roles up they descend below those it has moved (`Rising`), and what a swap, or a reordering that lists no role twice, still has to write ends in heights that differ (`Settling`). `Lower`: what the request of a member who is not the owner is about to move, trash, restore, give or take is lower than their highest role, and so is where it moves it to (`Beneath`) | `TypeCorrect` (`TypeOK`), `FoldSafe` (`FoldDecides`), `GrantsSafe` (`NothingFromNowhere`), `HeightsSafe` (`OwnHeight`), `PlacesSafe` (`KeepsItsPlace`) |
| `ChannelPage_proofs`, of the client | `ClientTypeOK` and `MirrorInv`: of a client nobody disconnected at work, the frames sent, waiting, queued or still inside a call add up to what the application wants | `ClientSafe`, `PageSafe` (`FramesMirror`) |
| `ChannelPage_proofs`, of the page | `SoundInv`: the former, and the types and shapes of the requests and loads of messages (`TalkInv`) and sidebar (`SideInv`) | `PageTypes` (`PageTypeOK`) |
| `PageContents_proofs`, positions | `PlacesInv`: of a table whose positions were not given out twice at once at most one request gives some out, and the positions that rows have, or will have when its moves are done, differ (`Apart`) | `PositionsApart` (`PlacesApart`) |
| `PageContents_proofs`, the sidebar | `SidedInv`: two requests about the same thing put it in doubt (`Clashes`); what a request relies on still holds (`AllKnow`); no row is in a category that is gone (`HomesStand`); what the sidebar shows of a thing, and what a page under way has of it, is the row, or fits what the one request at work on it has yet to tell (`Right`, `PagesRight`). `LookedInv`: before the server is looked at, nothing is shown and nobody asks for its topic | `SidebarSafe` (`SidebarTells`), `HeadingsStand` (`NothingVanishes`) |
| `PageContents_proofs`, the list | `CacheInv`: messages are numbered as they are posted (`Numbered`); requests that meet put their message in doubt (`Collide`), others find what they rely on (`AllRely`); a page that was read (`PagesTell`) and the list (`ListTells`) ascend, a page still fits before the list it was asked for, and what they say of a message fits its row. Until `rivals` is set, what is newer than a message that is still being posted has not been told of (`Orderly`), and neither the list nor what it was asked to go before is newer (`Ahead`): so what is added at the end of the list belongs there | `ListSafe` (`CacheTells`) |

`RefcountExact` alone is inductive, `LoadsAreTracked` is not: it says nothing of outdated loads.
`AtLeastOnce` is not either: it says of jobs that are completed what `Knows` says of those about to
be. `Consent` and `TerminalStays` speak of steps; for `Consent` the invariant that an acceptor is not
the one who asked is what excludes an acceptance of one's own request.

The board is implemented step by step: `RegisterSocket` attaches a device that is shown the whole board,
a status or a departure is one change of the board and of every attached view (`ViewFaithful` says
that they were right before), and every other action of the gateway is a stutter.

A property on condition that handlers did not cross is proved by an invariant of the same form, with
three parts: while the history records no crossing there is at most one handler that matters; without one the
tables agree; with one they are what each of its stages has left of them, which is a table with a line
per stage (`Stands`, `Announces`, `Relies`, `Local`). Each action then has to be looked at only in its
own line. A handler that begins while another is at work makes the history say so in the same step,
and a property of one user is not disturbed by handlers of another. In `VoicePresence` the last
point is where the invariant had to be strengthened, by `Held`: a handler remembers the id of a row, and if ids were
given out again it might write over the row of another user. They are not (`Unused`).

`FoldDecides` speaks of a state alone and holds in every state of the right types. The fold is a recursive
function over the layers; along its layers each permission is what the last layer says that says anything
(`LastDecides`), the layers of roles ascend by height (`LowestFirstSorts`), so that the last to say anything
is the highest (`RolesDecide`), and the cascade is taken apart scope by scope (`FoldsAsDecided`). That roles
which count together do not share a height is its condition (`Ranked`), because the order of such two is the
database's. For `OwnHeight` the attempt of a proof, and then TLC with a third request, showed a swap of a
role with one in the trash (section 7), which is part of `history.loose`, as is a reordering that lists a role
twice (`Muddles`): a list that names each role once deals out different heights, whatever its length.

`KeepsItsPlace` speaks of the steps between a check of ranks and the last write. The check compares what
a request has read, `Lower` carries its outcome to each of the writes, and as long as nothing at or above
a height changes (`Untouched`), neither does the rank that it gives. A creation is the exception: it moves
the very role that gives the rank (`CreationKeeps`). `Rising` makes that harmless: whatever has been moved
is more than one above the next to move, so that no role arrives at the rank from below.

The list and the sidebar are proved alike. What either says of one message, channel or category is a
*version* of it. With no request at work on it, the version has to be exact (`Exact`, `Truth`). With one, it
is what that request permits at its stage (`Permits`, `Fits`): before it writes still the old row, after it
the old or the new one as long as it has yet to tell, and when it ends exact again. So each action of
a request is looked at by itself: it moves a request from one stage to the next, and takes what the one
permitted to what the other permits (`Moved`, `Fared`). A page is a second list, read at some moment, for
which the same is said of what has not been told since. One more thing is said of it: if it lags behind the
row somebody is about to tell of that (`Telling`, `Owes`). Without it a page that was read between a write
and its event, and shown after a second request has ended, could not be excluded.

`HeadingsStand` has a hypothesis, `OnlyLayoutSubscribes`: the client begins to want the topic of the server
only in the step in which the layout shows the lists it has loaded. In the application it is so:
`server-layout.svelte:140` is the only call that names a server. The model lets the application
subscribe to anything at any time; and then an app that shows nothing yet is told of a channel whose category
it never heard of.

Attempts at these proofs found what the runs had missed. `CacheTells` was false of two changes of the
permission around one read, as TLC confirms on the instance the run now has: the answer was compared with
what had been asked, not with what had been read. `Query` now keeps that. The
channels a category turned out to have when they were listed (`ListChildren`) were not put in doubt with it,
and a final deletion of a channel that had come back (`DropChannel`) left a page under way unmarked. All
were slips in the marks that only properties read, none in an action of the code.

`ClientSafe` and `PageSafe` are the same property of two specifications, the client by itself with an
application that does anything, and within the page.

Only model-checked: liveness (`LeaveIsSeen`, `TracksRemote`, `ComesBack`), because TLAPS has no rules for
fairness and ENABLED here, and the three disagreements of section 7, which are counterexamples. The
theorems of the page speak of one channel and one server, as the models do.

## 6. Not modelled

Listed with reasons in `PROJECT.json`. In short: what changes no shared state (typing, WebRTC
signalling, previews, audit records), I/O (media, uploads, embeds, storage), cryptography (a
signature is either right or not), the rows of one owner that nobody else writes (profiles, posts,
library), and the user interface but for the channel page and the sidebar. Deletion of a server,
mentions, reactions and the key-value store are left for later. `ServerChannels` leaves out names and
topics, who may see which channel, and that an app may look at another server; events reach it in the
step that tells them. The wasm
client is left out: it runs the protocol of the native one on a single thread, where a section is not
interrupted. Codes of permissions, messages and frames are model values; TLC never sees a string.

## 7. Where the code and its own words differ

Three runs end in a counterexample (`findings` in `PROJECT.json`):

* `gateway_ghost`: a socket that closes while its IDENTIFY waits for `users.findOne` is added to
  `userSockets` afterwards. Its close event is over, so the user stays present until a restart.
* `membership_evicted`: topics are added after the reads that authorise them, so that an eviction
  between the two is undone.
* `client_resubscribed`: after a reconnect the client sends SUBSCRIBE right behind IDENTIFY; the
  gateway handles it while the session is still being looked up, and drops it
  (`chat.gateway.ts:427`). The client is identified and has no topics.

The models also reach, by interleavings of the same kind, the following states, for which no run of
their own is kept.

*Presence and voice.* The READY snapshot is merged into the map kept from the connection before, so
who went offline meanwhile stays online on the device (`presence.svelte.ts:63`). A status update with
a custom text alone, sent between `SessionFound` and `RegisterSocket`, persists `online` over the saved
status (`chat.gateway.ts:578`). A mute toggle that carries no video flag is taken for a join
(`chat.gateway.ts:645`), and a join resets every flag (`voice.service.ts:36`). A join that passes
the close of the user's last socket leaves a voice state behind (`chat.gateway.ts:676`). Nothing reads
the voice rows back after a restart (`voice.service.ts:152` has no caller).

*Profiles.* A profile that changes between a client's load and the watcher's first poll is never
announced (`profile-watcher.service.ts:127`), and a load begun before an invalidation stores its
outdated answer after it (`profiles.svelte.ts:155`).

*Membership and roles.* A transfer that overlaps the new owner's leave makes a non-member the owner
(`server.service.ts:236`), a join that has passed the ban check enters after the ban
(`server.service.ts:624`), and two joins that read the same `uses` both pass a limit of one
(`server.service.ts:617`). Two assignments of roles lose one (`role.service.ts:538`); a refused
creation has already moved every role up (`role.service.ts:163`); a restored role, or a swap that
fails midway, may share a height with another; a swap accepts a role in the trash (`role.service.ts:300`
reads both without looking at `deleted`) and trades heights with it, though that height may be another's by now; a
reordering that lists a role twice gives one height to two roles in a single request (`role.service.ts:382`: with
*a* at 3, *b* at 2 and *c* at 1 the list *b c a b* leaves *a* and *c* at 2); the comment near `role.service.ts:134` that nothing is
ever above the actor fails for an actor without a role of their own; overrides of a role in the trash
still count, those of a role that is gone cannot be removed any more.

*Relations and direct messages.* Two `createDM` at once make two channels, and a message into a
channel whose second participant is not written yet skips the gate (`message.service.ts:571`). A block
that overlaps a request leaves the request behind it; an app that reconnects never loads its
relations again (`relations.svelte.ts:92`).

*Outbox.* A job of a registry that was removed keeps the signature of the old root over a rotation,
and is delivered again under it, when no registry is left (`registry.service.ts:141`, against the
comment at `idp-registry.repository.ts:217`); a sync or a poll that overlaps a rotation writes the
old root's signature back; a cancellation or retry is overwritten by the push under way. A takedown whose
answer was lost stays in the outbox, and if the registry is added again meanwhile it is delivered again
and takes the new record away, while the registry is called synced (`registry.service.ts:313`; `enqueue` leaves
the jobs of a removal alone). `StatusTells` names this exception (`AnnouncedAgain`).

*Messages.* A page is filtered for removed rows after its limit was applied, so that ordinary viewers
are told too early that there is nothing older (`message.service.ts:526`, `channel-page.svelte:286`).
A message that is restored does not come back to those who had dropped it, against "so every client
gets the content back" (`message.service.ts:787`). Who may see removed messages and hears of a
deletion that has met a final one is sent an update without a row, against "fall through to
MESSAGE_DELETE only" (`message.service.ts:728`). A page of older messages that was asked for in an
earlier visit, before a refetch, or by a jump and a scroll at once is put before a list it does not
fit, with a gap or twice, against "Paging from the present keeps the timeline contiguous"
(`channel-page.svelte:421`). A load asked for before the permission changed may overwrite the refetch.
Of two messages posted at once the newer one may be told of first (`message.service.ts:628`, two awaits after the
row is written); an open list then shows them out of order until the channel is loaded again. What is told while the socket is away is missing
until the channel is loaded again; a load that fails leaves the channel empty. Removing a direct
message is told to nobody (`message.service.ts:719`). A pin and an unpin, or a final deletion, that
overlap leave flag and pin apart. `mention_count` is written from an earlier read
(`message.service.ts:416`).

*Channels and categories.* What a request tells is the row it reads last, whatever has become of it:
a restoration that overlaps a deletion puts the channel back into every sidebar while it is in the trash
(`channel.service.ts:172`), a deleted category tells of its channels as they were when they were listed
(`category.service.ts:93`), and a channel that is put into it meanwhile stays under a heading that is
not drawn. Nothing checks that the category of a creation or a move exists. A creation that overlaps
another, or a reordering, may give out a position twice (`channel.service.ts:232`), and since reordering
deals out the positions there are, a drag cannot tell the two apart again. A reordering that lists a channel or
category twice would do the same (`channel.service.ts:259`, `category.service.ts:112`); the lists of
`ServerChannels` are those a drag makes, which name each once. `loadServer` subscribes to the
server after its lists are read, so that what happens between is missing until the next load
(`server-layout.svelte:140`); a reload overwrites what was told while it was under way
(`channels-panel.svelte:83`), and if only the categories fail to load, every channel in one vanishes
from the sidebar (`server-layout.svelte:93`).

*Realtime client.* `disconnect` leaves the loop and its socket to themselves (`native.rs:34`): a
`connect` that follows makes a second loop, whose socket the first one's end disowns, or lets the old
loop go on and the client is `Identified` without a queue, or `Connecting` without a loop. A
`connect` between the end of a socket and the backoff spawns a second loop as well. `FramesMirror`
therefore speaks of clients nobody disconnected at work (`past.cut`).
