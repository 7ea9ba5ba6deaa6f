--------------------------- MODULE ServerMembership ---------------------------
(***************************************************************************)
(* Membership of one server: joinByInvite and transferOwnership of         *)
(* ServerService, leave / kick / ban / unban of MemberService, and the     *)
(* SUBSCRIBE frames of ChatGateway that MemberAccessService authorises     *)
(* (all under apps/slyng/api/src).                                         *)
(*                                                                         *)
(* Each of these is a chain of database calls with an await between any    *)
(* two, and none holds a lock or a transaction: what was read first is     *)
(* acted upon later, whatever happened between.  A running handler is a    *)
(* record in `ops`; a database call and the code after it, up to the next  *)
(* call, are one action.  Reads that cannot change the outcome here (the   *)
(* invite's target, roles, audit, messages to purge) are left out, and so  *)
(* is who may kick or ban: somebody else always may.                       *)
(***************************************************************************)
EXTENDS Integers, FiniteSets

CONSTANTS Users, Founder,
          Exercised,    \* the kinds of requests that are made
          MaxUses,      \* max_uses of the invite, 0 for unlimited
          Ops,          \* bound: handlers running at the same time
          BanIds,       \* bound: rows of server_ban that matter at once
          MaxJoins,     \* bound: how often somebody joins
          Faults,       \* whether database calls may fail
          None

ASSUME MembershipFounder == Founder \in Users
ASSUME MembershipFinite == IsFiniteSet(Users)
ASSUME MembershipLimits == MaxUses \in Nat /\ MaxJoins \in Nat
ASSUME MembershipFaults == Faults \in BOOLEAN

VARIABLES
  members,   \* users with a server_member row
  owner,     \* server.owner_id
  count,     \* server.member_count
  uses,      \* server_invite.uses
  bans,      \* active server_ban rows of each user
  subs,      \* users with a socket subscribed to topics of the server
  ops,       \* handlers waiting for the database
  joins,     \* history: how often somebody joined
  drift,     \* history: two handlers that count members overlapped
  raced      \* history: users two handlers were about at the same time

table   == <<members, owner, count, uses, bans>>
history == <<joins, drift, raced>>
vars    == <<table, subs, ops, history>>

Removals == {"leave", "kick", "ban"}
Counting == Removals \cup {"join"}
Kinds    == Counting \cup {"unban", "transfer", "subscribe"}
Stages   == {"ban", "existing", "create", "uses", "count", "inc",
             "member", "delete", "dec", "bans", "clear", "evict",
             "target", "flip", "chMember", "chFold", "srvBan", "srvMember"}
Op == [kind : Kinds, user : Users, stage : Stages,
       count : Nat,              \* member_count as read
       uses : Nat,               \* uses as read
       row : BOOLEAN,            \* the member row read is still there
       rows : SUBSET BanIds]     \* the active ban rows read
ASSUME MembershipNone == None \notin Op

TypeOK ==
  /\ members \subseteq Users
  /\ owner \in Users
  /\ count \in Nat
  /\ uses \in Nat
  /\ bans \in [Users -> SUBSET BanIds]
  /\ subs \subseteq Users
  /\ ops \in [Ops -> Op \cup {None}]
  /\ joins \in Nat
  /\ drift \in BOOLEAN
  /\ raced \subseteq Users

(* ServerService.create: the founder is owner and only member. *)
Init ==
  /\ members = {Founder}
  /\ owner = Founder
  /\ count = 1
  /\ uses = 0
  /\ bans = [u \in Users |-> {}]
  /\ subs = {}
  /\ ops = [k \in Ops |-> None]
  /\ joins = 0
  /\ drift = FALSE
  /\ raced = {}

-----------------------------------------------------------------------------
Running == {k \in Ops : ops[k] # None}
Busy(u) == \E k \in Running : ops[k].user = u
Banned(u) == bans[u] # {}

At(k, kinds, stage) ==
  /\ ops[k] # None
  /\ ops[k].kind \in kinds /\ ops[k].stage = stage

Blank(kind, u, stage) ==
  [kind |-> kind, user |-> u, stage |-> stage,
   count |-> 0, uses |-> 0, row |-> FALSE, rows |-> {}]

(* A handler passes its first read: `op` is what it goes on with, and      *)
(* `about` the users whose membership it reads or changes.                 *)
Start(k, op, about) ==
  /\ ops[k] = None
  /\ ops' = [ops EXCEPT ![k] = op]
  /\ raced' = raced \cup {u \in about : Busy(u)}
  /\ drift' = (drift \/ /\ op.kind \in Counting
                        /\ \E j \in Running : ops[j].kind \in Counting)

Goto(k, stage) == ops' = [ops EXCEPT ![k].stage = stage]
Finish(k) == ops' = [ops EXCEPT ![k] = None]

-----------------------------------------------------------------------------
(* joinByInvite reads the invite, the ban and the member row, and only     *)
(* then writes: the row, the uses it read plus one, the count plus one.    *)
StartJoin(k, u) ==
  /\ joins < MaxJoins
  /\ MaxUses = 0 \/ uses < MaxUses
  /\ Start(k, [Blank("join", u, "ban") EXCEPT !.uses = uses], {u})
  /\ UNCHANGED <<table, subs, joins>>

\* Mutant: the ban rows are read and not acted upon.
BanIgnored(k) ==
  /\ At(k, {"join"}, "ban")
  /\ Goto(k, "existing")
  /\ UNCHANGED <<table, subs, history>>

JoinChecksBan(k) ==
  /\ At(k, {"join"}, "ban")
  /\ IF Banned(ops[k].user) THEN Finish(k) ELSE Goto(k, "existing")
  /\ UNCHANGED <<table, subs, history>>

JoinChecksMember(k) ==
  /\ At(k, {"join"}, "existing")
  /\ IF ops[k].user \in members THEN Finish(k) ELSE Goto(k, "create")
  /\ UNCHANGED <<table, subs, history>>

(* The unique index refuses a second row of the user: the handler throws.  *)
CreateMember(k) ==
  /\ At(k, {"join"}, "create")
  /\ IF ops[k].user \in members
     THEN Finish(k) /\ UNCHANGED <<members, joins>>
     ELSE /\ members' = members \cup {ops[k].user}
          /\ joins' = joins + 1
          /\ Goto(k, "uses")
  /\ UNCHANGED <<owner, count, uses, bans, subs, drift, raced>>

\* Mutant: the invite is charged for two.
ChargeTwice(k) ==
  /\ At(k, {"join"}, "uses")
  /\ uses' = ops[k].uses + 2
  /\ Goto(k, "count")
  /\ UNCHANGED <<members, owner, count, bans, subs, history>>

ChargeInvite(k) ==
  /\ At(k, {"join"}, "uses")
  /\ uses' = ops[k].uses + 1
  /\ Goto(k, "count")
  /\ UNCHANGED <<members, owner, count, bans, subs, history>>

JoinReadsCount(k) ==
  /\ At(k, {"join"}, "count")
  /\ ops' = [ops EXCEPT ![k].stage = "inc", ![k].count = count]
  /\ UNCHANGED <<table, subs, history>>

JoinWritesCount(k) ==
  /\ At(k, {"join"}, "inc")
  /\ count' = ops[k].count + 1
  /\ Finish(k)
  /\ UNCHANGED <<members, owner, uses, bans, subs, history>>

-----------------------------------------------------------------------------
(* Bound: every ban that has begun finds a row to use.                     *)
BanFits ==
  Cardinality(UNION {bans[u] : u \in Users})
    + Cardinality({j \in Running : ops[j].kind = "ban"}) < Cardinality(BanIds)

(* leave, kick and ban read the server first, and keep its member_count.   *)
StartRemoval(k, kind, u) ==
  /\ owner # u
  /\ kind = "ban" => BanFits
  /\ Start(k, [Blank(kind, u, "member") EXCEPT !.count = count], {u})
  /\ UNCHANGED <<table, subs, joins>>

(* Nobody to remove: leave and kick throw, ban goes on.                    *)
ReadMember(k) ==
  /\ At(k, Removals, "member")
  /\ IF ops[k].user \in members
     THEN ops' = [ops EXCEPT ![k].stage = "delete", ![k].row = TRUE]
     ELSE IF ops[k].kind = "ban" THEN Goto(k, "bans") ELSE Finish(k)
  /\ UNCHANGED <<table, subs, history>>

(* members.delete takes the row that was read: a row the user got by       *)
(* joining again since then stays, and other readers hold a stale id now.  *)
DeleteMember(k) ==
  /\ At(k, Removals, "delete")
  /\ members' = IF ops[k].row THEN members \ {ops[k].user} ELSE members
  /\ ops' = [j \in Ops |->
       IF j = k THEN [ops[k] EXCEPT !.stage = "dec"]
       ELSE IF ops[j] # None /\ ops[j].user = ops[k].user
       THEN [ops[j] EXCEPT !.row = FALSE]
       ELSE ops[j]]
  /\ UNCHANGED <<owner, count, uses, bans, subs, history>>

\* Mutant: a ban does not write the count.
BanLeavesCount(k) ==
  /\ At(k, Removals, "dec")
  /\ count' = IF ops[k].kind = "ban" \/ ops[k].count = 0 THEN count
              ELSE ops[k].count - 1
  /\ Goto(k, IF ops[k].kind = "ban" THEN "bans" ELSE "evict")
  /\ UNCHANGED <<members, owner, uses, bans, subs, history>>

\* Mutant: the count goes down without `Math.max(0, ...)`.
DecrementUnbounded(k) ==
  /\ At(k, Removals, "dec")
  /\ count' = ops[k].count - 1
  /\ Goto(k, IF ops[k].kind = "ban" THEN "bans" ELSE "evict")
  /\ UNCHANGED <<members, owner, uses, bans, subs, history>>

Decrement(k) ==
  /\ At(k, Removals, "dec")
  /\ count' = IF ops[k].count = 0 THEN 0 ELSE ops[k].count - 1
  /\ Goto(k, IF ops[k].kind = "ban" THEN "bans" ELSE "evict")
  /\ UNCHANGED <<members, owner, uses, bans, subs, history>>

(* ban: the active rows are deactivated one by one, then a new one is      *)
(* inserted.  unban: the active rows are deactivated one by one.           *)
ReadBans(k) ==
  /\ At(k, {"ban"}, "bans")
  /\ ops' = [ops EXCEPT ![k].stage = "clear", ![k].rows = bans[ops[k].user]]
  /\ UNCHANGED <<table, subs, history>>

StartUnban(k, u) ==
  /\ Banned(u)
  /\ Start(k, [Blank("unban", u, "clear") EXCEPT !.rows = bans[u]], {u})
  /\ UNCHANGED <<table, subs, joins>>

ClearBan(k) ==
  /\ At(k, {"ban", "unban"}, "clear")
  /\ \E b \in ops[k].rows :
       /\ bans' = [bans EXCEPT ![ops[k].user] = @ \ {b}]
       /\ ops' = [ops EXCEPT ![k].rows = @ \ {b}]
  /\ UNCHANGED <<members, owner, count, uses, subs, history>>

FreeBan(b) ==
  /\ \A u \in Users : b \notin bans[u]
  /\ \A j \in Running : b \notin ops[j].rows

InsertBan(k) ==
  /\ At(k, {"ban"}, "clear") /\ ops[k].rows = {}
  /\ \E b \in BanIds : /\ FreeBan(b)
                       /\ bans' = [bans EXCEPT ![ops[k].user] = @ \cup {b}]
  /\ Goto(k, "evict")
  /\ UNCHANGED <<members, owner, count, uses, subs, history>>

UnbanEnds(k) ==
  /\ At(k, {"unban"}, "clear") /\ ops[k].rows = {}
  /\ Finish(k)
  /\ UNCHANGED <<table, subs, history>>

(* evictFromServer: every registered socket of the user loses the topics.  *)
Evict(k) ==
  /\ At(k, Removals, "evict")
  /\ subs' = subs \ {ops[k].user}
  /\ Finish(k)
  /\ UNCHANGED <<table, history>>

-----------------------------------------------------------------------------
(* transferOwnership: the owner and the member row of the new one are      *)
(* read long before owner_id is written.                                   *)
StartTransfer(k, new) ==
  /\ new # owner
  /\ Start(k, Blank("transfer", new, "target"), {new, owner})
  /\ UNCHANGED <<table, subs, joins>>

\* Mutant: the target need not be a member.
TargetUnchecked(k) ==
  /\ At(k, {"transfer"}, "target")
  /\ Goto(k, "flip")
  /\ UNCHANGED <<table, subs, history>>

ReadTarget(k) ==
  /\ At(k, {"transfer"}, "target")
  /\ IF ops[k].user \in members THEN Goto(k, "flip") ELSE Finish(k)
  /\ UNCHANGED <<table, subs, history>>

FlipOwner(k) ==
  /\ At(k, {"transfer"}, "flip")
  /\ owner' = ops[k].user
  /\ Finish(k)
  /\ UNCHANGED <<members, count, uses, bans, subs, history>>

-----------------------------------------------------------------------------
(* handleSubscribe with the whole topic list of the server: the channel    *)
(* topics are authorised first (ban, member row, permissions), then the    *)
(* server topic (ban, member row).                                         *)
StartSubscribe(k, u) ==
  /\ Start(k, Blank("subscribe", u, IF Banned(u) THEN "srvBan" ELSE "chMember"), {u})
  /\ UNCHANGED <<table, subs, joins>>

ChannelsCheckMember(k) ==
  /\ At(k, {"subscribe"}, "chMember")
  /\ Goto(k, IF ops[k].user \in members THEN "chFold" ELSE "srvBan")
  /\ UNCHANGED <<table, subs, history>>

AddChannels(k) ==
  /\ At(k, {"subscribe"}, "chFold")
  /\ subs' = subs \cup {ops[k].user}
  /\ Goto(k, "srvBan")
  /\ UNCHANGED <<table, history>>

ServerChecksBan(k) ==
  /\ At(k, {"subscribe"}, "srvBan")
  /\ IF Banned(ops[k].user) THEN Finish(k) ELSE Goto(k, "srvMember")
  /\ UNCHANGED <<table, subs, history>>

AddServer(k) ==
  /\ At(k, {"subscribe"}, "srvMember")
  /\ subs' = IF ops[k].user \in members THEN subs \cup {ops[k].user} ELSE subs
  /\ Finish(k)
  /\ UNCHANGED <<table, history>>

(* UNSUBSCRIBE, or a new connection: a frame of the old one that is still  *)
(* being authorised only changes the topics of a socket that is gone.      *)
Reconnect(u) ==
  /\ u \in subs
  /\ subs' = subs \ {u}
  /\ ops' = [k \in Ops |->
       IF ops[k] # None /\ ops[k].user = u /\ ops[k].kind = "subscribe"
       THEN None ELSE ops[k]]
  /\ UNCHANGED <<table, history>>

(* A database call fails: the handler throws, and nothing is undone.       *)
DatabaseFails(k) ==
  /\ Faults
  /\ ops[k] # None
  /\ Finish(k)
  /\ raced' = raced \cup {ops[k].user}
  /\ drift' = (drift \/ ops[k].kind \in Counting)
  /\ UNCHANGED <<table, subs, joins>>

-----------------------------------------------------------------------------
Handlers(k) ==
  \/ JoinChecksBan(k) \/ JoinChecksMember(k) \/ CreateMember(k)
  \/ ChargeInvite(k) \/ JoinReadsCount(k) \/ JoinWritesCount(k)
  \/ ReadMember(k) \/ DeleteMember(k) \/ Decrement(k)
  \/ ReadBans(k) \/ ClearBan(k) \/ InsertBan(k) \/ UnbanEnds(k) \/ Evict(k)
  \/ ReadTarget(k) \/ FlipOwner(k)
  \/ ChannelsCheckMember(k) \/ AddChannels(k) \/ ServerChecksBan(k) \/ AddServer(k)
  \/ DatabaseFails(k)

Requests(k, u) ==
  \/ "join" \in Exercised /\ StartJoin(k, u)
  \/ \E kind \in Removals \cap Exercised : StartRemoval(k, kind, u)
  \/ "unban" \in Exercised /\ StartUnban(k, u)
  \/ "transfer" \in Exercised /\ StartTransfer(k, u)
  \/ "subscribe" \in Exercised /\ StartSubscribe(k, u)

Next ==
  \/ \E k \in Ops : Handlers(k) \/ \E u \in Users : Requests(k, u)
  \/ \E u \in Users : Reconnect(u)

Spec == Init /\ [][Next]_vars

-----------------------------------------------------------------------------
(* An invite is charged for joins only, never beyond its limit, whatever   *)
(* joins overlap, fail or are refused: `uses` never exceeds the number of  *)
(* people who joined, nor max_uses.                                        *)
InviteNotOvercharged ==
  /\ uses <= joins
  /\ MaxUses > 0 => uses <= MaxUses

(* member_count is the number of members whenever the handlers that write  *)
(* it ran one after another, whatever transfers and subscriptions ran at   *)
(* the same time.                                                          *)
SerialCount ==
  (~drift /\ \A k \in Running : ops[k].kind \notin Counting) =>
    count = Cardinality(members)

Settled(u) == u \notin raced /\ ~Busy(u)

(* Handlers about other users do not disturb what a handler does to one:   *)
(* if those about a user ran one after another, a user who is not a        *)
(* member has no topic of the server left, one with an active ban is not a *)
(* member, and an unban lifts all the bans there are.                      *)
SerialRemoval ==
  \A u \in Users : Settled(u) =>
    /\ u \notin members => u \notin subs
    /\ Banned(u) => u \notin members
    /\ Cardinality(bans[u]) <= 1

(* And the owner is a member: transfers do not make a server ownerless.    *)
SerialOwner == Settled(owner) => owner \in members

(* "Victim of kick/ban: server-side eviction removes their subs            *)
(* immediately.  Guard: users who aren't members get their SUBSCRIBE       *)
(* silently dropped" (AI.md).                                              *)
EvictedStaysOut == Running = {} => subs \subseteq members
===============================================================================
