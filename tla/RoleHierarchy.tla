---------------------------- MODULE RoleHierarchy ----------------------------
(***************************************************************************)
(* The roles of a server: RoleService, OverrideService and the transfer of *)
(* ownership, behind PermissionGuard.  A request is a chain of reads and   *)
(* writes without a transaction: it asks for a permission, reads the role, *)
(* compares its height with that of the actor, compares the permissions it *)
(* moves with those of the actor, and then writes row by row.              *)
(***************************************************************************)
EXTENDS PermissionFold

CONSTANTS Members,     \* the members of the server
          RoleIds,     \* bound: the ids of the roles other than Everyone
          Manage, Trash, \* the permissions the guard asks for
          Masks,       \* bound: the masks requests ask for
          Ops,         \* bound: requests under way at once
          Exercised(_), \* bound: the kinds of the n-th request
          Faults,      \* whether database calls fail
          MaxRequests, \* bound: requests ever made
          MaxNamed,    \* bound: roles a reordering lists
          MaxPosition  \* bound: the height of a role

ASSUME RolesAssumption ==
  /\ {Admin, Manage, Trash} \subseteq Bits
  /\ Masks \subseteq Mask
  /\ Everyone \notin RoleIds \cup Members /\ None \notin RoleIds \cup Members \cup {Everyone}
  /\ RoleIds \cap Members = {}
  /\ IsFiniteSet(RoleIds) /\ IsFiniteSet(Members)
  /\ MaxPosition \in Nat \ {0} /\ MaxRequests \in Nat /\ MaxNamed \in Nat

VARIABLES
  owner,     \* server.owner_id
  roles,     \* the rows of server_role by id, those in the trash among them
  held,      \* role_ids of a member
  overrides, \* the rows of permission_override by key
  ops,       \* requests waiting for the database
  history    \* only read by properties and bounds

tables == <<owner, roles, held, overrides>>
vars == <<tables, ops, history>>

Ids == RoleIds \cup {Everyone}
Role == [position : 0..MaxPosition, deleted : BOOLEAN, allow : SUBSET Bits, deny : SUBSET Bits]
RoleOps == {"update", "delete", "restore", "harddelete", "swap"}
Kinds == RoleOps \cup {"create", "reorder", "assign", "unassign", "upsert", "remove", "transfer"}
Rows == {"absent", "there", "gone"}
Stages == {"list", "member", "role", "override", "rank", "move", "cap", "insert", "write",
           "members", "scrub", "flip"}
(* roles: the roles a request names; whom: the member; scope: that of an   *)
(* override; mask: what it asks for; read: the rows of its roles; mine:    *)
(* role_ids it has read; height: that of the role it creates; todo: what   *)
(* it still has to write; row: the override it looked for.                 *)
Op == [kind : Kinds, user : Members, stage : Stages, roles : Seq(Ids),
       whom : Members \cup {None}, scope : Scopes, mask : Mask, read : Seq(Role),
       mine : SUBSET Ids, height : 0..MaxPosition, row : Rows,
       todo : Seq((Ids \X (0..MaxPosition)) \cup (Members \X SUBSET Ids))]
ASSUME RequestsNone == None \notin Op

(* tangled: requests overlapped; loose: a role came back from the trash or *)
(* swapped its height with one in it, a reordering listed a role twice, or *)
(* heights were left half moved; granted: what owners have put into roles  *)
(* and overrides; used: the ids that were ever a role; made: how much of   *)
(* the bound is spent.                                                     *)
History == [tangled : BOOLEAN, loose : BOOLEAN, granted : SUBSET Bits,
            used : SUBSET Ids, made : 0..MaxRequests]

(* Types; and nobody holds a role whose row is gone, unless requests       *)
(* overlapped: a role is scrubbed from its holders before it is deleted,   *)
(* so that a deletion cut short leaves a role and never a dangling id.     *)
TypeOK ==
  /\ owner \in Members
  /\ Everyone \in DOMAIN roles /\ DOMAIN roles \subseteq Ids
  /\ \A r \in DOMAIN roles : roles[r] \in Role
  /\ held \in [Members -> SUBSET Ids]
  /\ ~history.tangled => \A m \in Members : held[m] \subseteq DOMAIN roles
  /\ DOMAIN overrides \subseteq {Place(s, t) : s \in Scopes, t \in Ids \cup Members}
  /\ \A p \in DOMAIN overrides : overrides[p] \in Mask
  /\ ops \in [Ops -> Op \cup {None}]
  /\ history \in History

NoMask == [allow |-> {}, deny |-> {}]
Init ==
  /\ owner \in Members
  /\ roles = [r \in {Everyone} |-> [position |-> 0, deleted |-> FALSE, allow |-> {}, deny |-> {}]]
  /\ held = [u \in Members |-> {}]
  /\ overrides = [p \in {} |-> NoMask]
  /\ ops = [k \in Ops |-> None]
  /\ history = [tangled |-> FALSE, loose |-> FALSE, granted |-> {}, used |-> {}, made |-> 0]

-----------------------------------------------------------------------------
Custom == Live(roles) \ {Everyone}
Highest(S) == CHOOSE n \in S : \A m \in S : m <= n

(* highestRolePosition: an owner is above everything.                      *)
Rank(u) ==
  IF u = owner THEN MaxPosition + 1
  ELSE Highest({0} \cup {roles[r].position : r \in held[u] \cap Live(roles)})

(* computePermissions without a channel.                                   *)
PermissionsOf(u) ==
  IF u = owner THEN {Admin} ELSE ServerPermissions(roles, held[u], overrides, u)

At(k, kinds, stage) == ops[k] # None /\ ops[k].kind \in kinds /\ ops[k].stage = stage
Actor(k) == ops[k].user
Become(k, r) == ops' = [ops EXCEPT ![k] = r]
Goto(k, stage) == Become(k, [ops[k] EXCEPT !.stage = stage])
Done(k) == Become(k, None)
Named(k) == Head(ops[k].roles)
OverrideOf(o) == Place(o.scope, IF o.roles = <<>> THEN o.whom ELSE Head(o.roles))
Put(f, x, v) == [y \in DOMAIN f \cup {x} |-> IF y = x THEN v ELSE f[y]]
Without(f, x) == [y \in DOMAIN f \ {x} |-> f[y]]

(* merge: a row that is gone stays gone.                                   *)
Merge(r, row) == roles' = IF r \in DOMAIN roles THEN [roles EXCEPT ![r] = row] ELSE roles

-----------------------------------------------------------------------------
(* PermissionGuard: a request that it turns away changes nothing.  VIEW_   *)
(* TRASH and HARD_DELETE are one permission here; transferOwnership has no *)
(* guard and asks for the owner itself.                                    *)
Guarded(kind, u) ==
  CASE kind = "transfer" -> u = owner
    [] kind \in {"restore", "harddelete"} -> Allows(PermissionsOf(u), Trash)
    [] OTHER -> Allows(PermissionsOf(u), Manage)

Start(k, kind, u, stage, named, whom, scope, mask) ==
  /\ ops[k] = None
  /\ history.made < MaxRequests /\ kind \in Exercised(history.made)
  /\ Guarded(kind, u)
  /\ Become(k, [kind |-> kind, user |-> u, stage |-> stage, roles |-> named, whom |-> whom,
                scope |-> scope, mask |-> mask, read |-> <<>>, mine |-> {}, height |-> 0,
                row |-> "absent", todo |-> <<>>])
  /\ history' = [history EXCEPT !.made = @ + 1,
                                !.tangled = @ \/ \E j \in Ops : ops[j] # None]
  /\ UNCHANGED tables

(* A reordering lists what it likes, a role twice too; a shorter list      *)
(* changes nothing, nor does a swap of a role with itself.                 *)
StartAny(k, u) ==
  \/ \E m \in Masks : Start(k, "create", u, "list", <<>>, None, "server", m)
  \/ \E r \in DOMAIN roles :
       \/ \E m \in Masks : Start(k, "update", u, "role", <<r>>, None, "server", m)
       \/ \E kind \in {"delete", "restore", "harddelete"} :
            Start(k, kind, u, "role", <<r>>, None, "server", NoMask)
       \/ \E v \in Members, kind \in {"assign", "unassign"} :
            Start(k, kind, u, "member", <<r>>, v, "server", NoMask)
  \/ \E r, s \in DOMAIN roles \ {Everyone} :
       r # s /\ Start(k, "swap", u, "role", <<r, s>>, None, "server", NoMask)
  \/ \E n \in 2..MaxNamed : \E named \in [1..n -> DOMAIN roles \ {Everyone}] :
       Start(k, "reorder", u, "list", named, None, "server", NoMask)
  \/ \E m \in Masks :
       \/ \E r \in DOMAIN roles, scope \in {"category", "channel"} :
            Start(k, "upsert", u, "role", <<r>>, None, scope, m)
       \/ \E v \in Members, scope \in Scopes :
            Start(k, "upsert", u, "rank", <<>>, v, scope, m)
  \/ \E p \in DOMAIN overrides :
       IF p.target \in Members
       THEN Start(k, "remove", u, "override", <<>>, p.target, p.scope, NoMask)
       ELSE Start(k, "remove", u, "override", <<p.target>>, None, p.scope, NoMask)
  \/ \E v \in Members \ {u} : Start(k, "transfer", u, "list", <<>>, v, "server", NoMask)

-----------------------------------------------------------------------------
(* The row of the next role a request names, and what each asks of it.  An *)
(* unassignment goes on without a row.                                     *)
Acceptable(kind, r) ==
  CASE kind = "delete" -> r # Everyone /\ ~roles[r].deleted
    [] kind = "restore" -> roles[r].deleted
    [] kind = "harddelete" -> r # Everyone /\ roles[r].deleted
    [] kind = "assign" -> ~roles[r].deleted
    [] OTHER -> TRUE

ReadRole(k) ==
  /\ At(k, Kinds, "role")
  /\ LET o == ops[k]
         r == o.roles[Len(o.read) + 1]
     IN IF r \notin DOMAIN roles
        THEN IF o.kind = "unassign" THEN Goto(k, "write") ELSE Done(k)
        ELSE IF ~Acceptable(o.kind, r) THEN Done(k)
        ELSE Become(k, [o EXCEPT !.read = Append(@, roles[r]),
               !.stage = IF Len(o.read) + 1 < Len(o.roles) THEN "role" ELSE "rank"])
  /\ UNCHANGED <<tables, history>>

(* The member of an assignment, and the outgoing owner of a transfer.      *)
ReadMember(k) ==
  /\ At(k, {"assign", "unassign", "transfer"}, "member")
  /\ LET o == ops[k]
         m == IF o.kind = "transfer" THEN o.user ELSE o.whom
     IN IF o.kind = "unassign" /\ Named(k) \notin held[m] THEN Done(k)
        ELSE Become(k, [o EXCEPT !.mine = held[m],
               !.stage = IF o.kind = "transfer" THEN "write" ELSE "role"])
  /\ UNCHANGED <<tables, history>>

(* remove reads the row first, then its target.                            *)
ReadOverride(k) ==
  /\ At(k, {"remove"}, "override")
  /\ LET o == ops[k]
         p == OverrideOf(o)
     IN IF p \notin DOMAIN overrides THEN Done(k)
        ELSE Become(k, [o EXCEPT !.row = "there", !.stage = IF o.roles = <<>> THEN "rank" ELSE "role"])
  /\ UNCHANGED <<tables, history>>

\* Mutant: the highest role is moved to the end.
LowToHigh == Ascending(Custom, [r \in Custom |-> roles[r].position])

(* create reads the roles and, if there is no room below the lowest, moves *)
(* them all up by one, the highest first.                                  *)
HighToLow == Ascending(Custom, [r \in Custom |-> -roles[r].position])

ListForCreate(k) ==
  /\ At(k, {"create"}, "list")
  /\ LET order == HighToLow
         lowest == roles[order[Len(order)]].position
     IN IF order = <<>> THEN Become(k, [ops[k] EXCEPT !.height = 1, !.stage = "cap"])
        ELSE IF lowest > 1 THEN Become(k, [ops[k] EXCEPT !.height = lowest - 1, !.stage = "cap"])
        ELSE /\ roles[Head(order)].position < MaxPosition
             /\ Become(k, [ops[k] EXCEPT !.height = 1, !.stage = "move",
                  !.todo = [i \in DOMAIN order |-> <<order[i], roles[order[i]].position + 1>>]])
  /\ UNCHANGED <<tables, history>>

(* The role of a former owner goes above all, those in the trash too.      *)
ListForTransfer(k) ==
  /\ At(k, {"transfer"}, "list")
  /\ LET top == Highest({roles[r].position : r \in DOMAIN roles}) + 1
     IN top <= MaxPosition /\ Become(k, [ops[k] EXCEPT !.height = top, !.stage = "insert"])
  /\ UNCHANGED <<tables, history>>

ListForReorder(k) ==
  /\ At(k, {"reorder"}, "list")
  /\ LET named == ops[k].roles
     IN IF \E i \in DOMAIN named : named[i] \notin Custom THEN Done(k)
        ELSE Become(k, [ops[k] EXCEPT !.stage = "rank",
                                      !.read = [i \in DOMAIN named |-> roles[named[i]]]])
  /\ UNCHANGED <<tables, history>>

-----------------------------------------------------------------------------
(* What moves: a swap crosses two heights, a reordering deals the heights  *)
(* of its roles out again, the highest first, to those that differ.        *)
Moves(k) ==
  LET o == ops[k]
      all == 1..Len(o.read)
      was == [i \in all |-> o.read[i].position]
      first == Ascending(all, [i \in all |-> -was[i]])
      dealt == [i \in all |-> was[IF o.kind = "swap" THEN Len(o.read) + 1 - i ELSE first[i]]]
      moved == {i \in all : o.kind = "swap" \/ dealt[i] # was[i]}
      order == Ascending(moved, [i \in moved |-> i])
  IN  [n \in 1..Cardinality(moved) |-> <<o.roles[order[n]], dealt[order[n]]>>]

\* Mutant: one may touch what is as high as oneself.
AsHigh(k) ==
  \/ Actor(k) = owner
  \/ ops[k].roles # <<>> /\ \A i \in DOMAIN ops[k].read : Rank(Actor(k)) >= ops[k].read[i].position
  \/ ops[k].roles = <<>> /\ (Actor(k) = ops[k].whom \/ Rank(Actor(k)) >= Rank(ops[k].whom))

(* canActorManageRole and canActorManageMember: strictly above; an owner   *)
(* is above all, oneself is not in one's way.                              *)
Outranks(k) ==
  \/ Actor(k) = owner
  \/ ops[k].roles # <<>> /\ \A i \in DOMAIN ops[k].read : Rank(Actor(k)) > ops[k].read[i].position
  \/ ops[k].roles = <<>> /\ (Actor(k) = ops[k].whom \/ Rank(Actor(k)) > Rank(ops[k].whom))

(* What may deal a height to two roles: a swap with a role in the trash, a *)
(* reordering that lists a role twice.                                     *)
Muddles(k) ==
  LET o == ops[k]
  IN /\ Outranks(k)
     /\ \/ o.kind = "swap" /\ \E i \in DOMAIN o.read : o.read[i].deleted
        \/ o.kind = "reorder" /\ \E i, j \in DOMAIN o.roles : i < j /\ o.roles[i] = o.roles[j]

CheckRank(k) ==
  /\ At(k, Kinds, "rank")
  /\ LET o == ops[k]
     IN IF ~Outranks(k) THEN Done(k)
        ELSE CASE o.kind \in {"update", "upsert"} -> Goto(k, "cap")
               [] o.kind \in {"swap", "reorder"} ->
                    IF Moves(k) = <<>> THEN Done(k)
                    ELSE Become(k, [o EXCEPT !.stage = "move", !.todo = Moves(k)])
               [] o.kind = "assign" /\ Named(k) \in o.mine -> Done(k)
               [] o.kind = "harddelete" -> Goto(k, "members")
               [] OTHER -> Goto(k, "write")
  /\ history' = [history EXCEPT !.loose = @ \/ Muddles(k)]
  /\ UNCHANGED tables

(* One row at a time, for a creation, a swap or a reordering.              *)
MoveRole(k) ==
  /\ At(k, {"create", "swap", "reorder"}, "move")
  /\ LET o == ops[k]
         r == Head(o.todo)[1]
     IN /\ Merge(r, [roles[r] EXCEPT !.position = Head(o.todo)[2]])
        /\ IF Len(o.todo) > 1 THEN Become(k, [o EXCEPT !.todo = Tail(@)])
           ELSE IF o.kind = "create" THEN Become(k, [o EXCEPT !.todo = <<>>, !.stage = "cap"])
           ELSE Done(k)
  /\ UNCHANGED <<owner, held, overrides, history>>

-----------------------------------------------------------------------------
(* The permissions a request moves.  A role keeps what the request does    *)
(* not change; an override is compared as a whole.                         *)
Differ(A, B) == (A \ B) \cup (B \ A)
Moved(k) ==
  LET mask == ops[k].mask
  IN IF ops[k].kind = "update"
     THEN Differ(mask.allow, Head(ops[k].read).allow) \cup Differ(mask.deny, Head(ops[k].read).deny)
     ELSE mask.allow \cup mask.deny

\* Mutant: only what a request takes or gives as a denial is compared.
DenialsOnly(k) ==
  \/ Actor(k) = owner
  \/ ops[k].kind = "upsert" /\ Admin \in PermissionsOf(Actor(k))
  \/ ops[k].mask.deny \subseteq PermissionsOf(Actor(k))

(* canActorEditPerms knows no administrator, enforcePermCap does.          *)
Capped(k) ==
  \/ Actor(k) = owner
  \/ ops[k].kind = "upsert" /\ Admin \in PermissionsOf(Actor(k))
  \/ Moved(k) \subseteq PermissionsOf(Actor(k))

CheckCap(k) ==
  /\ At(k, {"create", "update", "upsert"}, "cap")
  /\ IF ~Capped(k) THEN Done(k)
     ELSE IF ops[k].kind = "create" THEN Goto(k, "insert")
     ELSE IF ops[k].kind = "update" THEN Goto(k, "write")
     ELSE LET p == OverrideOf(ops[k])
          IN Become(k, [ops[k] EXCEPT !.stage = "write",
                               !.row = IF p \in DOMAIN overrides THEN "there" ELSE "absent"])
  /\ history' = [history EXCEPT !.granted =
                   IF Actor(k) = owner THEN @ \cup ops[k].mask.allow ELSE @]
  /\ UNCHANGED tables

(* The new role of a creation or of a former owner.                        *)
Insert(k) ==
  /\ At(k, {"create", "transfer"}, "insert")
  /\ \E r \in RoleIds \ history.used :
       LET row == [position |-> ops[k].height, deleted |-> FALSE,
                   allow |-> IF ops[k].kind = "create" THEN ops[k].mask.allow ELSE {Admin},
                   deny |-> ops[k].mask.deny]
       IN /\ roles' = Put(roles, r, row)
          /\ IF ops[k].kind = "create" THEN Done(k)
             ELSE Become(k, [ops[k] EXCEPT !.roles = <<r>>, !.stage = "member"])
          /\ history' = [history EXCEPT !.used = @ \cup {r},
               !.granted = IF ops[k].kind = "create" THEN @ ELSE @ \cup {Admin}]
  /\ UNCHANGED <<owner, held, overrides>>

-----------------------------------------------------------------------------
(* A mask that is as it was read is not written.                           *)
WriteUpdate(k) ==
  /\ At(k, {"update"}, "write")
  /\ LET o == ops[k]
         r == Named(k)
         was == Head(o.read)
     IN Merge(r, [roles[r] EXCEPT
          !.allow = IF o.mask.allow # was.allow THEN o.mask.allow ELSE @,
          !.deny = IF o.mask.deny # was.deny THEN o.mask.deny ELSE @])
  /\ Done(k)
  /\ UNCHANGED <<owner, held, overrides, history>>

(* Into the trash and back: who holds the role keeps its id.               *)
WriteTrash(k) ==
  /\ At(k, {"delete", "restore"}, "write")
  /\ LET r == Named(k) IN Merge(r, [roles[r] EXCEPT !.deleted = ops[k].kind = "delete"])
  /\ history' = [history EXCEPT !.loose = @ \/ ops[k].kind = "restore"]
  /\ Done(k)
  /\ UNCHANGED <<owner, held, overrides>>

(* role_ids are written as they were read, with or without the role.       *)
WriteMember(k) ==
  /\ At(k, {"assign", "unassign", "transfer"}, "write")
  /\ LET o == ops[k]
         m == IF o.kind = "transfer" THEN o.user ELSE o.whom
         ids == IF o.kind = "unassign" THEN o.mine \ {Named(k)} ELSE o.mine \cup {Named(k)}
     IN /\ held' = [held EXCEPT ![m] = ids]
        /\ IF o.kind = "transfer" THEN Goto(k, "flip") ELSE Done(k)
  /\ UNCHANGED <<owner, roles, overrides, history>>

FlipOwner(k) ==
  /\ At(k, {"transfer"}, "flip")
  /\ owner' = ops[k].whom
  /\ Done(k)
  /\ UNCHANGED <<roles, held, overrides, history>>

\* Mutant: the members are not scrubbed of the role.
ScrubNobody(k) ==
  /\ At(k, {"harddelete"}, "members")
  /\ Become(k, [ops[k] EXCEPT !.todo = <<>>, !.stage = "scrub"])
  /\ UNCHANGED <<tables, history>>

(* hardDelete reads the members, writes those who hold the role, one by    *)
(* one and as they were read, then deletes the row.                        *)
ReadMembers(k) ==
  /\ At(k, {"harddelete"}, "members")
  /\ \E order \in Enumerations({m \in Members : Named(k) \in held[m]}) :
       Become(k, [ops[k] EXCEPT !.stage = "scrub",
         !.todo = [i \in DOMAIN order |-> <<order[i], held[order[i]] \ {Named(k)}>>]])
  /\ UNCHANGED <<tables, history>>

Scrub(k) ==
  /\ At(k, {"harddelete"}, "scrub") /\ ops[k].todo # <<>>
  /\ LET next == Head(ops[k].todo) IN held' = [held EXCEPT ![next[1]] = next[2]]
  /\ Become(k, [ops[k] EXCEPT !.todo = Tail(@)])
  /\ UNCHANGED <<owner, roles, overrides, history>>

DropRole(k) ==
  /\ At(k, {"harddelete"}, "scrub") /\ ops[k].todo = <<>>
  /\ roles' = Without(roles, Named(k))
  /\ Done(k)
  /\ UNCHANGED <<owner, held, overrides, history>>

(* The override that was found is written or deleted by its id, a new one  *)
(* is created unless the index has one by now.                             *)
WriteOverride(k) ==
  /\ At(k, {"upsert", "remove"}, "write")
  /\ LET o == ops[k]
         p == OverrideOf(o)
         orphaned(j) == ops[j] # None /\ ops[j].row = "there" /\ OverrideOf(ops[j]) = p
     IN \/ /\ o.kind = "remove" /\ o.row = "there"
           /\ overrides' = Without(overrides, p)
           /\ ops' = [j \in Ops |-> IF j = k THEN None
                        ELSE IF orphaned(j) THEN [ops[j] EXCEPT !.row = "gone"] ELSE ops[j]]
        \/ /\ o.kind = "upsert" /\ o.row # "gone"
           /\ overrides' = IF (o.row = "there") = (p \in DOMAIN overrides)
                           THEN Put(overrides, p, o.mask) ELSE overrides
           /\ Done(k)
        \/ /\ o.row = "gone" /\ Done(k) /\ UNCHANGED overrides
  /\ UNCHANGED <<owner, roles, held, history>>

(* A database call fails: what was written stays.                          *)
Throw(k) ==
  /\ Faults
  /\ ops[k] # None
  /\ Done(k)
  /\ history' = [history EXCEPT !.loose = @ \/ ops[k].kind \in {"swap", "reorder"}]
  /\ UNCHANGED tables

Work(k) ==
  \/ ReadRole(k) \/ ReadMember(k) \/ ReadOverride(k)
  \/ ListForCreate(k) \/ ListForTransfer(k) \/ ListForReorder(k)
  \/ CheckRank(k) \/ MoveRole(k) \/ CheckCap(k) \/ Insert(k)
  \/ WriteUpdate(k) \/ WriteTrash(k) \/ WriteMember(k) \/ FlipOwner(k)
  \/ ReadMembers(k) \/ Scrub(k) \/ DropRole(k) \/ WriteOverride(k)

Next ==
  \/ \E k \in Ops, u \in Members : StartAny(k, u)
  \/ \E k \in Ops : Work(k) \/ Throw(k)

Spec == Init /\ [][Next]_vars

-----------------------------------------------------------------------------
(* Whose height a member cannot touch: the roles at or above their own.    *)
Above(u) == {r \in Custom : roles[r].position >= Rank(u)}
Apart(S) == \A r, s \in S : r # s => roles[r].position # roles[s].position

(* A request of a member who is not the owner, made by itself, leaves      *)
(* above them whoever was above them: no role rises to them or falls below *)
(* them at any of its steps, though a creation moves every role, theirs    *)
(* included, as long as roles have heights of their own (see OwnHeight).   *)
(* (Without a role of one's own one is at the bottom, where what one       *)
(* creates is above one.)                                                  *)
KeepsItsPlace ==
  [][\A k \in Ops, u \in Members \ {owner} :
       /\ ops[k] # None /\ Actor(k) = u /\ ~history.tangled /\ ~history.loose
       /\ Rank(u) > 0
       => Above(u)' = Above(u)]_vars

(* Roles have heights of their own, above that of Everyone, unless two     *)
(* requests overlapped, heights were left half moved, a role came back     *)
(* from the trash or swapped its height with one in it, which keeps a      *)
(* height that is given away meanwhile, or a reordering listed a role      *)
(* twice, whose height it then deals out twice.                            *)
OwnHeight ==
  (~history.tangled /\ ~history.loose) =>
    /\ \A r \in Custom : roles[r].position > 0
    /\ (\A k \in Ops : ~At(k, {"swap", "reorder"}, "move")) => Apart(Custom)

(* Whoever may hand on permissions, no permission is in a role or in an    *)
(* override that no owner has ever put into one, however requests overlap  *)
(* and fail.  (An administrator may put any into an override.)             *)
NothingFromNowhere ==
  Admin \notin history.granted =>
    /\ \A r \in DOMAIN roles : roles[r].allow \subseteq history.granted
    /\ \A p \in DOMAIN overrides : overrides[p].allow \subseteq history.granted

(* The cascade as the documentation states it, for a permission: a user    *)
(* override beats those of roles, that of the channel beats that of the    *)
(* category, and among roles the highest decides that says anything.       *)
Says(bit, o) == bit \in o.allow \cup o.deny
SpeakingOf(bit, scope, mine) ==
  {r \in mine \cup {Everyone} : Place(scope, r) \in DOMAIN overrides
                                 /\ Says(bit, overrides[Place(scope, r)])}
Highly(S) == CHOOSE r \in S : \A s \in S : Height(roles, s) <= Height(roles, r)
GivenByRoles(bit, mine) ==
  LET speaking == {r \in Applicable(roles, mine) : Says(bit, roles[r])}
  IN speaking # {} /\ bit \in roles[Highly(speaking)].allow

Decided(bit, u, scopes) ==
  LET mine == held[u]
      ofUser == {s \in scopes \cup {"server"} : /\ Place(s, u) \in DOMAIN overrides
                                               /\ Says(bit, overrides[Place(s, u)])}
      ofRoles == {s \in scopes : SpeakingOf(bit, s, mine) # {}}
      Narrowest(S) == IF "channel" \in S THEN "channel" ELSE "category"
      byUser(s) == bit \in overrides[Place(s, u)].allow
  IN IF ofUser \cap scopes # {} THEN byUser(Narrowest(ofUser))
     ELSE IF ofRoles # {}
     THEN LET s == Narrowest(ofRoles)
          IN bit \in overrides[Place(s, Highly(SpeakingOf(bit, s, mine)))].allow
     ELSE IF ofUser # {} THEN byUser("server")
     ELSE GivenByRoles(bit, mine)

(* No two roles of a member that count for the same are equally high: the  *)
(* order of such two is the database's.                                    *)
Tied(S) == \E r, s \in S : r # s /\ Height(roles, r) = Height(roles, s)
Ranked(u) ==
  /\ ~Tied(Applicable(roles, held[u]))
  /\ \A scope \in {"category", "channel"} : ~Tied(Counted(held[u], overrides, scope))

(* The fold decides every permission as documented, for the server, its    *)
(* category and its channel, unless the roles make an administrator.       *)
FoldDecides ==
  \A u \in Members : Ranked(u) =>
    LET agrees(perms, scopes) ==
          GivenByRoles(Admin, held[u]) \/ \A b \in Bits : b \in perms <=> Decided(b, u, scopes)
    IN /\ agrees(ServerPermissions(roles, held[u], overrides, u), {})
       /\ agrees(ForCategory(roles, held[u], overrides, u), {"category"})
       /\ agrees(ForChannel(roles, held[u], overrides, u), {"category", "channel"})
===============================================================================
