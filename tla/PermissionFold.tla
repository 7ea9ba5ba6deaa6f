---------------------------- MODULE PermissionFold ----------------------------
(***************************************************************************)
(* The permission cascade of common/permission-fold.ts: which permissions  *)
(* a member has in a server, in a category and in a channel.  A mask is a  *)
(* set of permissions.  One category and one channel in it stand for all,  *)
(* as no override of another scope is read.                                *)
(***************************************************************************)
EXTENDS Orders, Sequences

CONSTANTS Bits,     \* the permissions, among them Admin
          Admin,
          Everyone, \* the default role
          None

Mask == [allow : SUBSET Bits, deny : SUBSET Bits]
Scopes == {"server", "category", "channel"}
(* The key of an override: its unique index.                               *)
Place(scope, target) == [scope |-> scope, target |-> target]

(* Every layer applies the same rule to what the layers below have left.   *)
ApplyOverride(perms, o) == (perms \ o.deny) \cup o.allow
Cascade(perms, layers) ==
  LET after[n \in 0..Len(layers)] ==
        IF n = 0 THEN perms ELSE ApplyOverride(after[n - 1], layers[n])
  IN  after[Len(layers)]

(* roles: the rows by id; mine: the roles a member holds; set: the         *)
(* overrides by key.  A role that is in the trash gives nothing, its       *)
(* overrides count as those of a role at the bottom.                       *)
Live(roles) == {r \in DOMAIN roles : ~roles[r].deleted}
Applicable(roles, mine) == {r \in Live(roles) : r = Everyone \/ r \in mine}
Height(roles, r) == IF r \in Live(roles) THEN roles[r].position ELSE 0

\* Mutant: the highest role comes first, so that the lowest decides.
HighestFirst(roles, S) == Ascending(S, [r \in S |-> -Height(roles, r)])

LowestFirst(roles, S) == Ascending(S, [r \in S |-> Height(roles, r)])

RolePermissions(roles, mine) ==
  LET order == LowestFirst(roles, Applicable(roles, mine))
  IN Cascade({}, [i \in DOMAIN order |-> roles[order[i]]])

UserLayer(set, scope, user) ==
  IF Place(scope, user) \in DOMAIN set THEN <<set[Place(scope, user)]>> ELSE <<>>

Counted(mine, set, scope) == {r \in mine \cup {Everyone} : Place(scope, r) \in DOMAIN set}

RoleLayers(roles, mine, set, scope) ==
  LET order == LowestFirst(roles, Counted(mine, set, scope))
  IN [i \in DOMAIN order |-> set[Place(scope, order[i])]]

(* The layers of what has been granted by the roles is an administrator    *)
(* stand alone: no override is read.                                       *)
Folded(roles, mine, set, user, layers) ==
  LET granted == RolePermissions(roles, mine)
  IN IF Admin \in granted THEN granted
     ELSE Cascade(granted, UserLayer(set, "server", user) \o layers)

ServerPermissions(roles, mine, set, user) == Folded(roles, mine, set, user, <<>>)
ForCategory(roles, mine, set, user) ==
  Folded(roles, mine, set, user,
         RoleLayers(roles, mine, set, "category") \o UserLayer(set, "category", user))
ForChannel(roles, mine, set, user) ==
  Folded(roles, mine, set, user,
         RoleLayers(roles, mine, set, "category") \o RoleLayers(roles, mine, set, "channel")
           \o UserLayer(set, "category", user) \o UserLayer(set, "channel", user))

(* hasPermission: an administrator has them all.                           *)
Allows(perms, bit) == Admin \in perms \/ bit \in perms
===============================================================================
