--------------------------- MODULE MCRoleHierarchy ---------------------------
(* Instances of RoleHierarchy for TLC: three servers at once, told apart   *)
(* by the number their requests begin at.                                  *)
EXTENDS RoleHierarchy, TLC

CONSTANTS boss, mate, r1, r2

Symmetric == Permutations(Ops)
Allow(S) == [allow |-> S, deny |-> {}]
Deny(S) == [allow |-> {}, deny |-> S]
MCMasks == {NoMask, Allow({Manage}), Allow({Trash}), Deny({Manage})}

(* A server as its owner may have set it up: two roles, of which the other *)
(* member holds some.                                                      *)
Row(position, mask) ==
  [position |-> position, deleted |-> FALSE, allow |-> mask.allow, deny |-> mask.deny]

Server(everyone, low, high, mine, set, first) ==
  /\ owner = boss
  /\ roles = (Everyone :> Row(0, Allow(everyone)) @@ r1 :> low @@ r2 :> high)
  /\ held = (boss :> {} @@ mate :> mine)
  /\ overrides = set
  /\ ops = [k \in Ops |-> None]
  /\ history = [tangled |-> FALSE, loose |-> FALSE,
                granted |-> everyone \cup low.allow \cup high.allow
                              \cup UNION {set[p].allow : p \in DOMAIN set},
                used |-> {r1, r2}, made |-> first]

(* Two requests one after the other about roles and who holds them.        *)
Structure == {"create", "swap", "reorder", "delete", "restore", "harddelete",
              "assign", "unassign", "transfer"}
(* Two requests that may overlap about permissions.                        *)
Rights == {"create", "update", "upsert", "remove", "assign"}
MCExercised(n) == IF n < 2 THEN Structure ELSE IF n \in 3..4 THEN Rights ELSE {}
Apiece == history.made < 3 => ~history.tangled

(* The overrides of one permission, on every level.                        *)
Levels == {Place("server", mate), Place("channel", r2), Place("channel", mate)}
            \cup {Place("category", t) : t \in {Everyone, r1, r2, mate}}
Nothing == [p \in {} |-> NoMask]
Settings ==
  UNION {[S -> {Allow({Trash}), Deny({Trash})}] : S \in SUBSET Levels}

MCInit ==
  \/ \E mine \in {{}, {r1}, {r2}, {r1, r2}} :
       Server({Manage, Trash}, Row(1, NoMask), Row(2, NoMask), mine, Nothing, 0)
  \/ \E mine \in {{r1}, {r1, r2}} :
       Server({Manage}, Row(1, NoMask), Row(2, Deny({Manage})), mine, Nothing, 3)
  \/ \E mine \in {{r1}, {r1, r2}}, low, high \in {NoMask, Allow({Trash}), Deny({Trash})}, set \in Settings :
       low # high /\ Server({}, Row(1, low), Row(2, high), mine, set, 5)
MCSpec == MCInit /\ [][Next]_vars
===============================================================================
