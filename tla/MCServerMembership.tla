------------------------- MODULE MCServerMembership -------------------------
(* Instances of ServerMembership for TLC.                                  *)
EXTENDS ServerMembership, TLC

Symmetric == Permutations(Users \ {Founder}) \cup Permutations(Ops)
               \cup Permutations(BanIds)

(* What a handler has read and will not use again cannot influence a later *)
(* step, nor can the count once it has drifted, nor the uses of an invite  *)
(* without a limit; and a kick goes on as a leave does.  States that differ *)
(* in nothing else count once.                                             *)
Live(k) ==
  IF ops[k] = None THEN None
  ELSE LET o == ops[k] IN
       <<IF o.kind = "kick" THEN "leave" ELSE o.kind, o.user, o.stage,
         IF ~drift /\ o.stage \in {"member", "delete", "dec", "inc"} THEN o.count ELSE 0,
         IF MaxUses > 0 /\ o.stage \in {"ban", "existing", "create", "uses"}
         THEN o.uses ELSE 0,
         o.stage = "delete" /\ o.row, o.rows>>
LiveState == <<members, owner, IF drift THEN 0 ELSE count,
               IF MaxUses > 0 THEN uses ELSE 0, bans, subs,
               [k \in Ops |-> Live(k)], history>>
=============================================================================
