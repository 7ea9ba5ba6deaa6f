--------------------------- MODULE MCDirectMessages ---------------------------
(* Instances of Relations and DirectMessages for TLC.                      *)
EXTENDS DirectMessages, TLC

Symmetric == Permutations(Ops) \cup Permutations(Calls)

(* The bounds are spent in different ways: a run starts where some of the  *)
(* requests, the calls, the changes of policy and the starts of an app     *)
(* have been made and have left the rows of the pair as they are.          *)
Left(row, by, requests, boots, direct, turns) ==
  /\ pair = row /\ blocks = by /\ ignores = {}
  /\ ops = [k \in Ops |-> None] /\ calls = [k \in Calls |-> None]
  /\ store = [u \in Users |-> None] /\ loads = [u \in Users |-> None] /\ wired = {}
  /\ dms = <<>> /\ policy = [u \in Users |-> "open"]
  /\ history = [tangled |-> FALSE, failed |-> FALSE, missed |-> {}, shut |-> [k \in Ops |-> {}],
                made |-> MaxRequests - requests, boots |-> MaxBoots - boots]
  /\ past = [rivals |-> FALSE, broken |-> FALSE,
             made |-> MaxCalls - direct, turns |-> MaxTurns - turns]

(* Without an app to look at, the users are alike.                         *)
One == CHOOSE u \in Users : TRUE
MCInit ==
  \/ Left(None, {}, 3, 2, 0, 0)   \* relations, and an app
  \/ Left([status |-> "pending", by |-> One], {}, 3, 0, 0, 0)
  \/ \E row \in {None} \cup {[status |-> s, by |-> One] : s \in {"pending", "accepted"}} :
       Left(row, {}, 1, 0, 2, 1)  \* calls while relations change
  \/ Left(None, {One}, 1, 0, 2, 1)
MCSpec == MCInit /\ [][DmNext]_allVars

(* Scope: the apps are looked at as long as StoresTell speaks of them.     *)
Scope == store # [u \in Users |-> None] => ~history.tangled /\ ~history.failed
===============================================================================
