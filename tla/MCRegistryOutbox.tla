-------------------------- MODULE MCRegistryOutbox --------------------------
(* Instances of RegistryOutbox for TLC.                                    *)
EXTENDS RegistryOutbox, TLC

Symmetric == Permutations(Rotators) \cup Permutations(Requests)

Job1(action, status) ==
  [action |-> action, url |-> CHOOSE u \in Urls : TRUE, status |-> status,
   attempts |-> 0, sig |-> IF status = "pending" /\ action = "update" THEN None ELSE Genesis]

(* What has been done before: nothing; the registry was added and waits    *)
(* for its first sync; it was added and synced, and removed, and its       *)
(* takedown is signed and still to be delivered.                           *)
Before == [nothing |-> <<>>,
           added |-> <<Job1("update", "pending")>>,
           removed |-> <<Job1("update", "completed"), Job1("delete", "pending")>>]

(* The bounds are spent in different ways: a run starts where some keys    *)
(* were already made in vain, requests made and faults met.  Where none is *)
(* left to meet, what is promised of an outbox without faults is not asked *)
(* for, but the interleavings of three requests are.                       *)
Left(keys, asks, calls, before) ==
  /\ chain = <<>>
  /\ seed \in IF before = "removed" THEN {Genesis} ELSE {Genesis, None}
  /\ sigs = [d \in Delegations |-> IF asks = 0 THEN None ELSE Genesis]
  /\ rots = [k \in Rotators |-> None]
  /\ regs = [u \in Urls |-> IF before = "added" THEN "pending" ELSE None]
  /\ jobs = Before[before]
  /\ tasks = [k \in Workers \cup Rotators |-> None]
  /\ shown = [u \in Urls |-> IF before = "removed" THEN Genesis ELSE None]
  /\ accepted = IF before = "removed" THEN {1} ELSE {}
  /\ gone = {} /\ crossed = FALSE
  /\ minted = MaxRoots - keys
  /\ requests = MaxRequests - asks
  /\ faults = MaxFaults - calls

MCInit ==
  \/ Left(3, 0, 1, "nothing")  \* rotations and delegations that overlap
  \/ Left(0, 3, 0, "added")    \* requests and the poller, no rotation
  \/ Left(0, 2, 1, "added")    \* the same, no call or one fails
  \/ Left(0, 2, 1, "removed")  \* a registry is added again, its takedown is late
  \/ Left(1, 2, 1, "nothing")  \* a registry is added around a rotation
  \/ Left(1, 1, 1, "added")    \* a request around a rotation
MCSpec == MCInit /\ [][Next]_vars

(* What a handler will not read again cannot influence a later step: the   *)
(* chain it sent and the signature it posted, once the answer is in.       *)
Live(k) ==
  IF tasks[k] = None THEN None
  ELSE LET t == tasks[k]
           over == t.stage \in {"complete", "synced", "fail", "error"}
       IN [t EXCEPT !.head = IF t.stage = "post" THEN @ ELSE Genesis,
                    !.url = IF t.stage = "status" \/ t.kind \in {"add", "remove"} THEN @ ELSE None,
                    !.active = IF t.stage = "each" \/ t.stage = "status" THEN @ ELSE {},
                    !.batch = IF over THEN (@ \ {InHand(k)}) \cup {[InHand(k) EXCEPT !.sig = None]} ELSE @]
LiveState == <<rotationVars, outbox, [k \in DOMAIN tasks |-> Live(k)], requests, crossed>>
=============================================================================
