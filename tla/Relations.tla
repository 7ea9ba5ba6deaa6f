------------------------------- MODULE Relations -------------------------------
(***************************************************************************)
(* What two users are to each other (RelationService) and what their apps  *)
(* show of it (packages/ts/app-core/src/lib/stores/relations.svelte.ts).   *)
(* Friend requests, blocks and ignores are chains of reads, writes and     *)
(* notifications without a lock; the unique indexes on the tables and the  *)
(* identity of the rows are all that holds them together.  Every row is    *)
(* about one pair of users, so that one pair is enough.                    *)
(***************************************************************************)
EXTENDS Integers, FiniteSets

CONSTANTS Users,       \* the pair
          Ops,         \* bound: requests to the service under way at once
          Watching,    \* bound: the users whose apps are looked at
          Exercised,   \* the kinds of requests that are made
          Faults,      \* whether database calls fail
          MaxRequests, \* bound: requests to the service ever made
          MaxBoots,    \* bound: how often an app starts, loses or finds its socket
          None

ASSUME RelationsPair == (\E a, b \in Users : a # b /\ Users = {a, b}) /\ Watching \subseteq Users
ASSUME RelationsBounds == MaxRequests \in Nat /\ MaxBoots \in Nat

VARIABLES
  pair,     \* the row of friendship: at most one, the index is unique
  blocks,   \* user_block: who has blocked the other
  ignores,  \* user_ignore: who ignores the other
  ops,      \* requests waiting for the database
  store,    \* what the app of a user shows about the other, None before it runs
  loads,    \* the snapshot an app is loading
  wired,    \* the users whose app has an identified socket
  history   \* only read by properties and bounds

rows == <<pair, blocks, ignores>>
apps == <<store, loads, wired>>
vars == <<rows, apps, ops, history>>

PairKinds == {"request", "accept", "decline", "cancel", "remove", "block"}
ListKinds == {"block", "unblock", "ignore", "unignore"}
Kinds == PairKinds \cup ListKinds
Stages == {"gate", "friends", "find", "exists", "create", "write", "strip", "unignore", "tell"}
Friendship == [status : {"pending", "accepted"}, by : Users]
Op == [kind : Kinds, user : Users, stage : Stages,
       unread : SUBSET Users,    \* whose block is still to be looked up
       row : BOOLEAN]            \* whether the row it has read still exists
Shown == [friend : BOOLEAN, incoming : BOOLEAN, outgoing : BOOLEAN,
          blocked : BOOLEAN, ignored : BOOLEAN]
Load == [stage : {"rows", "lists", "apply"}, snap : Shown]
ASSUME RelationsNone ==
  None \notin Op /\ None \notin Shown /\ None \notin Friendship /\ None \notin Load
(* tangled: requests that write the same rows overlapped; failed: one was  *)
(* cut short; missed: users whose app could not apply a notification or    *)
(* may overwrite it; shut: who has blocked all the time a request ran;     *)
(* made, boots: how much of the bounds is spent.                           *)
History == [tangled : BOOLEAN, failed : BOOLEAN, missed : SUBSET Users,
            shut : [Ops -> SUBSET Users], made : 0..MaxRequests, boots : 0..MaxBoots]

TypeOK ==
  /\ pair \in Friendship \cup {None}
  /\ blocks \subseteq Users /\ ignores \subseteq Users
  /\ ops \in [Ops -> Op \cup {None}]
  /\ store \in [Users -> Shown \cup {None}]
  /\ loads \in [Users -> Load \cup {None}]
  /\ wired \subseteq Users
  /\ history \in History

Init ==
  /\ pair = None /\ blocks = {} /\ ignores = {}
  /\ ops = [k \in Ops |-> None]
  /\ store = [u \in Users |-> None]
  /\ loads = [u \in Users |-> None]
  /\ wired = {}
  /\ history = [tangled |-> FALSE, failed |-> FALSE, missed |-> {},
                shut |-> [k \in Ops |-> {}], made |-> 0, boots |-> 0]

-----------------------------------------------------------------------------
Other(u) == CHOOSE v \in Users : v # u

(* What the rows say, in the words of the store of u.                      *)
Truth(u) ==
  [friend   |-> pair # None /\ pair.status = "accepted",
   incoming |-> pair # None /\ pair.status = "pending" /\ pair.by # u,
   outgoing |-> pair # None /\ pair.status = "pending" /\ pair.by = u,
   blocked  |-> u \in blocks,
   ignored  |-> u \in ignores]

At(k, kinds, stage) == ops[k] # None /\ ops[k].kind \in kinds /\ ops[k].stage = stage
Actor(k) == ops[k].user
Goto(k, stage) == ops' = [ops EXCEPT ![k].stage = stage]
Done(k) == ops' = [ops EXCEPT ![k] = None]

(* A row is gone: who has read it will find it missing.                    *)
Gone(k, kinds, rest) ==
  ops' = [j \in Ops |-> IF j = k THEN rest
                        ELSE IF ops[j] # None /\ ops[j].kind \in kinds
                        THEN [ops[j] EXCEPT !.row = FALSE] ELSE ops[j]]

Cleared(s) == [s EXCEPT !.friend = FALSE, !.incoming = FALSE, !.outgoing = FALSE]

(* The listeners of the store: FRIEND_REQUEST_RECEIVE or a pending update, *)
(* an accepted one, one of the three that end a friendship or a request,   *)
(* BLOCK_UPDATE and IGNORE_UPDATE.                                         *)
Events == {"incoming", "outgoing", "accepted", "ended", "blocked", "unblocked",
           "ignored", "unignored"}
ASSUME RelationsEvents == None \notin Events
Heard(s, event) ==
  CASE event = "incoming"  -> [s EXCEPT !.incoming = TRUE]
    [] event = "outgoing"  -> [s EXCEPT !.outgoing = TRUE]
    [] event = "accepted"  -> [s EXCEPT !.friend = TRUE, !.incoming = FALSE, !.outgoing = FALSE]
    [] event = "ended"     -> Cleared(s)
    [] event = "blocked"   -> [Cleared(s) EXCEPT !.blocked = TRUE, !.ignored = FALSE]
    [] event = "unblocked" -> [s EXCEPT !.blocked = FALSE]
    [] event = "ignored"   -> [s EXCEPT !.ignored = TRUE]
    [] event = "unignored" -> [s EXCEPT !.ignored = FALSE]

Blank == [friend |-> FALSE, incoming |-> FALSE, outgoing |-> FALSE,
          blocked |-> FALSE, ignored |-> FALSE]

(* emitToUser: told[u] is the event u is sent, None for none.  An app      *)
(* whose socket is not identified is not reached; one that is still        *)
(* loading applies the event to what it shows now.                         *)
Emit(told) ==
  /\ store' = [u \in Users |->
       IF told[u] = None \/ u \notin wired THEN store[u]
       ELSE Heard(store[u], told[u])]
  /\ UNCHANGED <<loads, wired>>
ToBoth(event) == [u \in Users |-> event]
ToOne(u, event) == [v \in Users |-> IF v = u THEN event ELSE None]
Unheard(told) == {u \in Users : told[u] # None /\ (u \notin wired \/ loads[u] # None)}

(* History: kept by every step, see Next.                                  *)
Conflict(kind, u, o) ==
  \/ kind \in PairKinds /\ o.kind \in PairKinds
  \/ u = o.user /\ kind \in ListKinds /\ o.kind \in ListKinds
Shut == [k \in Ops |-> IF ops'[k] = None THEN {}
                       ELSE IF ops[k] = None THEN blocks' ELSE history.shut[k] \cap blocks']
Remember(told) ==
  history' = [history EXCEPT !.missed = @ \cup Unheard(told), !.shut = Shut]
Silent == UNCHANGED apps /\ Remember(ToBoth(None))

-----------------------------------------------------------------------------
Start(k, kind, u, stage, unread) ==
  /\ ops[k] = None
  /\ kind \in Exercised
  /\ history.made < MaxRequests
  /\ ops' = [ops EXCEPT ![k] = [kind |-> kind, user |-> u, stage |-> stage,
                                unread |-> unread, row |-> FALSE]]
  /\ UNCHANGED <<rows, apps>>
  /\ history' = [history EXCEPT !.made = @ + 1, !.shut = Shut,
       !.tangled = @ \/ \E j \in Ops : ops[j] # None /\ Conflict(kind, u, ops[j])]

StartAny(k, u) ==
  \/ Start(k, "request", u, "gate", Users)
  \/ \E kind \in {"accept", "decline", "cancel", "remove"} : Start(k, kind, u, "find", {})
  \/ \E kind \in {"block", "unblock", "unignore"} : Start(k, kind, u, "exists", {})
  \/ Start(k, "ignore", u, "gate", {u})

(* isBlockedByEither looks up both directions at once, in any order; an    *)
(* ignore looks up its own.                                                *)
LookUp(k) ==
  /\ At(k, {"request", "ignore"}, "gate")
  /\ \E u \in ops[k].unread :
       IF u \in blocks THEN Done(k)
       ELSE IF ops[k].unread # {u}
       THEN ops' = [ops EXCEPT ![k].unread = @ \ {u}]
       ELSE ops' = [ops EXCEPT ![k] = [@ EXCEPT !.unread = {},
                      !.stage = IF ops[k].kind = "request" THEN "friends" ELSE "exists"]]
  /\ UNCHANGED rows /\ Silent

(* areFriends, findPendingBetween, the target and its policy: two reads of *)
(* the row with an await between, either of which may end the request.     *)
CheckFriends(k) ==
  /\ At(k, {"request"}, "friends")
  /\ IF pair # None /\ pair.status = "accepted" THEN Done(k) ELSE Goto(k, "find")
  /\ UNCHANGED rows /\ Silent

CheckPending(k) ==
  /\ At(k, {"request"}, "find")
  /\ IF pair # None /\ pair.status = "pending" THEN Done(k) ELSE Goto(k, "create")
  /\ UNCHANGED rows /\ Silent

CreateRequest(k) ==
  /\ At(k, {"request"}, "create")
  /\ IF pair = None
     THEN pair' = [status |-> "pending", by |-> Actor(k)] /\ Goto(k, "tell")
     ELSE UNCHANGED pair /\ Done(k)
  /\ UNCHANGED <<blocks, ignores>> /\ Silent

TellRequest(k) ==
  /\ At(k, {"request"}, "tell")
  /\ Done(k)
  /\ UNCHANGED rows
  /\ LET told == [u \in Users |-> IF u = Actor(k) THEN "outgoing" ELSE "incoming"]
     IN Emit(told) /\ Remember(told)

-----------------------------------------------------------------------------
(* accept and decline want a pending request of the other, cancel one's    *)
(* own, remove any row.                                                    *)
Wanted(k) ==
  /\ pair # None
  /\ ops[k].kind # "remove" => pair.status = "pending"
  /\ ops[k].kind \in {"accept", "decline"} => pair.by # Actor(k)
  /\ ops[k].kind = "cancel" => pair.by = Actor(k)

FindRow(k) ==
  /\ At(k, {"accept", "decline", "cancel", "remove"}, "find")
  /\ IF Wanted(k)
     THEN ops' = [ops EXCEPT ![k] = [@ EXCEPT !.stage = "write", !.row = TRUE]]
     ELSE Done(k)
  /\ UNCHANGED rows /\ Silent

\* Mutant: the row is addressed by the pair and not by its id.
AcceptByPair(k) ==
  /\ At(k, {"accept"}, "write")
  /\ Done(k)
  /\ pair' = IF pair # None THEN [pair EXCEPT !.status = "accepted"] ELSE pair
  /\ UNCHANGED <<blocks, ignores>>
  /\ Emit(ToBoth("accepted")) /\ Remember(ToBoth("accepted"))

(* The merge changes nothing if the row is gone; both are told anyway.     *)
WriteAccept(k) ==
  /\ At(k, {"accept"}, "write")
  /\ Done(k)
  /\ pair' = IF ops[k].row THEN [pair EXCEPT !.status = "accepted"] ELSE pair
  /\ UNCHANGED <<blocks, ignores>>
  /\ Emit(ToBoth("accepted")) /\ Remember(ToBoth("accepted"))

\* Mutant: only the actor is told of the end.
EndToldToOne(k) ==
  /\ At(k, {"decline", "cancel", "remove"}, "write")
  /\ IF ops[k].row THEN pair' = None /\ Gone(k, PairKinds, None)
     ELSE UNCHANGED pair /\ Done(k)
  /\ UNCHANGED <<blocks, ignores>>
  /\ Emit(ToOne(Actor(k), "ended")) /\ Remember(ToOne(Actor(k), "ended"))

WriteEnd(k) ==
  /\ At(k, {"decline", "cancel", "remove"}, "write")
  /\ IF ops[k].row THEN pair' = None /\ Gone(k, PairKinds, None)
     ELSE UNCHANGED pair /\ Done(k)
  /\ UNCHANGED <<blocks, ignores>>
  /\ Emit(ToBoth("ended")) /\ Remember(ToBoth("ended"))

-----------------------------------------------------------------------------
(* The first read of block, unblock and unignore, and ignore's second.     *)
FindOwn(k) ==
  /\ At(k, ListKinds, "exists")
  /\ LET there == Actor(k) \in (IF ops[k].kind \in {"block", "unblock"} THEN blocks ELSE ignores)
     IN IF there = (ops[k].kind \in {"block", "ignore"}) THEN Done(k)
        ELSE ops' = [ops EXCEPT ![k] = [@ EXCEPT !.row = there,
               !.stage = CASE ops[k].kind = "block" -> "strip"
                           [] ops[k].kind = "ignore" -> "create"
                           [] OTHER -> "write"]]
  /\ UNCHANGED rows /\ Silent

\* Mutant: only an accepted friendship is removed.
StripAccepted(k) ==
  /\ At(k, {"block"}, "strip")
  /\ LET on == [ops[k] EXCEPT !.stage = "unignore"]
     IN IF pair # None /\ pair.status = "accepted"
        THEN pair' = None /\ Gone(k, PairKinds, on)
        ELSE UNCHANGED pair /\ Goto(k, "unignore")
  /\ UNCHANGED <<blocks, ignores>> /\ Silent

(* block removes whatever row there is of the pair, then its own ignore,   *)
(* and only then does it block.                                            *)
Strip(k) ==
  /\ At(k, {"block"}, "strip")
  /\ pair' = None
  /\ Gone(k, PairKinds, [ops[k] EXCEPT !.stage = "unignore"])
  /\ UNCHANGED <<blocks, ignores>> /\ Silent

StripIgnore(k) ==
  /\ At(k, {"block"}, "unignore")
  /\ ignores' = ignores \ {Actor(k)}
  /\ ops' = [j \in Ops |->
       IF j = k THEN [ops[k] EXCEPT !.stage = "create"]
       ELSE IF ops[j] # None /\ ops[j].kind = "unignore" /\ ops[j].user = Actor(k)
       THEN [ops[j] EXCEPT !.row = FALSE] ELSE ops[j]]
  /\ UNCHANGED <<pair, blocks>> /\ Silent

(* The indexes admit one row of each kind.                                 *)
CreateOwn(k) ==
  /\ At(k, {"block", "ignore"}, "create")
  /\ IF ops[k].kind = "block"
     THEN /\ blocks' = blocks \cup {Actor(k)} /\ UNCHANGED ignores
          /\ IF Actor(k) \in blocks THEN Done(k) ELSE Goto(k, "tell")
     ELSE /\ ignores' = ignores \cup {Actor(k)} /\ UNCHANGED blocks
          /\ IF Actor(k) \in ignores THEN Done(k) ELSE Goto(k, "tell")
  /\ UNCHANGED pair /\ Silent

(* The three notifications of a block to its actor come to what "blocked"  *)
(* does, the one to the target to an end of whatever was.                  *)
TellOwn(k) ==
  /\ At(k, {"block", "ignore"}, "tell")
  /\ Done(k)
  /\ UNCHANGED rows
  /\ LET told == IF ops[k].kind = "ignore" THEN ToOne(Actor(k), "ignored")
                 ELSE [u \in Users |-> IF u = Actor(k) THEN "blocked" ELSE "ended"]
     IN Emit(told) /\ Remember(told)

DeleteOwn(k) ==
  /\ At(k, {"unblock", "unignore"}, "write")
  /\ LET own == ops[k].kind
         left == IF ops[k].row THEN {Actor(k)} ELSE {}
         event == IF own = "unblock" THEN "unblocked" ELSE "unignored"
     IN /\ blocks' = IF own = "unblock" THEN blocks \ left ELSE blocks
        /\ ignores' = IF own = "unignore" THEN ignores \ left ELSE ignores
        /\ ops' = [j \in Ops |-> IF j = k THEN None
             ELSE IF ops[j] # None /\ ops[j].kind = own /\ ops[j].user = Actor(k)
             THEN [ops[j] EXCEPT !.row = @ /\ left = {}] ELSE ops[j]]
        /\ Emit(ToOne(Actor(k), event)) /\ Remember(ToOne(Actor(k), event))
  /\ UNCHANGED pair

(* A database call fails: the request ends where it is.                    *)
Throw(k) ==
  /\ Faults
  /\ ops[k] # None
  /\ Done(k)
  /\ UNCHANGED <<rows, apps>>
  /\ history' = [history EXCEPT !.failed = TRUE, !.shut = Shut]

-----------------------------------------------------------------------------
(* The app starts: it connects and loads the relations at the same time,   *)
(* and never loads them again, whatever becomes of its socket.             *)
Boot(u) ==
  /\ history.boots < MaxBoots
  /\ loads' = [loads EXCEPT ![u] = [stage |-> "rows", snap |-> Blank]]
  /\ store' = [store EXCEPT ![u] = Blank]
  /\ wired' = wired \ {u}
  /\ history' = [history EXCEPT !.boots = @ + 1, !.missed = @ \ {u}]
  /\ UNCHANGED <<rows, ops>>

Identify(u) ==
  /\ u \notin wired
  /\ store[u] # None
  /\ wired' = wired \cup {u}
  /\ UNCHANGED <<rows, ops, store, loads, history>>

SocketLost(u) ==
  /\ u \in wired
  /\ history.boots < MaxBoots
  /\ wired' = wired \ {u}
  /\ history' = [history EXCEPT !.boots = @ + 1]
  /\ UNCHANGED <<rows, ops, store, loads>>

(* relationsFor: the rows of friendship, then both lists.                  *)
ReadRows(u) ==
  /\ loads[u] # None /\ loads[u].stage = "rows"
  /\ loads' = [loads EXCEPT ![u] = [stage |-> "lists",
       snap |-> [Truth(u) EXCEPT !.blocked = FALSE, !.ignored = FALSE]]]
  /\ UNCHANGED <<rows, ops, store, wired, history>>

ReadLists(u) ==
  /\ loads[u] # None /\ loads[u].stage = "lists"
  /\ loads' = [loads EXCEPT ![u] = [stage |-> "apply",
       snap |-> [@.snap EXCEPT !.blocked = u \in blocks, !.ignored = u \in ignores]]]
  /\ UNCHANGED <<rows, ops, store, wired, history>>

(* The answer overwrites whatever the app shows.                           *)
ApplySnapshot(u) ==
  /\ loads[u] # None /\ loads[u].stage = "apply"
  /\ store' = [store EXCEPT ![u] = loads[u].snap]
  /\ loads' = [loads EXCEPT ![u] = None]
  /\ UNCHANGED <<rows, ops, wired, history>>

(* The catch of loadRelations: the app goes on with what it shows.         *)
LoadFails(u) ==
  /\ Faults
  /\ loads[u] # None
  /\ loads' = [loads EXCEPT ![u] = None]
  /\ history' = [history EXCEPT !.missed = @ \cup {u}]
  /\ UNCHANGED <<rows, ops, store, wired>>

Work(k) ==
  \/ LookUp(k) \/ CheckFriends(k) \/ CheckPending(k) \/ CreateRequest(k) \/ TellRequest(k)
  \/ FindRow(k) \/ WriteAccept(k) \/ WriteEnd(k)
  \/ FindOwn(k) \/ Strip(k) \/ StripIgnore(k) \/ CreateOwn(k) \/ TellOwn(k) \/ DeleteOwn(k)

App(u) ==
  Boot(u) \/ Identify(u) \/ SocketLost(u) \/ ReadRows(u) \/ ReadLists(u) \/ ApplySnapshot(u)
  \/ LoadFails(u)

Next ==
  \/ \E k \in Ops, u \in Users : StartAny(k, u)
  \/ \E k \in Ops : Work(k) \/ Throw(k)
  \/ \E u \in Watching : App(u)

Spec == Init /\ [][Next]_vars

-----------------------------------------------------------------------------
(* A block leaves nothing between the two, and replaces one's ignore.      *)
(* True as long as requests about the same rows did not overlap, even if   *)
(* some of them were cut short between two of their writes.                *)
BlockExcludes ==
  ~history.tangled =>
    /\ blocks # {} => pair = None
    /\ blocks \cap ignores = {}

(* Nobody becomes a friend who has not consented: a row starts as a        *)
(* request, and is accepted by the one who was asked, however requests,    *)
(* cancellations and acceptances of one pair overlap.                      *)
Consented ==
  /\ pair = None /\ pair' # None => pair'.status = "pending"
  /\ pair # None /\ pair' # None /\ pair # pair' =>
       /\ pair'.status = "accepted" /\ pair'.by = pair.by
       /\ \E k \in Ops : /\ ops[k] # None /\ ops'[k] = None
                         /\ ops[k].kind = "accept" /\ Actor(k) # pair.by

Consent == [][Consented]_vars

(* The apps show what the rows say once everything has been answered, for  *)
(* whoever was reached by every notification since its snapshot was read.  *)
StoresTell ==
  (~history.tangled /\ ~history.failed /\ \A k \in Ops : ops[k] = None) =>
    \A u \in Users : store[u] # None /\ loads[u] = None /\ u \notin history.missed
                       => store[u] = Truth(u)
===============================================================================
