------------------------- MODULE DirectMessages_proofs -------------------------
(***************************************************************************)
(* Relations and direct messages of a pair, for any number of requests and *)
(* calls under way: nobody becomes a friend without consent (RelInv),      *)
(* nothing is written past a gate that was shut all along (GateInv), the   *)
(* pair shares one channel (ChannelInv), and, as long as requests about    *)
(* the same rows did not overlap, a block excludes the rest and the apps   *)
(* show what the rows say (SerialInv).                                     *)
(***************************************************************************)
EXTENDS DirectMessages, FiniteSetTheorems, TLAPS

(* Who is about to accept holds a row that still exists, or knows it does  *)
(* not: a row that goes takes the knowledge of everybody with it.          *)
Accepting(k) == At(k, {"accept"}, "write") /\ ops[k].row

(* A request has looked up every block but the ones still to be looked up, *)
(* so that a block that lasts is among those.                              *)
Asking(k) == ops[k] # None /\ ops[k].kind = "request"

RelInv ==
  /\ TypeOK
  /\ \A u \in wired : store[u] # None
  /\ \A k \in Ops : Accepting(k) => pair # None /\ pair.by # Actor(k)
  /\ \A k \in Ops : Asking(k) =>
       /\ history.shut[k] \subseteq blocks /\ history.shut[k] \subseteq ops[k].unread
       /\ ops[k].stage # "gate" => ops[k].unread = {}

-----------------------------------------------------------------------------
LEMMA HeardShown ==
  ASSUME NEW s \in Shown, NEW event \in Events
  PROVE  Heard(s, event) \in Shown
  BY DEF Shown, Events, Heard, Cleared

LEMMA EmitType ==
  ASSUME TypeOK, \A u \in wired : store[u] # None,
         NEW told \in [Users -> Events \cup {None}], Emit(told)
  PROVE  /\ store' \in [Users -> Shown \cup {None}]
         /\ \A u \in wired : store'[u] # None
         /\ UNCHANGED <<loads, wired>>
<1>1. ASSUME NEW u \in Users, told[u] # None, u \in wired
      PROVE  Heard(store[u], told[u]) \in Shown
  BY <1>1, HeardShown DEF TypeOK
<1> QED
  BY <1>1, RelationsNone DEF Emit, TypeOK

LEMMA ShutType ==
  ASSUME TypeOK, blocks' \subseteq Users
  PROVE  Shut \in [Ops -> SUBSET Users]
  BY DEF Shut, TypeOK, History

LEMMA RelInit == Init => RelInv
  BY RelationsBounds DEF Init, RelInv, TypeOK, History, Accepting, Asking, At

(* What a step of a request does with the requests: each stays what it is, *)
(* starts, or ends, and no look-up of a block that lasts is passed over.   *)
Kept(k) ==
  ops'[k] # None =>
    \/ /\ ops[k] = None
       /\ ops'[k].kind = "request" => ops'[k].unread = Users /\ ops'[k].stage = "gate"
    \/ /\ ops[k] # None /\ ops'[k].kind = ops[k].kind
       /\ ops'[k].kind = "request" =>
            /\ ops[k].unread \cap blocks' \subseteq ops'[k].unread
            /\ ops'[k].stage # "gate" => ops'[k].unread = {}

RowsOK ==
  /\ pair \in Friendship \cup {None}
  /\ blocks \subseteq Users /\ ignores \subseteq Users
  /\ ops \in [Ops -> Op \cup {None}]
  /\ \A k \in Ops : Accepting(k) => pair # None /\ pair.by # Actor(k)

AppsOK ==
  /\ store \in [Users -> Shown \cup {None}]
  /\ loads \in [Users -> Load \cup {None}]
  /\ wired \subseteq Users
  /\ \A u \in wired : store[u] # None

LEMMA RequestStep ==
  ASSUME RelInv, RowsOK', AppsOK', \A k \in Ops : Kept(k),
         history' \in History, history'.shut = Shut
  PROVE  RelInv'
<1>1. ASSUME NEW k \in Ops, Asking(k)'
      PROVE  /\ history'.shut[k] \subseteq blocks' /\ history'.shut[k] \subseteq ops'[k].unread
             /\ ops'[k].stage # "gate" => ops'[k].unread = {}
  <2>1. history'.shut[k] = IF ops[k] = None THEN blocks' ELSE history.shut[k] \cap blocks'
    BY <1>1 DEF Asking, Shut
  <2>2. CASE ops[k] = None
    BY <1>1, <2>1, <2>2 DEF Asking, Kept, RowsOK
  <2>3. CASE ops[k] # None
    <3>1. Asking(k)
      BY <1>1, <2>3 DEF Asking, Kept
    <3>2. history.shut[k] \subseteq ops[k].unread
      BY <3>1 DEF RelInv
    <3> QED
      BY <1>1, <2>1, <2>3, <3>2 DEF Asking, Kept
  <2> QED
    BY <2>2, <2>3
<1> QED
  BY <1>1 DEF RelInv, TypeOK, RowsOK, AppsOK

(* The applications hear nothing, or an event.                             *)
LEMMA QuietApps ==
  ASSUME RelInv, UNCHANGED apps
  PROVE  AppsOK'
  BY DEF RelInv, TypeOK, AppsOK, apps

LEMMA ToldApps ==
  ASSUME RelInv, NEW told \in [Users -> Events \cup {None}], Emit(told)
  PROVE  AppsOK'
  BY EmitType DEF RelInv, TypeOK, AppsOK

LEMMA Remembered ==
  ASSUME RelInv, RowsOK', NEW told, Remember(told)
  PROVE  history' \in History /\ history'.shut = Shut
<1>1. Shut \in [Ops -> SUBSET Users]
  BY ShutType DEF RelInv, RowsOK
<1>2. Unheard(told) \subseteq Users
  BY DEF Unheard
<1> QED
  BY <1>1, <1>2 DEF RelInv, TypeOK, Remember, History

LEMMA SilentStep ==
  ASSUME RelInv, RowsOK', \A k \in Ops : Kept(k), Silent
  PROVE  RelInv'
  BY QuietApps, Remembered, RequestStep DEF Silent

LEMMA ToldStep ==
  ASSUME RelInv, RowsOK', \A k \in Ops : Kept(k),
         NEW told \in [Users -> Events \cup {None}], Emit(told), Remember(told)
  PROVE  RelInv'
  BY ToldApps, Remembered, RequestStep

LEMMA StartStep ==
  ASSUME RelInv, NEW k \in Ops, NEW u \in Users, StartAny(k, u)
  PROVE  RelInv'
<1> DEFINE Started(kind, stage, unread) ==
             /\ Start(k, kind, u, stage, unread)
             /\ kind = "request" => unread = Users /\ stage = "gate"
             /\ stage # "write"
           Begins == \E kind \in Kinds, stage \in Stages, unread \in SUBSET Users :
                       Started(kind, stage, unread)
<1>0. Begins
  <2>1. CASE Start(k, "request", u, "gate", Users)
    BY <2>1 DEF Kinds, PairKinds, Stages
  <2>2. ASSUME NEW kind \in {"accept", "decline", "cancel", "remove"}, Start(k, kind, u, "find", {})
        PROVE  Begins
    BY <2>2 DEF Kinds, PairKinds, Stages
  <2>3. ASSUME NEW kind \in {"block", "unblock", "unignore"}, Start(k, kind, u, "exists", {})
        PROVE  Begins
    BY <2>3 DEF Kinds, PairKinds, ListKinds, Stages
  <2>4. CASE Start(k, "ignore", u, "gate", {u})
    BY <2>4 DEF Kinds, ListKinds, Stages
  <2> QED
    BY <2>1, <2>2, <2>3, <2>4 DEF StartAny
<1>1. PICK kind \in Kinds, stage \in Stages, unread \in SUBSET Users : Started(kind, stage, unread)
  BY <1>0
<1> DEFINE o == [kind |-> kind, user |-> u, stage |-> stage, unread |-> unread, row |-> FALSE]
<1>2. o \in Op /\ ops' = [ops EXCEPT ![k] = o] /\ ops[k] = None
  BY <1>1 DEF Start, Op
<1>3. UNCHANGED <<rows, apps>>
  BY <1>1 DEF Start
<1>4. RowsOK'
  BY <1>1, <1>2, <1>3 DEF RelInv, TypeOK, RowsOK, rows, Accepting, At, Actor
<1>5. \A j \in Ops : Kept(j)
  BY <1>1, <1>2, <1>3 DEF RelInv, TypeOK, Kept, Asking, rows
<1>6. Shut \in [Ops -> SUBSET Users]
  BY <1>4, ShutType DEF RelInv, RowsOK
<1>7. history' \in History /\ history'.shut = Shut
  <2> DEFINE overlap ==
        history.tangled \/ \E j \in Ops : ops[j] # None /\ Conflict(kind, u, ops[j])
  <2>1. overlap \in BOOLEAN
    OBVIOUS
  <2>2. history' = [history EXCEPT !.made = @ + 1, !.shut = Shut, !.tangled = overlap]
    BY <1>1 DEF Start
  <2>3. history.made < MaxRequests
    BY <1>1 DEF Start
  <2>4. history.made + 1 \in 0..MaxRequests
    BY <2>3, RelationsBounds DEF RelInv, TypeOK, History
  <2> HIDE DEF overlap
  <2>5. history' \in [tangled : BOOLEAN, failed : BOOLEAN, missed : SUBSET Users,
                      shut : [Ops -> SUBSET Users], made : 0..MaxRequests, boots : 0..MaxBoots]
    BY <2>1, <2>2, <2>4, <1>6 DEF RelInv, TypeOK, History
  <2>6. history'.shut = Shut
    BY <2>2 DEF RelInv, TypeOK, History
  <2> QED
    BY <2>5, <2>6 DEF History
<1> QED
  BY <1>3, <1>4, <1>5, <1>7, QuietApps, RequestStep

(* The steps of a request that read, and those that end one.               *)
LEMMA LookUpStep ==
  ASSUME RelInv, NEW k \in Ops, LookUp(k)
  PROVE  RelInv'
<1>1. ops[k] # None /\ ops[k] \in Op /\ ops[k].stage = "gate"
      /\ ops[k].kind \in {"request", "ignore"}
  BY DEF LookUp, At, RelInv, TypeOK
<1>2. UNCHANGED rows /\ Silent
  BY DEF LookUp
<1>3. \/ Done(k)
      \/ \E u \in Users \ blocks : ops' = [ops EXCEPT ![k].unread = @ \ {u}]
      \/ \E u \in Users \ blocks, stage \in {"friends", "exists"} :
           /\ ops[k].unread = {u}
           /\ ops' = [ops EXCEPT ![k] = [@ EXCEPT !.unread = {}, !.stage = stage]]
  <2> DEFINE next == IF ops[k].kind = "request" THEN "friends" ELSE "exists"
  <2>1. next \in {"friends", "exists"}
    OBVIOUS
  <2>2. PICK u \in ops[k].unread :
          IF u \in blocks THEN Done(k)
          ELSE IF ops[k].unread # {u}
          THEN ops' = [ops EXCEPT ![k].unread = @ \ {u}]
          ELSE ops' = [ops EXCEPT ![k] = [@ EXCEPT !.unread = {}, !.stage = next]]
    BY DEF LookUp
  <2>3. u \in Users
    BY <1>1 DEF Op
  <2> HIDE DEF next
  <2> QED
    BY <2>1, <2>2, <2>3
<1>4. ASSUME NEW o \in Op \cup {None}, ops' = [ops EXCEPT ![k] = o],
             o # None => /\ o.kind = ops[k].kind /\ o.stage # "write"
                         /\ ops[k].unread \cap blocks' \subseteq o.unread
                         /\ o.stage # "gate" => o.unread = {}
      PROVE  RowsOK' /\ \A j \in Ops : Kept(j)
  BY <1>1, <1>2, <1>4 DEF RelInv, TypeOK, RowsOK, rows, Accepting, At, Actor, Kept, Asking
<1>5. RowsOK' /\ \A j \in Ops : Kept(j)
  <2>1. CASE Done(k)
    BY <2>1, <1>4 DEF Done
  <2>2. ASSUME NEW u \in Users \ blocks, ops' = [ops EXCEPT ![k].unread = @ \ {u}]
        PROVE  RowsOK' /\ \A j \in Ops : Kept(j)
    <3> DEFINE o == [ops[k] EXCEPT !.unread = @ \ {u}]
    <3>1. o \in Op /\ o.kind = ops[k].kind /\ o.stage = "gate" /\ o.unread = ops[k].unread \ {u}
      BY <1>1 DEF Op
    <3>2. ops' = [ops EXCEPT ![k] = o]
      BY <2>2
    <3> HIDE DEF o
    <3> QED
      BY <3>1, <3>2, <2>2, <1>2, <1>4 DEF rows
  <2>3. ASSUME NEW u \in Users \ blocks, NEW stage \in {"friends", "exists"}, ops[k].unread = {u},
               ops' = [ops EXCEPT ![k] = [@ EXCEPT !.unread = {}, !.stage = stage]]
        PROVE  RowsOK' /\ \A j \in Ops : Kept(j)
    <3> DEFINE o == [ops[k] EXCEPT !.unread = {}, !.stage = stage]
    <3>1. o \in Op /\ o.kind = ops[k].kind /\ o.stage = stage /\ o.unread = {}
      BY <1>1 DEF Op, Stages
    <3>2. ops' = [ops EXCEPT ![k] = o]
      BY <2>3
    <3> HIDE DEF o
    <3> QED
      BY <3>1, <3>2, <2>3, <1>2, <1>4 DEF rows
  <2> QED
    BY <1>3, <2>1, <2>2, <2>3
<1> QED
  BY <1>2, <1>5, SilentStep

(* A request ends, or goes on to a stage in which it does not accept.      *)
Moves(k) ==
  \/ Done(k)
  \/ \E stage \in Stages \ {"gate"} : Goto(k, stage) /\ (ops[k].kind = "accept" => stage # "write")

LEMMA MovesStep ==
  ASSUME RelInv, NEW k \in Ops, ops[k] # None, ops[k].stage # "gate", Moves(k),
         blocks' \subseteq Users, ignores' \subseteq Users,
         pair' \in Friendship \cup {None}, pair = None \/ pair' = pair
  PROVE  RowsOK' /\ \A j \in Ops : Kept(j)
<1>1. ops[k] \in Op
  BY DEF RelInv, TypeOK
<1>2. ops' \in [Ops -> Op \cup {None}]
  BY <1>1 DEF RelInv, TypeOK, Op, Done, Goto, Moves
<1>3. ASSUME NEW j \in Ops, Accepting(j)' PROVE Accepting(j) /\ Actor(j)' = Actor(j)
  BY <1>1, <1>3 DEF RelInv, TypeOK, Accepting, At, Actor, Moves, Done, Goto, Op
<1>4. RowsOK'
  BY <1>2, <1>3 DEF RelInv, RowsOK
<1>5. \A j \in Ops : Kept(j)
  BY <1>1 DEF RelInv, TypeOK, Kept, Asking, Done, Goto, Op, Moves
<1> QED
  BY <1>4, <1>5

LEMMA CheckStep ==
  ASSUME RelInv, NEW k \in Ops, CheckFriends(k) \/ CheckPending(k) \/ CreateRequest(k)
  PROVE  RelInv'
<1>1. ops[k] # None /\ ops[k].stage # "gate" /\ ops[k].kind = "request"
  BY DEF CheckFriends, CheckPending, CreateRequest, At
<1>2. Moves(k)
  BY <1>1 DEF CheckFriends, CheckPending, CreateRequest, Moves, Stages
<1>3. Silent /\ UNCHANGED <<blocks, ignores>>
  BY DEF CheckFriends, CheckPending, CreateRequest, rows
<1>4. pair' \in Friendship \cup {None} /\ (pair = None \/ pair' = pair)
  <2>1. ops[k].user \in Users
    BY <1>1 DEF RelInv, TypeOK, Op
  <2> QED
    BY <2>1 DEF CheckFriends, CheckPending, CreateRequest, rows, Actor, Friendship, RelInv, TypeOK
<1> QED
  BY <1>1, <1>2, <1>3, <1>4, MovesStep, SilentStep DEF RelInv, TypeOK

(* A row of the pair goes, and with it what the others have read.          *)
LEMMA GoneStep ==
  ASSUME RelInv, NEW k \in Ops, NEW rest \in Op \cup {None}, Gone(k, PairKinds, rest),
         ops[k] # None, ops[k].kind # "request",
         rest # None => rest.kind = ops[k].kind /\ rest.kind # "accept",
         pair' = None, UNCHANGED <<blocks, ignores>>
  PROVE  RowsOK' /\ \A j \in Ops : Kept(j)
<1>1. ASSUME NEW j \in Ops, j # k, ops[j] # None, ops[j].kind \in PairKinds
      PROVE  /\ ops'[j] \in Op /\ ops'[j] # None /\ ~ops'[j].row
             /\ ops'[j].kind = ops[j].kind /\ ops'[j].stage = ops[j].stage
             /\ ops'[j].unread = ops[j].unread
  <2>1. ops[j] \in Op /\ ops'[j] = [ops[j] EXCEPT !.row = FALSE]
    BY <1>1 DEF Gone, RelInv, TypeOK
  <2>2. [ops[j] EXCEPT !.row = FALSE] \in Op
    BY <2>1 DEF Op
  <2> QED
    BY <2>1, <2>2, RelationsNone DEF Op
<1>2. ASSUME NEW j \in Ops, j # k, ops[j] = None \/ ops[j].kind \notin PairKinds
      PROVE  ops'[j] = ops[j]
  BY <1>2 DEF Gone
<1>3. ops'[k] = rest
  BY DEF Gone
<1>4. ops' \in [Ops -> Op \cup {None}]
  <2>1. \A j \in Ops : ops'[j] \in Op \cup {None}
    BY <1>1, <1>2, <1>3 DEF RelInv, TypeOK
  <2> QED
    BY <2>1 DEF Gone
<1>5. ASSUME NEW j \in Ops PROVE ~Accepting(j)'
  BY <1>1, <1>2, <1>3 DEF Accepting, At, PairKinds
<1>6. RowsOK'
  BY <1>4, <1>5 DEF RelInv, TypeOK, RowsOK
<1>7. ASSUME NEW j \in Ops PROVE Kept(j)
  BY <1>1, <1>2, <1>3 DEF Kept, RelInv, Asking, PairKinds
<1> QED
  BY <1>6, <1>7

LEMMA FindRowStep ==
  ASSUME RelInv, NEW k \in Ops, FindRow(k)
  PROVE  RelInv'
<1>1. ops[k] # None /\ ops[k] \in Op /\ ops[k].kind # "request" /\ ops[k].stage # "gate"
  BY DEF FindRow, At, RelInv, TypeOK
<1>2. UNCHANGED rows /\ Silent
  BY DEF FindRow
<1>3. CASE ~Wanted(k)
  <2>1. Moves(k)
    BY <1>3 DEF FindRow, Moves
  <2> QED
    BY <2>1, <1>1, <1>2, MovesStep, SilentStep DEF rows, RelInv, TypeOK
<1>4. CASE Wanted(k)
  <2> DEFINE o == [ops[k] EXCEPT !.stage = "write", !.row = TRUE]
  <2>1. ops' = [ops EXCEPT ![k] = o]
    BY <1>4 DEF FindRow
  <2>2. o \in Op /\ o.kind = ops[k].kind /\ o.user = ops[k].user
    BY <1>1 DEF Op, Stages
  <2> HIDE DEF o
  <2>3. ASSUME NEW j \in Ops, Accepting(j)' PROVE pair # None /\ pair.by # Actor(j)'
    <3>1. CASE j = k
      BY <3>1, <2>3, <2>1, <2>2, <1>4 DEF Wanted, Accepting, At, Actor, RelInv, TypeOK
    <3>2. CASE j # k
      BY <3>2, <2>3, <2>1 DEF Accepting, At, Actor, RelInv, TypeOK
    <3> QED
      BY <3>1, <3>2
  <2>4. RowsOK'
    BY <2>1, <2>2, <2>3, <1>2 DEF RelInv, TypeOK, RowsOK, rows
  <2>5. \A j \in Ops : Kept(j)
    BY <2>1, <2>2, <1>1 DEF RelInv, TypeOK, Kept, Asking
  <2> QED
    BY <2>4, <2>5, <1>2, SilentStep
<1> QED
  BY <1>3, <1>4

LEMMA WriteStep ==
  ASSUME RelInv, NEW k \in Ops, WriteAccept(k) \/ WriteEnd(k)
  PROVE  RelInv'
<1>1. ops[k] # None /\ ops[k].kind # "request" /\ ops[k].stage # "gate"
  BY DEF WriteAccept, WriteEnd, At
<1>2. ToBoth("accepted") \in [Users -> Events \cup {None}]
      /\ ToBoth("ended") \in [Users -> Events \cup {None}]
  BY DEF ToBoth, Events
<1>3. RowsOK' /\ \A j \in Ops : Kept(j)
  <2>1. CASE WriteEnd(k) /\ ops[k].row
    BY <2>1, <1>1, GoneStep DEF WriteEnd
  <2>2. CASE (WriteEnd(k) \/ WriteAccept(k)) /\ UNCHANGED pair /\ Done(k)
    <3>1. Moves(k) /\ UNCHANGED <<blocks, ignores>>
      BY <2>2 DEF Moves, WriteEnd, WriteAccept
    <3> QED
      BY <3>1, <2>2, <1>1, MovesStep DEF RelInv, TypeOK
  <2>3. CASE WriteAccept(k) /\ ops[k].row
    <3>1. pair # None /\ pair \in Friendship
      BY <2>3 DEF WriteAccept, RelInv, Accepting, TypeOK
    <3>2. pair' \in Friendship /\ pair'.by = pair.by /\ pair' = [pair EXCEPT !.status = "accepted"]
      BY <2>3, <3>1 DEF WriteAccept, Friendship
    <3>3. pair' # None
      BY <3>2, RelationsNone
    <3>4. Done(k) /\ UNCHANGED <<blocks, ignores>>
      BY <2>3 DEF WriteAccept
    <3>5. ASSUME NEW j \in Ops, Accepting(j)' PROVE Accepting(j) /\ Actor(j)' = Actor(j)
      BY <3>4, <3>5 DEF Done, Accepting, At, Actor, RelInv, TypeOK
    <3>6. RowsOK'
      BY <3>2, <3>3, <3>4, <3>5 DEF RowsOK, RelInv, TypeOK, Done
    <3>7. \A j \in Ops : Kept(j)
      BY <3>4 DEF Kept, RelInv, TypeOK, Asking, Done
    <3> QED
      BY <3>6, <3>7
  <2> QED
    BY <2>1, <2>2, <2>3 DEF WriteAccept, WriteEnd
<1> QED
  BY <1>2, <1>3, ToldStep DEF WriteAccept, WriteEnd

(* Blocks and ignores neither ask nor accept.                              *)
LEMMA ListStep ==
  ASSUME RelInv, NEW k \in Ops, ops[k] # None, ops[k].kind \in ListKinds,
         ops' \in [Ops -> Op \cup {None}],
         \A j \in Ops : \/ ops'[j] = ops[j] \/ ops'[j] = None
                        \/ /\ ops[j] # None /\ ops[j].kind \in ListKinds
                           /\ ops'[j].kind = ops[j].kind,
         UNCHANGED pair, blocks' \subseteq Users, ignores' \subseteq Users
  PROVE  RowsOK' /\ \A j \in Ops : Kept(j)
<1>1. ASSUME NEW j \in Ops, Accepting(j)' PROVE Accepting(j) /\ Actor(j)' = Actor(j)
  BY <1>1 DEF Accepting, At, Actor, ListKinds
<1>2. RowsOK'
  BY <1>1 DEF RelInv, TypeOK, RowsOK
<1>3. \A j \in Ops : Kept(j)
  BY DEF Kept, RelInv, Asking, ListKinds
<1> QED
  BY <1>2, <1>3

LEMMA FindOwnStep ==
  ASSUME RelInv, NEW k \in Ops, FindOwn(k)
  PROVE  RelInv'
<1>1. ops[k] # None /\ ops[k] \in Op /\ ops[k].kind \in ListKinds
  BY DEF FindOwn, At, RelInv, TypeOK
<1>2. Silent /\ UNCHANGED rows
  BY DEF FindOwn
<1>3. \/ Done(k)
      \/ \E there \in BOOLEAN, stage \in {"strip", "create", "write"} :
           ops' = [ops EXCEPT ![k] = [@ EXCEPT !.row = there, !.stage = stage]]
  <2> DEFINE there == Actor(k) \in (IF ops[k].kind \in {"block", "unblock"} THEN blocks ELSE ignores)
             next == CASE ops[k].kind = "block" -> "strip"
                       [] ops[k].kind = "ignore" -> "create"
                       [] OTHER -> "write"
  <2>1. there \in BOOLEAN /\ next \in {"strip", "create", "write"}
    OBVIOUS
  <2>2. \/ Done(k)
        \/ ops' = [ops EXCEPT ![k] = [@ EXCEPT !.row = there, !.stage = next]]
    BY DEF FindOwn
  <2> HIDE DEF there, next
  <2> QED
    BY <2>1, <2>2
<1>4. RowsOK' /\ \A j \in Ops : Kept(j)
  <2>1. CASE Done(k)
    BY <2>1, <1>1, <1>2, ListStep DEF Done, rows, RelInv, TypeOK
  <2>2. ASSUME NEW there \in BOOLEAN, NEW stage \in {"strip", "create", "write"},
               ops' = [ops EXCEPT ![k] = [@ EXCEPT !.row = there, !.stage = stage]]
        PROVE  RowsOK' /\ \A j \in Ops : Kept(j)
    <3> DEFINE o == [ops[k] EXCEPT !.row = there, !.stage = stage]
    <3>1. o \in Op /\ o.kind = ops[k].kind
      BY <1>1 DEF Op, Stages
    <3>2. ops' = [ops EXCEPT ![k] = o]
      BY <2>2
    <3> HIDE DEF o
    <3> QED
      BY <3>1, <3>2, <1>1, <1>2, ListStep DEF rows, RelInv, TypeOK
  <2> QED
    BY <1>3, <2>1, <2>2
<1> QED
  BY <1>2, <1>4, SilentStep

LEMMA StripStep ==
  ASSUME RelInv, NEW k \in Ops, Strip(k)
  PROVE  RelInv'
<1> DEFINE o == [ops[k] EXCEPT !.stage = "unignore"]
<1>1. ops[k] # None /\ ops[k] \in Op /\ ops[k].kind = "block"
  BY DEF Strip, At, RelInv, TypeOK
<1>2. o \in Op /\ o.kind = ops[k].kind
  BY <1>1 DEF Op, Stages
<1>3. Gone(k, PairKinds, o) /\ pair' = None /\ UNCHANGED <<blocks, ignores>> /\ Silent
  BY DEF Strip
<1> HIDE DEF o
<1> QED
  BY <1>1, <1>2, <1>3, GoneStep, SilentStep

LEMMA StripIgnoreStep ==
  ASSUME RelInv, NEW k \in Ops, StripIgnore(k)
  PROVE  RelInv'
<1>1. ops[k] # None /\ ops[k] \in Op /\ ops[k].kind = "block"
  BY DEF StripIgnore, At, RelInv, TypeOK
<1>2. Silent /\ UNCHANGED <<pair, blocks>> /\ ignores' \subseteq Users
  BY DEF StripIgnore, RelInv, TypeOK
<1>3. ASSUME NEW j \in Ops
      PROVE  /\ ops'[j] \in Op \cup {None}
             /\ \/ ops'[j] = ops[j]
                \/ /\ ops[j] # None /\ ops[j].kind \in ListKinds
                   /\ ops'[j].kind = ops[j].kind
  <2>1. ops[j] \in Op \cup {None}
    BY DEF RelInv, TypeOK
  <2>2. CASE j = k
    <3>1. ops'[j] = [ops[j] EXCEPT !.stage = "create"]
      BY <2>2 DEF StripIgnore
    <3> QED
      BY <3>1, <2>2, <1>1 DEF Op, Stages, ListKinds
  <2>3. CASE j # k /\ ops[j] # None /\ ops[j].kind = "unignore" /\ ops[j].user = Actor(k)
    <3>1. ops'[j] = [ops[j] EXCEPT !.row = FALSE]
      BY <2>3 DEF StripIgnore
    <3> QED
      BY <3>1, <2>1, <2>3 DEF Op, ListKinds
  <2>4. CASE j # k /\ ~(ops[j] # None /\ ops[j].kind = "unignore" /\ ops[j].user = Actor(k))
    BY <2>1, <2>4 DEF StripIgnore
  <2> QED
    BY <2>2, <2>3, <2>4
<1>4. ops' \in [Ops -> Op \cup {None}]
  BY <1>3 DEF StripIgnore
<1> QED
  BY <1>1, <1>2, <1>3, <1>4, ListStep, SilentStep DEF ListKinds, RelInv, TypeOK

LEMMA CreateOwnStep ==
  ASSUME RelInv, NEW k \in Ops, CreateOwn(k)
  PROVE  RelInv'
<1>1. ops[k] # None /\ ops[k] \in Op /\ ops[k].kind \in ListKinds
  BY DEF CreateOwn, At, RelInv, TypeOK, ListKinds
<1>2. Actor(k) \in Users
  BY <1>1 DEF Op, Actor
<1>3. Silent /\ UNCHANGED pair /\ blocks' \subseteq Users /\ ignores' \subseteq Users
  BY <1>2 DEF CreateOwn, RelInv, TypeOK
<1>4. Done(k) \/ Goto(k, "tell")
  BY DEF CreateOwn
<1>5. /\ ops' \in [Ops -> Op \cup {None}]
      /\ \A j \in Ops : ops'[j] = ops[j] \/ ops'[j] = None \/ (j = k /\ ops'[j].kind = ops[j].kind)
  BY <1>1, <1>4 DEF RelInv, TypeOK, Done, Goto, Op, Stages
<1> QED
  BY <1>1, <1>3, <1>5, ListStep, SilentStep

LEMMA TellStep ==
  ASSUME RelInv, NEW k \in Ops, TellRequest(k) \/ TellOwn(k)
  PROVE  RelInv'
<1>1. PICK told \in [Users -> Events \cup {None}] : Emit(told) /\ Remember(told)
  <2> DEFINE asked == [u \in Users |-> IF u = Actor(k) THEN "outgoing" ELSE "incoming"]
             blocked == [u \in Users |-> IF u = Actor(k) THEN "blocked" ELSE "ended"]
  <2>1. \A told \in {asked, blocked, ToOne(Actor(k), "ignored")} :
          told \in [Users -> Events \cup {None}]
    BY DEF ToOne, Events
  <2>2. \E told \in {asked, blocked, ToOne(Actor(k), "ignored")} : Emit(told) /\ Remember(told)
    BY DEF TellRequest, TellOwn
  <2> QED
    BY <2>1, <2>2
<1>2. Done(k) /\ UNCHANGED rows /\ ops[k] # None /\ ops[k].stage # "gate"
  BY DEF TellRequest, TellOwn, At
<1>3. RowsOK' /\ \A j \in Ops : Kept(j)
  BY <1>2, MovesStep DEF Moves, rows, RelInv, TypeOK
<1> QED
  BY <1>1, <1>3, ToldStep

LEMMA DeleteOwnStep ==
  ASSUME RelInv, NEW k \in Ops, DeleteOwn(k)
  PROVE  RelInv'
<1> DEFINE own == ops[k].kind
           left == IF ops[k].row THEN {Actor(k)} ELSE {}
           event == IF own = "unblock" THEN "unblocked" ELSE "unignored"
<1>1. ops[k] # None /\ ops[k] \in Op /\ ops[k].kind \in {"unblock", "unignore"}
  BY DEF DeleteOwn, At, RelInv, TypeOK
<1>2. UNCHANGED pair /\ blocks' \subseteq Users /\ ignores' \subseteq Users
  BY DEF DeleteOwn, RelInv, TypeOK
<1>3. ToOne(Actor(k), event) \in [Users -> Events \cup {None}]
  BY DEF ToOne, Events
<1>4. ASSUME NEW j \in Ops
      PROVE  /\ ops'[j] \in Op \cup {None}
             /\ \/ ops'[j] = ops[j] \/ ops'[j] = None
                \/ /\ ops[j] # None /\ ops[j].kind \in ListKinds
                   /\ ops'[j].kind = ops[j].kind
  <2>1. ops[j] \in Op \cup {None}
    BY DEF RelInv, TypeOK
  <2>2. CASE j = k
    BY <2>2 DEF DeleteOwn
  <2>3. CASE j # k /\ ops[j] # None /\ ops[j].kind = own /\ ops[j].user = Actor(k)
    <3> DEFINE there == ops[j].row /\ left = {}
    <3>1. ops'[j] = [ops[j] EXCEPT !.row = there]
      BY <2>3 DEF DeleteOwn
    <3>2. there \in BOOLEAN
      OBVIOUS
    <3>3. ops[j].kind \in ListKinds
      BY <2>3, <1>1 DEF ListKinds
    <3> HIDE DEF there
    <3> QED
      BY <3>1, <3>2, <3>3, <2>1, <2>3 DEF Op
  <2>4. CASE j # k /\ ~(ops[j] # None /\ ops[j].kind = own /\ ops[j].user = Actor(k))
    BY <2>1, <2>4 DEF DeleteOwn
  <2> QED
    BY <2>2, <2>3, <2>4
<1>5. ops' \in [Ops -> Op \cup {None}]
  BY <1>4 DEF DeleteOwn
<1>6. RowsOK' /\ \A j \in Ops : Kept(j)
  BY <1>1, <1>2, <1>4, <1>5, ListStep DEF ListKinds
<1>7. Emit(ToOne(Actor(k), event)) /\ Remember(ToOne(Actor(k), event))
  BY DEF DeleteOwn
<1> QED
  BY <1>3, <1>6, <1>7, ToldStep

LEMMA ThrowStep ==
  ASSUME RelInv, NEW k \in Ops, Throw(k)
  PROVE  RelInv'
<1>1. Done(k) /\ UNCHANGED <<rows, apps>>
  BY DEF Throw
<1>2. RowsOK'
  BY <1>1 DEF Done, rows, RelInv, TypeOK, RowsOK, Accepting, At, Actor
<1>3. \A j \in Ops : Kept(j)
  BY <1>1 DEF Done, rows, RelInv, TypeOK, Kept, Asking
<1>4. Shut \in [Ops -> SUBSET Users]
  BY <1>2, ShutType DEF RelInv, RowsOK
<1>5. history' \in History /\ history'.shut = Shut
  BY <1>4 DEF Throw, RelInv, TypeOK, History
<1> QED
  BY <1>1, <1>2, <1>3, <1>5, QuietApps, RequestStep

(* The applications do not touch the rows.                                 *)
LEMMA AppsStep ==
  ASSUME RelInv, AppsOK', UNCHANGED <<rows, ops>>, history' \in History,
         history'.shut = history.shut
  PROVE  RelInv'
  BY DEF RelInv, TypeOK, AppsOK, rows, Accepting, Asking, At, Actor

LEMMA AppStep ==
  ASSUME RelInv, NEW u \in Watching, App(u)
  PROVE  RelInv'
<1>0. u \in Users
  BY RelationsPair
<1>1. UNCHANGED <<rows, ops>>
  BY DEF App, Boot, Identify, SocketLost, ReadRows, ReadLists, ApplySnapshot, LoadFails
<1>2. history' \in History /\ history'.shut = history.shut
  <2>1. history \in History
    BY DEF RelInv, TypeOK
  <2>2. CASE UNCHANGED history
    BY <2>1, <2>2
  <2>3. ASSUME NEW missed \in SUBSET Users, history.boots < MaxBoots,
               history' = [history EXCEPT !.boots = @ + 1, !.missed = missed]
        PROVE  history' \in History /\ history'.shut = history.shut
    <3>1. history.boots + 1 \in 0..MaxBoots
      BY <2>1, <2>3, RelationsBounds DEF History
    <3> QED
      BY <2>1, <2>3, <3>1 DEF History
  <2>4. CASE Boot(u)
    <3>1. history.missed \ {u} \in SUBSET Users
      BY <2>1 DEF History
    <3> QED
      BY <2>3, <2>4, <3>1 DEF Boot
  <2>5. CASE SocketLost(u)
    <3>1. history.boots + 1 \in 0..MaxBoots
      BY <2>1, <2>5, RelationsBounds DEF History, SocketLost
    <3> QED
      BY <2>1, <2>5, <3>1 DEF History, SocketLost
  <2>6. CASE LoadFails(u)
    BY <2>1, <2>6, <1>0 DEF History, LoadFails
  <2> QED
    BY <2>2, <2>4, <2>5, <2>6 DEF App, Identify, ReadRows, ReadLists, ApplySnapshot
<1>3. Blank \in Shown
  BY DEF Blank, Shown
<1>4. ASSUME loads[u] # None PROVE loads[u] \in Load /\ loads[u].snap \in Shown
  BY <1>0, <1>4 DEF RelInv, TypeOK, Load
<1>5. AppsOK'
  <2>1. CASE Boot(u)
    BY <2>1, <1>0, <1>3, RelationsNone DEF Boot, AppsOK, RelInv, TypeOK, Load
  <2>2. CASE Identify(u) \/ SocketLost(u) \/ LoadFails(u)
    BY <2>2, <1>0 DEF Identify, SocketLost, LoadFails, AppsOK, RelInv, TypeOK
  <2>3. CASE ReadRows(u)
    <3> DEFINE s == [Truth(u) EXCEPT !.blocked = FALSE, !.ignored = FALSE]
    <3>1. s \in Shown
      BY DEF Truth, Shown
    <3>2. loads' = [loads EXCEPT ![u] = [stage |-> "lists", snap |-> s]]
          /\ UNCHANGED <<store, wired>>
      BY <2>3 DEF ReadRows
    <3> HIDE DEF s
    <3> QED
      BY <3>1, <3>2 DEF AppsOK, RelInv, TypeOK, Load
  <2>4. CASE ReadLists(u)
    <3> DEFINE b == u \in blocks
               i == u \in ignores
               s == [loads[u].snap EXCEPT !.blocked = b, !.ignored = i]
    <3>1. b \in BOOLEAN /\ i \in BOOLEAN
      OBVIOUS
    <3>2. loads[u].snap \in Shown
      BY <2>4, <1>4 DEF ReadLists
    <3>3. loads' = [loads EXCEPT ![u] = [stage |-> "apply", snap |-> s]]
          /\ UNCHANGED <<store, wired>>
      BY <2>4 DEF ReadLists
    <3> HIDE DEF b, i
    <3>4. s \in Shown
      BY <3>1, <3>2 DEF Shown
    <3> HIDE DEF s
    <3> QED
      BY <3>3, <3>4 DEF AppsOK, RelInv, TypeOK, Load
  <2>5. CASE ApplySnapshot(u)
    BY <2>5, <1>0, <1>4, RelationsNone DEF ApplySnapshot, AppsOK, RelInv, TypeOK
  <2> QED
    BY <2>1, <2>2, <2>3, <2>4, <2>5 DEF App
<1> QED
  BY <1>1, <1>2, <1>5, AppsStep

LEMMA RelStep == RelInv /\ [Next]_vars => RelInv'
<1> SUFFICES ASSUME RelInv, [Next]_vars PROVE RelInv'
  OBVIOUS
<1>1. ASSUME NEW k \in Ops, Work(k) PROVE RelInv'
  BY <1>1, LookUpStep, CheckStep, TellStep, FindRowStep, WriteStep, FindOwnStep, StripStep,
     StripIgnoreStep, CreateOwnStep, DeleteOwnStep DEF Work
<1>2. CASE UNCHANGED vars
  <2>1. UNCHANGED <<rows, ops, apps, history>>
    BY <1>2 DEF vars
  <2> QED
    BY <2>1, QuietApps, AppsStep DEF RelInv, TypeOK
<1> QED
  BY <1>1, <1>2, StartStep, ThrowStep, AppStep DEF Next

LEMMA ConsentStep == RelInv /\ [Next]_vars => [Consented]_vars
<1> SUFFICES ASSUME RelInv, Next PROVE Consented
  OBVIOUS
<1> DEFINE SamePair == pair' = None \/ pair' = pair
<1>1. ASSUME NEW k \in Ops, CreateRequest(k) PROVE Consented
  BY <1>1 DEF CreateRequest, Consented
<1>2. ASSUME NEW k \in Ops, WriteAccept(k) PROVE Consented
  <2>1. CASE ~ops[k].row
    BY <1>2, <2>1 DEF WriteAccept, Consented
  <2>2. CASE ops[k].row
    <3>1. ops[k] # None /\ ops[k].kind = "accept" /\ ops'[k] = None
      BY <1>2 DEF WriteAccept, At, Done, RelInv, TypeOK
    <3>2. pair # None /\ pair \in Friendship /\ pair.by # Actor(k)
      BY <1>2, <2>2 DEF WriteAccept, RelInv, TypeOK, Accepting
    <3>3. pair' = [pair EXCEPT !.status = "accepted"]
      BY <1>2, <2>2 DEF WriteAccept
    <3>4. pair'.status = "accepted" /\ pair'.by = pair.by
      BY <3>2, <3>3 DEF Friendship
    <3> QED
      BY <3>1, <3>2, <3>4 DEF Consented
  <2> QED
    BY <2>1, <2>2
<1>3. ASSUME NEW k \in Ops, Work(k), ~CreateRequest(k), ~WriteAccept(k) PROVE SamePair
  BY <1>3 DEF Work, LookUp, CheckFriends, CheckPending, TellRequest, FindRow, WriteEnd,
     FindOwn, Strip, StripIgnore, CreateOwn, TellOwn, DeleteOwn, rows
<1>4. ASSUME NEW k \in Ops, Throw(k) PROVE SamePair
  BY <1>4 DEF Throw, rows
<1>5. ASSUME NEW k \in Ops, NEW u \in Users, StartAny(k, u) PROVE SamePair
  BY <1>5 DEF StartAny, Start, rows
<1>6. ASSUME NEW u \in Watching, App(u) PROVE SamePair
  BY <1>6 DEF App, Boot, Identify, SocketLost, ReadRows, ReadLists, ApplySnapshot, LoadFails, rows
<1>7. SamePair => Consented
  BY DEF Consented
<1> QED
  BY <1>1, <1>2, <1>3, <1>4, <1>5, <1>6, <1>7 DEF Next

-----------------------------------------------------------------------------
(* Relations are typed, and what the requests know of the rows is true.    *)
THEOREM RelationsSafe == Spec => []RelInv
  BY RelInit, RelStep, PTL DEF Spec

(* RelationService: friendship takes a request and its acceptance by the   *)
(* other, for any number of requests that overlap.                         *)
THEOREM ConsentHolds == Spec => Consent
  BY RelationsSafe, ConsentStep, PTL DEF Spec, Consent

(* Direct messages add to the relations and change nothing of them.        *)
THEOREM DirectImplementsRelations == DmSpec => Spec
<1>1. DmInit => Init
  BY DEF DmInit
<1>2. [DmNext]_allVars => [Next]_vars
  <2>1. ASSUME NEW k \in Calls, Direct(k) PROVE UNCHANGED vars
    BY <2>1 DEF Direct, CreateDm, WriteMessage, StartCall, ReadParticipants, GateBlocks,
       GatePolicy, GateFriends, SendMessage, ReadMine, ReadTheirs, CreateChannel, JoinFirst,
       JoinSecond, CallFails
  <2>2. ASSUME NEW u \in Users, NEW p \in Policies, ChangePolicy(u, p) PROVE UNCHANGED vars
    BY <2>2 DEF ChangePolicy
  <2> QED
    BY <2>1, <2>2 DEF DmNext, allVars
<1> QED
  BY <1>1, <1>2, PTL DEF DmSpec, Spec

-----------------------------------------------------------------------------
(* The gate.  What is against a call is kept only as long as it lasts, so  *)
(* that it holds now; and a look-up that found nothing has dropped it.     *)
Searching == {"create", "mine", "theirs", "channel"}

(* o is what a call may be while its user meets the bars b.                *)
Sound(o, b) ==
  /\ o \in Call
  /\ o.bars \subseteq b /\ o.bars \cap Users \subseteq o.unread
  /\ o.stage = "parts" => o.unread = Users
  /\ o.stage = "friends" => "closed" \notin o.bars
  /\ o.stage \in Searching /\ o.unread = {} => o.bars \cap {"closed", "strangers"} = {}

Against == [u \in Users |-> Bars(u)]

GateInv ==
  /\ RelInv
  /\ DOMAIN dms \subseteq Nat /\ IsFiniteSet(DOMAIN dms)
  /\ policy \in [Users -> Policies]
  /\ calls \in [Calls -> Call \cup {None}]
  /\ \A k \in Calls : calls[k] # None => Sound(calls[k], Against[Caller(k)])

LEMMA OtherIsUser == ASSUME NEW u \in Users PROVE Other(u) \in Users
  BY RelationsPair DEF Other

LEMMA BarsType ==
  ASSUME RelInv, NEW u \in Users
  PROVE  /\ Against[u] \subseteq Users \cup {"closed", "strangers"}
         /\ Against[u] \cap Users = blocks
         /\ policy[Other(u)] # "closed" => "closed" \notin Against[u]
         /\ policy[Other(u)] # "friends_only" \/ Truth(u).friend => "strangers" \notin Against[u]
  BY DirectUsers DEF Against, Bars, RelInv, TypeOK

LEMMA GateInit == DmInit => GateInv
<1> SUFFICES ASSUME DmInit PROVE GateInv
  OBVIOUS
<1>1. RelInv
  BY RelInit DEF DmInit
<1>2. DOMAIN dms = {}
  BY DEF DmInit
<1>3. IsFiniteSet(DOMAIN dms)
  BY <1>2, FS_EmptySet
<1> QED
  BY <1>1, <1>2, <1>3 DEF DmInit, GateInv, Policies

(* One call moves; rows and policies stay.                                 *)
LEMMA OneCall ==
  ASSUME GateInv, NEW k \in Calls, UNCHANGED <<vars, policy>>,
         DOMAIN dms' \subseteq Nat, IsFiniteSet(DOMAIN dms'),
         NEW o, o = None \/ Sound(o, Against[o.user]), calls' = [calls EXCEPT ![k] = o]
  PROVE  GateInv'
<1>1. RelInv'
  BY RelStep DEF GateInv
<1>2. Against' = Against
  BY DEF vars, rows, Against, Bars, Truth, Other
<1>3. calls' \in [Calls -> Call \cup {None}]
  BY DEF GateInv, Sound
<1>4. ASSUME NEW j \in Calls, calls'[j] # None
      PROVE  Sound(calls'[j], Against[calls'[j].user])
  BY <1>4 DEF GateInv, Caller
<1> QED
  BY <1>1, <1>2, <1>3, <1>4 DEF GateInv, Caller

LEMMA StartCallStep ==
  ASSUME GateInv, NEW k \in Calls, NEW u \in Users, CreateDm(k, u) \/ WriteMessage(k, u)
  PROVE  GateInv'
<1>1. PICK kind \in {"dm", "message"}, stage \in {"parts", "gate"}, seen \in SUBSET Nat :
        StartCall(k, u, kind, stage, seen)
  BY DEF CreateDm, WriteMessage, GateInv
<1> DEFINE o == [kind |-> kind, user |-> u, stage |-> stage, unread |-> Users,
                 seen |-> seen, bars |-> Bars(u)]
<1>2. Sound(o, Against[u]) /\ o.user = u
  BY BarsType, RelationsPair DEF GateInv, Against, Sound, Call, CallStages, Searching
<1>3. calls' = [calls EXCEPT ![k] = o] /\ UNCHANGED <<vars, policy>> /\ UNCHANGED dms
  BY <1>1 DEF StartCall
<1> HIDE DEF o
<1> QED
  BY <1>2, <1>3, OneCall DEF GateInv

LEMMA EndCall ==
  ASSUME GateInv, NEW k \in Calls, Answered(k), UNCHANGED <<vars, policy, dms>>
  PROVE  GateInv'
  BY OneCall DEF Answered, GateInv

(* A call under way is sound, whatever its next stage, if the gate is.     *)
LEMMA GoStep ==
  ASSUME GateInv, NEW k \in Calls, calls[k] # None, NEW stage \in CallStages,
         NEW seen \in SUBSET Nat, UNCHANGED <<vars, policy>>,
         DOMAIN dms' \subseteq Nat, IsFiniteSet(DOMAIN dms'),
         calls' = [calls EXCEPT ![k] = [@ EXCEPT !.stage = stage, !.seen = seen]],
         stage # "parts",
         stage = "friends" => "closed" \notin calls[k].bars,
         stage \in Searching /\ calls[k].unread = {} =>
           calls[k].bars \cap {"closed", "strangers"} = {}
  PROVE  GateInv'
<1> DEFINE o == [calls[k] EXCEPT !.stage = stage, !.seen = seen]
<1>1. Sound(calls[k], Against[calls[k].user])
  BY DEF GateInv, Caller
<1>2. Sound(o, Against[o.user])
  BY <1>1 DEF Sound, Call
<1> HIDE DEF o
<1> QED
  BY <1>2, OneCall DEF o

(* The stages at which the gate decides.                                   *)
LEMMA BlocksStep ==
  ASSUME GateInv, NEW k \in Calls, GateBlocks(k)
  PROVE  GateInv'
<1>1. calls[k] # None /\ calls[k] \in Call /\ calls[k].stage = "gate"
      /\ UNCHANGED <<vars, policy, dms>>
  BY DEF GateBlocks, Waiting, GateInv
<1>2. Sound(calls[k], Against[calls[k].user]) /\ Against[calls[k].user] \cap Users = blocks
  BY <1>1, BarsType DEF GateInv, Caller, Call
<1>3. CASE Answered(k)
  BY <1>1, <1>3, EndCall
<1>4. CASE ~Answered(k)
  <2> DEFINE next(u) == IF calls[k].unread = {u} THEN "policy" ELSE "gate"
             o(u) == [calls[k] EXCEPT !.unread = @ \ {u}, !.stage = next(u)]
  <2>0. PICK u \in calls[k].unread :
          IF u \in blocks THEN Answered(k)
          ELSE calls' = [calls EXCEPT ![k] = o(u)]
    BY DEF GateBlocks
  <2>1. u \notin blocks /\ calls' = [calls EXCEPT ![k] = o(u)]
    BY <2>0, <1>4
  <2>2. next(u) \in {"policy", "gate"}
    OBVIOUS
  <2> HIDE DEF next
  <2>3. o(u) \in Call /\ o(u).stage \in {"policy", "gate"} /\ o(u).bars = calls[k].bars
        /\ o(u).unread = calls[k].unread \ {u} /\ o(u).user = calls[k].user
    BY <1>1, <2>2 DEF Call, CallStages
  <2> HIDE DEF o
  <2>4. Sound(o(u), Against[o(u).user])
    BY <1>2, <2>1, <2>3 DEF Sound, Searching
  <2> QED
    BY <1>1, <2>1, <2>4, OneCall DEF GateInv
<1> QED
  BY <1>3, <1>4

(* A call goes on to a later stage of the gate, or beyond it.              *)
LEMMA NextStage ==
  ASSUME GateInv, NEW k \in Calls, calls[k] # None, NEW stage \in CallStages \ {"parts"},
         Go(k, stage), UNCHANGED <<vars, policy, dms>>,
         stage = "friends" => "closed" \notin calls[k].bars,
         stage \in Searching /\ calls[k].unread = {} =>
           calls[k].bars \cap {"closed", "strangers"} = {}
  PROVE  GateInv'
<1>1. calls[k] \in Call
  BY DEF GateInv
<1>2. [calls[k] EXCEPT !.stage = stage] = [calls[k] EXCEPT !.stage = stage, !.seen = calls[k].seen]
  BY <1>1 DEF Call
<1>3. calls' = [calls EXCEPT ![k] = [@ EXCEPT !.stage = stage, !.seen = calls[k].seen]]
  BY <1>2 DEF Go
<1>4. calls[k].seen \in SUBSET Nat
  BY <1>1 DEF Call
<1> QED
  BY <1>3, <1>4, GoStep DEF GateInv

LEMMA GateStep ==
  ASSUME GateInv, NEW k \in Calls, ReadParticipants(k) \/ GatePolicy(k) \/ GateFriends(k)
  PROVE  GateInv'
<1>1. calls[k] # None /\ UNCHANGED <<vars, policy, dms>>
  BY DEF ReadParticipants, GatePolicy, GateFriends, Waiting
<1> DEFINE u == Caller(k)
<1>2. calls[k] \in Call /\ u \in Users /\ Sound(calls[k], Against[u])
  BY <1>1 DEF GateInv, Caller, Call
<1>3. CASE Answered(k)
  BY <1>1, <1>3, EndCall
<1>4. CASE ReadParticipants(k)
  <2>1. calls[k].unread # {}
    BY <1>2, <1>4, RelationsPair DEF ReadParticipants, Waiting, Sound
  <2>2. Go(k, "gate") \/ Go(k, "create")
    BY <1>4 DEF ReadParticipants
  <2> QED
    BY <1>1, <2>1, <2>2, NextStage DEF CallStages, Searching
<1>5. ASSUME Admitted(k), Against[u] \cap {"strangers"} = {}, "closed" \notin calls[k].bars
      PROVE  GateInv'
  <2>1. calls[k].bars \cap {"closed", "strangers"} = {}
    BY <1>2, <1>5 DEF Sound
  <2>2. Go(k, "mine") \/ Go(k, "create")
    BY <1>5 DEF Admitted
  <2> QED
    BY <1>1, <2>1, <2>2, NextStage DEF CallStages
<1>6. CASE GatePolicy(k) /\ ~Answered(k)
  <2>1. policy[Other(u)] \in {"open", "friends_only"}
    BY <1>2, <1>6, OtherIsUser DEF GatePolicy, GateInv, Policies
  <2>2. "closed" \notin calls[k].bars
    BY <1>2, <2>1, BarsType DEF Sound, GateInv
  <2>3. CASE policy[Other(u)] = "open"
    <3>1. Admitted(k)
      BY <1>6, <2>3 DEF GatePolicy
    <3>2. Against[u] \cap {"strangers"} = {}
      BY <1>2, <2>3, BarsType DEF GateInv
    <3> QED
      BY <1>5, <2>2, <3>1, <3>2
  <2>4. CASE policy[Other(u)] = "friends_only"
    <3>1. Go(k, "friends")
      BY <1>6, <2>4 DEF GatePolicy
    <3> QED
      BY <1>1, <2>2, <3>1, NextStage DEF CallStages, Searching
  <2> QED
    BY <2>1, <2>3, <2>4
<1>7. CASE GateFriends(k) /\ ~Answered(k)
  <2>1. Truth(u).friend /\ Admitted(k) /\ calls[k].stage = "friends"
    BY <1>7 DEF GateFriends, Waiting
  <2>2. "closed" \notin calls[k].bars
    BY <1>2, <2>1 DEF Sound
  <2>3. Against[u] \cap {"strangers"} = {}
    BY <1>2, <2>1, BarsType DEF GateInv
  <2> QED
    BY <1>5, <2>1, <2>2, <2>3
<1> QED
  BY <1>3, <1>4, <1>6, <1>7

(* Beyond the gate: the search for a channel, and its rows.                *)
LEMMA SearchStep ==
  ASSUME GateInv, NEW k \in Calls,
         ReadMine(k) \/ ReadTheirs(k) \/ CreateChannel(k) \/ JoinFirst(k) \/ JoinSecond(k)
         \/ SendMessage(k) \/ CallFails(k)
  PROVE  GateInv'
<1>1. calls[k] # None /\ UNCHANGED <<vars, policy>>
  BY DEF ReadMine, ReadTheirs, CreateChannel, JoinFirst, JoinSecond, SendMessage, CallFails, Waiting
<1>2. calls[k] \in Call /\ Sound(calls[k], Against[Caller(k)])
  BY <1>1 DEF GateInv
<1>3. CASE Answered(k) /\ UNCHANGED dms
  BY <1>1, <1>3, EndCall
<1>4. CASE ReadMine(k) \/ (ReadTheirs(k) /\ ~Answered(k))
  <2>1. calls[k].stage \in Searching /\ UNCHANGED dms
    BY <1>4 DEF ReadMine, ReadTheirs, Waiting, Searching
  <2>2. PICK stage \in {"theirs", "channel"}, seen \in SUBSET Nat :
          calls' = [calls EXCEPT ![k] = [@ EXCEPT !.stage = stage, !.seen = seen]]
    BY <1>4 DEF ReadMine, ReadTheirs, See, GateInv
  <2>3. calls[k].unread = {} => calls[k].bars \cap {"closed", "strangers"} = {}
    BY <1>2, <2>1 DEF Sound
  <2> QED
    BY <1>1, <2>1, <2>2, <2>3, GoStep DEF CallStages, GateInv
<1>5. CASE CreateChannel(k)
  <2> DEFINE c == Cardinality(DOMAIN dms) + 1
  <2>1. c \in Nat
    BY FS_CardinalityType DEF GateInv
  <2>2. DOMAIN dms' = DOMAIN dms \cup {c}
        /\ calls' = [calls EXCEPT ![k] = [@ EXCEPT !.stage = "first", !.seen = {c}]]
    BY <1>5 DEF CreateChannel, See
  <2>3. IsFiniteSet(DOMAIN dms')
    BY <2>2, FS_AddElement DEF GateInv
  <2> HIDE DEF c
  <2>4. DOMAIN dms' \subseteq Nat /\ {c} \in SUBSET Nat
    BY <2>1, <2>2 DEF GateInv
  <2> QED
    BY <1>1, <2>2, <2>3, <2>4, GoStep DEF CallStages, Searching
<1>6. CASE JoinFirst(k) \/ JoinSecond(k)
  <2>1. DOMAIN dms' = DOMAIN dms
    BY <1>6 DEF JoinFirst, JoinSecond, Join
  <2>2. CASE JoinFirst(k)
    <3>1. [calls[k] EXCEPT !.stage = "second"]
            = [calls[k] EXCEPT !.stage = "second", !.seen = calls[k].seen]
      BY <1>2 DEF Call
    <3>2. calls' = [calls EXCEPT ![k] = [@ EXCEPT !.stage = "second", !.seen = calls[k].seen]]
      BY <2>2, <3>1 DEF JoinFirst, Go
    <3>3. calls[k].seen \in SUBSET Nat
      BY <1>2 DEF Call
    <3> QED
      BY <1>1, <2>1, <3>2, <3>3, GoStep DEF CallStages, Searching, GateInv
  <2>3. CASE JoinSecond(k)
    BY <1>1, <2>1, <2>3, OneCall DEF JoinSecond, Answered, GateInv
  <2> QED
    BY <1>6, <2>2, <2>3
<1> QED
  BY <1>3, <1>4, <1>5, <1>6 DEF ReadTheirs, SendMessage, CallFails

(* Relations and policies change: what is against a call may only end.     *)
LEMMA LastStep ==
  ASSUME GateInv, RelInv', policy' \in [Users -> Policies], UNCHANGED dms, Last
  PROVE  GateInv'
<1>1. ASSUME NEW k \in Calls, calls[k] # None
      PROVE  calls'[k] \in Call /\ Sound(calls'[k], Against'[calls'[k].user])
  <2> DEFINE o == [calls[k] EXCEPT !.bars = @ \cap Still[Caller(k)]]
  <2>1. calls'[k] = o
    BY <1>1 DEF Last
  <2>2. calls[k] \in Call /\ Sound(calls[k], Against[Caller(k)]) /\ Caller(k) \in Users
    BY <1>1 DEF GateInv, Call, Caller
  <2>3. Still = Against'
    BY DEF Still, Against
  <2>4. o.bars \subseteq calls[k].bars /\ o.bars \subseteq Still[o.user] /\ o \in Call
        /\ o.stage = calls[k].stage /\ o.unread = calls[k].unread /\ o.user = Caller(k)
    BY <2>2 DEF Call, Caller
  <2> HIDE DEF o
  <2> QED
    BY <2>1, <2>2, <2>3, <2>4 DEF Sound
<1>2. calls' \in [Calls -> Call \cup {None}]
  BY <1>1 DEF Last, GateInv
<1> QED
  BY <1>1, <1>2 DEF GateInv, Caller, Last

LEMMA DmStep == GateInv /\ [DmNext]_allVars => GateInv'
<1> SUFFICES ASSUME GateInv, [DmNext]_allVars PROVE GateInv'
  OBVIOUS
<1>1. ASSUME NEW k \in Calls, Direct(k) PROVE GateInv'
  BY <1>1, StartCallStep, BlocksStep, GateStep, SearchStep DEF Direct
<1>2. ASSUME NEW u \in Users, NEW p \in Policies, ChangePolicy(u, p), Last PROVE GateInv'
  <2>1. RelInv' /\ UNCHANGED dms /\ policy' \in [Users -> Policies]
    BY <1>2, RelStep DEF ChangePolicy, GateInv
  <2> QED
    BY <1>2, <2>1, LastStep
<1>3. CASE Next /\ UNCHANGED <<dms, policy, past>> /\ Last
  <2>1. RelInv'
    BY <1>3, RelStep DEF GateInv
  <2> QED
    BY <1>3, <2>1, LastStep DEF GateInv
<1>4. CASE UNCHANGED allVars
  <2>1. UNCHANGED <<vars, dms, policy, calls>>
    BY <1>4 DEF allVars, dmVars
  <2>2. RelInv' /\ Against' = Against
    BY <2>1, RelStep DEF GateInv, vars, rows, Against, Bars, Truth, Other
  <2> QED
    BY <2>1, <2>2 DEF GateInv, Caller
<1> QED
  BY <1>1, <1>2, <1>3, <1>4 DEF DmNext

-----------------------------------------------------------------------------
(* MessageService.create, createDM and requestFriend: whatever was against *)
(* a call from its start to its write is met by the reads of its gate, for *)
(* any number of calls and requests and any changes meanwhile.             *)
THEOREM GateHolds == DmSpec => []NothingPastTheGate
<1>1. GateInv => NothingPastTheGate
  <2> SUFFICES ASSUME GateInv PROVE NothingPastTheGate
    OBVIOUS
  <2>1. ASSUME NEW k \in Calls, calls[k] # None, calls[k].unread = {}, calls[k].stage \in Searching
        PROVE  calls[k].bars = {}
    BY <2>1 DEF GateInv, Sound, Call
  <2>2. ASSUME NEW k \in Ops, At(k, {"request"}, "create") PROVE history.shut[k] = {}
    BY <2>2 DEF GateInv, RelInv, Asking, At
  <2> QED
    BY <2>1, <2>2 DEF NothingPastTheGate, Searching
<1> QED
  BY <1>1, GateInit, DmStep, PTL DEF DmSpec

(* Friendship takes consent in the company of direct messages too.         *)
THEOREM DirectConsent == DmSpec => Consent
  BY DirectImplementsRelations, ConsentHolds

-----------------------------------------------------------------------------
(* The channel of the pair.  Who makes one is at one of these stages, and  *)
(* holds the channel at the last two.                                      *)
Making == {"mine", "theirs", "channel", "first", "second"}
Holding == {"first", "second"}

(* What a call o may rely on about the channels d ...                      *)
Seeks(o, d) ==
  /\ o.stage \in Making => o.kind = "dm"
  /\ o.stage \in Holding =>
       \E c \in DOMAIN d : o.seen = {c} /\ (o.stage = "second" => o.user \in d[c])

(* ... and if it is the only one that makes a channel.                     *)
SeeksAlone(o, d) ==
  /\ o.stage = "theirs" => o.seen = {c \in DOMAIN d : o.user \in d[c]}
  /\ o.stage \in {"channel"} \cup Holding => \A c \in DOMAIN d : d[c] # Users
  /\ o.stage \in Holding => \A c \in o.seen : d[c] \subseteq {o.user}

Holds(o, c) == o # None /\ o.stage \in Holding /\ o.seen = {c}
PastShape == [rivals : BOOLEAN, broken : BOOLEAN, made : Nat, turns : Nat]

Channels ==
  /\ past \in PastShape
  /\ \E n \in Nat : DOMAIN dms = 1..n
  /\ \A c \in DOMAIN dms : dms[c] \subseteq Users
  /\ \A k \in Calls : calls[k] # None => Seeks(calls[k], dms)
  /\ ~past.broken =>
       \A c \in DOMAIN dms : dms[c] = Users \/ \E k \in Calls : Holds(calls[k], c)

OneAtATime ==
  /\ \A j, k \in Calls : calls[j] # None /\ calls[j].kind = "dm"
                         /\ calls[k] # None /\ calls[k].kind = "dm" => j = k
  /\ \A k \in Calls : calls[k] # None => SeeksAlone(calls[k], dms)
  /\ \A c, d \in DOMAIN dms : dms[c] = Users /\ dms[d] = Users => c = d

ChannelInv == GateInv /\ Channels /\ (~past.rivals => OneAtATime)

LEMMA ChannelInit == DmInit => ChannelInv
<1> SUFFICES ASSUME DmInit PROVE ChannelInv
  OBVIOUS
<1>1. GateInv
  BY GateInit
<1>2. DOMAIN dms = {} /\ DOMAIN dms = 1..0 /\ 0 \in Nat
  BY DEF DmInit
<1>3. past \in PastShape /\ \A k \in Calls : calls[k] = None
  BY DEF DmInit, PastShape
<1>4. Channels
  BY <1>2, <1>3 DEF Channels
<1>5. OneAtATime
  BY <1>2, <1>3 DEF OneAtATime
<1> QED
  BY <1>1, <1>4, <1>5 DEF ChannelInv

(* One call moves, and if it makes a channel, channels and who takes part  *)
(* in them only become more.                                               *)
LEMMA CallMoves ==
  ASSUME ChannelInv, GateInv', NEW k \in Calls, calls[k] # None,
         NEW o, calls' = [calls EXCEPT ![k] = o],
         past' \in PastShape, past'.rivals = past.rivals,
         \E n \in Nat : DOMAIN dms' = 1..n,
         \A c \in DOMAIN dms' : dms'[c] \subseteq Users,
         \/ UNCHANGED dms
         \/ /\ calls[k].kind = "dm"
            /\ \A c \in DOMAIN dms : c \in DOMAIN dms' /\ dms[c] \subseteq dms'[c],
         o # None => o.kind = calls[k].kind /\ Seeks(o, dms'),
         ~past'.broken => ~past.broken /\ \A c \in DOMAIN dms' :
           \/ dms'[c] = Users
           \/ c \in DOMAIN dms /\ dms'[c] = dms[c] /\ ~Holds(calls[k], c)
           \/ Holds(o, c),
         ~past.rivals =>
           /\ o # None => SeeksAlone(o, dms')
           /\ \A c, d \in DOMAIN dms' : dms'[c] = Users /\ dms'[d] = Users => c = d
  PROVE  ChannelInv'
<1>1. calls'[k] = o /\ \A j \in Calls \ {k} : calls'[j] = calls[j]
  BY DEF ChannelInv, GateInv
<1>2. ASSUME NEW j \in Calls, calls'[j] # None PROVE Seeks(calls'[j], dms')
  <2>1. CASE j # k
    <3>1. calls'[j] = calls[j] /\ Seeks(calls[j], dms)
      BY <1>1, <1>2, <2>1 DEF ChannelInv, Channels
    <3>2. Seeks(calls[j], dms')
      BY <3>1 DEF Seeks
    <3> QED
      BY <3>1, <3>2
  <2> QED
    BY <1>1, <1>2, <2>1
<1>3. ASSUME ~past'.broken, NEW c \in DOMAIN dms'
      PROVE  dms'[c] = Users \/ \E j \in Calls : Holds(calls'[j], c)
  <2>1. CASE Holds(o, c)
    BY <1>1, <2>1
  <2>2. CASE c \in DOMAIN dms /\ dms'[c] = dms[c] /\ ~Holds(calls[k], c) /\ dms'[c] # Users
    <3>1. PICK j \in Calls : Holds(calls[j], c)
      BY <1>3, <2>2 DEF ChannelInv, Channels
    <3>2. j # k
      BY <2>2, <3>1
    <3> QED
      BY <1>1, <3>1, <3>2
  <2> QED
    BY <1>3, <2>1, <2>2
<1>4. Channels'
  BY <1>2, <1>3 DEF Channels
<1>5. ASSUME ~past.rivals PROVE OneAtATime'
  <2>1. ASSUME NEW j \in Calls, calls'[j] # None PROVE SeeksAlone(calls'[j], dms')
    <3>1. CASE j # k
      <4>1. /\ calls'[j] = calls[j] /\ SeeksAlone(calls[j], dms) /\ Seeks(calls[j], dms)
            /\ calls[j].kind = "dm" => calls[k].kind # "dm"
        BY <1>1, <1>5, <2>1, <3>1 DEF ChannelInv, Channels, OneAtATime
      <4>2. CASE UNCHANGED dms
        BY <4>1, <4>2
      <4>3. CASE calls[k].kind = "dm"
        BY <4>1, <4>3 DEF Seeks, SeeksAlone, Making, Holding
      <4> QED
        BY <4>2, <4>3
    <3> QED
      BY <1>1, <1>5, <2>1, <3>1
  <2>2. ASSUME NEW i \in Calls, calls'[i] # None, calls'[i].kind = "dm"
        PROVE  calls[i] # None /\ calls[i].kind = "dm"
    BY <1>1, <2>2
  <2>3. \A i, j \in Calls : calls'[i] # None /\ calls'[i].kind = "dm"
                            /\ calls'[j] # None /\ calls'[j].kind = "dm" => i = j
    BY <1>5, <2>2 DEF ChannelInv, OneAtATime
  <2> QED
    BY <1>5, <2>1, <2>3 DEF OneAtATime
<1> QED
  BY <1>4, <1>5 DEF ChannelInv

(* The call does not touch the channels, nor does it hold one it leaves.   *)
LEMMA CallReads ==
  ASSUME ChannelInv, GateInv', NEW k \in Calls, calls[k] # None,
         NEW o, calls' = [calls EXCEPT ![k] = o], UNCHANGED dms,
         past' \in PastShape, past'.rivals = past.rivals,
         ~past'.broken => ~past.broken /\ calls[k].stage \notin Holding,
         o # None => o.kind = calls[k].kind /\ Seeks(o, dms),
         ~past.rivals /\ o # None => SeeksAlone(o, dms)
  PROVE  ChannelInv'
<1>1. /\ \E n \in Nat : DOMAIN dms' = 1..n
      /\ \A c \in DOMAIN dms' : dms'[c] \subseteq Users
  BY DEF ChannelInv, Channels
<1>2. ~past'.broken => ~past.broken /\ \A c \in DOMAIN dms' :
        c \in DOMAIN dms /\ dms'[c] = dms[c] /\ ~Holds(calls[k], c)
  BY DEF Holds
<1>3. ~past.rivals => \A c, d \in DOMAIN dms' : dms'[c] = Users /\ dms'[d] = Users => c = d
  BY DEF ChannelInv, OneAtATime
<1> QED
  BY <1>1, <1>2, <1>3, CallMoves

LEMMA CallStarts ==
  ASSUME ChannelInv, GateInv', NEW k \in Calls, NEW u \in Users, CreateDm(k, u) \/ WriteMessage(k, u)
  PROVE  ChannelInv'
<1>1. PICK kind \in {"dm", "message"}, stage \in {"parts", "gate"}, seen \in SUBSET Nat :
        StartCall(k, u, kind, stage, seen)
  BY DEF CreateDm, WriteMessage, ChannelInv, GateInv
<1> DEFINE o == [kind |-> kind, user |-> u, stage |-> stage, unread |-> Users,
                 seen |-> seen, bars |-> Bars(u)]
           overlap == kind = "dm" /\ \E j \in Calls : calls[j] # None /\ calls[j].kind = "dm"
           rivals == past.rivals \/ overlap
<1>2. calls' = [calls EXCEPT ![k] = o] /\ calls[k] = None /\ UNCHANGED dms
      /\ past' = [past EXCEPT !.made = @ + 1, !.rivals = rivals]
  BY <1>1 DEF StartCall
<1>3. o.kind = kind /\ o.stage \in {"parts", "gate"}
  OBVIOUS
<1> HIDE DEF o
<1>4. calls'[k] = o /\ \A j \in Calls \ {k} : calls'[j] = calls[j]
  BY <1>2 DEF ChannelInv, GateInv
<1>5. rivals \in BOOLEAN
  OBVIOUS
<1>6. ~rivals => ~past.rivals /\ ~overlap
  OBVIOUS
<1> HIDE DEF rivals
<1>7. past' \in PastShape /\ past'.broken = past.broken /\ past'.rivals = rivals
  <2>1. past \in PastShape
    BY DEF ChannelInv, Channels
  <2> DEFINE made == past.made + 1
  <2>2. made \in Nat /\ past' = [past EXCEPT !.made = made, !.rivals = rivals]
    BY <1>2, <2>1 DEF PastShape
  <2> HIDE DEF made
  <2> QED
    BY <1>5, <2>1, <2>2 DEF PastShape
<1>8. Seeks(o, dms) /\ SeeksAlone(o, dms) /\ \A c : ~Holds(o, c) /\ ~Holds(calls[k], c)
  BY <1>2, <1>3 DEF Seeks, SeeksAlone, Holds, Making, Holding
<1>9. Channels'
  <2>1. \A j \in Calls : calls'[j] # None => Seeks(calls'[j], dms)
    BY <1>4, <1>8 DEF ChannelInv, Channels
  <2>2. \A c : (\E j \in Calls : Holds(calls[j], c)) => \E j \in Calls : Holds(calls'[j], c)
    BY <1>4, <1>8
  <2> QED
    BY <1>2, <1>7, <2>1, <2>2 DEF ChannelInv, Channels
<1>10. ASSUME ~rivals PROVE OneAtATime'
  <2>1. OneAtATime /\ (kind = "dm" => \A j \in Calls : calls[j] # None => calls[j].kind # "dm")
    BY <1>6, <1>10 DEF ChannelInv
  <2>2. \A j \in Calls : calls'[j] # None => SeeksAlone(calls'[j], dms)
    BY <1>4, <1>8, <2>1 DEF OneAtATime
  <2>3. \A i, j \in Calls : calls'[i] # None /\ calls'[i].kind = "dm"
                            /\ calls'[j] # None /\ calls'[j].kind = "dm" => i = j
    BY <1>3, <1>4, <2>1 DEF OneAtATime
  <2> QED
    BY <1>2, <2>1, <2>2, <2>3 DEF OneAtATime
<1> QED
  BY <1>7, <1>9, <1>10 DEF ChannelInv

(* The gate, the messages and the failures.                                *)
LEMMA CallAsks ==
  ASSUME ChannelInv, GateInv', NEW k \in Calls,
         \/ ReadParticipants(k) \/ GateBlocks(k) \/ GatePolicy(k) \/ GateFriends(k)
         \/ SendMessage(k) \/ CallFails(k)
  PROVE  ChannelInv'
<1>1. calls[k] # None /\ calls[k] \in Call /\ UNCHANGED dms
  BY DEF ReadParticipants, GateBlocks, GatePolicy, GateFriends, SendMessage, CallFails, Waiting,
         ChannelInv, GateInv
<1>2. CASE CallFails(k)
  <2>1. past' \in PastShape /\ past'.rivals = past.rivals /\ past'.broken
    BY <1>2 DEF CallFails, ChannelInv, Channels, PastShape
  <2>2. calls' = [calls EXCEPT ![k] = None]
    BY <1>2 DEF CallFails, Answered
  <2> QED
    BY <1>1, <2>1, <2>2, CallReads
<1>3. CASE ~CallFails(k)
  <2>1. UNCHANGED past /\ calls[k].stage \notin Making
    BY <1>3 DEF ReadParticipants, GateBlocks, GatePolicy, GateFriends, SendMessage, Waiting, Making
  <2>2. past' \in PastShape /\ past'.rivals = past.rivals
        /\ (~past'.broken => ~past.broken /\ calls[k].stage \notin Holding)
    BY <2>1 DEF ChannelInv, Channels, Making, Holding
  <2>3. CASE Answered(k)
    BY <1>1, <2>2, <2>3, CallReads DEF Answered
  <2>4. ASSUME NEW o, calls' = [calls EXCEPT ![k] = o], o.kind = calls[k].kind,
               o.stage \notin Making \/ (o.stage = "mine" /\ o.kind = "dm")
        PROVE  ChannelInv'
    <3>1. Seeks(o, dms) /\ SeeksAlone(o, dms)
      BY <2>4 DEF Seeks, SeeksAlone, Making, Holding
    <3> QED
      BY <1>1, <2>2, <2>4, <3>1, CallReads
  <2>5. ASSUME NEW stage, Go(k, stage),
               stage \notin Making \/ (stage = "mine" /\ calls[k].kind = "dm")
        PROVE  ChannelInv'
    <3> DEFINE o == [calls[k] EXCEPT !.stage = stage]
    <3>1. calls' = [calls EXCEPT ![k] = o]
      BY <2>5 DEF Go
    <3>2. o.kind = calls[k].kind /\ o.stage = stage
      BY <1>1 DEF Call
    <3> HIDE DEF o
    <3> QED
      BY <2>4, <2>5, <3>1, <3>2
  <2>6. CASE GateBlocks(k) /\ ~Answered(k)
    <3> DEFINE next(u) == IF calls[k].unread = {u} THEN "policy" ELSE "gate"
               rest(u) == calls[k].unread \ {u}
               o(u) == [calls[k] EXCEPT !.unread = rest(u), !.stage = next(u)]
    <3>1. PICK u \in calls[k].unread : calls' = [calls EXCEPT ![k] = o(u)]
      BY <2>6 DEF GateBlocks
    <3>2. next(u) \in {"policy", "gate"}
      OBVIOUS
    <3> HIDE DEF next, rest
    <3>3. o(u).kind = calls[k].kind /\ o(u).stage \notin Making
      BY <1>1, <3>2 DEF Call, Making
    <3> HIDE DEF o
    <3> QED
      BY <2>4, <3>1, <3>3
  <2>7. CASE ~GateBlocks(k) /\ ~Answered(k)
    <3>1. \E stage : Go(k, stage) /\ (stage \notin Making \/ (stage = "mine" /\ calls[k].kind = "dm"))
      <4>1. CASE ReadParticipants(k)
        BY <4>1 DEF ReadParticipants, Making
      <4>2. Admitted(k) => \/ Go(k, "mine") /\ calls[k].kind = "dm"
                           \/ Go(k, "create")
        BY DEF Admitted
      <4>3. CASE GatePolicy(k)
        <5>1. calls[k].user \in Users
          BY <1>1 DEF Call
        <5>2. policy[Other(Caller(k))] \in Policies
          BY <5>1, OtherIsUser DEF Caller, ChannelInv, GateInv
        <5>3. Go(k, "friends") \/ Admitted(k)
          BY <2>7, <4>3, <5>2 DEF GatePolicy, Policies
        <5> QED
          BY <4>2, <5>3 DEF Making
      <4>4. CASE GateFriends(k)
        BY <2>7, <4>2, <4>4 DEF GateFriends, Making
      <4>5. ~SendMessage(k)
        BY <2>7 DEF SendMessage
      <4> QED
        BY <1>3, <2>7, <4>1, <4>3, <4>4, <4>5
    <3> QED
      BY <2>5, <3>1
  <2> QED
    BY <2>3, <2>6, <2>7
<1> QED
  BY <1>2, <1>3

(* Two users are the pair.                                                 *)
LEMMA ThePair ==
  ASSUME NEW u \in Users
  PROVE  Other(u) \in Users /\ Other(u) # u /\ {u, Other(u)} = Users
  BY RelationsPair DEF Other

(* The search and the rows of a new channel.                               *)
LEMMA CallSearches ==
  ASSUME ChannelInv, GateInv', NEW k \in Calls, ReadMine(k) \/ ReadTheirs(k)
  PROVE  ChannelInv'
<1>1. /\ calls[k] # None /\ calls[k] \in Call /\ calls[k].kind = "dm"
      /\ calls[k].stage \in {"mine", "theirs"} /\ UNCHANGED <<dms, past>>
  BY DEF ReadMine, ReadTheirs, Waiting, ChannelInv, GateInv
<1>2. calls[k].stage \notin Holding /\ past' \in PastShape /\ past'.rivals = past.rivals
      /\ (~past'.broken => ~past.broken)
  BY <1>1 DEF Holding, ChannelInv, Channels
<1>3. CASE Answered(k)
  BY <1>1, <1>2, <1>3, CallReads DEF Answered
<1>4. ASSUME NEW stage \in {"theirs", "channel"}, NEW seen, See(k, stage, seen),
             ~past.rivals /\ stage = "theirs" => seen = {c \in DOMAIN dms : Caller(k) \in dms[c]},
             ~past.rivals /\ stage = "channel" => \A c \in DOMAIN dms : dms[c] # Users
      PROVE  ChannelInv'
  <2> DEFINE o == [calls[k] EXCEPT !.stage = stage, !.seen = seen]
  <2>1. calls' = [calls EXCEPT ![k] = o]
    BY <1>4 DEF See
  <2>2. o.kind = calls[k].kind /\ o.stage = stage /\ o.seen = seen /\ o.user = calls[k].user
    BY <1>1 DEF Call
  <2> HIDE DEF o
  <2>3. Seeks(o, dms) /\ (~past.rivals => SeeksAlone(o, dms))
    BY <1>1, <1>4, <2>2 DEF Seeks, SeeksAlone, Holding, Caller
  <2> QED
    BY <1>1, <1>2, <2>1, <2>2, <2>3, CallReads
<1>5. CASE ReadMine(k)
  BY <1>4, <1>5 DEF ReadMine
<1>6. CASE ReadTheirs(k) /\ ~Answered(k)
  <2>1. /\ calls[k].stage = "theirs" /\ See(k, "channel", {})
        /\ ~\E c \in calls[k].seen : Other(Caller(k)) \in dms[c]
    BY <1>6 DEF ReadTheirs, Waiting
  <2>2. ASSUME ~past.rivals, NEW c \in DOMAIN dms, dms[c] = Users PROVE FALSE
    <3>1. Caller(k) \in Users /\ Other(Caller(k)) \in Users
      BY <1>1, OtherIsUser DEF Call, Caller
    <3>2. c \in calls[k].seen
      BY <1>1, <2>1, <2>2, <3>1 DEF ChannelInv, OneAtATime, SeeksAlone, Caller
    <3> QED
      BY <2>1, <2>2, <3>1, <3>2
  <2> QED
    BY <1>4, <2>1, <2>2
<1> QED
  BY <1>3, <1>5, <1>6

LEMMA CallCreates ==
  ASSUME ChannelInv, GateInv', NEW k \in Calls, CreateChannel(k)
  PROVE  ChannelInv'
<1> DEFINE c == Cardinality(DOMAIN dms) + 1
           o == [calls[k] EXCEPT !.stage = "first", !.seen = {c}]
<1>1. /\ calls[k] # None /\ calls[k] \in Call /\ calls[k].kind = "dm"
      /\ calls[k].stage = "channel" /\ UNCHANGED past
      /\ calls' = [calls EXCEPT ![k] = o]
      /\ dms' = [d \in DOMAIN dms \cup {c} |-> IF d = c THEN {} ELSE dms[d]]
  BY DEF CreateChannel, See, Waiting, ChannelInv, GateInv
<1>2. PICK n \in Nat : DOMAIN dms = 1..n
  BY DEF ChannelInv, Channels
<1>3. c = n + 1
  <2>1. Cardinality(1..n) = n
    BY <1>2, FS_Interval
  <2> QED
    BY <1>2, <2>1
<1>4. c \in Nat
  BY <1>2, <1>3
<1> HIDE DEF c
<1>5. /\ o.kind = calls[k].kind /\ o.stage = "first" /\ o.seen = {c} /\ o.user = calls[k].user
      /\ o # None
  <2>1. o \in Call
    BY <1>1, <1>4 DEF Call, CallStages
  <2> QED
    BY <1>1, <2>1, CallsNone DEF Call
<1> HIDE DEF o
<1>6. /\ DOMAIN dms' = 1..(n + 1) /\ n + 1 \in Nat /\ c \in DOMAIN dms' /\ c \notin DOMAIN dms
      /\ dms'[c] = {} /\ \A d \in DOMAIN dms : d \in DOMAIN dms' /\ dms'[d] = dms[d]
      /\ \A d \in DOMAIN dms' : d \in DOMAIN dms \/ d = c
  BY <1>1, <1>2, <1>3
<1>7. Users # {}
  BY RelationsPair
<1>8. Seeks(o, dms')
  BY <1>1, <1>5, <1>6 DEF Seeks, Holding
<1>9. ASSUME ~past.rivals PROVE SeeksAlone(o, dms') /\ \A d \in DOMAIN dms' : dms'[d] # Users
  <2>1. \A d \in DOMAIN dms : dms[d] # Users
    BY <1>1, <1>9 DEF ChannelInv, OneAtATime, SeeksAlone
  <2>2. \A d \in DOMAIN dms' : dms'[d] # Users
    BY <1>6, <1>7, <2>1
  <2> QED
    BY <1>5, <1>6, <2>2 DEF SeeksAlone, Holding
<1>10. \A d \in DOMAIN dms' : dms'[d] \subseteq Users
  BY <1>6 DEF ChannelInv, Channels
<1>11. Holds(o, c) /\ ~\E d : Holds(calls[k], d)
  BY <1>1, <1>5 DEF Holds, Holding
<1>12. ~past'.broken => ~past.broken /\ \A d \in DOMAIN dms' :
           \/ dms'[d] = Users
           \/ d \in DOMAIN dms /\ dms'[d] = dms[d] /\ ~Holds(calls[k], d)
           \/ Holds(o, d)
  BY <1>1, <1>6, <1>11
<1>13. past' \in PastShape /\ past'.rivals = past.rivals
  BY <1>1 DEF ChannelInv, Channels
<1> QED
  BY <1>1, <1>5, <1>6, <1>8, <1>9, <1>10, <1>12, <1>13, CallMoves

LEMMA CallJoins ==
  ASSUME ChannelInv, GateInv', NEW k \in Calls, JoinFirst(k) \/ JoinSecond(k)
  PROVE  ChannelInv'
<1> DEFINE u == IF JoinFirst(k) THEN Caller(k) ELSE Other(Caller(k))
           o == IF JoinFirst(k) THEN [calls[k] EXCEPT !.stage = "second"] ELSE None
<1>1. /\ calls[k] # None /\ calls[k] \in Call /\ calls[k].kind = "dm" /\ UNCHANGED past
      /\ calls[k].stage = IF JoinFirst(k) THEN "first" ELSE "second"
      /\ calls' = [calls EXCEPT ![k] = o] /\ Join(k, u)
  BY DEF JoinFirst, JoinSecond, Waiting, ChannelInv, GateInv, Go, Answered
<1>2. PICK c \in DOMAIN dms : calls[k].seen = {c} /\ (calls[k].stage = "second" => Caller(k) \in dms[c])
  BY <1>1 DEF ChannelInv, Channels, Seeks, Holding, Caller
<1>3. Caller(k) \in Users /\ u \in Users /\ {Caller(k), Other(Caller(k))} = Users
      /\ Other(Caller(k)) # Caller(k)
  BY <1>1, ThePair DEF Call, Caller
<1>4. ASSUME JoinFirst(k)
      PROVE  o.kind = "dm" /\ o.stage = "second" /\ o.seen = {c} /\ o.user = Caller(k) /\ u = Caller(k)
             /\ o # None
  <2>1. o = [calls[k] EXCEPT !.stage = "second"] /\ o \in Call
    BY <1>1, <1>4 DEF Call, CallStages
  <2> QED
    BY <1>1, <1>2, <1>4, <2>1, CallsNone DEF Call, Caller
<1>5. ~JoinFirst(k) => o = None /\ u = Other(Caller(k)) /\ calls[k].stage = "second"
  BY <1>1
<1> HIDE DEF o, u
<1>6. /\ DOMAIN dms' = DOMAIN dms /\ dms'[c] = dms[c] \cup {u}
      /\ \A d \in DOMAIN dms \ {c} : dms'[d] = dms[d]
  BY <1>1, <1>2 DEF Join
<1>7. \A d \in DOMAIN dms' : d \in DOMAIN dms /\ dms'[d] \subseteq Users /\ dms[d] \subseteq dms'[d]
  BY <1>3, <1>6 DEF ChannelInv, Channels
<1>8. o # None => o.kind = "dm" /\ Seeks(o, dms')
  BY <1>2, <1>3, <1>4, <1>5, <1>6 DEF Seeks, Holding
<1>9. ~JoinFirst(k) => dms'[c] = Users
  BY <1>2, <1>3, <1>5, <1>6, <1>7
<1>10. ASSUME ~past.rivals
       PROVE  /\ o # None => SeeksAlone(o, dms')
              /\ \A a, b \in DOMAIN dms' : dms'[a] = Users /\ dms'[b] = Users => a = b
  <2>1. (\A d \in DOMAIN dms : dms[d] # Users) /\ dms[c] \subseteq {Caller(k)}
    BY <1>1, <1>2, <1>10 DEF ChannelInv, OneAtATime, SeeksAlone, Holding, Caller
  <2>2. \A d \in DOMAIN dms' : dms'[d] = Users => d = c
    BY <1>6, <2>1
  <2>3. CASE JoinFirst(k)
    <3>1. dms'[c] \subseteq {Caller(k)} /\ dms'[c] # Users
      BY <1>3, <1>4, <1>6, <2>1, <2>3
    <3>2. \A d \in DOMAIN dms' : dms'[d] # Users
      BY <2>2, <3>1
    <3> QED
      BY <1>4, <2>3, <3>1, <3>2 DEF SeeksAlone, Holding
  <2> QED
    BY <1>5, <2>2, <2>3
<1>11. ~past'.broken => ~past.broken /\ \A d \in DOMAIN dms' :
           \/ dms'[d] = Users
           \/ d \in DOMAIN dms /\ dms'[d] = dms[d] /\ ~Holds(calls[k], d)
           \/ Holds(o, d)
  <2>1. ASSUME NEW d, Holds(calls[k], d) PROVE d = c
    BY <1>2, <2>1 DEF Holds
  <2>2. JoinFirst(k) => Holds(o, c)
    BY <1>4 DEF Holds, Holding
  <2> QED
    BY <1>1, <1>6, <1>7, <1>9, <2>1, <2>2
<1>12. past' \in PastShape /\ past'.rivals = past.rivals /\ \E n \in Nat : DOMAIN dms' = 1..n
  BY <1>1, <1>6 DEF ChannelInv, Channels
<1>13. /\ \A d \in DOMAIN dms' : dms'[d] \subseteq Users
       /\ \A d \in DOMAIN dms : d \in DOMAIN dms' /\ dms[d] \subseteq dms'[d]
       /\ o # None => o.kind = calls[k].kind /\ Seeks(o, dms')
  BY <1>1, <1>6, <1>7, <1>8
<1> QED
  BY <1>1, <1>10, <1>11, <1>12, <1>13, CallMoves

(* What lasts of the bars changes nothing of where a call is.              *)
LEMMA CallLasts ==
  ASSUME ChannelInv, GateInv', Last, UNCHANGED dms, past' \in PastShape,
         past'.rivals = past.rivals, past'.broken = past.broken
  PROVE  ChannelInv'
<1>1. ASSUME NEW k \in Calls, calls[k] # None
      PROVE  /\ calls'[k] # None
             /\ calls'[k].kind = calls[k].kind /\ calls'[k].user = calls[k].user
             /\ calls'[k].stage = calls[k].stage /\ calls'[k].seen = calls[k].seen
  <2> DEFINE bars == calls[k].bars \cap Still[Caller(k)]
             o == [calls[k] EXCEPT !.bars = bars]
  <2>1. calls'[k] = o /\ calls[k] \in Call
    BY <1>1 DEF Last, ChannelInv, GateInv
  <2>2. bars \in SUBSET (Users \cup {"closed", "strangers"})
    BY <2>1 DEF Call
  <2> HIDE DEF bars
  <2>3. /\ o.kind = calls[k].kind /\ o.user = calls[k].user
        /\ o.stage = calls[k].stage /\ o.seen = calls[k].seen /\ o \in Call
    BY <2>1, <2>2 DEF Call
  <2> HIDE DEF o
  <2> QED
    BY <2>1, <2>3, RelationsNone, CallsNone
<1>2. \A k \in Calls : calls[k] = None => calls'[k] = None
  BY DEF Last
<1>3. \A k \in Calls : calls'[k] # None => calls[k] # None /\ Seeks(calls[k], dms)
  BY <1>2 DEF ChannelInv, Channels
<1>4. Channels'
  <2>1. \A k \in Calls : calls'[k] # None => Seeks(calls'[k], dms)
    BY <1>1, <1>3 DEF Seeks
  <2>2. \A c : (\E k \in Calls : Holds(calls[k], c)) => \E k \in Calls : Holds(calls'[k], c)
    BY <1>1 DEF Holds
  <2> QED
    BY <2>1, <2>2 DEF ChannelInv, Channels
<1>5. ASSUME ~past.rivals PROVE OneAtATime'
  <2>1. \A k \in Calls : calls'[k] # None => SeeksAlone(calls'[k], dms)
    BY <1>1, <1>2, <1>5 DEF ChannelInv, OneAtATime, SeeksAlone
  <2>2. \A i, j \in Calls : calls'[i] # None /\ calls'[i].kind = "dm"
                            /\ calls'[j] # None /\ calls'[j].kind = "dm" => i = j
    BY <1>1, <1>2, <1>5 DEF ChannelInv, OneAtATime
  <2> QED
    BY <1>5, <2>1, <2>2 DEF ChannelInv, OneAtATime
<1> QED
  BY <1>4, <1>5 DEF ChannelInv

LEMMA ChannelStep == ChannelInv /\ [DmNext]_allVars => ChannelInv'
<1> SUFFICES ASSUME ChannelInv, [DmNext]_allVars PROVE ChannelInv'
  OBVIOUS
<1>1. GateInv'
  BY DmStep DEF ChannelInv
<1>2. ASSUME NEW k \in Calls, Direct(k) PROVE ChannelInv'
  BY <1>1, <1>2, CallStarts, CallAsks, CallSearches, CallCreates, CallJoins DEF Direct
<1>3. ASSUME NEW u \in Users, NEW p \in Policies, ChangePolicy(u, p), Last PROVE ChannelInv'
  <2> DEFINE turns == past.turns + 1
  <2>1. past \in PastShape /\ turns \in Nat /\ past' = [past EXCEPT !.turns = turns]
    BY <1>3 DEF ChangePolicy, ChannelInv, Channels, PastShape
  <2> HIDE DEF turns
  <2>2. past' \in PastShape /\ past'.rivals = past.rivals /\ past'.broken = past.broken
    BY <2>1 DEF PastShape
  <2>3. UNCHANGED dms
    BY <1>3 DEF ChangePolicy
  <2> QED
    BY <1>1, <1>3, <2>2, <2>3, CallLasts
<1>4. CASE Next /\ UNCHANGED <<dms, policy, past>> /\ Last
  BY <1>1, <1>4, CallLasts DEF ChannelInv, Channels
<1>5. CASE UNCHANGED allVars
  <2>1. UNCHANGED <<dms, calls, past>>
    BY <1>5 DEF allVars, dmVars
  <2> QED
    BY <1>1, <2>1 DEF ChannelInv, Channels, OneAtATime
<1> QED
  BY <1>2, <1>3, <1>4, <1>5 DEF DmNext

(* createDM: the pair shares one channel unless two of its calls overlap,  *)
(* and only a call that failed leaves a channel half made, for any number  *)
(* of calls and messages between changes of relations and policies.        *)
THEOREM OneChannelSafe == DmSpec => []OneChannel
<1>1. ChannelInv => OneChannel
  <2> SUFFICES ASSUME ChannelInv PROVE OneChannel
    OBVIOUS
  <2> DEFINE both == {c \in DOMAIN dms : dms[c] = Users}
  <2>1. ASSUME ~past.rivals PROVE Cardinality(both) <= 1
    <3>1. CASE both = {}
      BY <3>1, FS_EmptySet
    <3>2. CASE both # {}
      <4>1. PICK c : c \in both
        BY <3>2
      <4>2. both = {c}
        BY <2>1, <4>1 DEF ChannelInv, OneAtATime
      <4>3. Cardinality({c}) = 1
        BY FS_Singleton
      <4> QED
        BY <4>2, <4>3
    <3> QED
      BY <3>1, <3>2
  <2>2. ASSUME ~past.broken, NEW c \in DOMAIN dms
        PROVE  dms[c] = Users \/ \E k \in Calls : calls[k] # None /\ c \in calls[k].seen
    BY <2>2 DEF ChannelInv, Channels, Holds
  <2> QED
    BY <2>1, <2>2 DEF OneChannel
<1> QED
  BY <1>1, ChannelInit, ChannelStep, PTL DEF DmSpec

-----------------------------------------------------------------------------
(* Requests that did not overlap on the same rows.  No two of those under  *)
(* way conflict; what each has read or written of the rows, the pair p,    *)
(* the blocks bl and the ignores ig, is still true.                        *)
Lone ==
  \A j, k \in Ops : j # k /\ ops[j] # None /\ ops[k] # None =>
    ~Conflict(ops[j].kind, ops[j].user, ops[k])

Relies(o, p, bl, ig) ==
  /\ o.stage = "write" => o.row
  /\ o.kind = "request" => bl \subseteq o.unread
  /\ o.kind = "request" /\ o.stage = "tell" => p = [status |-> "pending", by |-> o.user]
  /\ o.kind = "block" =>
       /\ o.stage \in {"strip", "unignore", "create"} => o.user \notin bl
       /\ o.stage \in {"unignore", "create", "tell"} => p = None
       /\ o.stage \in {"create", "tell"} => o.user \notin ig
       /\ o.stage = "tell" => o.user \in bl
  /\ o.kind = "ignore" =>
       /\ o.unread \subseteq {o.user} /\ bl \cap {o.user} \subseteq o.unread
       /\ o.stage # "gate" => o.unread = {}
       /\ o.stage = "tell" => o.user \in ig

Serial ==
  /\ Lone
  /\ \A k \in Ops : ops[k] # None => Relies(ops[k], pair, blocks, ignores)
  /\ blocks # {} => pair = None
  /\ blocks \cap ignores = {}

(* What an app shows, s, is what the rows say, up to what a request still  *)
(* has to tell.                                                            *)
Owes(o, kind, stages, us) == o # None /\ o.kind = kind /\ o.stage \in stages /\ o.user \in us
Untold(os, kind, stages, us) == \E k \in Ops : Owes(os[k], kind, stages, us)

Bond(u, s, p) ==
  /\ s.friend <=> p # None /\ p.status = "accepted"
  /\ s.incoming <=> p # None /\ p.status = "pending" /\ p.by # u
  /\ s.outgoing <=> p # None /\ p.status = "pending" /\ p.by = u
NoBond(s) == ~s.friend /\ ~s.incoming /\ ~s.outgoing

BondShown(u, s, p, os) ==
  \/ Bond(u, s, p)
  \/ Untold(os, "block", {"unignore", "create", "tell"}, Users)
  \/ Untold(os, "request", {"tell"}, Users) /\ NoBond(s)
BlockShown(u, s, bl, os) == (s.blocked <=> u \in bl) \/ Untold(os, "block", {"tell"}, {u})
IgnoreShown(u, s, ig, os) ==
  \/ s.ignored <=> u \in ig
  \/ Untold(os, "block", {"create", "tell"}, {u})
  \/ Untold(os, "ignore", {"tell"}, {u})
ListsShown(u, s, bl, ig, os) == BlockShown(u, s, bl, os) /\ IgnoreShown(u, s, ig, os)

Mirrors ==
  \A u \in Users \ history.missed :
    /\ store[u] # None /\ loads[u] = None =>
         BondShown(u, store[u], pair, ops) /\ ListsShown(u, store[u], blocks, ignores, ops)
    /\ loads[u] # None /\ loads[u].stage # "rows" => BondShown(u, loads[u].snap, pair, ops)
    /\ loads[u] # None /\ loads[u].stage = "apply" =>
         ListsShown(u, loads[u].snap, blocks, ignores, ops)

SerialInv ==
  /\ RelInv
  /\ ~history.tangled => Serial
  /\ ~history.tangled /\ ~history.failed => Mirrors

LEMMA SerialInit == Init => SerialInv
<1> SUFFICES ASSUME Init PROVE SerialInv
  OBVIOUS
<1>1. Serial
  BY DEF Init, Serial, Lone
<1>2. Mirrors
  BY DEF Init, Mirrors
<1> QED
  BY <1>1, <1>2, RelInit DEF SerialInv

-----------------------------------------------------------------------------
(* A request changes only rows nobody else under way relies on.            *)
LEMMA Undisturbed ==
  ASSUME NEW q \in Op, NEW o \in Op, ~Conflict(q.kind, q.user, o),
         NEW p, NEW p1, NEW bl, NEW bl1, NEW ig, NEW ig1, Relies(o, p, bl, ig),
         q.kind \notin PairKinds => p1 = p,
         q.kind \notin ListKinds => bl1 = bl /\ ig1 = ig,
         \A u \in Users \ {q.user} : (u \in bl1 <=> u \in bl) /\ (u \in ig1 <=> u \in ig),
         q.kind # "block" => bl1 \subseteq bl
  PROVE  Relies(o, p1, bl1, ig1)
<1>1. o.user \in Users
  BY DEF Op
<1>2. CASE o.kind = "request"
  BY <1>2 DEF Relies, Conflict, PairKinds
<1>3. CASE o.kind = "block"
  <2>1. p1 = p /\ (q.kind \in ListKinds => q.user # o.user)
    BY <1>3 DEF Conflict, PairKinds, ListKinds
  <2>2. (o.user \in bl1 <=> o.user \in bl) /\ (o.user \in ig1 <=> o.user \in ig)
    BY <1>1, <2>1
  <2> QED
    BY <1>3, <2>1, <2>2 DEF Relies
<1>4. CASE o.kind = "ignore"
  <2>1. q.kind \in ListKinds => q.user # o.user
    BY <1>4 DEF Conflict, ListKinds
  <2>2. (o.user \in bl1 <=> o.user \in bl) /\ (o.user \in ig1 <=> o.user \in ig)
    BY <1>1, <2>1
  <2> QED
    BY <1>4, <2>2 DEF Relies
<1> QED
  BY <1>2, <1>3, <1>4 DEF Relies

Touches(k) ==
  /\ ops[k].kind \notin PairKinds => UNCHANGED pair
  /\ ops[k].kind \notin ListKinds => UNCHANGED <<blocks, ignores>>
  /\ \A u \in Users \ {ops[k].user} :
       (u \in blocks' <=> u \in blocks) /\ (u \in ignores' <=> u \in ignores)
  /\ ops[k].kind # "block" => blocks' \subseteq blocks
  /\ blocks' # {} => pair' = None
  /\ blocks' \cap ignores' = {}

LEMMA SerialStep ==
  ASSUME RelInv, Serial, NEW k \in Ops, ops[k] # None, Touches(k),
         NEW o, ops' = [ops EXCEPT ![k] = o],
         o # None => /\ o.kind = ops[k].kind /\ o.user = ops[k].user
                     /\ Relies(o, pair', blocks', ignores')
  PROVE  Serial'
<1>1. ops'[k] = o /\ \A j \in Ops \ {k} : ops'[j] = ops[j]
  BY DEF RelInv, TypeOK
<1>2. ASSUME NEW j \in Ops \ {k}, ops[j] # None
      PROVE  Relies(ops[j], pair', blocks', ignores')
  <2>1. /\ ops[k] \in Op /\ ops[j] \in Op /\ ~Conflict(ops[k].kind, ops[k].user, ops[j])
        /\ Relies(ops[j], pair, blocks, ignores)
    BY <1>2 DEF RelInv, TypeOK, Serial, Lone
  <2>2. /\ ops[k].kind \notin PairKinds => pair' = pair
        /\ ops[k].kind \notin ListKinds => blocks' = blocks /\ ignores' = ignores
    BY DEF Touches
  <2> QED
    BY <2>1, <2>2, Undisturbed DEF Touches
<1>3. Lone'
  <2>1. ASSUME NEW i \in Ops, NEW j \in Ops, i # j, ops'[i] # None, ops'[j] # None
        PROVE  ~Conflict(ops'[i].kind, ops'[i].user, ops'[j])
    <3>1. /\ ops[i] # None /\ ops'[i].kind = ops[i].kind /\ ops'[i].user = ops[i].user
          /\ ops[j] # None /\ ops'[j].kind = ops[j].kind /\ ops'[j].user = ops[j].user
      BY <1>1, <2>1
    <3>2. ~Conflict(ops[i].kind, ops[i].user, ops[j])
      BY <2>1, <3>1 DEF Serial, Lone
    <3> QED
      BY <3>1, <3>2 DEF Conflict
  <2> QED
    BY <2>1 DEF Lone
<1>4. \A j \in Ops : ops'[j] # None => Relies(ops'[j], pair', blocks', ignores')
  BY <1>1, <1>2
<1> QED
  BY <1>3, <1>4 DEF Serial, Touches

(* What the event does to what an app shows.                               *)
After(s, event) == IF event = None THEN s ELSE Heard(s, event)

Tells(told) ==
  \A u \in Users, s \in Shown :
    /\ BondShown(u, s, pair, ops) => BondShown(u, After(s, told[u]), pair', ops')
    /\ ListsShown(u, s, blocks, ignores, ops)
         => ListsShown(u, After(s, told[u]), blocks', ignores', ops')

LEMMA MirrorsStep ==
  ASSUME RelInv, Mirrors, NEW told \in [Users -> Events \cup {None}],
         Emit(told), Remember(told), Tells(told)
  PROVE  Mirrors'
<1>1. ASSUME NEW u \in Users \ history'.missed
      PROVE  /\ u \in Users \ history.missed /\ loads'[u] = loads[u]
             /\ told[u] = None => store'[u] = store[u]
             /\ told[u] # None => /\ loads[u] = None
                                  /\ store[u] # None /\ store'[u] = Heard(store[u], told[u])
  <2>1. history'.missed = history.missed \cup Unheard(told) /\ UNCHANGED loads
    BY DEF Remember, Emit, RelInv, TypeOK, History
  <2>2. u \notin history.missed /\ (told[u] # None => u \in wired /\ loads[u] = None)
    BY <1>1, <2>1 DEF Unheard
  <2>3. store'[u] = IF told[u] = None \/ u \notin wired THEN store[u] ELSE Heard(store[u], told[u])
    BY DEF Emit
  <2> QED
    BY <1>1, <2>1, <2>2, <2>3 DEF RelInv
<1>2. ASSUME NEW u \in Users, NEW s \in Shown, BondShown(u, s, pair, ops)
      PROVE  BondShown(u, After(s, told[u]), pair', ops')
  BY <1>2 DEF Tells
<1>3. ASSUME NEW u \in Users, NEW s \in Shown, ListsShown(u, s, blocks, ignores, ops)
      PROVE  ListsShown(u, After(s, told[u]), blocks', ignores', ops')
  BY <1>3 DEF Tells
<1>4. ASSUME NEW u \in Users \ history'.missed, store'[u] # None, loads'[u] = None
      PROVE  /\ BondShown(u, store'[u], pair', ops')
             /\ ListsShown(u, store'[u], blocks', ignores', ops')
  <2>1. /\ store[u] # None /\ store'[u] = After(store[u], told[u])
        /\ loads[u] = None /\ u \in Users \ history.missed
    BY <1>1, <1>4 DEF After
  <2>2. store[u] \in Shown
    BY <2>1 DEF RelInv, TypeOK
  <2>3. BondShown(u, store[u], pair, ops) /\ ListsShown(u, store[u], blocks, ignores, ops)
    BY <2>1 DEF Mirrors
  <2> QED
    BY <1>2, <1>3, <2>1, <2>2, <2>3
<1>5. ASSUME NEW u \in Users \ history'.missed, loads'[u] # None
      PROVE  /\ loads'[u].stage # "rows" => BondShown(u, loads'[u].snap, pair', ops')
             /\ loads'[u].stage = "apply" => ListsShown(u, loads'[u].snap, blocks', ignores', ops')
  <2>1. /\ told[u] = None /\ loads'[u] = loads[u] /\ loads[u] # None
        /\ u \in Users \ history.missed
    BY <1>1, <1>5
  <2>2. loads[u].snap \in Shown /\ After(loads[u].snap, told[u]) = loads[u].snap
    BY <2>1 DEF RelInv, TypeOK, Load, After
  <2>3. /\ loads[u].stage # "rows" => BondShown(u, loads[u].snap, pair, ops)
        /\ loads[u].stage = "apply" => ListsShown(u, loads[u].snap, blocks, ignores, ops)
    BY <2>1 DEF Mirrors
  <2> QED
    BY <1>2, <1>3, <2>1, <2>2, <2>3
<1> QED
  BY <1>4, <1>5 DEF Mirrors

-----------------------------------------------------------------------------
(* What the events leave of what an app shows.                             *)
LEMMA HeardTells ==
  ASSUME NEW s \in Shown
  PROVE  /\ LET t == Heard(s, "incoming")
            IN t.incoming /\ t.friend = s.friend /\ t.outgoing = s.outgoing
               /\ t.blocked = s.blocked /\ t.ignored = s.ignored
         /\ LET t == Heard(s, "outgoing")
            IN t.outgoing /\ t.friend = s.friend /\ t.incoming = s.incoming
               /\ t.blocked = s.blocked /\ t.ignored = s.ignored
         /\ LET t == Heard(s, "accepted")
            IN t.friend /\ ~t.incoming /\ ~t.outgoing
               /\ t.blocked = s.blocked /\ t.ignored = s.ignored
         /\ LET t == Heard(s, "ended")
            IN NoBond(t) /\ t.blocked = s.blocked /\ t.ignored = s.ignored
         /\ LET t == Heard(s, "blocked") IN NoBond(t) /\ t.blocked /\ ~t.ignored
         /\ LET t == Heard(s, "unblocked")
            IN t.friend = s.friend /\ t.incoming = s.incoming /\ t.outgoing = s.outgoing
               /\ ~t.blocked /\ t.ignored = s.ignored
         /\ LET t == Heard(s, "ignored")
            IN t.friend = s.friend /\ t.incoming = s.incoming /\ t.outgoing = s.outgoing
               /\ t.blocked = s.blocked /\ t.ignored
         /\ LET t == Heard(s, "unignored")
            IN t.friend = s.friend /\ t.incoming = s.incoming /\ t.outgoing = s.outgoing
               /\ t.blocked = s.blocked /\ ~t.ignored
<1>1. LET t == Heard(s, "incoming")
      IN t.incoming /\ t.friend = s.friend /\ t.outgoing = s.outgoing
         /\ t.blocked = s.blocked /\ t.ignored = s.ignored
  BY DEF Heard, Shown
<1>2. LET t == Heard(s, "outgoing")
      IN t.outgoing /\ t.friend = s.friend /\ t.incoming = s.incoming
         /\ t.blocked = s.blocked /\ t.ignored = s.ignored
  BY DEF Heard, Shown
<1>3. LET t == Heard(s, "accepted")
      IN t.friend /\ ~t.incoming /\ ~t.outgoing
         /\ t.blocked = s.blocked /\ t.ignored = s.ignored
  BY DEF Heard, Shown
<1>4. LET t == Heard(s, "ended")
      IN NoBond(t) /\ t.blocked = s.blocked /\ t.ignored = s.ignored
  BY DEF Heard, Shown, Cleared, NoBond
<1>5. LET t == Heard(s, "blocked") IN NoBond(t) /\ t.blocked /\ ~t.ignored
  BY DEF Heard, Shown, Cleared, NoBond
<1>6. LET t == Heard(s, "unblocked")
      IN t.friend = s.friend /\ t.incoming = s.incoming /\ t.outgoing = s.outgoing
         /\ ~t.blocked /\ t.ignored = s.ignored
  BY DEF Heard, Shown
<1>7. LET t == Heard(s, "ignored")
      IN t.friend = s.friend /\ t.incoming = s.incoming /\ t.outgoing = s.outgoing
         /\ t.blocked = s.blocked /\ t.ignored
  BY DEF Heard, Shown
<1>8. LET t == Heard(s, "unignored")
      IN t.friend = s.friend /\ t.incoming = s.incoming /\ t.outgoing = s.outgoing
         /\ t.blocked = s.blocked /\ ~t.ignored
  BY DEF Heard, Shown
<1> QED
  BY <1>1, <1>2, <1>3, <1>4, <1>5, <1>6, <1>7, <1>8

(* One request moves: what is still to be told changes by that one.        *)
Others(k, kind, stages, us) == \E j \in Ops \ {k} : Owes(ops[j], kind, stages, us)

LEMMA UntoldMoves ==
  ASSUME RelInv, NEW k \in Ops, NEW o, ops' = [ops EXCEPT ![k] = o],
         NEW kind, NEW stages, NEW us
  PROVE  /\ Untold(ops, kind, stages, us) <=>
              Owes(ops[k], kind, stages, us) \/ Others(k, kind, stages, us)
         /\ Untold(ops', kind, stages, us) <=>
              Owes(o, kind, stages, us) \/ Others(k, kind, stages, us)
<1>1. ops'[k] = o /\ \A j \in Ops \ {k} : ops'[j] = ops[j]
  BY DEF RelInv, TypeOK
<1> QED
  BY <1>1 DEF Untold, Others

LEMMA NoOther ==
  ASSUME RelInv, Serial, NEW k \in Ops, ops[k] # None, NEW stages
  PROVE  /\ ops[k].kind \in PairKinds =>
              \A us : ~Others(k, "block", stages, us) /\ ~Others(k, "request", stages, us)
         /\ ops[k].kind \in ListKinds =>
              /\ ~Others(k, "block", stages, {ops[k].user})
              /\ ~Others(k, "ignore", stages, {ops[k].user})
<1>1. \A j \in Ops \ {k} : ops[j] # None => ~Conflict(ops[k].kind, ops[k].user, ops[j])
  BY DEF Serial, Lone
<1> QED
  BY <1>1 DEF Others, Owes, Conflict, PairKinds, ListKinds

Owing(o) ==
  \/ o.kind = "block" /\ o.stage \in {"unignore", "create", "tell"}
  \/ o.kind \in {"request", "ignore"} /\ o.stage = "tell"

(* A request that owes nothing moves and leaves the rows as they are.      *)
LEMMA QuietTells ==
  ASSUME RelInv, NEW k \in Ops, ops[k] # None, NEW o, ops' = [ops EXCEPT ![k] = o],
         UNCHANGED rows,
         ~Owing(ops[k])
  PROVE  Tells(ToBoth(None))
<1>1. ASSUME NEW us, NEW kind \in {"block", "request", "ignore"},
             NEW stages \in {{"unignore", "create", "tell"}, {"create", "tell"}, {"tell"}},
             kind # "block" => stages = {"tell"}, Untold(ops, kind, stages, us)
      PROVE  Untold(ops', kind, stages, us)
  <2>1. ~Owes(ops[k], kind, stages, us)
    BY <1>1 DEF Owes, Owing
  <2> QED
    BY <1>1, <2>1, UntoldMoves
<1>2. UNCHANGED <<pair, blocks, ignores>>
  BY DEF rows
<1>3. ASSUME NEW u \in Users, NEW s \in Shown PROVE After(s, ToBoth(None)[u]) = s
  BY DEF After, ToBoth
<1>4. ASSUME NEW u \in Users, NEW s \in Shown, BondShown(u, s, pair, ops)
      PROVE  BondShown(u, s, pair', ops')
  <2>1. /\ Untold(ops, "block", {"unignore", "create", "tell"}, Users)
             => Untold(ops', "block", {"unignore", "create", "tell"}, Users)
        /\ Untold(ops, "request", {"tell"}, Users) => Untold(ops', "request", {"tell"}, Users)
    BY <1>1
  <2>2. Bond(u, s, pair) => Bond(u, s, pair')
    BY <1>2
  <2> QED
    BY <1>4, <2>1, <2>2 DEF BondShown
<1>5. ASSUME NEW u \in Users, NEW s \in Shown, ListsShown(u, s, blocks, ignores, ops)
      PROVE  ListsShown(u, s, blocks', ignores', ops')
  <2>1. /\ Untold(ops, "block", {"tell"}, {u}) => Untold(ops', "block", {"tell"}, {u})
        /\ Untold(ops, "block", {"create", "tell"}, {u})
             => Untold(ops', "block", {"create", "tell"}, {u})
        /\ Untold(ops, "ignore", {"tell"}, {u}) => Untold(ops', "ignore", {"tell"}, {u})
    BY <1>1
  <2> QED
    BY <1>2, <1>5, <2>1 DEF ListsShown, BlockShown, IgnoreShown
<1> QED
  BY <1>3, <1>4, <1>5 DEF Tells

LEMMA SilentEmits ==
  ASSUME RelInv, Silent
  PROVE  /\ Emit(ToBoth(None)) /\ Remember(ToBoth(None))
         /\ ToBoth(None) \in [Users -> Events \cup {None}]
<1>1. UNCHANGED <<store, loads, wired>> /\ Remember(ToBoth(None))
  BY DEF Silent, apps
<1>2. \A u \in Users : ToBoth(None)[u] = None
  BY DEF ToBoth
<1>3. store = [u \in Users |-> store[u]]
  BY DEF RelInv, TypeOK
<1>4. [u \in Users |-> IF ToBoth(None)[u] = None \/ u \notin wired THEN store[u]
                       ELSE Heard(store[u], ToBoth(None)[u])] = store
  BY <1>2, <1>3
<1>5. Emit(ToBoth(None))
  BY <1>1, <1>4 DEF Emit
<1> QED
  BY <1>1, <1>5 DEF ToBoth

(* A request that is not disturbed, and tells what it changes.             *)
Serves == Serial' /\ (Mirrors => Mirrors')

LEMMA Served ==
  ASSUME RelInv, Serial, NEW k \in Ops, ops[k] # None, Touches(k),
         NEW o, ops' = [ops EXCEPT ![k] = o],
         o # None => /\ o.kind = ops[k].kind /\ o.user = ops[k].user
                     /\ Relies(o, pair', blocks', ignores'),
         NEW told \in [Users -> Events \cup {None}], Emit(told), Remember(told), Tells(told)
  PROVE  Serves
  BY SerialStep, MirrorsStep DEF Serves

LEMMA ServedQuietly ==
  ASSUME RelInv, Serial, NEW k \in Ops, ops[k] # None, UNCHANGED rows, Silent,
         NEW o, ops' = [ops EXCEPT ![k] = o],
         o # None => /\ o.kind = ops[k].kind /\ o.user = ops[k].user
                     /\ Relies(o, pair, blocks, ignores),
         ~Owing(ops[k])
  PROVE  Serves
<1>1. UNCHANGED <<pair, blocks, ignores>>
  BY DEF rows
<1>2. Touches(k)
  BY <1>1 DEF Touches, Serial
<1>3. Tells(ToBoth(None))
  BY QuietTells
<1> QED
  BY <1>1, <1>2, <1>3, SilentEmits, Served

-----------------------------------------------------------------------------
(* The requests one by one.                                                *)
LEMMA EndsQuietly ==
  ASSUME RelInv, Serial, NEW k \in Ops, ops[k] # None, UNCHANGED rows, Silent, Done(k),
         ~Owing(ops[k])
  PROVE  Serves
  BY ServedQuietly DEF Done

LEMMA LookUpServes ==
  ASSUME RelInv, Serial, NEW k \in Ops, LookUp(k)
  PROVE  Serves
<1>1. /\ ops[k] # None /\ ops[k] \in Op /\ ops[k].kind \in {"request", "ignore"}
      /\ ops[k].stage = "gate" /\ UNCHANGED rows /\ Silent
      /\ Relies(ops[k], pair, blocks, ignores)
  BY DEF LookUp, At, RelInv, TypeOK, Serial
<1>2. ~Owing(ops[k])
  BY <1>1 DEF Owing
<1>3. PICK u \in ops[k].unread :
        IF u \in blocks THEN Done(k)
        ELSE IF ops[k].unread # {u}
        THEN ops' = [ops EXCEPT ![k].unread = @ \ {u}]
        ELSE ops' = [ops EXCEPT ![k] = [@ EXCEPT !.unread = {},
                       !.stage = IF ops[k].kind = "request" THEN "friends" ELSE "exists"]]
  BY DEF LookUp
<1>4. ASSUME NEW o, ops' = [ops EXCEPT ![k] = o], u \notin blocks,
             o.kind = ops[k].kind, o.user = ops[k].user, o.unread = ops[k].unread \ {u},
             o.stage \in {"gate", "friends", "exists"},
             o.kind = "ignore" => o.stage = "exists" \/ o.unread # {}
      PROVE  Serves
  <2>1. Relies(o, pair, blocks, ignores)
    BY <1>1, <1>3, <1>4 DEF Relies
  <2> QED
    BY <1>1, <1>2, <1>4, <2>1, ServedQuietly
<1>5. CASE u \in blocks
  BY <1>1, <1>2, <1>3, <1>5, EndsQuietly
<1>6. CASE u \notin blocks /\ ops[k].unread # {u}
  <2> DEFINE rest == ops[k].unread \ {u}
             o == [ops[k] EXCEPT !.unread = rest]
  <2>1. ops' = [ops EXCEPT ![k] = o]
    BY <1>3, <1>6
  <2>2. rest # {} /\ rest = ops[k].unread \ {u}
    BY <1>3, <1>6
  <2> HIDE DEF rest
  <2>3. o.kind = ops[k].kind /\ o.user = ops[k].user /\ o.unread = rest /\ o.stage = "gate"
    BY <1>1 DEF Op
  <2> HIDE DEF o
  <2> QED
    BY <1>4, <1>6, <2>1, <2>2, <2>3
<1>7. CASE u \notin blocks /\ ops[k].unread = {u}
  <2> DEFINE next == IF ops[k].kind = "request" THEN "friends" ELSE "exists"
             o == [ops[k] EXCEPT !.unread = {}, !.stage = next]
  <2>1. ops' = [ops EXCEPT ![k] = o]
    BY <1>3, <1>7
  <2>2. next \in {"friends", "exists"} /\ (ops[k].kind = "ignore" => next = "exists")
    OBVIOUS
  <2> HIDE DEF next
  <2>3. o.kind = ops[k].kind /\ o.user = ops[k].user /\ o.unread = {} /\ o.stage = next
    BY <1>1 DEF Op
  <2> HIDE DEF o
  <2> QED
    BY <1>4, <1>7, <2>1, <2>2, <2>3
<1> QED
  BY <1>5, <1>6, <1>7

LEMMA StageFields ==
  ASSUME NEW o \in Op, NEW stage
  PROVE  LET n == [o EXCEPT !.stage = stage]
         IN n.kind = o.kind /\ n.user = o.user /\ n.unread = o.unread /\ n.row = o.row
            /\ n.stage = stage
  BY DEF Op

LEMMA CheckServes ==
  ASSUME RelInv, Serial, NEW k \in Ops, CheckFriends(k) \/ CheckPending(k)
  PROVE  Serves
<1>1. /\ ops[k] # None /\ ops[k] \in Op /\ ops[k].kind = "request"
      /\ ops[k].stage \in {"friends", "find"} /\ UNCHANGED rows /\ Silent
      /\ Relies(ops[k], pair, blocks, ignores)
  BY DEF CheckFriends, CheckPending, At, RelInv, TypeOK, Serial
<1>2. ~Owing(ops[k])
  BY <1>1 DEF Owing
<1>3. CASE Done(k)
  BY <1>1, <1>2, <1>3, EndsQuietly
<1>4. ASSUME NEW stage \in {"find", "create"}, Goto(k, stage) PROVE Serves
  <2> DEFINE o == [ops[k] EXCEPT !.stage = stage]
  <2>1. ops' = [ops EXCEPT ![k] = o]
    BY <1>4 DEF Goto
  <2>2. o.kind = ops[k].kind /\ o.user = ops[k].user /\ o.unread = ops[k].unread /\ o.stage = stage
    BY <1>1, StageFields
  <2> HIDE DEF o
  <2>3. Relies(o, pair, blocks, ignores)
    BY <1>1, <2>2 DEF Relies
  <2> QED
    BY <1>1, <1>2, <2>1, <2>2, <2>3, ServedQuietly
<1> QED
  BY <1>3, <1>4 DEF CheckFriends, CheckPending

LEMMA FindRowServes ==
  ASSUME RelInv, Serial, NEW k \in Ops, FindRow(k)
  PROVE  Serves
<1>1. /\ ops[k] # None /\ ops[k] \in Op /\ ops[k].kind \in {"accept", "decline", "cancel", "remove"}
      /\ UNCHANGED rows /\ Silent
  BY DEF FindRow, At, RelInv, TypeOK
<1>2. ~Owing(ops[k])
  BY <1>1 DEF Owing
<1>3. CASE Done(k)
  BY <1>1, <1>2, <1>3, EndsQuietly
<1>4. CASE ~Done(k)
  <2> DEFINE o == [ops[k] EXCEPT !.stage = "write", !.row = TRUE]
  <2>1. ops' = [ops EXCEPT ![k] = o]
    BY <1>4 DEF FindRow
  <2>2. o.kind = ops[k].kind /\ o.user = ops[k].user /\ o.row
    BY <1>1 DEF Op
  <2> HIDE DEF o
  <2>3. Relies(o, pair, blocks, ignores)
    BY <1>1, <2>2 DEF Relies
  <2> QED
    BY <1>1, <1>2, <2>1, <2>2, <2>3, ServedQuietly
<1> QED
  BY <1>3, <1>4

LEMMA FindOwnServes ==
  ASSUME RelInv, Serial, NEW k \in Ops, FindOwn(k)
  PROVE  Serves
<1> DEFINE there == Actor(k) \in (IF ops[k].kind \in {"block", "unblock"} THEN blocks ELSE ignores)
           next == CASE ops[k].kind = "block" -> "strip"
                     [] ops[k].kind = "ignore" -> "create"
                     [] OTHER -> "write"
           o == [ops[k] EXCEPT !.row = there, !.stage = next]
<1>1. /\ ops[k] # None /\ ops[k] \in Op /\ ops[k].kind \in ListKinds /\ ops[k].stage = "exists"
      /\ UNCHANGED rows /\ Silent /\ Relies(ops[k], pair, blocks, ignores)
  BY DEF FindOwn, At, RelInv, TypeOK, Serial
<1>2. ~Owing(ops[k])
  BY <1>1 DEF Owing
<1>3. CASE Done(k)
  BY <1>1, <1>2, <1>3, EndsQuietly
<1>4. CASE ~Done(k)
  <2>1. ops' = [ops EXCEPT ![k] = o] /\ (there # (ops[k].kind \in {"block", "ignore"}))
    BY <1>4 DEF FindOwn
  <2>2. /\ ops[k].kind = "block" => next = "strip" /\ Actor(k) \notin blocks
        /\ ops[k].kind = "ignore" => next = "create"
        /\ ops[k].kind \in {"unblock", "unignore"} => next = "write" /\ there
    BY <1>1, <2>1 DEF ListKinds
  <2> HIDE DEF there, next
  <2>3. o.kind = ops[k].kind /\ o.user = ops[k].user /\ o.unread = ops[k].unread
        /\ o.row = there /\ o.stage = next
    BY <1>1 DEF Op
  <2> HIDE DEF o
  <2>4. Relies(o, pair, blocks, ignores)
    BY <1>1, <2>2, <2>3 DEF Relies, Actor, ListKinds
  <2> QED
    BY <1>1, <1>2, <2>1, <2>3, <2>4, ServedQuietly
<1> QED
  BY <1>3, <1>4

(* What is shown of the pair, or of the lists of one user, stays.          *)
LEMMA BondKept ==
  ASSUME RelInv, NEW k \in Ops, NEW o, ops' = [ops EXCEPT ![k] = o], UNCHANGED pair,
         ops[k].kind \notin {"block", "request"},
         NEW u, NEW s, NEW t, t.friend = s.friend, t.incoming = s.incoming,
         t.outgoing = s.outgoing, BondShown(u, s, pair, ops)
  PROVE  BondShown(u, t, pair', ops')
<1>1. \A kind \in {"block", "request"} : \A stages, us :
        Untold(ops, kind, stages, us) => Untold(ops', kind, stages, us)
  <2>1. ASSUME NEW kind \in {"block", "request"}, NEW stages, NEW us, Untold(ops, kind, stages, us)
        PROVE  Untold(ops', kind, stages, us)
    <3>1. ~Owes(ops[k], kind, stages, us)
      BY DEF Owes
    <3> QED
      BY <2>1, <3>1, UntoldMoves
  <2> QED
    BY <2>1
<1>2. Untold(ops, "block", {"unignore", "create", "tell"}, Users)
        => Untold(ops', "block", {"unignore", "create", "tell"}, Users)
  BY <1>1
<1>3. Untold(ops, "request", {"tell"}, Users) => Untold(ops', "request", {"tell"}, Users)
  BY <1>1
<1>4. (Bond(u, s, pair) => Bond(u, t, pair')) /\ (NoBond(s) => NoBond(t))
  BY DEF Bond, NoBond
<1> QED
  BY <1>2, <1>3, <1>4 DEF BondShown

LEMMA BlockKept ==
  ASSUME RelInv, NEW k \in Ops, NEW o, ops' = [ops EXCEPT ![k] = o], NEW u,
         ~Owes(ops[k], "block", {"tell"}, {u}), u \in blocks' <=> u \in blocks,
         NEW s, NEW t, t.blocked = s.blocked, BlockShown(u, s, blocks, ops)
  PROVE  BlockShown(u, t, blocks', ops')
  BY UntoldMoves DEF BlockShown

LEMMA IgnoreKept ==
  ASSUME RelInv, NEW k \in Ops, NEW o, ops' = [ops EXCEPT ![k] = o], NEW u,
         ~Owes(ops[k], "block", {"create", "tell"}, {u}), ~Owes(ops[k], "ignore", {"tell"}, {u}),
         u \in ignores' <=> u \in ignores,
         NEW s, NEW t, t.ignored = s.ignored, IgnoreShown(u, s, ignores, ops)
  PROVE  IgnoreShown(u, t, ignores', ops')
  BY UntoldMoves DEF IgnoreShown

LEMMA ListsKept ==
  ASSUME RelInv, NEW k \in Ops, ops[k] # None, NEW o, ops' = [ops EXCEPT ![k] = o],
         UNCHANGED <<blocks, ignores>>,
         NEW u, ops[k].user # u \/ ops[k].stage \notin {"create", "tell"}
                \/ ops[k].kind \notin {"block", "ignore"},
         NEW s, NEW t, t.blocked = s.blocked, t.ignored = s.ignored,
         ListsShown(u, s, blocks, ignores, ops)
  PROVE  ListsShown(u, t, blocks', ignores', ops')
<1>1. /\ ~Owes(ops[k], "block", {"tell"}, {u}) /\ ~Owes(ops[k], "block", {"create", "tell"}, {u})
      /\ ~Owes(ops[k], "ignore", {"tell"}, {u})
  BY DEF Owes
<1>2. BlockShown(u, t, blocks', ops')
  BY <1>1, BlockKept DEF ListsShown
<1>3. IgnoreShown(u, t, ignores', ops')
  BY <1>1, IgnoreKept DEF ListsShown
<1> QED
  BY <1>2, <1>3 DEF ListsShown

(* Nobody else works on the row of the pair.                               *)
LEMMA BondTold ==
  ASSUME RelInv, Serial, NEW k \in Ops, ops[k] # None, ops[k].kind \in PairKinds,
         NEW u, NEW s, BondShown(u, s, pair, ops)
  PROVE  \/ Bond(u, s, pair)
         \/ ops[k].kind = "block" /\ ops[k].stage \in {"unignore", "create", "tell"}
         \/ ops[k].kind = "request" /\ ops[k].stage = "tell" /\ NoBond(s)
<1>1. \A stages, us : ~Others(k, "block", stages, us) /\ ~Others(k, "request", stages, us)
  BY NoOther
<1>2. \A stages, us :
        /\ Untold(ops, "block", stages, us) => Owes(ops[k], "block", stages, us)
        /\ Untold(ops, "request", stages, us) => Owes(ops[k], "request", stages, us)
  <2>1. ASSUME NEW stages, NEW us, NEW kind \in {"block", "request"}, Untold(ops, kind, stages, us)
        PROVE  Owes(ops[k], kind, stages, us)
    <3>1. PICK j \in Ops : Owes(ops[j], kind, stages, us)
      BY <2>1 DEF Untold
    <3>2. j = k
      BY <1>1, <3>1 DEF Others
    <3> QED
      BY <3>1, <3>2
  <2> QED
    BY <2>1
<1> QED
  BY <1>2 DEF BondShown, Owes

LEMMA RequestServes ==
  ASSUME RelInv, Serial, NEW k \in Ops, CreateRequest(k)
  PROVE  Serves
<1>1. /\ ops[k] # None /\ ops[k] \in Op /\ ops[k].kind = "request" /\ ops[k].stage = "create"
      /\ UNCHANGED <<blocks, ignores>> /\ Silent /\ Relies(ops[k], pair, blocks, ignores)
  BY DEF CreateRequest, At, RelInv, TypeOK, Serial
<1>2. blocks = {} /\ ops[k].user \in Users
  BY <1>1 DEF RelInv, Asking, Relies, Op
<1>3. CASE pair # None
  <2>1. ~Owing(ops[k]) /\ Done(k) /\ UNCHANGED rows
    BY <1>1, <1>3 DEF Owing, CreateRequest, rows
  <2> QED
    BY <1>1, <2>1, EndsQuietly
<1>4. CASE pair = None
  <2> DEFINE o == [ops[k] EXCEPT !.stage = "tell"]
  <2>1. ops' = [ops EXCEPT ![k] = o] /\ pair' = [status |-> "pending", by |-> ops[k].user]
    BY <1>4 DEF CreateRequest, Goto, Actor
  <2>2. /\ o.kind = "request" /\ o.user = ops[k].user /\ o.unread = ops[k].unread
        /\ o.stage = "tell"
    BY <1>1, StageFields
  <2>3. o # None
    <3>1. o \in Op
      BY <1>1 DEF Op, Stages
    <3> QED
      BY <3>1, RelationsNone
  <2> HIDE DEF o
  <2>4. Relies(o, pair', blocks', ignores')
    BY <1>1, <2>1, <2>2 DEF Relies
  <2>5. Touches(k)
    BY <1>1, <1>2, <2>1 DEF Touches, PairKinds, ListKinds
  <2>6. ASSUME NEW u \in Users, NEW s \in Shown PROVE After(s, ToBoth(None)[u]) = s
    BY DEF After, ToBoth
  <2>7. ASSUME NEW u \in Users, NEW s \in Shown, BondShown(u, s, pair, ops)
        PROVE  BondShown(u, s, pair', ops')
    <3>1. Bond(u, s, pair)
      BY <1>1, <2>7, BondTold DEF PairKinds
    <3>2. NoBond(s)
      BY <1>4, <3>1 DEF Bond, NoBond
    <3>3. Owes(o, "request", {"tell"}, Users)
      BY <1>2, <2>2, <2>3 DEF Owes
    <3> QED
      BY <2>1, <3>2, <3>3, UntoldMoves DEF BondShown
  <2>8. ASSUME NEW u \in Users, NEW s \in Shown, ListsShown(u, s, blocks, ignores, ops)
        PROVE  ListsShown(u, s, blocks', ignores', ops')
    BY <1>1, <2>1, <2>8, ListsKept
  <2>9. Tells(ToBoth(None))
    BY <2>6, <2>7, <2>8 DEF Tells
  <2> QED
    BY <1>1, <2>1, <2>2, <2>4, <2>5, <2>9, SilentEmits, Served
<1> QED
  BY <1>3, <1>4

LEMMA TellRequestServes ==
  ASSUME RelInv, Serial, NEW k \in Ops, TellRequest(k)
  PROVE  Serves
<1> DEFINE told == [u \in Users |-> IF u = Actor(k) THEN "outgoing" ELSE "incoming"]
<1>1. /\ ops[k] # None /\ ops[k] \in Op /\ ops[k].kind = "request" /\ ops[k].stage = "tell"
      /\ UNCHANGED <<pair, blocks, ignores>> /\ Relies(ops[k], pair, blocks, ignores)
      /\ ops' = [ops EXCEPT ![k] = None] /\ Emit(told) /\ Remember(told)
  BY DEF TellRequest, At, RelInv, TypeOK, Serial, Done, rows
<1>2. told \in [Users -> Events \cup {None}]
  BY DEF Events
<1>3. \A u \in Users : told[u] = IF u = ops[k].user THEN "outgoing" ELSE "incoming"
  BY DEF Actor
<1> HIDE DEF told
<1>4. pair = [status |-> "pending", by |-> ops[k].user] /\ pair # None
  <2>1. pair = [status |-> "pending", by |-> ops[k].user] /\ ops[k].user \in Users
    BY <1>1 DEF Relies, Op
  <2>2. [status |-> "pending", by |-> ops[k].user] \in Friendship
    BY <2>1 DEF Friendship
  <2> QED
    BY <2>1, <2>2, RelationsNone
<1>5. Touches(k)
  BY <1>1 DEF Touches, Serial
<1>6. ASSUME NEW u \in Users, NEW s \in Shown
      PROVE  /\ After(s, told[u]).blocked = s.blocked /\ After(s, told[u]).ignored = s.ignored
             /\ After(s, told[u]).friend = s.friend
             /\ IF u = ops[k].user
                THEN After(s, told[u]).outgoing /\ After(s, told[u]).incoming = s.incoming
                ELSE After(s, told[u]).incoming /\ After(s, told[u]).outgoing = s.outgoing
  <2>1. CASE u = ops[k].user
    <3>1. told[u] = "outgoing" /\ After(s, told[u]) = Heard(s, "outgoing")
      BY <1>3, <2>1, RelationsEvents DEF After, Events
    <3> QED
      BY <2>1, <3>1, HeardTells
  <2>2. CASE u # ops[k].user
    <3>1. told[u] = "incoming" /\ After(s, told[u]) = Heard(s, "incoming")
      BY <1>3, <2>2, RelationsEvents DEF After, Events
    <3> QED
      BY <2>2, <3>1, HeardTells
  <2> QED
    BY <2>1, <2>2
<1>7. ASSUME NEW u \in Users, NEW s \in Shown, BondShown(u, s, pair, ops)
      PROVE  BondShown(u, After(s, told[u]), pair', ops')
  <2>1. Bond(u, s, pair) \/ NoBond(s)
    BY <1>1, <1>7, BondTold DEF PairKinds
  <2>2. ~s.friend /\ (u = ops[k].user => ~s.incoming) /\ (u # ops[k].user => ~s.outgoing)
    BY <1>4, <2>1 DEF Bond, NoBond
  <2>3. Bond(u, After(s, told[u]), pair)
    BY <1>4, <1>6, <2>2 DEF Bond
  <2> QED
    BY <1>1, <2>3 DEF BondShown
<1>8. ASSUME NEW u \in Users, NEW s \in Shown, ListsShown(u, s, blocks, ignores, ops)
      PROVE  ListsShown(u, After(s, told[u]), blocks', ignores', ops')
  BY <1>1, <1>6, <1>8, ListsKept
<1>9. Tells(told)
  BY <1>7, <1>8 DEF Tells
<1> QED
  BY <1>1, <1>2, <1>5, <1>9, Served

(* The row of the pair goes, or is accepted.                               *)
LEMMA GoneAlone ==
  ASSUME RelInv, Serial, NEW k \in Ops, ops[k] # None, ops[k].kind \in PairKinds,
         NEW rest, Gone(k, PairKinds, rest)
  PROVE  ops' = [ops EXCEPT ![k] = rest]
<1>1. ASSUME NEW j \in Ops, j # k, ops[j] # None PROVE ops[j].kind \notin PairKinds
  BY <1>1 DEF Serial, Lone, Conflict
<1>2. \A j \in Ops : ops'[j] = IF j = k THEN rest ELSE ops[j]
  BY <1>1 DEF Gone
<1> QED
  BY <1>2 DEF Gone, RelInv, TypeOK

LEMMA ToBothTells ==
  ASSUME RelInv, NEW k \in Ops, ops[k] # None, NEW o, ops' = [ops EXCEPT ![k] = o],
         UNCHANGED <<blocks, ignores>>, ops[k].kind \notin {"block", "ignore"},
         NEW event \in Events, event \in {"accepted", "ended"},
         \A u, s : (IF event = "accepted" THEN s.friend /\ ~s.incoming /\ ~s.outgoing ELSE NoBond(s))
                     => Bond(u, s, pair')
  PROVE  Tells(ToBoth(event)) /\ ToBoth(event) \in [Users -> Events \cup {None}]
<1>1. ASSUME NEW u \in Users, NEW s \in Shown
      PROVE  /\ After(s, ToBoth(event)[u]).blocked = s.blocked
             /\ After(s, ToBoth(event)[u]).ignored = s.ignored
             /\ Bond(u, After(s, ToBoth(event)[u]), pair')
  <2>1. After(s, ToBoth(event)[u]) = Heard(s, event)
    BY RelationsEvents DEF After, ToBoth
  <2>2. CASE event = "accepted"
    BY <2>1, <2>2, HeardTells
  <2>3. CASE event = "ended"
    BY <2>1, <2>3, HeardTells
  <2> QED
    BY <2>2, <2>3
<1>2. ASSUME NEW u \in Users, NEW s \in Shown, ListsShown(u, s, blocks, ignores, ops)
      PROVE  ListsShown(u, After(s, ToBoth(event)[u]), blocks', ignores', ops')
  BY <1>1, <1>2, ListsKept
<1>3. Tells(ToBoth(event))
  BY <1>1, <1>2 DEF Tells, BondShown
<1> QED
  BY <1>3 DEF ToBoth

LEMMA AcceptServes ==
  ASSUME RelInv, Serial, NEW k \in Ops, WriteAccept(k)
  PROVE  Serves
<1>1. /\ ops[k] # None /\ ops[k].kind = "accept" /\ ops[k].stage = "write"
      /\ UNCHANGED <<blocks, ignores>> /\ ops' = [ops EXCEPT ![k] = None]
      /\ Relies(ops[k], pair, blocks, ignores)
      /\ Emit(ToBoth("accepted")) /\ Remember(ToBoth("accepted"))
  BY DEF WriteAccept, At, Serial, Done
<1>2. ops[k].row /\ pair # None /\ pair \in Friendship
  BY <1>1 DEF Relies, RelInv, Accepting, At, TypeOK
<1>3. pair' = [pair EXCEPT !.status = "accepted"]
  BY <1>2 DEF WriteAccept
<1>4. pair' # None /\ pair'.status = "accepted"
  <2>1. pair' \in Friendship
    BY <1>2, <1>3 DEF Friendship
  <2> QED
    BY <1>2, <1>3, <2>1, RelationsNone DEF Friendship
<1>5. Touches(k)
  BY <1>1, <1>2 DEF Touches, PairKinds, ListKinds, Serial
<1>6. \A u, s : s.friend /\ ~s.incoming /\ ~s.outgoing => Bond(u, s, pair')
  BY <1>4 DEF Bond
<1>7. "accepted" \in Events
  BY DEF Events
<1>8. Tells(ToBoth("accepted")) /\ ToBoth("accepted") \in [Users -> Events \cup {None}]
  BY <1>1, <1>6, <1>7, ToBothTells
<1> QED
  BY <1>1, <1>5, <1>8, Served

LEMMA EndServes ==
  ASSUME RelInv, Serial, NEW k \in Ops, WriteEnd(k)
  PROVE  Serves
<1>1. /\ ops[k] # None /\ ops[k].kind \in {"decline", "cancel", "remove"} /\ ops[k].stage = "write"
      /\ UNCHANGED <<blocks, ignores>> /\ Relies(ops[k], pair, blocks, ignores)
      /\ Emit(ToBoth("ended")) /\ Remember(ToBoth("ended"))
  BY DEF WriteEnd, At, Serial
<1>2. pair' = None /\ Gone(k, PairKinds, None)
  BY <1>1 DEF Relies, WriteEnd
<1>3. ops' = [ops EXCEPT ![k] = None]
  BY <1>1, <1>2, GoneAlone DEF PairKinds
<1>4. Touches(k)
  BY <1>1, <1>2 DEF Touches, PairKinds, ListKinds, Serial
<1>5. \A u, s : NoBond(s) => Bond(u, s, pair')
  BY <1>2 DEF Bond, NoBond
<1>6. "ended" \in Events
  BY DEF Events
<1>7. Tells(ToBoth("ended")) /\ ToBoth("ended") \in [Users -> Events \cup {None}]
  BY <1>1, <1>3, <1>5, <1>6, ToBothTells
<1> QED
  BY <1>1, <1>3, <1>4, <1>7, Served

(* A block between its first write and its notifications, of which the     *)
(* apps know nothing of the pair.                                          *)
LEMMA BlockTells ==
  ASSUME RelInv, NEW k \in Ops, ops[k] # None, NEW o, ops' = [ops EXCEPT ![k] = o],
         o # None, o.kind = "block", o.stage \in {"unignore", "create", "tell"},
         o.user = ops[k].user, ops[k].user \in Users,
         \A u \in Users \ {ops[k].user} :
           (u \in blocks' <=> u \in blocks) /\ (u \in ignores' <=> u \in ignores),
         (ops[k].user \in blocks' <=> ops[k].user \in blocks) \/ o.stage = "tell",
         (ops[k].user \in ignores' <=> ops[k].user \in ignores) \/ o.stage \in {"create", "tell"},
         ops[k].kind = "block", ops[k].stage \in {"strip", "unignore", "create"},
         ops[k].stage = "create" => o.stage = "tell"
  PROVE  Tells(ToBoth(None))
<1>1. ASSUME NEW u \in Users, NEW s \in Shown PROVE After(s, ToBoth(None)[u]) = s
  BY DEF After, ToBoth
<1>2. ASSUME NEW u \in Users, NEW s \in Shown PROVE BondShown(u, s, pair', ops')
  <2>1. Owes(o, "block", {"unignore", "create", "tell"}, Users)
    BY DEF Owes
  <2> QED
    BY <2>1, UntoldMoves DEF BondShown
<1>3. ASSUME NEW u \in Users, NEW s \in Shown, ListsShown(u, s, blocks, ignores, ops)
      PROVE  ListsShown(u, s, blocks', ignores', ops')
  <2>1. BlockShown(u, s, blocks', ops')
    <3>1. CASE u = o.user /\ o.stage = "tell"
      <4>1. Owes(o, "block", {"tell"}, {u})
        BY <3>1 DEF Owes
      <4> QED
        BY <4>1, UntoldMoves DEF BlockShown
    <3>2. CASE ~(u = o.user /\ o.stage = "tell")
      <4>1. (u \in blocks' <=> u \in blocks) /\ ~Owes(ops[k], "block", {"tell"}, {u})
        BY <3>2 DEF Owes
      <4> QED
        BY <1>3, <4>1, BlockKept DEF ListsShown
    <3> QED
      BY <3>1, <3>2
  <2>2. IgnoreShown(u, s, ignores', ops')
    <3>1. CASE u = o.user /\ o.stage \in {"create", "tell"}
      <4>1. Owes(o, "block", {"create", "tell"}, {u})
        BY <3>1 DEF Owes
      <4> QED
        BY <4>1, UntoldMoves DEF IgnoreShown
    <3>2. CASE ~(u = o.user /\ o.stage \in {"create", "tell"})
      <4>1. /\ u \in ignores' <=> u \in ignores
            /\ ~Owes(ops[k], "block", {"create", "tell"}, {u}) /\ ~Owes(ops[k], "ignore", {"tell"}, {u})
        BY <3>2 DEF Owes
      <4> QED
        BY <1>3, <4>1, IgnoreKept DEF ListsShown
    <3> QED
      BY <3>1, <3>2
  <2> QED
    BY <2>1, <2>2 DEF ListsShown
<1> QED
  BY <1>1, <1>2, <1>3 DEF Tells

LEMMA StripServes ==
  ASSUME RelInv, Serial, NEW k \in Ops, Strip(k)
  PROVE  Serves
<1> DEFINE o == [ops[k] EXCEPT !.stage = "unignore"]
<1>1. /\ ops[k] # None /\ ops[k] \in Op /\ ops[k].kind = "block" /\ ops[k].stage = "strip"
      /\ UNCHANGED <<blocks, ignores>> /\ Silent /\ Relies(ops[k], pair, blocks, ignores)
      /\ pair' = None /\ Gone(k, PairKinds, o)
  BY DEF Strip, At, RelInv, TypeOK, Serial
<1>2. ops' = [ops EXCEPT ![k] = o]
  BY <1>1, GoneAlone DEF PairKinds
<1>3. o.kind = "block" /\ o.user = ops[k].user /\ o.stage = "unignore" /\ ops[k].user \in Users
  BY <1>1, StageFields DEF Op
<1>4. o # None
  <2>1. o \in Op
    BY <1>1 DEF Op, Stages
  <2> QED
    BY <2>1, RelationsNone
<1> HIDE DEF o
<1>5. Relies(o, pair', blocks', ignores')
  BY <1>1, <1>3 DEF Relies
<1>6. Touches(k)
  BY <1>1 DEF Touches, PairKinds, ListKinds, Serial
<1>7. Tells(ToBoth(None))
  BY <1>1, <1>2, <1>3, <1>4, BlockTells
<1> QED
  BY <1>1, <1>2, <1>3, <1>5, <1>6, <1>7, SilentEmits, Served

LEMMA StripIgnoreServes ==
  ASSUME RelInv, Serial, NEW k \in Ops, StripIgnore(k)
  PROVE  Serves
<1> DEFINE o == [ops[k] EXCEPT !.stage = "create"]
<1>1. /\ ops[k] # None /\ ops[k] \in Op /\ ops[k].kind = "block" /\ ops[k].stage = "unignore"
      /\ UNCHANGED <<pair, blocks>> /\ Silent /\ Relies(ops[k], pair, blocks, ignores)
      /\ ignores' = ignores \ {ops[k].user}
  BY DEF StripIgnore, At, RelInv, TypeOK, Serial, Actor
<1>2. ops' = [ops EXCEPT ![k] = o]
  <2>1. ASSUME NEW j \in Ops, j # k, ops[j] # None
        PROVE  ~(ops[j].kind = "unignore" /\ ops[j].user = ops[k].user)
    BY <1>1, <2>1 DEF Serial, Lone, Conflict, ListKinds
  <2>2. \A j \in Ops : ops'[j] = IF j = k THEN o ELSE ops[j]
    BY <2>1 DEF StripIgnore, Actor
  <2> QED
    BY <2>2 DEF StripIgnore, RelInv, TypeOK
<1>3. o.kind = "block" /\ o.user = ops[k].user /\ o.stage = "create" /\ ops[k].user \in Users
  BY <1>1, StageFields DEF Op
<1>4. o # None
  <2>1. o \in Op
    BY <1>1 DEF Op, Stages
  <2> QED
    BY <2>1, RelationsNone
<1> HIDE DEF o
<1>5. Relies(o, pair', blocks', ignores')
  BY <1>1, <1>3 DEF Relies
<1>6. Touches(k)
  BY <1>1 DEF Touches, PairKinds, ListKinds, Serial
<1>7. Tells(ToBoth(None))
  BY <1>1, <1>2, <1>3, <1>4, BlockTells
<1> QED
  BY <1>1, <1>2, <1>3, <1>5, <1>6, <1>7, SilentEmits, Served

LEMMA CreateBlockServes ==
  ASSUME RelInv, Serial, NEW k \in Ops, CreateOwn(k), ops[k].kind = "block"
  PROVE  Serves
<1> DEFINE o == [ops[k] EXCEPT !.stage = "tell"]
<1>1. /\ ops[k] # None /\ ops[k] \in Op /\ ops[k].stage = "create"
      /\ UNCHANGED <<pair, ignores>> /\ Silent /\ Relies(ops[k], pair, blocks, ignores)
      /\ blocks' = blocks \cup {ops[k].user}
  BY DEF CreateOwn, At, RelInv, TypeOK, Serial, Actor
<1>2. pair = None /\ ops[k].user \notin blocks /\ ops[k].user \notin ignores
  BY <1>1 DEF Relies
<1>3. ops' = [ops EXCEPT ![k] = o]
  BY <1>2 DEF CreateOwn, Goto, Actor
<1>4. o.kind = "block" /\ o.user = ops[k].user /\ o.stage = "tell" /\ ops[k].user \in Users
  BY <1>1, StageFields DEF Op
<1>5. o # None
  <2>1. o \in Op
    BY <1>1 DEF Op, Stages
  <2> QED
    BY <2>1, RelationsNone
<1> HIDE DEF o
<1>6. Relies(o, pair', blocks', ignores')
  BY <1>1, <1>2, <1>4 DEF Relies
<1>7. Touches(k)
  BY <1>1, <1>2 DEF Touches, PairKinds, ListKinds, Serial
<1>8. Tells(ToBoth(None))
  BY <1>1, <1>3, <1>4, <1>5, BlockTells
<1> QED
  BY <1>1, <1>3, <1>4, <1>6, <1>7, <1>8, SilentEmits, Served

LEMMA CreateIgnoreServes ==
  ASSUME RelInv, Serial, NEW k \in Ops, CreateOwn(k), ops[k].kind = "ignore"
  PROVE  Serves
<1> DEFINE o == [ops[k] EXCEPT !.stage = "tell"]
<1>1. /\ ops[k] # None /\ ops[k] \in Op /\ ops[k].stage = "create"
      /\ UNCHANGED <<pair, blocks>> /\ Silent /\ Relies(ops[k], pair, blocks, ignores)
      /\ ignores' = ignores \cup {ops[k].user}
  BY DEF CreateOwn, At, RelInv, TypeOK, Serial, Actor
<1>2. CASE ops[k].user \in ignores
  <2>1. Done(k) /\ UNCHANGED rows /\ ~Owing(ops[k])
    BY <1>1, <1>2 DEF CreateOwn, Actor, rows, Owing
  <2> QED
    BY <1>1, <2>1, EndsQuietly
<1>3. CASE ops[k].user \notin ignores
  <2>1. ops' = [ops EXCEPT ![k] = o]
    BY <1>3 DEF CreateOwn, Goto, Actor
  <2>2. /\ o.kind = "ignore" /\ o.user = ops[k].user /\ o.stage = "tell"
        /\ o.unread = ops[k].unread /\ ops[k].user \in Users
    BY <1>1, StageFields DEF Op
  <2>3. o # None
    <3>1. o \in Op
      BY <1>1 DEF Op, Stages
    <3> QED
      BY <3>1, RelationsNone
  <2> HIDE DEF o
  <2>4. Relies(o, pair', blocks', ignores')
    BY <1>1, <2>2 DEF Relies
  <2>5. ops[k].user \notin blocks
    BY <1>1 DEF Relies
  <2>6. Touches(k)
    BY <1>1, <2>5 DEF Touches, PairKinds, ListKinds, Serial
  <2>7. ASSUME NEW u \in Users, NEW s \in Shown PROVE After(s, ToBoth(None)[u]) = s
    BY DEF After, ToBoth
  <2>8. ASSUME NEW u \in Users, NEW s \in Shown, BondShown(u, s, pair, ops)
        PROVE  BondShown(u, s, pair', ops')
    BY <1>1, <2>1, <2>8, BondKept
  <2>9. ASSUME NEW u \in Users, NEW s \in Shown, ListsShown(u, s, blocks, ignores, ops)
        PROVE  ListsShown(u, s, blocks', ignores', ops')
    <3>1. /\ ~Owes(ops[k], "block", {"tell"}, {u}) /\ ~Owes(ops[k], "block", {"create", "tell"}, {u})
          /\ ~Owes(ops[k], "ignore", {"tell"}, {u})
      BY <1>1 DEF Owes
    <3>2. BlockShown(u, s, blocks', ops')
      BY <1>1, <2>1, <2>9, <3>1, BlockKept DEF ListsShown
    <3>3. IgnoreShown(u, s, ignores', ops')
      <4>1. CASE u = o.user
        <5>1. Owes(o, "ignore", {"tell"}, {u})
          BY <2>2, <2>3, <4>1 DEF Owes
        <5> QED
          BY <2>1, <5>1, UntoldMoves DEF IgnoreShown
      <4>2. CASE u # o.user
        <5>1. u \in ignores' <=> u \in ignores
          BY <1>1, <2>2, <4>2
        <5> QED
          BY <2>1, <2>9, <3>1, <5>1, IgnoreKept DEF ListsShown
      <4> QED
        BY <4>1, <4>2
    <3> QED
      BY <3>2, <3>3 DEF ListsShown
  <2>10. Tells(ToBoth(None))
    BY <2>7, <2>8, <2>9 DEF Tells
  <2> QED
    BY <1>1, <2>1, <2>2, <2>4, <2>6, <2>10, SilentEmits, Served
<1> QED
  BY <1>2, <1>3

LEMMA TellBlockServes ==
  ASSUME RelInv, Serial, NEW k \in Ops, TellOwn(k), ops[k].kind = "block"
  PROVE  Serves
<1> DEFINE told == [u \in Users |-> IF u = Actor(k) THEN "blocked" ELSE "ended"]
<1>1. /\ ops[k] # None /\ ops[k] \in Op /\ ops[k].stage = "tell"
      /\ UNCHANGED <<pair, blocks, ignores>> /\ Relies(ops[k], pair, blocks, ignores)
      /\ ops' = [ops EXCEPT ![k] = None] /\ Emit(told) /\ Remember(told)
  BY DEF TellOwn, At, RelInv, TypeOK, Serial, Done, rows
<1>2. told \in [Users -> Events \cup {None}]
  BY DEF Events
<1>3. \A u \in Users : told[u] = IF u = ops[k].user THEN "blocked" ELSE "ended"
  BY DEF Actor
<1> HIDE DEF told
<1>4. pair = None /\ ops[k].user \in blocks /\ ops[k].user \notin ignores
  BY <1>1 DEF Relies
<1>5. Touches(k)
  BY <1>1 DEF Touches, Serial
<1>6. ASSUME NEW u \in Users, NEW s \in Shown
      PROVE  /\ NoBond(After(s, told[u]))
             /\ IF u = ops[k].user
                THEN After(s, told[u]).blocked /\ ~After(s, told[u]).ignored
                ELSE After(s, told[u]).blocked = s.blocked /\ After(s, told[u]).ignored = s.ignored
  <2>1. CASE u = ops[k].user
    <3>1. told[u] = "blocked" /\ After(s, told[u]) = Heard(s, "blocked")
      BY <1>3, <2>1, RelationsEvents DEF After, Events
    <3> QED
      BY <2>1, <3>1, HeardTells
  <2>2. CASE u # ops[k].user
    <3>1. told[u] = "ended" /\ After(s, told[u]) = Heard(s, "ended")
      BY <1>3, <2>2, RelationsEvents DEF After, Events
    <3> QED
      BY <2>2, <3>1, HeardTells
  <2> QED
    BY <2>1, <2>2
<1>7. ASSUME NEW u \in Users, NEW s \in Shown PROVE BondShown(u, After(s, told[u]), pair', ops')
  BY <1>1, <1>4, <1>6 DEF BondShown, Bond, NoBond
<1>8. ASSUME NEW u \in Users, NEW s \in Shown, ListsShown(u, s, blocks, ignores, ops)
      PROVE  ListsShown(u, After(s, told[u]), blocks', ignores', ops')
  <2>1. CASE u = ops[k].user
    BY <1>1, <1>4, <1>6, <2>1 DEF ListsShown, BlockShown, IgnoreShown
  <2>2. CASE u # ops[k].user
    BY <1>1, <1>6, <1>8, <2>2, ListsKept
  <2> QED
    BY <2>1, <2>2
<1>9. Tells(told)
  BY <1>7, <1>8 DEF Tells
<1> QED
  BY <1>1, <1>2, <1>5, <1>9, Served

(* One's own list is told to oneself alone.                                *)
LEMMA ListTells ==
  ASSUME RelInv, Serial, NEW k \in Ops, ops[k] # None, ops' = [ops EXCEPT ![k] = None],
         ops[k].kind \in {"ignore", "unblock", "unignore"}, UNCHANGED pair,
         ops[k].kind = "ignore" => ops[k].stage = "tell",
         NEW event \in Events, event \in {"ignored", "unblocked", "unignored"},
         \A u \in Users \ {ops[k].user} :
           (u \in blocks' <=> u \in blocks) /\ (u \in ignores' <=> u \in ignores),
         IF event = "unblocked" THEN ops[k].user \notin blocks'
         ELSE ops[k].user \in blocks' <=> ops[k].user \in blocks,
         CASE event = "unblocked" -> ops[k].user \in ignores' <=> ops[k].user \in ignores
           [] event = "ignored" -> ops[k].user \in ignores'
           [] event = "unignored" -> ops[k].user \notin ignores',
         event = "unblocked" => ops[k].kind # "ignore"
  PROVE  /\ Tells(ToOne(ops[k].user, event))
         /\ ToOne(ops[k].user, event) \in [Users -> Events \cup {None}]
<1> DEFINE told == ToOne(ops[k].user, event)
<1>1. \A u \in Users : told[u] = IF u = ops[k].user THEN event ELSE None
  BY DEF ToOne
<1>2. told \in [Users -> Events \cup {None}]
  BY DEF ToOne
<1> HIDE DEF told
<1>3. ASSUME NEW u \in Users, NEW s \in Shown, u # ops[k].user PROVE After(s, told[u]) = s
  BY <1>1, <1>3 DEF After
<1>4. ASSUME NEW u \in Users, NEW s \in Shown, u = ops[k].user
      PROVE  LET t == After(s, told[u])
             IN /\ t.friend = s.friend /\ t.incoming = s.incoming /\ t.outgoing = s.outgoing
                /\ IF event = "unblocked" THEN ~t.blocked ELSE t.blocked = s.blocked
                /\ event = "unblocked" => t.ignored = s.ignored
                /\ event = "ignored" => t.ignored
                /\ event = "unignored" => ~t.ignored
  <2>1. After(s, told[u]) = Heard(s, event)
    BY <1>1, <1>4, RelationsEvents DEF After
  <2>2. CASE event = "unblocked"
    BY <2>1, <2>2, HeardTells
  <2>3. CASE event = "ignored"
    BY <2>1, <2>3, HeardTells
  <2>4. CASE event = "unignored"
    BY <2>1, <2>4, HeardTells
  <2> QED
    BY <2>2, <2>3, <2>4
<1>5. ASSUME NEW u \in Users, NEW s \in Shown, BondShown(u, s, pair, ops)
      PROVE  BondShown(u, After(s, told[u]), pair', ops')
  <2> DEFINE t == After(s, told[u])
  <2>1. t.friend = s.friend /\ t.incoming = s.incoming /\ t.outgoing = s.outgoing
    BY <1>3, <1>4
  <2> HIDE DEF t
  <2>2. BondShown(u, t, pair', ops')
    BY <1>5, <2>1, BondKept
  <2> QED
    BY <2>2 DEF t
<1>6. ASSUME NEW u \in Users, NEW s \in Shown, ListsShown(u, s, blocks, ignores, ops)
      PROVE  ListsShown(u, After(s, told[u]), blocks', ignores', ops')
  <2> DEFINE t == After(s, told[u])
  <2>1. /\ ~Owes(ops[k], "block", {"tell"}, {u}) /\ ~Owes(ops[k], "block", {"create", "tell"}, {u})
        /\ u # ops[k].user \/ event = "unblocked" => ~Owes(ops[k], "ignore", {"tell"}, {u})
    BY DEF Owes
  <2>2. CASE u # ops[k].user
    <3>1. t = s /\ (u \in blocks' <=> u \in blocks) /\ (u \in ignores' <=> u \in ignores)
      BY <1>3, <2>2
    <3> HIDE DEF t
    <3>2. BlockShown(u, t, blocks', ops')
      BY <1>6, <2>1, <3>1, BlockKept DEF ListsShown
    <3>3. IgnoreShown(u, t, ignores', ops')
      BY <1>6, <2>1, <2>2, <3>1, IgnoreKept DEF ListsShown
    <3> QED
      BY <3>2, <3>3 DEF ListsShown, t
  <2>3. CASE u = ops[k].user
    <3>1. /\ IF event = "unblocked" THEN ~t.blocked ELSE t.blocked = s.blocked
          /\ event = "unblocked" => t.ignored = s.ignored
          /\ event = "ignored" => t.ignored
          /\ event = "unignored" => ~t.ignored
      BY <1>4, <2>3
    <3> HIDE DEF t
    <3>2. BlockShown(u, t, blocks', ops')
      <4>1. CASE event = "unblocked"
        BY <2>3, <3>1, <4>1 DEF BlockShown
      <4>2. CASE event # "unblocked"
        BY <1>6, <2>1, <2>3, <3>1, <4>2, BlockKept DEF ListsShown
      <4> QED
        BY <4>1, <4>2
    <3>3. IgnoreShown(u, t, ignores', ops')
      <4>1. CASE event = "unblocked"
        BY <1>6, <2>1, <2>3, <3>1, <4>1, IgnoreKept DEF ListsShown
      <4>2. CASE event = "ignored"
        BY <2>3, <3>1, <4>2 DEF IgnoreShown
      <4>3. CASE event = "unignored"
        BY <2>3, <3>1, <4>3 DEF IgnoreShown
      <4> QED
        BY <4>1, <4>2, <4>3
    <3> QED
      BY <3>2, <3>3 DEF ListsShown, t
  <2> QED
    BY <2>2, <2>3
<1>7. Tells(told)
  BY <1>5, <1>6 DEF Tells
<1> QED
  BY <1>2, <1>7 DEF told

LEMMA TellIgnoreServes ==
  ASSUME RelInv, Serial, NEW k \in Ops, TellOwn(k), ops[k].kind = "ignore"
  PROVE  Serves
<1> DEFINE told == ToOne(ops[k].user, "ignored")
<1>1. /\ ops[k] # None /\ ops[k].stage = "tell"
      /\ UNCHANGED <<pair, blocks, ignores>> /\ Relies(ops[k], pair, blocks, ignores)
      /\ ops' = [ops EXCEPT ![k] = None] /\ Emit(told) /\ Remember(told)
  BY DEF TellOwn, At, Serial, Done, rows, Actor
<1>2. "ignored" \in Events /\ ops[k].user \in ignores
  BY <1>1 DEF Events, Relies
<1>3. Touches(k)
  BY <1>1 DEF Touches, Serial
<1>4. Tells(told) /\ told \in [Users -> Events \cup {None}]
  BY <1>1, <1>2, ListTells
<1> QED
  BY <1>1, <1>3, <1>4, Served

LEMMA DeleteServes ==
  ASSUME RelInv, Serial, NEW k \in Ops, DeleteOwn(k)
  PROVE  Serves
<1> DEFINE event == IF ops[k].kind = "unblock" THEN "unblocked" ELSE "unignored"
           told == ToOne(ops[k].user, event)
<1>1. /\ ops[k] # None /\ ops[k].kind \in {"unblock", "unignore"} /\ ops[k].stage = "write"
      /\ UNCHANGED pair /\ Relies(ops[k], pair, blocks, ignores)
      /\ Emit(told) /\ Remember(told)
  BY DEF DeleteOwn, At, Serial, Actor
<1>2. ops[k].row
  BY <1>1 DEF Relies
<1>3. /\ blocks' = IF ops[k].kind = "unblock" THEN blocks \ {ops[k].user} ELSE blocks
      /\ ignores' = IF ops[k].kind = "unignore" THEN ignores \ {ops[k].user} ELSE ignores
  BY <1>2 DEF DeleteOwn, Actor
<1>4. ops' = [ops EXCEPT ![k] = None]
  <2>1. ASSUME NEW j \in Ops, j # k, ops[j] # None
        PROVE  ~(ops[j].kind = ops[k].kind /\ ops[j].user = ops[k].user)
    BY <1>1, <2>1 DEF Serial, Lone, Conflict, ListKinds
  <2>2. \A j \in Ops : ops'[j] = IF j = k THEN None ELSE ops[j]
    BY <2>1 DEF DeleteOwn, Actor
  <2> QED
    BY <2>2 DEF DeleteOwn, RelInv, TypeOK
<1>5. Touches(k)
  BY <1>1, <1>3 DEF Touches, PairKinds, ListKinds, Serial
<1>6. event \in Events
  BY DEF Events
<1>7. Tells(told) /\ told \in [Users -> Events \cup {None}]
  <2>1. CASE ops[k].kind = "unblock"
    <3>1. event = "unblocked"
      BY <2>1
    <3> HIDE DEF event
    <3> QED
      BY <1>1, <1>3, <1>4, <1>6, <2>1, <3>1, ListTells
  <2>2. CASE ops[k].kind = "unignore"
    <3>1. event = "unignored"
      BY <2>2
    <3> HIDE DEF event
    <3> QED
      BY <1>1, <1>3, <1>4, <1>6, <2>2, <3>1, ListTells
  <2> QED
    BY <1>1, <2>1, <2>2
<1> HIDE DEF event, told
<1> QED
  BY <1>1, <1>4, <1>5, <1>7, Served

LEMMA WorkServes ==
  ASSUME SerialInv, RelInv', NEW k \in Ops, Work(k)
  PROVE  SerialInv'
<1>1. ops[k] # None
  BY DEF Work, LookUp, CheckFriends, CheckPending, CreateRequest, TellRequest, FindRow,
     WriteAccept, WriteEnd, FindOwn, Strip, StripIgnore, CreateOwn, TellOwn, DeleteOwn, At
<1>2. \E told : Remember(told)
  BY DEF Work, LookUp, CheckFriends, CheckPending, CreateRequest, TellRequest, FindRow,
     WriteAccept, WriteEnd, FindOwn, Strip, StripIgnore, CreateOwn, TellOwn, DeleteOwn, Silent
<1>3. history'.tangled = history.tangled /\ history'.failed = history.failed
  BY <1>2 DEF Remember, SerialInv, RelInv, TypeOK, History
<1>4. ASSUME ~history.tangled PROVE Serves
  <2>1. RelInv /\ Serial
    BY <1>4 DEF SerialInv
  <2>2. CASE CreateOwn(k) \/ TellOwn(k)
    <3>1. ops[k].kind \in {"block", "ignore"}
      BY <2>2 DEF CreateOwn, TellOwn, At
    <3> QED
      BY <2>1, <2>2, <3>1, CreateBlockServes, CreateIgnoreServes, TellBlockServes, TellIgnoreServes
  <2> QED
    BY <2>1, <2>2, LookUpServes, CheckServes, RequestServes, TellRequestServes, FindRowServes,
       AcceptServes, EndServes, FindOwnServes, StripServes, StripIgnoreServes, DeleteServes
    DEF Work
<1> QED
  BY <1>3, <1>4 DEF SerialInv, Serves

LEMMA ThrowServes ==
  ASSUME SerialInv, RelInv', NEW k \in Ops, Throw(k)
  PROVE  SerialInv'
<1>1. ops[k] # None /\ ops' = [ops EXCEPT ![k] = None] /\ UNCHANGED <<pair, blocks, ignores>>
  BY DEF Throw, Done, rows
<1>2. history'.tangled = history.tangled /\ history'.failed
  BY DEF Throw, SerialInv, RelInv, TypeOK, History
<1>3. ASSUME Serial PROVE Serial'
  <2>1. Touches(k)
    BY <1>1, <1>3 DEF Touches, Serial
  <2> QED
    BY <1>1, <1>3, <2>1, SerialStep DEF SerialInv
<1> QED
  BY <1>2, <1>3 DEF SerialInv

(* A request starts: if it meets none it conflicts with, it has read       *)
(* nothing yet that could be wrong.                                        *)
LEMMA StartServes ==
  ASSUME SerialInv, RelInv', NEW k \in Ops, NEW u \in Users, StartAny(k, u)
  PROVE  SerialInv'
<1>1. PICK kind \in Kinds, stage \in {"gate", "find", "exists"}, unread \in SUBSET Users :
        /\ Start(k, kind, u, stage, unread)
        /\ kind = "request" => unread = Users
        /\ kind = "ignore" => unread = {u} /\ stage = "gate"
  <2>1. /\ Start(k, "request", u, "gate", Users)
             \/ (\E kind \in {"accept", "decline", "cancel", "remove"} : Start(k, kind, u, "find", {}))
             \/ (\E kind \in {"block", "unblock", "unignore"} : Start(k, kind, u, "exists", {}))
             \/ Start(k, "ignore", u, "gate", {u})
    BY DEF StartAny
  <2>2. {"request", "ignore", "accept", "decline", "cancel", "remove", "block", "unblock", "unignore"}
          \subseteq Kinds
    BY DEF Kinds, PairKinds, ListKinds
  <2> QED
    BY <2>1, <2>2
<1> DEFINE o == [kind |-> kind, user |-> u, stage |-> stage, unread |-> unread, row |-> FALSE]
           clash == \E j \in Ops : ops[j] # None /\ Conflict(kind, u, ops[j])
<1>2. /\ ops[k] = None /\ ops' = [ops EXCEPT ![k] = o]
      /\ UNCHANGED <<pair, blocks, ignores, store, loads>>
  BY <1>1 DEF Start, rows, apps
<1>3. /\ history'.tangled = (history.tangled \/ clash)
      /\ history'.failed = history.failed /\ history'.missed = history.missed
  <2>1. clash \in BOOLEAN
    OBVIOUS
  <2>2. history' = [history EXCEPT !.made = @ + 1, !.shut = Shut, !.tangled = @ \/ clash]
    BY <1>1 DEF Start
  <2> HIDE DEF clash
  <2> QED
    BY <2>1, <2>2 DEF SerialInv, RelInv, TypeOK, History
<1>4. o.kind = kind /\ o.user = u /\ o.stage = stage /\ o.unread = unread
  OBVIOUS
<1> HIDE DEF o
<1>5. ops'[k] = o /\ \A j \in Ops \ {k} : ops'[j] = ops[j]
  BY <1>2 DEF SerialInv, RelInv, TypeOK
<1>6. ASSUME ~history'.tangled PROVE ~history.tangled /\ ~clash
  BY <1>3, <1>6
<1>7. ASSUME ~history'.tangled PROVE Serial'
  <2>1. Serial /\ \A j \in Ops : ops[j] # None => ~Conflict(kind, u, ops[j])
    BY <1>6, <1>7 DEF SerialInv
  <2>2. Lone'
    <3>1. ASSUME NEW i \in Ops, NEW j \in Ops, i # j, ops'[i] # None, ops'[j] # None
          PROVE  ~Conflict(ops'[i].kind, ops'[i].user, ops'[j])
      <4>1. CASE i = k
        BY <1>4, <1>5, <2>1, <3>1, <4>1 DEF Conflict
      <4>2. CASE j = k
        BY <1>4, <1>5, <2>1, <3>1, <4>2 DEF Conflict
      <4>3. CASE i # k /\ j # k
        BY <1>5, <2>1, <3>1, <4>3 DEF Serial, Lone, Conflict
      <4> QED
        BY <4>1, <4>2, <4>3
    <3> QED
      BY <3>1 DEF Lone
  <2>3. Relies(o, pair, blocks, ignores)
    <3>1. blocks \subseteq Users
      BY DEF SerialInv, RelInv, TypeOK
    <3> QED
      BY <1>1, <1>4, <3>1 DEF Relies
  <2>4. \A j \in Ops : ops'[j] # None => Relies(ops'[j], pair', blocks', ignores')
    BY <1>2, <1>5, <2>1, <2>3 DEF Serial
  <2> QED
    BY <1>2, <2>1, <2>2, <2>4 DEF Serial
<1>8. ASSUME Mirrors PROVE Mirrors'
  <2>1. ASSUME NEW kind_1, NEW stages, NEW us, Untold(ops, kind_1, stages, us)
        PROVE  Untold(ops', kind_1, stages, us)
    BY <1>2, <1>5, <2>1 DEF Untold, Owes
  <2>2. \A v, s : BondShown(v, s, pair, ops) => BondShown(v, s, pair', ops')
    BY <1>2, <2>1 DEF BondShown
  <2>3. \A v, s : ListsShown(v, s, blocks, ignores, ops) => ListsShown(v, s, blocks', ignores', ops')
    BY <1>2, <2>1 DEF ListsShown, BlockShown, IgnoreShown
  <2> QED
    BY <1>2, <1>3, <1>8, <2>2, <2>3 DEF Mirrors
<1> QED
  BY <1>3, <1>6, <1>7, <1>8 DEF SerialInv

(* The apps read the rows as they are, whatever requests are under way.    *)
LEMMA TruthShown ==
  ASSUME NEW u
  PROVE  /\ Truth(u) \in Shown /\ Bond(u, Truth(u), pair)
         /\ Truth(u).blocked <=> u \in blocks
         /\ Truth(u).ignored <=> u \in ignores
<1> DEFINE f == pair # None /\ pair.status = "accepted"
           i == pair # None /\ pair.status = "pending" /\ pair.by # u
           o == pair # None /\ pair.status = "pending" /\ pair.by = u
           b == u \in blocks
           g == u \in ignores
<1>1. Truth(u) = [friend |-> f, incoming |-> i, outgoing |-> o, blocked |-> b, ignored |-> g]
  BY DEF Truth
<1>2. f \in BOOLEAN /\ i \in BOOLEAN /\ o \in BOOLEAN /\ b \in BOOLEAN /\ g \in BOOLEAN
  OBVIOUS
<1> HIDE DEF f, i, o, b, g
<1>3. /\ Truth(u) \in Shown /\ Truth(u).friend = f /\ Truth(u).incoming = i
      /\ Truth(u).outgoing = o /\ Truth(u).blocked = b /\ Truth(u).ignored = g
  BY <1>1, <1>2 DEF Shown
<1> USE DEF f, i, o, b, g
<1>4. Bond(u, Truth(u), pair)
  BY <1>3 DEF Bond
<1> QED
  BY <1>3, <1>4

Mirrored(u) ==
  /\ store[u] # None /\ loads[u] = None =>
       BondShown(u, store[u], pair, ops) /\ ListsShown(u, store[u], blocks, ignores, ops)
  /\ loads[u] # None /\ loads[u].stage # "rows" => BondShown(u, loads[u].snap, pair, ops)
  /\ loads[u] # None /\ loads[u].stage = "apply" =>
       ListsShown(u, loads[u].snap, blocks, ignores, ops)

LEMMA OneApp ==
  ASSUME RelInv, Mirrors, UNCHANGED <<rows, ops>>, NEW u \in Users,
         \A v \in Users \ {u} : store'[v] = store[v] /\ loads'[v] = loads[v],
         history'.missed = history.missed \/ history'.missed = history.missed \ {u}
           \/ history'.missed = history.missed \cup {u},
         u \notin history'.missed => Mirrored(u)'
  PROVE  Mirrors'
<1>1. UNCHANGED <<pair, blocks, ignores, ops>>
  BY DEF rows
<1>2. ASSUME NEW v \in Users \ history'.missed PROVE Mirrored(v)'
  <2>1. CASE v # u
    <3>1. Mirrored(v) /\ store'[v] = store[v] /\ loads'[v] = loads[v]
      BY <1>2, <2>1 DEF Mirrors, Mirrored
    <3> QED
      BY <1>1, <3>1 DEF Mirrored
  <2> QED
    BY <1>2, <2>1
<1> QED
  BY <1>2 DEF Mirrors, Mirrored

LEMMA AppServes ==
  ASSUME SerialInv, RelInv', NEW u \in Users, App(u)
  PROVE  SerialInv'
<1>1. UNCHANGED <<rows, ops>> /\ UNCHANGED <<pair, blocks, ignores, ops>>
  BY DEF App, Boot, Identify, SocketLost, ReadRows, ReadLists, ApplySnapshot, LoadFails, rows
<1>2. RelInv /\ TypeOK
  BY DEF SerialInv, RelInv
<1>3. history'.tangled = history.tangled /\ history'.failed = history.failed
  BY <1>2 DEF App, Boot, Identify, SocketLost, ReadRows, ReadLists, ApplySnapshot, LoadFails,
     TypeOK, History
<1>4. Serial => Serial'
  BY <1>1 DEF Serial, Lone
<1>5. ASSUME Mirrors PROVE Mirrors'
  <2>1. CASE Boot(u)
    <3> DEFINE l == [stage |-> "rows", snap |-> Blank]
    <3>1. loads' = [loads EXCEPT ![u] = l] /\ store' = [store EXCEPT ![u] = Blank]
          /\ history' = [history EXCEPT !.boots = @ + 1, !.missed = @ \ {u}]
      BY <2>1 DEF Boot
    <3>2. l.stage = "rows" /\ l # None
      <4>1. Blank \in Shown
        BY DEF Blank, Shown
      <4>2. l \in Load
        BY <4>1 DEF Load
      <4> QED
        BY <4>2, RelationsNone
    <3> HIDE DEF l
    <3>3. loads'[u] = l /\ history'.missed = history.missed \ {u}
          /\ \A v \in Users \ {u} : store'[v] = store[v] /\ loads'[v] = loads[v]
      BY <1>2, <3>1 DEF TypeOK, History
    <3>4. Mirrored(u)'
      BY <3>2, <3>3 DEF Mirrored
    <3> QED
      BY <1>1, <1>2, <1>5, <3>3, <3>4, OneApp
  <2>2. CASE Identify(u) \/ SocketLost(u)
    <3>1. UNCHANGED <<store, loads>> /\ history'.missed = history.missed
      BY <1>2, <2>2 DEF Identify, SocketLost, TypeOK, History
    <3> QED
      BY <1>1, <1>5, <3>1 DEF Mirrors
  <2>3. CASE ReadRows(u)
    <3> DEFINE snap == [Truth(u) EXCEPT !.blocked = FALSE, !.ignored = FALSE]
               l == [stage |-> "lists", snap |-> snap]
    <3>1. loads[u] # None /\ loads' = [loads EXCEPT ![u] = l] /\ UNCHANGED <<store, history>>
      BY <2>3 DEF ReadRows
    <3>2. Bond(u, snap, pair)
      BY TruthShown DEF Bond, Shown
    <3>3. snap \in Shown
      BY TruthShown DEF Shown
    <3> HIDE DEF snap
    <3>4. l.stage = "lists" /\ l.snap = snap /\ l # None
      <4>1. l \in Load
        BY <3>3 DEF Load
      <4> QED
        BY <4>1, RelationsNone
    <3> HIDE DEF l
    <3>5. loads'[u] = l /\ \A v \in Users \ {u} : store'[v] = store[v] /\ loads'[v] = loads[v]
      BY <1>2, <3>1 DEF TypeOK
    <3>6. Mirrored(u)'
      BY <1>1, <3>2, <3>4, <3>5 DEF Mirrored, BondShown
    <3> QED
      BY <1>1, <1>2, <1>5, <3>1, <3>5, <3>6, OneApp
  <2>4. CASE ReadLists(u)
    <3> DEFINE b == u \in blocks
               i == u \in ignores
               snap == [loads[u].snap EXCEPT !.blocked = b, !.ignored = i]
               l == [stage |-> "apply", snap |-> snap]
    <3>1. /\ loads[u] # None /\ loads[u].stage = "lists" /\ loads' = [loads EXCEPT ![u] = l]
          /\ UNCHANGED <<store, history>> /\ loads[u].snap \in Shown
      BY <1>2, <2>4 DEF ReadLists, TypeOK, Load
    <3>2. /\ snap.friend = loads[u].snap.friend /\ snap.incoming = loads[u].snap.incoming
          /\ snap.outgoing = loads[u].snap.outgoing
          /\ snap.blocked <=> u \in blocks
          /\ snap.ignored <=> u \in ignores
          /\ snap \in Shown
      <4>1. b \in BOOLEAN /\ i \in BOOLEAN /\ (b <=> u \in blocks) /\ (i <=> u \in ignores)
        OBVIOUS
      <4> HIDE DEF b, i
      <4>2. loads[u].snap \in Shown
        BY <3>1
      <4>3. /\ snap.friend = loads[u].snap.friend /\ snap.incoming = loads[u].snap.incoming
            /\ snap.outgoing = loads[u].snap.outgoing
            /\ snap.blocked = b /\ snap.ignored = i /\ snap \in Shown
        BY <4>1, <4>2 DEF Shown
      <4> HIDE DEF snap
      <4> QED
        BY <4>1, <4>3
    <3> HIDE DEF snap
    <3>3. l.stage = "apply" /\ l.snap = snap /\ l # None
      <4>1. l \in Load
        BY <3>2 DEF Load
      <4> QED
        BY <4>1, RelationsNone
    <3> HIDE DEF l
    <3>4. loads'[u] = l /\ \A v \in Users \ {u} : store'[v] = store[v] /\ loads'[v] = loads[v]
      BY <1>2, <3>1 DEF TypeOK
    <3>5. u \notin history.missed => BondShown(u, loads[u].snap, pair, ops)
      BY <1>5, <3>1 DEF Mirrors
    <3>6. BondShown(u, loads[u].snap, pair, ops) => BondShown(u, snap, pair, ops)
      BY <3>2 DEF BondShown, Bond, NoBond
    <3>7. ListsShown(u, snap, blocks, ignores, ops)
      BY <3>2 DEF ListsShown, BlockShown, IgnoreShown
    <3>8. u \notin history.missed => Mirrored(u)'
      BY <1>1, <3>3, <3>4, <3>5, <3>6, <3>7 DEF Mirrored
    <3> QED
      BY <1>1, <1>2, <1>5, <3>1, <3>4, <3>8, OneApp
  <2>5. CASE ApplySnapshot(u)
    <3>1. /\ loads[u] # None /\ loads[u].stage = "apply" /\ UNCHANGED history
          /\ store'[u] = loads[u].snap /\ loads'[u] = None
          /\ \A v \in Users \ {u} : store'[v] = store[v] /\ loads'[v] = loads[v]
      BY <1>2, <2>5 DEF ApplySnapshot, TypeOK
    <3>2. u \notin history.missed => /\ BondShown(u, loads[u].snap, pair, ops)
                                     /\ ListsShown(u, loads[u].snap, blocks, ignores, ops)
      BY <1>5, <3>1 DEF Mirrors
    <3>3. u \notin history.missed => Mirrored(u)'
      BY <1>1, <3>1, <3>2 DEF Mirrored
    <3> QED
      BY <1>1, <1>2, <1>5, <3>1, <3>3, OneApp
  <2>6. CASE LoadFails(u)
    <3>1. /\ history'.missed = history.missed \cup {u}
          /\ \A v \in Users \ {u} : store'[v] = store[v] /\ loads'[v] = loads[v]
      BY <1>2, <2>6 DEF LoadFails, TypeOK, History
    <3> QED
      BY <1>1, <1>2, <1>5, <3>1, OneApp
  <2> QED
    BY <2>1, <2>2, <2>3, <2>4, <2>5, <2>6 DEF App
<1> QED
  BY <1>3, <1>4, <1>5 DEF SerialInv

LEMMA SerialInvStep == SerialInv /\ [Next]_vars => SerialInv'
<1> SUFFICES ASSUME SerialInv, [Next]_vars PROVE SerialInv'
  OBVIOUS
<1>1. RelInv'
  BY RelStep DEF SerialInv
<1>2. Watching \subseteq Users
  BY RelationsPair
<1>3. CASE UNCHANGED vars
  <2>1. UNCHANGED <<pair, blocks, ignores, ops, store, loads, history>>
    BY <1>3 DEF vars, rows, apps
  <2> QED
    BY <1>1, <2>1 DEF SerialInv, Serial, Lone, Mirrors
<1> QED
  BY <1>1, <1>2, <1>3, StartServes, WorkServes, ThrowServes, AppServes DEF Next

(* The inductive invariant of relations: RelInv, and for a pair whose       *)
(* requests did not overlap what each request still relies on and has to   *)
(* tell.                                                                   *)
THEOREM SerialRelations == Spec => []SerialInv
  BY SerialInit, SerialInvStep, PTL DEF Spec

(* RelationService.block: as long as requests about the same rows do not   *)
(* overlap, a block leaves no friendship and no request between the two,   *)
(* and no ignore beside it, whichever database call fails on the way.      *)
THEOREM BlockSafe == Spec => []BlockExcludes
<1>1. SerialInv => BlockExcludes
  BY DEF SerialInv, Serial, BlockExcludes
<1> QED
  BY <1>1, SerialRelations, PTL

(* The relations store: the apps that heard every notification since the   *)
(* snapshot show what the rows say once all requests are answered.         *)
THEOREM StoresSafe == Spec => []StoresTell
<1>1. SerialInv => StoresTell
  <2> SUFFICES ASSUME SerialInv, ~history.tangled, ~history.failed, \A k \in Ops : ops[k] = None,
                      NEW u \in Users, store[u] # None, loads[u] = None, u \notin history.missed
               PROVE  store[u] = Truth(u)
    BY DEF StoresTell
  <2>1. \A kind, stages, us : ~Untold(ops, kind, stages, us)
    BY DEF Untold, Owes
  <2>2. BondShown(u, store[u], pair, ops) /\ ListsShown(u, store[u], blocks, ignores, ops)
    BY DEF SerialInv, Mirrors
  <2>3. /\ Bond(u, store[u], pair)
        /\ store[u].blocked <=> u \in blocks
        /\ store[u].ignored <=> u \in ignores
    BY <2>1, <2>2 DEF BondShown, ListsShown, BlockShown, IgnoreShown
  <2>4. TypeOK /\ store[u] \in Shown
    BY DEF SerialInv, RelInv, TypeOK
  <2>5. Truth(u) \in Shown /\ Bond(u, Truth(u), pair)
        /\ (Truth(u).blocked <=> u \in blocks) /\ (Truth(u).ignored <=> u \in ignores)
    BY TruthShown
  <2>6. ASSUME NEW s \in Shown, NEW t \in Shown, s.friend = t.friend, s.incoming = t.incoming,
               s.outgoing = t.outgoing, s.blocked = t.blocked, s.ignored = t.ignored
        PROVE  s = t
    BY <2>6 DEF Shown
  <2>7. /\ store[u].friend = Truth(u).friend /\ store[u].incoming = Truth(u).incoming
        /\ store[u].outgoing = Truth(u).outgoing /\ store[u].blocked = Truth(u).blocked
        /\ store[u].ignored = Truth(u).ignored
    BY <2>3, <2>4, <2>5 DEF Shown, Bond
  <2> QED
    BY <2>4, <2>5, <2>6, <2>7
<1> QED
  BY <1>1, SerialRelations, PTL

(* Both hold beside the direct messages.                                   *)
THEOREM DirectRelations == DmSpec => [](BlockExcludes /\ StoresTell)
  BY DirectImplementsRelations, BlockSafe, StoresSafe, PTL
===============================================================================
