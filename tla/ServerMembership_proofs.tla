------------------------ MODULE ServerMembership_proofs ------------------------
(***************************************************************************)
(* Proofs about ServerMembership: its types; that an invite is never       *)
(* charged for more than the joins made with it, nor beyond its limit;     *)
(* and what handlers that run one after another keep of a user's           *)
(* membership, of the ownership and of the count of members.               *)
(***************************************************************************)
EXTENDS ServerMembership, FiniteSetTheorems, TLAPS

(* Why ChargeInvite is safe: a join that has created its member row has    *)
(* read fewer uses than there are joins, its own being one of them.        *)
ChargesCovered ==
  \A k \in Ops : ops[k] # None /\ ops[k].kind = "join" =>
    /\ ops[k].uses <= joins
    /\ ops[k].stage = "uses" => ops[k].uses < joins
    /\ MaxUses > 0 => ops[k].uses < MaxUses

IInv == TypeOK /\ InviteNotOvercharged /\ ChargesCovered

USE MembershipFounder, MembershipLimits, MembershipNone

(* A new handler is a handler.                                             *)
LEMMA BlankType ==
  ASSUME NEW kind \in Kinds, NEW u \in Users, NEW stage \in Stages
  PROVE  Blank(kind, u, stage) \in Op
BY DEF Blank, Op

LEMMA InitInductive == Init => IInv
<1> SUFFICES ASSUME Init PROVE IInv
  OBVIOUS
<1>1. TypeOK
  BY DEF Init, TypeOK
<1>2. InviteNotOvercharged
  BY DEF Init, InviteNotOvercharged
<1>3. ChargesCovered
  BY DEF Init, ChargesCovered
<1> QED
  BY <1>1, <1>2, <1>3 DEF IInv

-----------------------------------------------------------------------------
(* The types of what a step of a handler leaves of the tables.             *)
Typed ==
  /\ members' \subseteq Users /\ owner' \in Users /\ count' \in Nat
  /\ bans' \in [Users -> SUBSET BanIds] /\ subs' \subseteq Users
  /\ drift' \in BOOLEAN /\ raced' \subseteq Users

(* A handler that goes on or ends without having created a member row, and *)
(* without charging the invite.                                            *)
LEMMA MoveInductive ==
  ASSUME IInv, Typed, uses' = uses, joins' = joins,
         NEW k \in Ops, ops[k] # None, NEW op \in Op \cup {None},
         ops' = [ops EXCEPT ![k] = op],
         op # None => /\ op.kind = ops[k].kind /\ op.uses = ops[k].uses
                      /\ op.stage # "uses"
  PROVE  IInv'
<1>1. TypeOK'
  BY DEF IInv, TypeOK, Typed
<1>2. InviteNotOvercharged'
  BY DEF IInv, InviteNotOvercharged
<1>3. ChargesCovered'
  <2>1. SUFFICES ASSUME NEW j \in Ops, ops'[j] # None, ops'[j].kind = "join"
                 PROVE  /\ ops'[j].uses <= joins
                        /\ ops'[j].stage = "uses" => ops'[j].uses < joins
                        /\ MaxUses > 0 => ops'[j].uses < MaxUses
    BY DEF ChargesCovered
  <2>2. CASE j = k
    BY <2>1, <2>2 DEF IInv, TypeOK, ChargesCovered
  <2>3. CASE j # k
    BY <2>1, <2>3 DEF IInv, TypeOK, ChargesCovered
  <2> QED
    BY <2>2, <2>3
<1> QED
  BY <1>1, <1>2, <1>3 DEF IInv

LEMMA GotoInductive ==
  ASSUME IInv, Typed, uses' = uses, joins' = joins,
         NEW k \in Ops, ops[k] # None,
         NEW stage \in Stages, stage # "uses", Goto(k, stage)
  PROVE  IInv'
<1> DEFINE op == [ops[k] EXCEPT !.stage = stage]
<1>1. ops[k] \in Op
  BY DEF IInv, TypeOK
<1>2. op \in Op /\ op.kind = ops[k].kind /\ op.uses = ops[k].uses /\ op.stage = stage
  BY <1>1 DEF Op
<1>3. ops' = [ops EXCEPT ![k] = op]
  BY DEF Goto
<1> HIDE DEF op
<1> QED
  BY <1>2, <1>3, MoveInductive

LEMMA FinishInductive ==
  ASSUME IInv, Typed, uses' = uses, joins' = joins,
         NEW k \in Ops, ops[k] # None, Finish(k)
  PROVE  IInv'
BY MoveInductive DEF Finish

-----------------------------------------------------------------------------
(* A handler that begins.                                                  *)
LEMMA StartInductive ==
  ASSUME IInv, NEW k \in Ops, NEW op \in Op, NEW about \in SUBSET Users,
         Start(k, op, about), UNCHANGED <<table, subs, joins>>,
         op.kind = "join" => /\ op.uses = uses /\ op.stage # "uses"
                             /\ MaxUses = 0 \/ uses < MaxUses
  PROVE  IInv'
<1>1. TypeOK'
  BY DEF IInv, TypeOK, Start, table
<1>2. InviteNotOvercharged'
  BY DEF IInv, InviteNotOvercharged, table
<1>3. ChargesCovered'
  <2>1. ops' = [ops EXCEPT ![k] = op] /\ joins' = joins
    BY DEF Start
  <2>2. op.kind = "join" => op.uses <= joins /\ (MaxUses > 0 => op.uses < MaxUses)
    BY DEF IInv, InviteNotOvercharged, TypeOK
  <2> QED
    BY <2>1, <2>2 DEF IInv, ChargesCovered, TypeOK
<1> QED
  BY <1>1, <1>2, <1>3 DEF IInv

LEMMA RequestsInductive ==
  ASSUME IInv, NEW k \in Ops, NEW u \in Users, Requests(k, u)
  PROVE  IInv'
<1>0. TypeOK
  BY DEF IInv
<1>1. CASE StartJoin(k, u)
  <2>1. [Blank("join", u, "ban") EXCEPT !.uses = uses] \in Op
    BY <1>0 DEF Blank, Op, Kinds, Counting, Stages, TypeOK
  <2>2. /\ [Blank("join", u, "ban") EXCEPT !.uses = uses].uses = uses
        /\ [Blank("join", u, "ban") EXCEPT !.uses = uses].stage = "ban"
    BY DEF Blank
  <2> QED
    BY <1>1, <2>1, <2>2, StartInductive DEF StartJoin
<1>2. ASSUME NEW kind \in Removals, StartRemoval(k, kind, u)
      PROVE  IInv'
  <2>1. [Blank(kind, u, "member") EXCEPT !.count = count] \in Op
    BY <1>0 DEF Blank, Op, Kinds, Counting, Stages, TypeOK
  <2>2. [Blank(kind, u, "member") EXCEPT !.count = count].kind # "join"
    BY DEF Blank, Removals
  <2> QED
    BY <1>2, <2>1, <2>2, StartInductive DEF StartRemoval
<1>3. CASE StartUnban(k, u)
  <2>1. [Blank("unban", u, "clear") EXCEPT !.rows = bans[u]] \in Op
    BY <1>0 DEF Blank, Op, Kinds, Stages, TypeOK
  <2>2. [Blank("unban", u, "clear") EXCEPT !.rows = bans[u]].kind # "join"
    BY DEF Blank
  <2> QED
    BY <1>3, <2>1, <2>2, StartInductive DEF StartUnban
<1>4. CASE StartTransfer(k, u)
  <2>1. Blank("transfer", u, "target") \in Op
    BY BlankType DEF Kinds, Stages
  <2>2. Blank("transfer", u, "target").kind # "join" /\ {u, owner} \subseteq Users
    BY <1>0 DEF Blank, TypeOK
  <2> QED
    BY <1>4, <2>1, <2>2, StartInductive DEF StartTransfer
<1>5. CASE StartSubscribe(k, u)
  <2> DEFINE op == Blank("subscribe", u, IF Banned(u) THEN "srvBan" ELSE "chMember")
  <2>1. op \in Op
    BY BlankType DEF Kinds, Stages
  <2>2. op.kind # "join"
    BY DEF Blank
  <2>3. Start(k, op, {u}) /\ UNCHANGED <<table, subs, joins>>
    BY <1>5 DEF StartSubscribe
  <2> HIDE DEF op
  <2> QED
    BY <2>1, <2>2, <2>3, StartInductive
<1> QED
  BY <1>1, <1>2, <1>3, <1>4, <1>5 DEF Requests

-----------------------------------------------------------------------------
(* The two steps of a join the invariant is about.                         *)
LEMMA CreateMemberInductive ==
  ASSUME IInv, NEW k \in Ops, CreateMember(k)
  PROVE  IInv'
<1> USE DEF CreateMember, At
<1>1. ops[k] \in Op /\ ops[k].user \in Users
  BY DEF IInv, TypeOK, Op
<1>2. CASE ops[k].user \in members
  <2>1. Typed
    BY <1>2 DEF IInv, TypeOK, Typed
  <2> QED
    BY <1>2, <2>1, FinishInductive
<1>3. CASE ops[k].user \notin members
  <2> DEFINE op == [ops[k] EXCEPT !.stage = "uses"]
  <2>1. op \in Op /\ op.kind = "join" /\ op.uses = ops[k].uses
    BY <1>1 DEF Op, Stages
  <2>2. ops' = [ops EXCEPT ![k] = op] /\ joins' = joins + 1
    BY <1>3 DEF Goto
  <2> HIDE DEF op
  <2>3. TypeOK'
    BY <1>1, <1>3, <2>1, <2>2 DEF IInv, TypeOK
  <2>4. InviteNotOvercharged'
    BY <2>2 DEF IInv, TypeOK, InviteNotOvercharged
  <2>5. ChargesCovered'
    <3>1. SUFFICES ASSUME NEW j \in Ops, ops'[j] # None, ops'[j].kind = "join"
                   PROVE  /\ ops'[j].uses <= joins'
                          /\ ops'[j].stage = "uses" => ops'[j].uses < joins'
                          /\ MaxUses > 0 => ops'[j].uses < MaxUses
      BY DEF ChargesCovered
    <3>2. ops'[j].uses = ops[j].uses /\ ops[j] # None /\ ops[j].kind = "join"
      BY <2>1, <2>2, <3>1 DEF IInv, TypeOK
    <3>3. ops[j].uses <= joins /\ (MaxUses > 0 => ops[j].uses < MaxUses)
      BY <3>2 DEF IInv, ChargesCovered
    <3>4. ops[j].uses \in Nat /\ joins \in Nat
      BY <3>2 DEF IInv, TypeOK, Op
    <3> QED
      BY <2>2, <3>2, <3>3, <3>4
  <2> QED
    BY <2>3, <2>4, <2>5 DEF IInv
<1> QED
  BY <1>2, <1>3

LEMMA ChargeInviteInductive ==
  ASSUME IInv, NEW k \in Ops, ChargeInvite(k)
  PROVE  IInv'
<1> USE DEF ChargeInvite, At
<1>1. /\ ops[k] \in Op /\ ops[k].uses \in Nat /\ joins \in Nat
      /\ ops[k].uses < joins
      /\ MaxUses > 0 => ops[k].uses < MaxUses
  BY DEF IInv, TypeOK, Op, ChargesCovered
<1> DEFINE op == [ops[k] EXCEPT !.stage = "count"]
<1>2. op \in Op /\ op.kind = "join" /\ op.uses = ops[k].uses /\ op.stage = "count"
  BY <1>1 DEF Op, Stages
<1>3. ops' = [ops EXCEPT ![k] = op] /\ uses' = ops[k].uses + 1 /\ joins' = joins
  BY DEF Goto, history
<1> HIDE DEF op
<1>4. TypeOK'
  BY <1>1, <1>2, <1>3 DEF IInv, TypeOK, history
<1>5. InviteNotOvercharged'
  BY <1>1, <1>3 DEF InviteNotOvercharged
<1>6. ChargesCovered'
  <2>1. SUFFICES ASSUME NEW j \in Ops, ops'[j] # None, ops'[j].kind = "join"
                 PROVE  /\ ops'[j].uses <= joins
                        /\ ops'[j].stage = "uses" => ops'[j].uses < joins
                        /\ MaxUses > 0 => ops'[j].uses < MaxUses
    BY <1>3 DEF ChargesCovered
  <2>2. CASE j = k
    BY <1>1, <1>2, <1>3, <2>1, <2>2 DEF IInv, TypeOK
  <2>3. CASE j # k
    BY <1>3, <2>1, <2>3 DEF IInv, TypeOK, ChargesCovered
  <2> QED
    BY <2>2, <2>3
<1> QED
  BY <1>4, <1>5, <1>6 DEF IInv

-----------------------------------------------------------------------------
(* The other steps of a join.                                              *)
LEMMA JoinInductive ==
  ASSUME IInv, NEW k \in Ops,
         JoinChecksBan(k) \/ JoinChecksMember(k) \/ JoinReadsCount(k)
           \/ JoinWritesCount(k)
  PROVE  IInv'
<1>0. ops[k] # None => ops[k] \in Op
  BY DEF IInv, TypeOK
<1> USE DEF At
<1>1. CASE JoinChecksBan(k)
  <2>1. Typed /\ uses' = uses /\ joins' = joins /\ ops[k] # None
    BY <1>1 DEF JoinChecksBan, IInv, TypeOK, Typed, table, history
  <2>2. Finish(k) \/ Goto(k, "existing")
    BY <1>1 DEF JoinChecksBan
  <2> QED
    BY <2>1, <2>2, FinishInductive, GotoInductive DEF Stages
<1>2. CASE JoinChecksMember(k)
  <2>1. Typed /\ uses' = uses /\ joins' = joins /\ ops[k] # None
    BY <1>2 DEF JoinChecksMember, IInv, TypeOK, Typed, table, history
  <2>2. Finish(k) \/ Goto(k, "create")
    BY <1>2 DEF JoinChecksMember
  <2> QED
    BY <2>1, <2>2, FinishInductive, GotoInductive DEF Stages
<1>3. CASE JoinReadsCount(k)
  <2> DEFINE op == [ops[k] EXCEPT !.stage = "inc", !.count = count]
  <2>1. Typed /\ uses' = uses /\ joins' = joins /\ ops[k] # None
    BY <1>3 DEF JoinReadsCount, IInv, TypeOK, Typed, table, history
  <2>2. op \in Op /\ op.kind = ops[k].kind /\ op.uses = ops[k].uses /\ op.stage = "inc"
    BY <1>0, <2>1 DEF Op, Stages, IInv, TypeOK
  <2>3. ops' = [ops EXCEPT ![k] = op]
    BY <1>3 DEF JoinReadsCount
  <2> HIDE DEF op
  <2> QED
    BY <2>1, <2>2, <2>3, MoveInductive
<1>4. CASE JoinWritesCount(k)
  <2>1. Typed /\ uses' = uses /\ joins' = joins /\ ops[k] # None
    BY <1>0, <1>4 DEF JoinWritesCount, IInv, TypeOK, Op, Typed, history
  <2> QED
    BY <1>4, <2>1, FinishInductive DEF JoinWritesCount
<1> QED
  BY <1>1, <1>2, <1>3, <1>4

(* DeleteMember moves one handler on, and marks stale what others read.    *)
LEMMA DeleteMemberInductive ==
  ASSUME IInv, NEW k \in Ops, DeleteMember(k)
  PROVE  IInv'
<1> USE DEF DeleteMember, At
<1>1. ops[k] \in Op
  BY DEF IInv, TypeOK
<1>2. ASSUME NEW j \in Ops
      PROVE  /\ ops'[j] \in Op \cup {None}
             /\ ops'[j] # None =>
                  /\ ops[j] # None /\ ops'[j].kind = ops[j].kind
                  /\ ops'[j].uses = ops[j].uses
                  /\ ops'[j].stage = "uses" => ops[j].stage = "uses"
  <2>1. CASE j = k
    BY <1>1, <2>1 DEF Op, Stages
  <2>2. CASE j # k
    BY <2>2 DEF IInv, TypeOK, Op
  <2> QED
    BY <2>1, <2>2
<1>3. TypeOK'
  BY <1>2 DEF IInv, TypeOK, history
<1>4. InviteNotOvercharged'
  BY DEF IInv, InviteNotOvercharged, history
<1>5. ChargesCovered'
  <2>1. joins' = joins
    BY DEF history
  <2> QED
    BY <1>2, <2>1 DEF IInv, ChargesCovered
<1> QED
  BY <1>3, <1>4, <1>5 DEF IInv

(* The other steps of leave, kick, ban and unban.                          *)
LEMMA RemovalInductive ==
  ASSUME IInv, NEW k \in Ops,
         ReadMember(k) \/ Decrement(k) \/ ReadBans(k) \/ ClearBan(k)
           \/ InsertBan(k) \/ UnbanEnds(k) \/ Evict(k)
  PROVE  IInv'
<1>0. ops[k] # None => ops[k] \in Op
  BY DEF IInv, TypeOK
<1> USE DEF At
<1>1. CASE ReadMember(k)
  <2> DEFINE op == [ops[k] EXCEPT !.stage = "delete", !.row = TRUE]
  <2>1. Typed /\ uses' = uses /\ joins' = joins /\ ops[k] # None
    BY <1>1 DEF ReadMember, IInv, TypeOK, Typed, table, history
  <2>2. op \in Op /\ op.kind = ops[k].kind /\ op.uses = ops[k].uses /\ op.stage = "delete"
    BY <1>0, <2>1 DEF Op, Stages
  <2>3. ops' = [ops EXCEPT ![k] = op] \/ Goto(k, "bans") \/ Finish(k)
    BY <1>1 DEF ReadMember
  <2> HIDE DEF op
  <2>4. CASE ops' = [ops EXCEPT ![k] = op]
    BY <2>1, <2>2, <2>4, MoveInductive
  <2>5. CASE Goto(k, "bans") \/ Finish(k)
    BY <2>1, <2>5, GotoInductive, FinishInductive DEF Stages
  <2> QED
    BY <2>3, <2>4, <2>5
<1>2. CASE Decrement(k)
  <2>1. ops[k] # None /\ ops[k].count \in Nat
    BY <1>0, <1>2 DEF Decrement, Op
  <2>2. Typed /\ uses' = uses /\ joins' = joins
    BY <1>2, <2>1 DEF Decrement, IInv, TypeOK, Typed, history
  <2>3. Goto(k, "bans") \/ Goto(k, "evict")
    BY <1>2 DEF Decrement
  <2> QED
    BY <2>1, <2>2, <2>3, GotoInductive DEF Stages
<1>3. CASE ReadBans(k)
  <2> DEFINE op == [ops[k] EXCEPT !.stage = "clear", !.rows = bans[ops[k].user]]
  <2>1. Typed /\ uses' = uses /\ joins' = joins /\ ops[k] # None
    BY <1>3 DEF ReadBans, IInv, TypeOK, Typed, table, history
  <2>2. bans[ops[k].user] \in SUBSET BanIds
    BY <1>0, <2>1 DEF Op, IInv, TypeOK
  <2>3. op \in Op /\ op.kind = ops[k].kind /\ op.uses = ops[k].uses /\ op.stage = "clear"
    BY <1>0, <2>1, <2>2 DEF Op, Stages
  <2>4. ops' = [ops EXCEPT ![k] = op]
    BY <1>3 DEF ReadBans
  <2> HIDE DEF op
  <2> QED
    BY <2>1, <2>3, <2>4, MoveInductive
<1>4. CASE ClearBan(k)
  <2>0. PICK b \in ops[k].rows :
          /\ bans' = [bans EXCEPT ![ops[k].user] = @ \ {b}]
          /\ ops' = [ops EXCEPT ![k].rows = @ \ {b}]
    BY <1>4 DEF ClearBan
  <2> DEFINE op == [ops[k] EXCEPT !.rows = @ \ {b}]
  <2>1. ops[k] # None /\ ops[k].stage = "clear"
    BY <1>4 DEF ClearBan
  <2>2. op \in Op /\ op.kind = ops[k].kind /\ op.uses = ops[k].uses /\ op.stage = "clear"
    BY <1>0, <2>1 DEF Op
  <2>3. ops' = [ops EXCEPT ![k] = op]
    BY <2>0
  <2>4. Typed /\ uses' = uses /\ joins' = joins
    BY <1>4, <2>0 DEF ClearBan, IInv, TypeOK, Typed, history
  <2> HIDE DEF op
  <2> QED
    BY <2>1, <2>2, <2>3, <2>4, MoveInductive
<1>5. CASE InsertBan(k)
  <2>1. Goto(k, "evict") /\ ops[k] # None
    BY <1>5 DEF InsertBan
  <2>2. PICK b \in BanIds : bans' = [bans EXCEPT ![ops[k].user] = @ \cup {b}]
    BY <1>5 DEF InsertBan
  <2>3. bans' \in [Users -> SUBSET BanIds]
    BY <2>2 DEF IInv, TypeOK
  <2>4. Typed /\ uses' = uses /\ joins' = joins
    BY <1>5, <2>3 DEF InsertBan, IInv, TypeOK, Typed, history
  <2> QED
    BY <2>1, <2>4, GotoInductive DEF Stages
<1>6. CASE UnbanEnds(k)
  <2>1. Typed /\ uses' = uses /\ joins' = joins
    BY <1>6 DEF UnbanEnds, IInv, TypeOK, Typed, table, history
  <2> QED
    BY <1>6, <2>1, FinishInductive DEF UnbanEnds
<1>7. CASE Evict(k)
  <2>1. Typed /\ uses' = uses /\ joins' = joins
    BY <1>7 DEF Evict, IInv, TypeOK, Typed, table, history
  <2> QED
    BY <1>7, <2>1, FinishInductive DEF Evict
<1> QED
  BY <1>1, <1>2, <1>3, <1>4, <1>5, <1>6, <1>7

(* Transfers, subscriptions and failures.                                  *)
LEMMA OthersInductive ==
  ASSUME IInv, NEW k \in Ops,
         ReadTarget(k) \/ FlipOwner(k) \/ ChannelsCheckMember(k) \/ AddChannels(k)
           \/ ServerChecksBan(k) \/ AddServer(k) \/ DatabaseFails(k)
  PROVE  IInv'
<1>0. ops[k] # None => ops[k].user \in Users
  BY DEF IInv, TypeOK, Op
<1> USE DEF At
<1>1. ops[k] # None /\ uses' = uses /\ joins' = joins
  BY DEF ReadTarget, FlipOwner, ChannelsCheckMember, AddChannels,
         ServerChecksBan, AddServer, DatabaseFails, table, history
<1>2. CASE ReadTarget(k) \/ ChannelsCheckMember(k) \/ ServerChecksBan(k)
  <2>1. Typed
    BY <1>2 DEF ReadTarget, ChannelsCheckMember, ServerChecksBan,
                IInv, TypeOK, Typed, table, history
  <2>2. \/ Finish(k) \/ Goto(k, "flip") \/ Goto(k, "chFold")
        \/ Goto(k, "srvBan") \/ Goto(k, "srvMember")
    BY <1>2 DEF ReadTarget, ChannelsCheckMember, ServerChecksBan
  <2> QED
    BY <1>1, <2>1, <2>2, FinishInductive, GotoInductive DEF Stages
<1>3. CASE FlipOwner(k) \/ AddServer(k)
  <2>1. Typed
    BY <1>0, <1>1, <1>3 DEF FlipOwner, AddServer, IInv, TypeOK, Typed, table, history
  <2> QED
    BY <1>1, <1>3, <2>1, FinishInductive DEF FlipOwner, AddServer
<1>4. CASE AddChannels(k)
  <2>1. Typed
    BY <1>0, <1>1, <1>4 DEF AddChannels, IInv, TypeOK, Typed, table, history
  <2> QED
    BY <1>1, <1>4, <2>1, GotoInductive DEF AddChannels, Stages
<1>5. CASE DatabaseFails(k)
  <2>1. Typed
    BY <1>0, <1>1, <1>5 DEF DatabaseFails, IInv, TypeOK, Typed, table
  <2> QED
    BY <1>1, <1>5, <2>1, FinishInductive DEF DatabaseFails
<1> QED
  BY <1>2, <1>3, <1>4, <1>5

LEMMA ReconnectInductive ==
  ASSUME IInv, NEW u \in Users, Reconnect(u)
  PROVE  IInv'
<1> USE DEF Reconnect, table, history
<1>1. \A j \in Ops : ops'[j] = None \/ ops'[j] = ops[j]
  OBVIOUS
<1>2. TypeOK'
  BY <1>1 DEF IInv, TypeOK
<1>3. InviteNotOvercharged'
  BY DEF IInv, InviteNotOvercharged
<1>4. ChargesCovered'
  BY <1>1 DEF IInv, ChargesCovered
<1> QED
  BY <1>2, <1>3, <1>4 DEF IInv

LEMMA StepInductive == IInv /\ [Next]_vars => IInv'
<1> SUFFICES ASSUME IInv, [Next]_vars PROVE IInv'
  OBVIOUS
<1>1. CASE \E k \in Ops : Handlers(k)
  <2>1. PICK k \in Ops : Handlers(k)
    BY <1>1
  <2> QED
    BY <2>1, CreateMemberInductive, ChargeInviteInductive, JoinInductive,
       DeleteMemberInductive, RemovalInductive, OthersInductive DEF Handlers
<1>2. CASE \E k \in Ops, u \in Users : Requests(k, u)
  BY <1>2, RequestsInductive
<1>3. CASE \E u \in Users : Reconnect(u)
  BY <1>3, ReconnectInductive
<1>4. CASE UNCHANGED vars
  BY <1>4 DEF vars, table, history, IInv, TypeOK, InviteNotOvercharged, ChargesCovered
<1> QED
  BY <1>1, <1>2, <1>3, <1>4 DEF Next

-----------------------------------------------------------------------------
(* The invariant holds whatever joins, removals, transfers, subscriptions  *)
(* and failures overlap.                                                   *)
THEOREM Inductive == Spec => []IInv
BY InitInductive, StepInductive, PTL DEF Spec

(* Every variable keeps its type: in particular member_count never goes    *)
(* below zero, though two removals may read the same value.                *)
THEOREM TypeCorrect == Spec => []TypeOK
<1>1. IInv => TypeOK
  BY DEF IInv
<1> QED
  BY <1>1, Inductive, PTL

(* joinByInvite never charges an invite for more than the people who       *)
(* joined, nor beyond max_uses, for any number of users and handlers.      *)
THEOREM InviteSafe == Spec => []InviteNotOvercharged
<1>1. IInv => InviteNotOvercharged
  BY DEF IInv
<1> QED
  BY <1>1, Inductive, PTL

-----------------------------------------------------------------------------
(* What holds of a user u while o is the one handler about them (None: no  *)
(* handler is), as long as no two were under way at once: ms are the       *)
(* members, ss the subscribed, bs the bans, and ow is the owner.           *)
Gone == {"dec", "bans", "clear", "evict"}

Local(u, o, ms, ss, bs, ow) ==
  /\ \A a, b \in bs[u] : a = b
  /\ bs[u] # {} => u \notin ms
  /\ u \in ss => u \in ms \/ (o # None /\ o.kind \in Removals /\ o.stage \in Gone)
  /\ ow = u => u \in ms /\ (o = None \/ o.kind \notin Removals)
  /\ o # None =>
       /\ o.kind = "join" /\ o.stage \in {"existing", "create"} => bs[u] = {}
       /\ o.kind \in Removals /\ o.stage \in Gone => u \notin ms
       /\ o.kind \in Removals /\ o.stage = "delete" => o.row
       /\ o.kind \in {"ban", "unban"} /\ o.stage = "clear" => o.rows = bs[u]
       /\ o.kind = "transfer" /\ o.stage = "flip" => u \in ms
       /\ o.kind = "subscribe" /\ o.stage = "chFold" => u \in ms

Now(u, o) == Local(u, o, members, subs, bans, owner)
Then(u, o) == Local(u, o, members', subs', bans', owner')

About(k, u) == ops[k] # None /\ ops[k].user = u

OneByOne ==
  \A u \in Users \ raced :
    /\ \A j, k \in Ops : About(j, u) /\ About(k, u) => j = k
    /\ (\A k \in Ops : ~About(k, u)) => Now(u, None)
    /\ \A k \in Ops : About(k, u) => Now(u, ops[k])

LEMMA BusyAbout == ASSUME NEW u PROVE Busy(u) <=> \E k \in Ops : About(k, u)
BY DEF Busy, Running, About

(* Of a user whose handlers o leaves alone, everything stays as it is.     *)
Elsewhere(u) ==
  \A w \in Users \ {u} :
    /\ w \in members' <=> w \in members
    /\ w \in subs' <=> w \in subs
    /\ bans'[w] = bans[w]
    /\ owner' = w => owner = w

LEMMA ElsewhereKept ==
  ASSUME NEW u, NEW w \in Users \ {u}, Elsewhere(u), NEW o, Now(w, o)
  PROVE  Then(w, o)
BY DEF Elsewhere, Now, Then, Local

(* A handler moves on, and changes no more than what is its user's.        *)
LEMMA LocalStep ==
  ASSUME IInv, OneByOne, raced' = raced,
         NEW k \in Ops, ops[k] # None, NEW op \in Op \cup {None}, ops'[k] = op,
         op # None => op.user = ops[k].user,
         \A j \in Ops \ {k} :
           \/ ops'[j] = ops[j]
           \/ ops[j] # None /\ ops'[j] # None
                /\ ops[j].user = ops[k].user /\ ops'[j].user = ops[k].user,
         Elsewhere(ops[k].user),
         ops[k].user \notin raced /\ Now(ops[k].user, ops[k]) => Then(ops[k].user, op)
  PROVE  OneByOne'
<1>1. SUFFICES ASSUME NEW u \in Users, u \notin raced
               PROVE  /\ \A j, i \in Ops : About(j, u)' /\ About(i, u)' => j = i
                      /\ (\A i \in Ops : ~About(i, u)') => Then(u, None)
                      /\ \A i \in Ops : About(i, u)' => Then(u, ops'[i])
  BY DEF OneByOne, Now, Then
<1>2. /\ \A j, i \in Ops : About(j, u) /\ About(i, u) => j = i
      /\ (\A i \in Ops : ~About(i, u)) => Now(u, None)
      /\ \A i \in Ops : About(i, u) => Now(u, ops[i])
  BY <1>1 DEF OneByOne
<1>3. CASE u = ops[k].user
  <2>1. About(k, u)
    BY <1>3 DEF About
  <2>2. Then(u, op)
    BY <1>1, <1>2, <1>3, <2>1
  <2>3. \A j \in Ops \ {k} : ~About(j, u)'
    BY <1>2, <1>3, <2>1 DEF About
  <2>4. op = None \/ About(k, u)'
    BY <1>3 DEF About
  <2> QED
    BY <2>2, <2>3, <2>4 DEF About
<1>4. CASE u # ops[k].user
  <2>1. \A j \in Ops : (About(j, u)' <=> About(j, u)) /\ (About(j, u) => ops'[j] = ops[j])
    BY <1>4 DEF About
  <2>2. ASSUME NEW o, Now(u, o) PROVE Then(u, o)
    BY <1>1, <1>4, <2>2, ElsewhereKept
  <2> QED
    BY <1>2, <2>1, <2>2
<1> QED
  BY <1>3, <1>4

(* The same for a handler that goes on to another stage, or ends.          *)
LEMMA LocalGoto ==
  ASSUME IInv, OneByOne, raced' = raced, NEW k \in Ops, ops[k] # None,
         NEW stage \in Stages, Goto(k, stage), Elsewhere(ops[k].user),
         ops[k].user \notin raced /\ Now(ops[k].user, ops[k])
           => Then(ops[k].user, [ops[k] EXCEPT !.stage = stage])
  PROVE  OneByOne'
<1> DEFINE op == [ops[k] EXCEPT !.stage = stage]
<1>1. ops[k] \in Op
  BY DEF IInv, TypeOK
<1>2. op \in Op /\ op.user = ops[k].user
  BY <1>1 DEF Op
<1>3. ops'[k] = op /\ \A j \in Ops \ {k} : ops'[j] = ops[j]
  BY DEF Goto, IInv, TypeOK
<1>4. ops[k].user \notin raced /\ Now(ops[k].user, ops[k]) => Then(ops[k].user, op)
  OBVIOUS
<1> HIDE DEF op
<1> QED
  BY <1>2, <1>3, <1>4, LocalStep

LEMMA LocalFinish ==
  ASSUME IInv, OneByOne, raced' = raced, NEW k \in Ops, ops[k] # None,
         Finish(k), Elsewhere(ops[k].user),
         ops[k].user \notin raced /\ Now(ops[k].user, ops[k]) => Then(ops[k].user, None)
  PROVE  OneByOne'
<1>1. ops'[k] = None /\ \A j \in Ops \ {k} : ops'[j] = ops[j]
  BY DEF Finish, IInv, TypeOK
<1> QED
  BY <1>1, LocalStep

LEMMA LocalStart ==
  ASSUME IInv, OneByOne, NEW k \in Ops, NEW op \in Op, NEW about \in SUBSET Users,
         op.user \in about, Start(k, op, about), UNCHANGED <<table, subs>>,
         Now(op.user, None) => Now(op.user, op)
  PROVE  OneByOne'
<1>1. /\ UNCHANGED <<members, owner, bans, subs>>
      /\ ops'[k] = op /\ ops[k] = None /\ \A j \in Ops \ {k} : ops'[j] = ops[j]
      /\ raced' = raced \cup {u \in about : Busy(u)}
  BY DEF table, Start, IInv, TypeOK
<1>2. SUFFICES ASSUME NEW u \in Users, u \notin raced'
               PROVE  /\ \A j, i \in Ops : About(j, u)' /\ About(i, u)' => j = i
                      /\ (\A i \in Ops : ~About(i, u)') => Now(u, None)
                      /\ \A i \in Ops : About(i, u)' => Now(u, ops'[i])
  BY <1>1 DEF OneByOne, Now
<1>3. u \notin raced /\ (u \in about => ~Busy(u))
  BY <1>1, <1>2
<1>4. /\ \A j, i \in Ops : About(j, u) /\ About(i, u) => j = i
      /\ (\A i \in Ops : ~About(i, u)) => Now(u, None)
      /\ \A i \in Ops : About(i, u) => Now(u, ops[i])
  BY <1>3 DEF OneByOne
<1>5. CASE u = op.user
  <2>1. \A i \in Ops : ~About(i, u)
    BY <1>3, <1>5, BusyAbout
  <2>2. Now(u, op)
    BY <1>4, <1>5, <2>1
  <2>3. About(k, u)' /\ \A i \in Ops : About(i, u)' => i = k
    BY <1>1, <1>5, <2>1, MembershipNone DEF About
  <2> QED
    BY <1>1, <2>2, <2>3
<1>6. CASE u # op.user
  <2>1. \A i \in Ops : (About(i, u)' <=> About(i, u)) /\ (About(i, u) => ops'[i] = ops[i])
    BY <1>1, <1>6 DEF About
  <2> QED
    BY <1>4, <2>1
<1> QED
  BY <1>5, <1>6

-----------------------------------------------------------------------------
LEMMA OpType ==
  ASSUME IInv, NEW k \in Ops, ops[k] # None
  PROVE  ops[k] \in Op /\ ops[k].user \in Users /\ ops[k].kind \in Kinds
BY DEF IInv, TypeOK, Op

LEMMA OneInit == Init => OneByOne
BY DEF Init, OneByOne, Now, Local, About

LEMMA OneRequests ==
  ASSUME IInv, OneByOne, NEW k \in Ops, NEW u \in Users, Requests(k, u)
  PROVE  OneByOne'
<1>0. TypeOK
  BY DEF IInv
<1>1. CASE StartJoin(k, u)
  <2> DEFINE op == [Blank("join", u, "ban") EXCEPT !.uses = uses]
  <2>1. op \in Op /\ op.user = u /\ op.kind = "join" /\ op.stage = "ban"
    BY <1>0 DEF Blank, Op, Kinds, Counting, Stages, TypeOK
  <2>2. Start(k, op, {u}) /\ UNCHANGED <<table, subs>>
    BY <1>1 DEF StartJoin
  <2> HIDE DEF op
  <2>3. Now(u, None) => Now(u, op)
    BY <2>1 DEF Now, Local, Removals
  <2> QED
    BY <2>1, <2>2, <2>3, LocalStart
<1>2. ASSUME NEW kind \in Removals, StartRemoval(k, kind, u)
      PROVE  OneByOne'
  <2> DEFINE op == [Blank(kind, u, "member") EXCEPT !.count = count]
  <2>1. op \in Op /\ op.user = u /\ op.kind = kind /\ op.stage = "member"
    BY <1>0 DEF Blank, Op, Kinds, Counting, Removals, Stages, TypeOK
  <2>2. Start(k, op, {u}) /\ UNCHANGED <<table, subs>> /\ owner # u
    BY <1>2 DEF StartRemoval
  <2> HIDE DEF op
  <2>3. Now(u, None) => Now(u, op)
    BY <2>1, <2>2 DEF Now, Local, Removals, Gone
  <2> QED
    BY <2>1, <2>2, <2>3, LocalStart
<1>3. CASE StartUnban(k, u)
  <2> DEFINE op == [Blank("unban", u, "clear") EXCEPT !.rows = bans[u]]
  <2>1. op \in Op /\ op.user = u /\ op.kind = "unban" /\ op.stage = "clear" /\ op.rows = bans[u]
    BY <1>0 DEF Blank, Op, Kinds, Stages, TypeOK
  <2>2. Start(k, op, {u}) /\ UNCHANGED <<table, subs>>
    BY <1>3 DEF StartUnban
  <2> HIDE DEF op
  <2>3. Now(u, None) => Now(u, op)
    BY <2>1 DEF Now, Local, Removals
  <2> QED
    BY <2>1, <2>2, <2>3, LocalStart
<1>4. CASE StartTransfer(k, u)
  <2> DEFINE op == Blank("transfer", u, "target")
  <2>1. op \in Op /\ op.user = u /\ op.kind = "transfer" /\ op.stage = "target"
    BY <1>0 DEF Blank, Op, Kinds, Stages, TypeOK
  <2>2. Start(k, op, {u, owner}) /\ UNCHANGED <<table, subs>> /\ {u, owner} \in SUBSET Users
    BY <1>0, <1>4 DEF StartTransfer, TypeOK
  <2> HIDE DEF op
  <2>3. Now(u, None) => Now(u, op)
    BY <2>1 DEF Now, Local, Removals
  <2> QED
    BY <2>1, <2>2, <2>3, LocalStart
<1>5. CASE StartSubscribe(k, u)
  <2> DEFINE op == Blank("subscribe", u, IF Banned(u) THEN "srvBan" ELSE "chMember")
  <2>1. op \in Op /\ op.user = u /\ op.kind = "subscribe" /\ op.stage # "chFold"
    BY <1>0 DEF Blank, Op, Kinds, Stages, TypeOK
  <2>2. Start(k, op, {u}) /\ UNCHANGED <<table, subs>>
    BY <1>5 DEF StartSubscribe
  <2> HIDE DEF op
  <2>3. Now(u, None) => Now(u, op)
    BY <2>1 DEF Now, Local, Removals
  <2> QED
    BY <2>1, <2>2, <2>3, LocalStart
<1> QED
  BY <1>1, <1>2, <1>3, <1>4, <1>5 DEF Requests

(* Steps that read, and write at most the counters.                        *)
LEMMA OneReads ==
  ASSUME IInv, OneByOne, NEW k \in Ops,
         \/ JoinChecksBan(k) \/ JoinChecksMember(k) \/ ChargeInvite(k)
         \/ JoinWritesCount(k) \/ Decrement(k) \/ UnbanEnds(k) \/ ReadTarget(k)
         \/ ChannelsCheckMember(k) \/ ServerChecksBan(k)
  PROVE  OneByOne'
<1> DEFINE u == ops[k].user
<1> USE DEF At
<1>1. /\ ops[k] # None
      /\ UNCHANGED <<members, owner, bans, subs, raced>>
  BY DEF JoinChecksBan, JoinChecksMember, ChargeInvite, JoinWritesCount,
         Decrement, UnbanEnds, ReadTarget, ChannelsCheckMember, ServerChecksBan,
         table, history
<1>2. ops[k] \in Op /\ u \in Users
  BY <1>1, OpType
<1>3. Elsewhere(u)
  BY <1>1 DEF Elsewhere
<1>4. \A o : Then(u, o) <=> Now(u, o)
  BY <1>1 DEF Now, Then
<1>5. ASSUME NEW stage \in Stages, Goto(k, stage),
             stage = "existing" => ops[k].kind = "join" /\ ~Banned(u),
             stage = "create" => ops[k].kind = "join" /\ ops[k].stage = "existing",
             stage \in {"uses", "count", "inc"} => ops[k].kind = "join",
             stage \in Gone => ops[k].kind \in Removals /\ ops[k].stage \in Gone,
             stage = "flip" => ops[k].kind = "transfer" /\ u \in members,
             stage = "chFold" => ops[k].kind = "subscribe" /\ u \in members,
             stage \notin {"delete", "clear"},
             ops[k].kind \in Removals => stage \in Gone
      PROVE  OneByOne'
  <2> DEFINE op == [ops[k] EXCEPT !.stage = stage]
  <2>1. op.kind = ops[k].kind /\ op.stage = stage /\ op # None
    BY <1>2 DEF Op
  <2>2. Now(u, ops[k]) => Now(u, op)
    <3> HIDE DEF op
    <3> QED
      BY <1>1, <1>2, <1>5, <2>1 DEF Now, Local, Removals, Gone, Banned
  <2> QED
    BY <1>1, <1>3, <1>4, <1>5, <2>2, LocalGoto
<1>6. ASSUME Finish(k), ops[k].kind \notin Removals
      PROVE  OneByOne'
  <2>1. Now(u, ops[k]) => Now(u, None)
    BY <1>1, <1>6 DEF Now, Local
  <2> QED
    BY <1>1, <1>3, <1>4, <1>6, <2>1, LocalFinish
<1>7. CASE JoinChecksBan(k) \/ JoinChecksMember(k) \/ ChargeInvite(k) \/ JoinWritesCount(k)
  BY <1>5, <1>6, <1>7 DEF JoinChecksBan, JoinChecksMember, ChargeInvite, JoinWritesCount,
                          Stages, Gone, Removals
<1>8. CASE Decrement(k)
  BY <1>5, <1>8 DEF Decrement, Stages, Gone, Removals
<1>9. CASE UnbanEnds(k) \/ ReadTarget(k) \/ ChannelsCheckMember(k) \/ ServerChecksBan(k)
  BY <1>5, <1>6, <1>9 DEF UnbanEnds, ReadTarget, ChannelsCheckMember, ServerChecksBan,
                          Stages, Gone, Removals
<1> QED
  BY <1>7, <1>8, <1>9

(* A handler that has read something keeps it in its record.               *)
LEMMA OneKeeps ==
  ASSUME IInv, OneByOne, NEW k \in Ops,
         JoinReadsCount(k) \/ ReadMember(k) \/ ReadBans(k)
  PROVE  OneByOne'
<1> DEFINE u == ops[k].user
<1> USE DEF At
<1>1. ops[k] # None /\ UNCHANGED <<members, owner, bans, subs, raced>>
  BY DEF JoinReadsCount, ReadMember, ReadBans, table, history
<1>2. ops[k] \in Op /\ u \in Users
  BY <1>1, OpType
<1>3. Elsewhere(u)
  BY <1>1 DEF Elsewhere
<1>4. \A o : Then(u, o) <=> Now(u, o)
  BY <1>1 DEF Now, Then
<1>5. ASSUME NEW op \in Op, ops' = [ops EXCEPT ![k] = op], op.user = u,
             Now(u, ops[k]) => Now(u, op)
      PROVE  OneByOne'
  <2>1. ops'[k] = op /\ \A j \in Ops \ {k} : ops'[j] = ops[j]
    BY <1>5 DEF IInv, TypeOK
  <2> QED
    BY <1>1, <1>3, <1>4, <1>5, <2>1, LocalStep
<1>6. CASE JoinReadsCount(k)
  <2> DEFINE op == [ops[k] EXCEPT !.stage = "inc", !.count = count]
  <2>1. op \in Op /\ op.user = u /\ op.kind = "join" /\ op.stage = "inc"
    BY <1>2, <1>6 DEF JoinReadsCount, Op, Stages, IInv, TypeOK
  <2>2. ops' = [ops EXCEPT ![k] = op] /\ ops[k].kind = "join"
    BY <1>6 DEF JoinReadsCount
  <2> HIDE DEF op
  <2>3. Now(u, ops[k]) => Now(u, op)
    BY <1>1, <2>1, <2>2 DEF Now, Local, Removals
  <2> QED
    BY <1>5, <2>1, <2>2, <2>3
<1>7. CASE ReadMember(k)
  <2>1. CASE u \in members
    <3> DEFINE op == [ops[k] EXCEPT !.stage = "delete", !.row = TRUE]
    <3>1. op \in Op /\ op.user = u /\ op.kind = ops[k].kind /\ op.stage = "delete" /\ op.row
      BY <1>2 DEF Op, Stages
    <3>2. ops' = [ops EXCEPT ![k] = op] /\ ops[k].kind \in Removals
      BY <1>7, <2>1 DEF ReadMember
    <3> HIDE DEF op
    <3>3. Now(u, ops[k]) => Now(u, op)
      BY <1>1, <2>1, <3>1, <3>2 DEF Now, Local, Removals, Gone
    <3> QED
      BY <1>5, <3>1, <3>2, <3>3
  <2>2. CASE u \notin members /\ ops[k].kind = "ban"
    <3> DEFINE op == [ops[k] EXCEPT !.stage = "bans"]
    <3>1. op \in Op /\ op.user = u /\ op.kind = "ban" /\ op.stage = "bans"
      BY <1>2, <2>2 DEF Op, Stages
    <3>2. ops' = [ops EXCEPT ![k] = op]
      BY <1>7, <2>2 DEF ReadMember, Goto
    <3> HIDE DEF op
    <3>3. Now(u, ops[k]) => Now(u, op)
      BY <1>1, <2>2, <3>1 DEF Now, Local, Removals, Gone
    <3> QED
      BY <1>5, <3>1, <3>2, <3>3
  <2>3. CASE u \notin members /\ ops[k].kind # "ban"
    <3>1. Finish(k) /\ ops[k].kind \in Removals /\ ops[k].stage = "member"
      BY <1>7, <2>3 DEF ReadMember
    <3>2. Now(u, ops[k]) => Now(u, None)
      BY <1>1, <2>3, <3>1 DEF Now, Local, Gone
    <3> QED
      BY <1>1, <1>3, <1>4, <3>1, <3>2, LocalFinish
  <2> QED
    BY <2>1, <2>2, <2>3
<1>8. CASE ReadBans(k)
  <2> DEFINE op == [ops[k] EXCEPT !.stage = "clear", !.rows = bans[u]]
  <2>1. op \in Op /\ op.user = u /\ op.kind = "ban" /\ op.stage = "clear" /\ op.rows = bans[u]
    BY <1>2, <1>8 DEF ReadBans, Op, Stages, IInv, TypeOK
  <2>2. ops' = [ops EXCEPT ![k] = op] /\ ops[k].kind = "ban" /\ ops[k].stage = "bans"
    BY <1>8 DEF ReadBans
  <2> HIDE DEF op
  <2>3. Now(u, ops[k]) => Now(u, op)
    BY <1>1, <2>1, <2>2 DEF Now, Local, Removals, Gone
  <2> QED
    BY <1>5, <2>1, <2>2, <2>3
<1> QED
  BY <1>6, <1>7, <1>8

(* The steps that write the member rows and the bans.                      *)
LEMMA OneWrites ==
  ASSUME IInv, OneByOne, NEW k \in Ops,
         CreateMember(k) \/ DeleteMember(k) \/ ClearBan(k) \/ InsertBan(k)
  PROVE  OneByOne'
<1> DEFINE u == ops[k].user
<1> USE DEF At
<1>1. ops[k] # None /\ UNCHANGED <<owner, subs, raced>>
  BY DEF CreateMember, DeleteMember, ClearBan, InsertBan, history
<1>2. ops[k] \in Op /\ u \in Users
  BY <1>1, OpType
<1>3. CASE CreateMember(k)
  <2>1. CASE u \in members
    <3>1. Finish(k) /\ UNCHANGED members /\ UNCHANGED bans /\ ops[k].kind = "join"
      BY <1>3, <2>1 DEF CreateMember
    <3>2. Elsewhere(u)
      BY <1>1, <3>1 DEF Elsewhere
    <3>3. Now(u, ops[k]) => Then(u, None)
      BY <1>1, <3>1 DEF Now, Then, Local, Removals
    <3> QED
      BY <1>1, <3>1, <3>2, <3>3, LocalFinish
  <2>2. CASE u \notin members
    <3> DEFINE op == [ops[k] EXCEPT !.stage = "uses"]
    <3>1. /\ members' = members \cup {u} /\ UNCHANGED bans /\ Goto(k, "uses")
          /\ ops[k].kind = "join" /\ ops[k].stage = "create"
      BY <1>3, <2>2 DEF CreateMember
    <3>2. op \in Op /\ op.kind = "join" /\ op.stage = "uses"
      BY <1>2, <3>1 DEF Op, Stages
    <3>3. Elsewhere(u)
      BY <1>1, <3>1 DEF Elsewhere
    <3>4. ASSUME Now(u, ops[k]) PROVE Then(u, op)
      <4> HIDE DEF op
      <4>1. bans'[u] = {} /\ u \in members' /\ op.kind \notin Removals
        BY <1>1, <3>1, <3>2, <3>4 DEF Now, Local, Removals
      <4> QED
        BY <3>2, <4>1 DEF Then, Local
    <3> QED
      BY <1>1, <3>1, <3>3, <3>4, LocalGoto DEF Stages
  <2> QED
    BY <2>1, <2>2
<1>4. CASE DeleteMember(k)
  <2> DEFINE op == [ops[k] EXCEPT !.stage = "dec"]
  <2>1. /\ members' = IF ops[k].row THEN members \ {u} ELSE members
        /\ UNCHANGED bans /\ ops[k].kind \in Removals /\ ops[k].stage = "delete"
    BY <1>4 DEF DeleteMember
  <2>2. op \in Op /\ op.user = u /\ op.kind = ops[k].kind /\ op.stage = "dec"
    BY <1>2 DEF Op, Stages
  <2>3. ops'[k] = op
    BY <1>4 DEF DeleteMember
  <2>4. ASSUME NEW j \in Ops \ {k}
        PROVE  \/ ops'[j] = ops[j]
               \/ ops[j] # None /\ ops'[j] # None /\ ops[j].user = u /\ ops'[j].user = u
    <3>1. CASE ops[j] # None /\ ops[j].user = u
      <4>1. ops'[j] = [ops[j] EXCEPT !.row = FALSE]
        BY <1>4, <3>1 DEF DeleteMember
      <4>2. ops[j] \in Op
        BY <3>1, OpType
      <4>3. ops'[j] \in Op /\ ops'[j].user = u
        BY <3>1, <4>1, <4>2 DEF Op
      <4> QED
        BY <3>1, <4>3
    <3>2. CASE ~(ops[j] # None /\ ops[j].user = u)
      BY <1>4, <3>2 DEF DeleteMember
    <3> QED
      BY <3>1, <3>2
  <2>5. Elsewhere(u)
    BY <1>1, <2>1 DEF Elsewhere
  <2> HIDE DEF op
  <2>6. Now(u, ops[k]) => Then(u, op)
    BY <1>1, <2>1, <2>2 DEF Now, Then, Local, Removals, Gone
  <2> QED
    BY <1>1, <2>2, <2>3, <2>4, <2>5, <2>6, LocalStep
<1>5. CASE ClearBan(k)
  <2>1. PICK b \in ops[k].rows :
          /\ bans' = [bans EXCEPT ![u] = @ \ {b}]
          /\ ops' = [ops EXCEPT ![k].rows = @ \ {b}]
    BY <1>5 DEF ClearBan
  <2> DEFINE op == [ops[k] EXCEPT !.rows = @ \ {b}]
  <2>2. UNCHANGED members /\ ops[k].kind \in {"ban", "unban"} /\ ops[k].stage = "clear"
    BY <1>5 DEF ClearBan
  <2>3. op \in Op /\ op.user = u /\ op.kind = ops[k].kind /\ op.stage = "clear"
        /\ op.rows = ops[k].rows \ {b}
    BY <1>2, <2>2 DEF Op
  <2>4. ops'[k] = op /\ \A j \in Ops \ {k} : ops'[j] = ops[j]
    BY <2>1 DEF IInv, TypeOK
  <2>5. bans'[u] = bans[u] \ {b} /\ \A w \in Users \ {u} : bans'[w] = bans[w]
    BY <1>2, <2>1 DEF IInv, TypeOK
  <2>6. Elsewhere(u)
    BY <1>1, <2>2, <2>5 DEF Elsewhere
  <2> HIDE DEF op
  <2>7. Now(u, ops[k]) => Then(u, op)
    BY <1>1, <2>2, <2>3, <2>5 DEF Now, Then, Local, Removals, Gone
  <2> QED
    BY <1>1, <2>3, <2>4, <2>6, <2>7, LocalStep
<1>6. CASE InsertBan(k)
  <2> DEFINE op == [ops[k] EXCEPT !.stage = "evict"]
  <2>1. PICK b \in BanIds : bans' = [bans EXCEPT ![u] = @ \cup {b}]
    BY <1>6 DEF InsertBan
  <2>2. /\ UNCHANGED members /\ ops[k].kind = "ban" /\ ops[k].stage = "clear"
        /\ ops[k].rows = {} /\ Goto(k, "evict")
    BY <1>6 DEF InsertBan
  <2>3. bans'[u] = bans[u] \cup {b} /\ \A w \in Users \ {u} : bans'[w] = bans[w]
    BY <1>2, <2>1 DEF IInv, TypeOK
  <2>4. op \in Op /\ op.kind = "ban" /\ op.stage = "evict"
    BY <1>2, <2>2 DEF Op, Stages
  <2>5. Elsewhere(u)
    BY <1>1, <2>2, <2>3 DEF Elsewhere
  <2>6. ASSUME Now(u, ops[k]) PROVE Then(u, op)
    <3> HIDE DEF op
    <3>1. bans[u] = {} /\ u \notin members
      BY <1>1, <2>2, <2>6 DEF Now, Local, Removals, Gone
    <3>2. bans'[u] = {b} /\ u \notin members' /\ owner' # u
      BY <1>1, <2>2, <2>3, <2>6, <3>1 DEF Now, Local
    <3> QED
      BY <2>4, <3>2 DEF Then, Local, Removals, Gone
  <2> QED
    BY <1>1, <2>2, <2>5, <2>6, LocalGoto DEF Stages
<1> QED
  BY <1>3, <1>4, <1>5, <1>6

(* The steps that write the topics and the owner.                          *)
LEMMA OneTopics ==
  ASSUME IInv, OneByOne, NEW k \in Ops,
         Evict(k) \/ FlipOwner(k) \/ AddChannels(k) \/ AddServer(k)
  PROVE  OneByOne'
<1> DEFINE u == ops[k].user
<1> USE DEF At
<1>1. ops[k] # None /\ UNCHANGED <<members, bans, raced>>
  BY DEF Evict, FlipOwner, AddChannels, AddServer, table, history
<1>2. ops[k] \in Op /\ u \in Users
  BY <1>1, OpType
<1>3. CASE Evict(k)
  <2>1. /\ subs' = subs \ {u} /\ UNCHANGED owner /\ Finish(k)
        /\ ops[k].kind \in Removals /\ ops[k].stage = "evict"
    BY <1>3 DEF Evict, table
  <2>2. Elsewhere(u)
    BY <1>1, <2>1 DEF Elsewhere
  <2>3. Now(u, ops[k]) => Then(u, None)
    BY <1>1, <2>1 DEF Now, Then, Local, Removals, Gone
  <2> QED
    BY <1>1, <2>1, <2>2, <2>3, LocalFinish
<1>4. CASE FlipOwner(k)
  <2>1. /\ owner' = u /\ UNCHANGED subs /\ Finish(k)
        /\ ops[k].kind = "transfer" /\ ops[k].stage = "flip"
    BY <1>4 DEF FlipOwner
  <2>2. Elsewhere(u)
    BY <1>1, <2>1 DEF Elsewhere
  <2>3. Now(u, ops[k]) => Then(u, None)
    BY <1>1, <2>1 DEF Now, Then, Local, Removals, Gone
  <2> QED
    BY <1>1, <2>1, <2>2, <2>3, LocalFinish
<1>5. CASE AddChannels(k)
  <2> DEFINE op == [ops[k] EXCEPT !.stage = "srvBan"]
  <2>1. /\ subs' = subs \cup {u} /\ UNCHANGED owner /\ Goto(k, "srvBan")
        /\ ops[k].kind = "subscribe" /\ ops[k].stage = "chFold"
    BY <1>5 DEF AddChannels, table
  <2>2. Elsewhere(u)
    BY <1>1, <2>1 DEF Elsewhere
  <2>3. op \in Op /\ op.kind = "subscribe" /\ op.stage = "srvBan"
    BY <1>2, <2>1 DEF Op, Stages
  <2>4. ASSUME Now(u, ops[k]) PROVE Then(u, op)
    <3> HIDE DEF op
    <3>1. u \in members' /\ UNCHANGED bans /\ UNCHANGED owner
      BY <1>1, <2>1, <2>4 DEF Now, Local
    <3>2. op.kind \notin Removals /\ bans[u] = {}
      BY <1>1, <2>3, <2>4, <3>1 DEF Now, Local, Removals
    <3> QED
      BY <1>1, <2>3, <3>1, <3>2 DEF Then, Local
  <2> QED
    BY <1>1, <2>1, <2>2, <2>4, LocalGoto DEF Stages
<1>6. CASE AddServer(k)
  <2>1. /\ subs' = IF u \in members THEN subs \cup {u} ELSE subs
        /\ UNCHANGED owner /\ Finish(k) /\ ops[k].kind = "subscribe"
    BY <1>6 DEF AddServer, table
  <2>2. Elsewhere(u)
    BY <1>1, <2>1 DEF Elsewhere
  <2>3. Now(u, ops[k]) => Then(u, None)
    BY <1>1, <2>1 DEF Now, Then, Local, Removals
  <2> QED
    BY <1>1, <2>1, <2>2, <2>3, LocalFinish
<1> QED
  BY <1>3, <1>4, <1>5, <1>6

(* A handler that fails is held against its user; a new connection drops   *)
(* topics and the frames of the old one.                                   *)
LEMMA OneFails ==
  ASSUME IInv, OneByOne, NEW k \in Ops, DatabaseFails(k)
  PROVE  OneByOne'
<1>1. /\ ops[k] # None /\ UNCHANGED <<members, owner, bans, subs>>
      /\ ops'[k] = None /\ \A j \in Ops \ {k} : ops'[j] = ops[j]
      /\ raced' = raced \cup {ops[k].user}
  BY DEF DatabaseFails, Finish, table, IInv, TypeOK
<1>2. SUFFICES ASSUME NEW u \in Users \ raced'
               PROVE  /\ \A j, i \in Ops : About(j, u)' /\ About(i, u)' => j = i
                      /\ (\A i \in Ops : ~About(i, u)') => Now(u, None)
                      /\ \A i \in Ops : About(i, u)' => Now(u, ops'[i])
  BY <1>1 DEF OneByOne, Now
<1>3. u \in Users \ raced /\ u # ops[k].user
  BY <1>1
<1>4. \A j \in Ops : (About(j, u)' <=> About(j, u)) /\ (About(j, u) => ops'[j] = ops[j])
  BY <1>1, <1>3 DEF About
<1> QED
  BY <1>3, <1>4 DEF OneByOne

LEMMA OneReconnect ==
  ASSUME IInv, OneByOne, NEW w \in Users, Reconnect(w)
  PROVE  OneByOne'
<1>1. /\ UNCHANGED <<members, owner, bans, raced>> /\ subs' = subs \ {w}
      /\ \A j \in Ops :
           \/ ops'[j] = ops[j]
           \/ /\ ops[j] # None /\ ops[j].kind = "subscribe"
              /\ ops[j].user = w /\ ops'[j] = None
  BY DEF Reconnect, table, history
<1>2. SUFFICES ASSUME NEW u \in Users \ raced
               PROVE  /\ \A j, i \in Ops : About(j, u)' /\ About(i, u)' => j = i
                      /\ (\A i \in Ops : ~About(i, u)') => Then(u, None)
                      /\ \A i \in Ops : About(i, u)' => Then(u, ops'[i])
  BY <1>1 DEF OneByOne, Now, Then
<1>3. /\ \A j, i \in Ops : About(j, u) /\ About(i, u) => j = i
      /\ (\A i \in Ops : ~About(i, u)) => Now(u, None)
      /\ \A i \in Ops : About(i, u) => Now(u, ops[i])
  BY DEF OneByOne
<1>4. \A i \in Ops : About(i, u)' => About(i, u) /\ ops'[i] = ops[i]
  BY <1>1 DEF About
<1>5. ASSUME NEW o, Now(u, o) PROVE Then(u, o)
  BY <1>1, <1>5 DEF Now, Then, Local
<1>6. ASSUME \A i \in Ops : ~About(i, u)' PROVE Then(u, None)
  <2>1. CASE \A i \in Ops : ~About(i, u)
    BY <1>3, <1>5, <2>1
  <2>2. ASSUME NEW i \in Ops, About(i, u) PROVE Then(u, None)
    <3>1. ops[i] # None /\ ops[i].kind = "subscribe" /\ Now(u, ops[i])
      BY <1>1, <1>3, <1>6, <2>2 DEF About
    <3>2. Now(u, None)
      BY <3>1 DEF Now, Local, Removals
    <3> QED
      BY <1>5, <3>2
  <2> QED
    BY <2>1, <2>2
<1> QED
  BY <1>3, <1>4, <1>5, <1>6

LEMMA OneStep == IInv /\ OneByOne /\ [Next]_vars => OneByOne'
<1> SUFFICES ASSUME IInv, OneByOne, [Next]_vars PROVE OneByOne'
  OBVIOUS
<1>1. ASSUME NEW k \in Ops, Handlers(k) PROVE OneByOne'
  BY <1>1, OneReads, OneKeeps, OneWrites, OneTopics, OneFails DEF Handlers
<1>2. ASSUME NEW k \in Ops, NEW u \in Users, Requests(k, u) PROVE OneByOne'
  BY <1>2, OneRequests
<1>3. ASSUME NEW u \in Users, Reconnect(u) PROVE OneByOne'
  BY <1>3, OneReconnect
<1>4. CASE UNCHANGED vars
  BY <1>4 DEF vars, table, history, OneByOne, Now, About
<1> QED
  BY <1>1, <1>2, <1>3, <1>4 DEF Next

(* What two overlapping handlers could spoil is known for every user whose *)
(* handlers ran one after another.                                         *)
LEMMA OneInductive == Spec => []OneByOne
<1>1. Spec => []IInv
  BY Inductive
<1> QED
  BY <1>1, OneInit, OneStep, PTL DEF Spec

LEMMA SettledNow ==
  ASSUME OneByOne, NEW u \in Users, Settled(u)
  PROVE  Now(u, None)
BY BusyAbout DEF Settled, OneByOne

(* leave, kick, ban, unban, join and subscribe, one after another for a    *)
(* user, leave nobody subscribed who is not a member, no member banned,    *)
(* and no ban behind that an unban did not see, whatever the handlers      *)
(* about other users do in between.                                        *)
THEOREM RemovalSafe == Spec => []SerialRemoval
<1>1. ASSUME OneByOne, TypeOK PROVE SerialRemoval
  <2> SUFFICES ASSUME NEW u \in Users, Settled(u)
               PROVE  /\ u \notin members => u \notin subs
                      /\ Banned(u) => u \notin members
                      /\ Cardinality(bans[u]) <= 1
    BY DEF SerialRemoval
  <2>1. Now(u, None)
    BY <1>1, SettledNow
  <2>2. Cardinality(bans[u]) <= 1
    <3>1. CASE bans[u] = {}
      BY <3>1, FS_EmptySet
    <3>2. ASSUME NEW b \in bans[u] PROVE Cardinality(bans[u]) <= 1
      <4>1. bans[u] = {b}
        BY <2>1 DEF Now, Local
      <4> QED
        BY <4>1, FS_Singleton
    <3> QED
      BY <3>1, <3>2
  <2> QED
    BY <2>1, <2>2 DEF Now, Local, Banned
<1> QED
  BY <1>1, OneInductive, TypeCorrect, PTL

(* transferOwnership, with nothing about the old or the new owner under    *)
(* way, never leaves a server whose owner is not a member.                 *)
THEOREM OwnerSafe == Spec => []SerialOwner
<1>1. ASSUME OneByOne, TypeOK PROVE SerialOwner
  BY <1>1, SettledNow DEF SerialOwner, TypeOK, Now, Local
<1> QED
  BY <1>1, OneInductive, TypeCorrect, PTL

-----------------------------------------------------------------------------
(* The count of members while o is the one handler that counts (None: no   *)
(* handler does), as long as no two of them overlapped: c is member_count  *)
(* and ms are the members.                                                 *)
Tally(o, c, ms) ==
  IF o = None THEN c = Cardinality(ms)
  ELSE IF o.kind = "join" THEN
    /\ o.stage \in {"ban", "existing", "create"} => c = Cardinality(ms)
    /\ o.stage \in {"uses", "count", "inc"} => c + 1 = Cardinality(ms)
    /\ o.stage = "inc" => o.count = c
  ELSE
    /\ o.stage \in {"member", "delete"} => c = Cardinality(ms) /\ o.count = c
    /\ o.stage = "delete" => o.row /\ o.user \in ms
    /\ o.stage = "dec" => c = Cardinality(ms) + 1 /\ o.count = c
    /\ o.stage \in {"bans", "clear", "evict"} => c = Cardinality(ms)

Counts(k) == ops[k] # None /\ ops[k].kind \in Counting

OneCounter ==
  ~drift =>
    /\ \A j, k \in Ops : Counts(j) /\ Counts(k) => j = k
    /\ (\A k \in Ops : ~Counts(k)) => Tally(None, count, members)
    /\ \A k \in Ops : Counts(k) => Tally(ops[k], count, members)

(* The handler that counts moves on, or ends; no other takes up counting.  *)
LEMMA CountMove ==
  ASSUME IInv, OneCounter, drift' = drift,
         NEW k \in Ops, Counts(k), NEW op \in Op \cup {None}, ops'[k] = op,
         op # None => op.kind = ops[k].kind,
         \A j \in Ops \ {k} : Counts(j)' => Counts(j),
         ~drift /\ Tally(ops[k], count, members) => Tally(op, count', members')
  PROVE  OneCounter'
<1>1. SUFFICES ASSUME ~drift
               PROVE  /\ \A j, i \in Ops : Counts(j)' /\ Counts(i)' => j = i
                      /\ (\A i \in Ops : ~Counts(i)') => Tally(None, count', members')
                      /\ \A i \in Ops : Counts(i)' => Tally(ops'[i], count', members')
  BY DEF OneCounter
<1>2. \A i \in Ops : Counts(i) => i = k
  BY <1>1 DEF OneCounter
<1>3. Tally(op, count', members')
  BY <1>1 DEF OneCounter
<1>4. \A i \in Ops : Counts(i)' => i = k
  BY <1>2
<1>5. op # None => Counts(k)'
  BY DEF Counts
<1> QED
  BY <1>3, <1>4, <1>5

(* A step of a handler that does not count.                                *)
LEMMA CountOther ==
  ASSUME OneCounter, drift' = drift, UNCHANGED <<count, members>>,
         \A j \in Ops : \/ ops'[j] = ops[j]
                        \/ ~Counts(j) /\ ~Counts(j)'
  PROVE  OneCounter'
<1>1. \A j \in Ops : (Counts(j)' <=> Counts(j)) /\ (Counts(j) => ops'[j] = ops[j])
  BY DEF Counts
<1>2. SUFFICES ASSUME ~drift
               PROVE  /\ \A j, i \in Ops : Counts(j)' /\ Counts(i)' => j = i
                      /\ (\A i \in Ops : ~Counts(i)') => Tally(None, count, members)
                      /\ \A i \in Ops : Counts(i)' => Tally(ops'[i], count, members)
  BY DEF OneCounter
<1> QED
  BY <1>1, <1>2 DEF OneCounter

LEMMA CountStart ==
  ASSUME IInv, OneCounter, NEW k \in Ops, NEW op \in Op, NEW about,
         Start(k, op, about), UNCHANGED <<count, members>>,
         op.kind \in Counting /\ Tally(None, count, members) => Tally(op, count, members)
  PROVE  OneCounter'
<1>1. /\ ops'[k] = op /\ ops[k] = None /\ \A j \in Ops \ {k} : ops'[j] = ops[j]
      /\ drift' = (drift \/ (op.kind \in Counting /\ \E j \in Ops : Counts(j)))
  BY DEF Start, IInv, TypeOK, Running, Counts
<1>2. CASE op.kind \notin Counting
  <2>1. drift' = drift
    BY <1>1, <1>2 DEF IInv, TypeOK
  <2>2. ~Counts(k) /\ ~Counts(k)'
    BY <1>1, <1>2 DEF Counts
  <2> QED
    BY <1>1, <2>1, <2>2, CountOther
<1>3. CASE op.kind \in Counting
  <2>1. SUFFICES ASSUME ~drift'
                 PROVE  /\ \A j, i \in Ops : Counts(j)' /\ Counts(i)' => j = i
                        /\ (\A i \in Ops : ~Counts(i)') => Tally(None, count, members)
                        /\ \A i \in Ops : Counts(i)' => Tally(ops'[i], count, members)
    BY DEF OneCounter
  <2>2. ~drift /\ \A j \in Ops : ~Counts(j)
    BY <1>1, <1>3, <2>1
  <2>3. Tally(op, count, members)
    BY <1>3, <2>2 DEF OneCounter
  <2>4. Counts(k)' /\ \A i \in Ops : Counts(i)' => i = k
    BY <1>1, <1>3, <2>2 DEF Counts
  <2> QED
    BY <1>1, <2>3, <2>4
<1> QED
  BY <1>2, <1>3

LEMMA CountKeep ==
  ASSUME IInv, OneCounter, drift' = drift, UNCHANGED <<count, members>>,
         NEW k \in Ops, ops[k] # None, NEW op \in Op \cup {None},
         ops' = [ops EXCEPT ![k] = op],
         op # None => op.kind = ops[k].kind,
         Counts(k) /\ Tally(ops[k], count, members) => Tally(op, count, members)
  PROVE  OneCounter'
<1>1. ops'[k] = op /\ \A j \in Ops \ {k} : ops'[j] = ops[j]
  BY DEF IInv, TypeOK
<1>2. CASE Counts(k)
  <2>1. \A j \in Ops \ {k} : Counts(j)' => Counts(j)
    BY <1>1 DEF Counts
  <2> QED
    BY <1>1, <1>2, <2>1, CountMove
<1>3. CASE ~Counts(k)
  <2>1. ~Counts(k)'
    BY <1>1, <1>3 DEF Counts
  <2> QED
    BY <1>1, <1>3, <2>1, CountOther
<1> QED
  BY <1>2, <1>3

LEMMA CountInit == Init => OneCounter
<1> SUFFICES ASSUME Init PROVE OneCounter
  OBVIOUS
<1>1. Cardinality(members) = 1
  BY FS_Singleton DEF Init
<1> QED
  BY <1>1 DEF Init, OneCounter, Tally, Counts

LEMMA CountRequests ==
  ASSUME IInv, OneCounter, NEW k \in Ops, NEW u \in Users, Requests(k, u)
  PROVE  OneCounter'
<1>0. TypeOK
  BY DEF IInv
<1>1. CASE StartJoin(k, u)
  <2> DEFINE op == [Blank("join", u, "ban") EXCEPT !.uses = uses]
  <2>1. op \in Op /\ op.kind = "join" /\ op.stage = "ban"
    BY <1>0 DEF Blank, Op, Kinds, Counting, Stages, TypeOK
  <2>2. Start(k, op, {u}) /\ UNCHANGED <<count, members>>
    BY <1>1 DEF StartJoin, table
  <2> HIDE DEF op
  <2>3. Tally(None, count, members) => Tally(op, count, members)
    BY <2>1 DEF Tally
  <2> QED
    BY <2>1, <2>2, <2>3, CountStart
<1>2. ASSUME NEW kind \in Removals, StartRemoval(k, kind, u)
      PROVE  OneCounter'
  <2> DEFINE op == [Blank(kind, u, "member") EXCEPT !.count = count]
  <2>1. op \in Op /\ op.kind \in Removals /\ op.stage = "member" /\ op.count = count
    BY <1>0 DEF Blank, Op, Kinds, Counting, Removals, Stages, TypeOK
  <2>2. Start(k, op, {u}) /\ UNCHANGED <<count, members>>
    BY <1>2 DEF StartRemoval, table
  <2> HIDE DEF op
  <2>3. Tally(None, count, members) => Tally(op, count, members)
    BY <2>1 DEF Tally, Removals
  <2> QED
    BY <2>1, <2>2, <2>3, CountStart
<1>3. CASE StartUnban(k, u)
  <2> DEFINE op == [Blank("unban", u, "clear") EXCEPT !.rows = bans[u]]
  <2>1. op \in Op /\ op.kind = "unban"
    BY <1>0 DEF Blank, Op, Kinds, Stages, TypeOK
  <2>2. Start(k, op, {u}) /\ UNCHANGED <<count, members>>
    BY <1>3 DEF StartUnban, table
  <2> HIDE DEF op
  <2> QED
    BY <2>1, <2>2, CountStart DEF Counting, Removals
<1>4. CASE StartTransfer(k, u)
  <2> DEFINE op == Blank("transfer", u, "target")
  <2>1. op \in Op /\ op.kind = "transfer"
    BY <1>0 DEF Blank, Op, Kinds, Stages, TypeOK
  <2>2. Start(k, op, {u, owner}) /\ UNCHANGED <<count, members>>
    BY <1>4 DEF StartTransfer, table
  <2> HIDE DEF op
  <2> QED
    BY <2>1, <2>2, CountStart DEF Counting, Removals
<1>5. CASE StartSubscribe(k, u)
  <2> DEFINE op == Blank("subscribe", u, IF Banned(u) THEN "srvBan" ELSE "chMember")
  <2>1. op \in Op /\ op.kind = "subscribe"
    BY <1>0 DEF Blank, Op, Kinds, Stages, TypeOK
  <2>2. Start(k, op, {u}) /\ UNCHANGED <<count, members>>
    BY <1>5 DEF StartSubscribe, table
  <2> HIDE DEF op
  <2> QED
    BY <2>1, <2>2, CountStart DEF Counting, Removals
<1> QED
  BY <1>1, <1>2, <1>3, <1>4, <1>5 DEF Requests

(* Steps that write neither the member rows nor the count.                 *)
LEMMA CountReads ==
  ASSUME IInv, OneCounter, NEW k \in Ops,
         \/ JoinChecksBan(k) \/ JoinChecksMember(k) \/ ChargeInvite(k)
         \/ JoinReadsCount(k) \/ ReadMember(k) \/ ReadBans(k) \/ ClearBan(k)
         \/ InsertBan(k) \/ UnbanEnds(k) \/ Evict(k) \/ ReadTarget(k) \/ FlipOwner(k)
         \/ ChannelsCheckMember(k) \/ AddChannels(k) \/ ServerChecksBan(k) \/ AddServer(k)
  PROVE  OneCounter'
<1> USE DEF At
<1>1. ops[k] # None /\ UNCHANGED <<count, members, drift>>
  BY DEF JoinChecksBan, JoinChecksMember, ChargeInvite, JoinReadsCount, ReadMember,
         ReadBans, ClearBan, InsertBan, UnbanEnds, Evict, ReadTarget, FlipOwner,
         ChannelsCheckMember, AddChannels, ServerChecksBan, AddServer, table, history
<1>2. ops[k] \in Op /\ TypeOK
  BY <1>1, OpType DEF IInv
<1>3. ASSUME NEW stage \in Stages, Goto(k, stage),
             stage \in {"existing", "create"} => ops[k].kind = "join"
                                                /\ ops[k].stage \in {"ban", "existing"},
             stage = "count" => ops[k].kind = "join" /\ ops[k].stage = "uses",
             stage \in {"bans", "evict"} => ops[k].kind \in Removals
                                           /\ ops[k].stage \in {"member", "clear"},
             stage \in {"flip", "chFold", "srvBan", "srvMember"} => ~Counts(k),
             stage \in {"existing", "create", "count", "bans", "evict",
                       "flip", "chFold", "srvBan", "srvMember"}
      PROVE  OneCounter'
  <2> DEFINE op == [ops[k] EXCEPT !.stage = stage]
  <2>1. op \in Op /\ op.kind = ops[k].kind /\ op.stage = stage
    BY <1>2 DEF Op
  <2>2. ops' = [ops EXCEPT ![k] = op]
    BY <1>2, <1>3 DEF Goto, TypeOK
  <2> HIDE DEF op
  <2>3. Counts(k) /\ Tally(ops[k], count, members) => Tally(op, count, members)
    BY <1>1, <1>3, <2>1 DEF Tally, Removals
  <2> QED
    BY <1>1, <2>1, <2>2, <2>3, CountKeep
<1>4. ASSUME Finish(k),
             \/ ~Counts(k)
             \/ ops[k].kind = "join" /\ ops[k].stage \in {"ban", "existing", "create"}
             \/ ops[k].kind \in Removals /\ ops[k].stage \in {"member", "evict"}
      PROVE  OneCounter'
  <2>1. Counts(k) /\ Tally(ops[k], count, members) => Tally(None, count, members)
    BY <1>1, <1>4 DEF Tally, Removals
  <2> QED
    BY <1>1, <1>4, <2>1, CountKeep DEF Finish
<1>5. CASE JoinChecksBan(k) \/ JoinChecksMember(k) \/ ChargeInvite(k)
  <2>1. CASE JoinChecksBan(k)
    BY <1>3, <1>4, <2>1 DEF JoinChecksBan, Stages
  <2>2. CASE JoinChecksMember(k)
    BY <1>3, <1>4, <2>2 DEF JoinChecksMember, Stages
  <2>3. CASE ChargeInvite(k)
    BY <1>3, <2>3 DEF ChargeInvite, Stages
  <2> QED
    BY <1>5, <2>1, <2>2, <2>3
<1>6. CASE JoinReadsCount(k)
  <2> DEFINE op == [ops[k] EXCEPT !.stage = "inc", !.count = count]
  <2>1. op \in Op /\ op.kind = "join" /\ op.stage = "inc" /\ op.count = count
    BY <1>2, <1>6 DEF JoinReadsCount, Op, Stages, TypeOK
  <2>2. ops' = [ops EXCEPT ![k] = op] /\ ops[k].kind = "join" /\ ops[k].stage = "count"
    BY <1>6 DEF JoinReadsCount
  <2> HIDE DEF op
  <2>3. Tally(ops[k], count, members) => Tally(op, count, members)
    BY <1>1, <2>1, <2>2 DEF Tally
  <2> QED
    BY <1>1, <2>1, <2>2, <2>3, CountKeep
<1>7. CASE ReadMember(k)
  <2>1. CASE ops[k].user \in members
    <3> DEFINE op == [ops[k] EXCEPT !.stage = "delete", !.row = TRUE]
    <3>1. op \in Op /\ op.kind = ops[k].kind /\ op.stage = "delete" /\ op.row
          /\ op.user = ops[k].user /\ op.count = ops[k].count
      BY <1>2 DEF Op, Stages
    <3>2. ops' = [ops EXCEPT ![k] = op] /\ ops[k].kind \in Removals /\ ops[k].stage = "member"
      BY <1>7, <2>1 DEF ReadMember
    <3> HIDE DEF op
    <3>3. Tally(ops[k], count, members) => Tally(op, count, members)
      BY <1>1, <2>1, <3>1, <3>2 DEF Tally, Removals
    <3> QED
      BY <1>1, <3>1, <3>2, <3>3, CountKeep
  <2>2. CASE ops[k].user \notin members
    BY <1>3, <1>4, <1>7, <2>2 DEF ReadMember, Stages, Removals
  <2> QED
    BY <2>1, <2>2
<1>8. CASE ReadBans(k)
  <2> DEFINE op == [ops[k] EXCEPT !.stage = "clear", !.rows = bans[ops[k].user]]
  <2>1. op \in Op /\ op.kind = "ban" /\ op.stage = "clear"
    BY <1>2, <1>8 DEF ReadBans, Op, Stages, TypeOK
  <2>2. ops' = [ops EXCEPT ![k] = op] /\ ops[k].kind = "ban" /\ ops[k].stage = "bans"
    BY <1>8 DEF ReadBans
  <2> HIDE DEF op
  <2>3. Tally(ops[k], count, members) => Tally(op, count, members)
    BY <1>1, <2>1, <2>2 DEF Tally
  <2> QED
    BY <1>1, <2>1, <2>2, <2>3, CountKeep
<1>9. CASE ClearBan(k)
  <2>1. PICK b \in ops[k].rows : ops' = [ops EXCEPT ![k].rows = @ \ {b}]
    BY <1>9 DEF ClearBan
  <2> DEFINE op == [ops[k] EXCEPT !.rows = @ \ {b}]
  <2>2. op \in Op /\ op.kind = ops[k].kind /\ op.stage = "clear"
    BY <1>2, <1>9 DEF ClearBan, Op
  <2>3. ops' = [ops EXCEPT ![k] = op] /\ ops[k].kind \in {"ban", "unban"} /\ ops[k].stage = "clear"
    BY <1>9, <2>1 DEF ClearBan
  <2> HIDE DEF op
  <2>4. Tally(ops[k], count, members) => Tally(op, count, members)
    BY <1>1, <2>2, <2>3 DEF Tally
  <2> QED
    BY <1>1, <2>2, <2>3, <2>4, CountKeep
<1>10. CASE InsertBan(k)
  BY <1>3, <1>10 DEF InsertBan, Stages, Removals
<1>11. CASE UnbanEnds(k)
  <2>1. ~Counts(k) /\ Finish(k)
    BY <1>11 DEF UnbanEnds, Counts, Counting, Removals
  <2> QED
    BY <1>4, <2>1
<1>12. CASE Evict(k)
  BY <1>4, <1>12 DEF Evict
<1>13. CASE ReadTarget(k) \/ FlipOwner(k)
  <2>1. ~Counts(k) /\ (Goto(k, "flip") \/ Finish(k))
    BY <1>13 DEF ReadTarget, FlipOwner, Counts, Counting, Removals
  <2> QED
    BY <1>3, <1>4, <2>1 DEF Stages
<1>14. CASE ChannelsCheckMember(k) \/ AddChannels(k) \/ ServerChecksBan(k) \/ AddServer(k)
  <2>1. /\ ~Counts(k)
        /\ (\E stage \in {"chFold", "srvBan", "srvMember"} : Goto(k, stage)) \/ Finish(k)
    BY <1>14 DEF ChannelsCheckMember, AddChannels, ServerChecksBan, AddServer,
                 Counts, Counting, Removals
  <2> QED
    BY <1>3, <1>4, <2>1 DEF Stages
<1> QED
  BY <1>5, <1>6, <1>7, <1>8, <1>9, <1>10, <1>11, <1>12, <1>13, <1>14

(* A member row more, a member row less.                                   *)
LEMMA Size ==
  ASSUME TypeOK, NEW u
  PROVE  /\ Cardinality(members) \in Nat
         /\ u \notin members => Cardinality(members \cup {u}) = Cardinality(members) + 1
         /\ u \in members => Cardinality(members \ {u}) = Cardinality(members) - 1
<1>1. IsFiniteSet(members)
  BY MembershipFinite, FS_Subset DEF TypeOK
<1> QED
  BY <1>1, FS_CardinalityType, FS_AddElement, FS_RemoveElement

LEMMA CountWrites ==
  ASSUME IInv, OneCounter, NEW k \in Ops,
         CreateMember(k) \/ JoinWritesCount(k) \/ DeleteMember(k) \/ Decrement(k)
  PROVE  OneCounter'
<1> USE DEF At
<1>1. ops[k] # None /\ Counts(k) /\ drift' = drift
  BY DEF CreateMember, JoinWritesCount, DeleteMember, Decrement, history,
         Counts, Counting
<1>2. ops[k] \in Op /\ TypeOK
  BY <1>1, OpType DEF IInv
<1>3. CASE CreateMember(k)
  <2>1. CASE ops[k].user \in members
    <3>1. Finish(k) /\ UNCHANGED <<count, members>>
          /\ ops[k].kind = "join" /\ ops[k].stage = "create"
      BY <1>3, <2>1 DEF CreateMember
    <3>2. Tally(ops[k], count, members) => Tally(None, count, members)
      BY <1>1, <3>1 DEF Tally
    <3> QED
      BY <1>1, <3>1, <3>2, CountKeep DEF Finish
  <2>2. CASE ops[k].user \notin members
    <3> DEFINE op == [ops[k] EXCEPT !.stage = "uses"]
    <3>1. /\ members' = members \cup {ops[k].user} /\ count' = count
          /\ ops[k].kind = "join" /\ ops[k].stage = "create"
          /\ ops'[k] = op /\ \A j \in Ops \ {k} : ops'[j] = ops[j]
      BY <1>2, <1>3, <2>2 DEF CreateMember, Goto, TypeOK
    <3>2. op \in Op /\ op.kind = "join" /\ op.stage = "uses"
      BY <1>2, <3>1 DEF Op, Stages
    <3>3. \A j \in Ops \ {k} : Counts(j)' => Counts(j)
      BY <3>1 DEF Counts
    <3> HIDE DEF op
    <3>4. Cardinality(members') = Cardinality(members) + 1
      BY <1>2, <2>2, <3>1, Size
    <3>5. Tally(ops[k], count, members) => Tally(op, count', members')
      BY <1>1, <3>1, <3>2, <3>4 DEF Tally
    <3> QED
      BY <1>1, <3>1, <3>2, <3>3, <3>5, CountMove
  <2> QED
    BY <2>1, <2>2
<1>4. CASE JoinWritesCount(k)
  <2>1. /\ members' = members /\ count' = ops[k].count + 1
        /\ ops[k].kind = "join" /\ ops[k].stage = "inc"
        /\ ops'[k] = None /\ \A j \in Ops \ {k} : ops'[j] = ops[j]
    BY <1>2, <1>4 DEF JoinWritesCount, Finish, TypeOK
  <2>2. Tally(ops[k], count, members) => Tally(None, count', members')
    BY <1>1, <2>1 DEF Tally
  <2>3. \A j \in Ops \ {k} : Counts(j)' => Counts(j)
    BY <2>1 DEF Counts
  <2> QED
    BY <1>1, <2>1, <2>2, <2>3, CountMove
<1>5. CASE DeleteMember(k)
  <2> DEFINE op == [ops[k] EXCEPT !.stage = "dec"]
  <2>1. /\ members' = IF ops[k].row THEN members \ {ops[k].user} ELSE members
        /\ count' = count /\ ops[k].kind \in Removals /\ ops[k].stage = "delete"
        /\ ops'[k] = op
    BY <1>5 DEF DeleteMember
  <2>2. op \in Op /\ op.kind = ops[k].kind /\ op.stage = "dec" /\ op.count = ops[k].count
    BY <1>2 DEF Op, Stages
  <2>3. ASSUME NEW j \in Ops \ {k}, Counts(j)' PROVE Counts(j)
    <3>1. CASE ops[j] # None /\ ops[j].user = ops[k].user
      <4>1. ops'[j] = [ops[j] EXCEPT !.row = FALSE] /\ ops[j] \in Op
        BY <1>5, <3>1, OpType DEF DeleteMember
      <4>2. ops'[j].kind = ops[j].kind
        BY <4>1 DEF Op
      <4> QED
        BY <2>3, <3>1, <4>2 DEF Counts
    <3>2. CASE ~(ops[j] # None /\ ops[j].user = ops[k].user)
      BY <1>5, <2>3, <3>2 DEF DeleteMember, Counts
    <3> QED
      BY <3>1, <3>2
  <2> HIDE DEF op
  <2>4. ASSUME Tally(ops[k], count, members) PROVE Tally(op, count', members')
    <3>1. /\ ops[k].user \in members /\ members' = members \ {ops[k].user}
          /\ count = Cardinality(members) /\ ops[k].count = count
      BY <1>1, <2>1, <2>4 DEF Tally, Removals
    <3>2. count' = Cardinality(members') + 1 /\ op.count = count'
      BY <1>2, <2>1, <2>2, <3>1, Size DEF TypeOK
    <3> QED
      BY <2>1, <2>2, <3>2 DEF Tally, Removals
  <2> QED
    BY <1>1, <2>1, <2>2, <2>3, <2>4, CountMove
<1>6. CASE Decrement(k)
  <2> DEFINE stage == IF ops[k].kind = "ban" THEN "bans" ELSE "evict"
             op    == [ops[k] EXCEPT !.stage = stage]
  <2>1. /\ members' = members
        /\ count' = IF ops[k].count = 0 THEN 0 ELSE ops[k].count - 1
        /\ ops[k].kind \in Removals /\ ops[k].stage = "dec"
        /\ ops'[k] = op /\ \A j \in Ops \ {k} : ops'[j] = ops[j]
    BY <1>2, <1>6 DEF Decrement, Goto, TypeOK
  <2>2. op \in Op /\ op.kind = ops[k].kind /\ op.stage \in {"bans", "evict"}
    BY <1>2 DEF Op, Stages
  <2>3. \A j \in Ops \ {k} : Counts(j)' => Counts(j)
    BY <2>1 DEF Counts
  <2> HIDE DEF op
  <2>4. ASSUME Tally(ops[k], count, members) PROVE Tally(op, count', members')
    <3>1. count = Cardinality(members) + 1 /\ ops[k].count = count
      BY <1>1, <2>1, <2>4 DEF Tally, Removals
    <3>2. Cardinality(members) \in Nat
      BY <1>2, Size
    <3>3. count' = Cardinality(members')
      BY <2>1, <3>1, <3>2
    <3> QED
      BY <2>1, <2>2, <3>3 DEF Tally, Removals
  <2> QED
    BY <1>1, <2>1, <2>2, <2>3, <2>4, CountMove
<1> QED
  BY <1>3, <1>4, <1>5, <1>6

LEMMA CountFails ==
  ASSUME IInv, OneCounter, NEW k \in Ops, DatabaseFails(k)
  PROVE  OneCounter'
<1>1. /\ ops[k] # None /\ UNCHANGED <<members, count>>
      /\ ops'[k] = None /\ \A j \in Ops \ {k} : ops'[j] = ops[j]
      /\ drift' = (drift \/ ops[k].kind \in Counting)
  BY DEF DatabaseFails, Finish, table, IInv, TypeOK
<1>2. CASE ops[k].kind \in Counting
  BY <1>1, <1>2 DEF OneCounter
<1>3. CASE ops[k].kind \notin Counting
  <2>1. drift' = drift /\ ~Counts(k) /\ ~Counts(k)'
    BY <1>1, <1>3 DEF Counts, IInv, TypeOK
  <2> QED
    BY <1>1, <2>1, CountOther
<1> QED
  BY <1>2, <1>3

LEMMA CountReconnect ==
  ASSUME OneCounter, NEW u \in Users, Reconnect(u)
  PROVE  OneCounter'
<1>1. UNCHANGED <<count, members, drift>>
  BY DEF Reconnect, table, history
<1>2. ASSUME NEW j \in Ops
      PROVE  ops'[j] = ops[j] \/ (~Counts(j) /\ ~Counts(j)')
  BY DEF Reconnect, Counts, Counting, Removals
<1> QED
  BY <1>1, <1>2, CountOther

LEMMA CountStep == IInv /\ OneCounter /\ [Next]_vars => OneCounter'
<1> SUFFICES ASSUME IInv, OneCounter, [Next]_vars PROVE OneCounter'
  OBVIOUS
<1>1. ASSUME NEW k \in Ops, Handlers(k) PROVE OneCounter'
  BY <1>1, CountReads, CountWrites, CountFails DEF Handlers
<1>2. ASSUME NEW k \in Ops, NEW u \in Users, Requests(k, u) PROVE OneCounter'
  BY <1>2, CountRequests
<1>3. ASSUME NEW u \in Users, Reconnect(u) PROVE OneCounter'
  BY <1>3, CountReconnect
<1>4. CASE UNCHANGED vars
  <2>1. UNCHANGED <<count, members, drift, ops>>
    BY <1>4 DEF vars, table, history
  <2> QED
    BY <2>1, CountOther
<1> QED
  BY <1>1, <1>2, <1>3, <1>4 DEF Next

(* join, leave, kick and ban, one after another, keep member_count the     *)
(* number of members, whatever transfers, subscriptions, unbans and new    *)
(* connections run at the same time.                                       *)
THEOREM CountSafe == Spec => []SerialCount
<1>1. OneCounter => SerialCount
  BY DEF OneCounter, SerialCount, Running, Counts, Tally
<1> QED
  BY <1>1, CountInit, CountStep, Inductive, PTL DEF Spec
=============================================================================
