---------------------------- MODULE DirectMessages ----------------------------
(***************************************************************************)
(* The direct messages of a pair: ChannelService.createDM, the gate of     *)
(* MessageService.create, and RelationService.canDM, which both of them    *)
(* ask.  The gate is a chain of reads, the channel of a pair is searched   *)
(* for and then made, in one row for it and one for each participant;      *)
(* relations and policies change meanwhile (Relations).                    *)
(***************************************************************************)
EXTENDS Relations

CONSTANTS Calls,    \* bound: createDM and message calls under way at once
          MaxCalls, \* bound: such calls ever made
          MaxTurns  \* bound: changes of a policy

ASSUME DirectUsers == Users \cap {"closed", "strangers"} = {}

VARIABLES
  dms,    \* the channels of type direct of the pair: who participates in each
  policy, \* allow_dms of a user
  calls,  \* calls waiting for the database
  past    \* only read by properties and bounds

dmVars == <<dms, policy, calls, past>>
allVars == <<vars, dmVars>>

Policies == {"open", "friends_only", "closed"}
CallStages == {"parts", "gate", "policy", "friends", "mine", "theirs", "channel",
               "first", "second", "create"}
Call == [kind : {"dm", "message"}, user : Users, stage : CallStages,
         unread : SUBSET Users,     \* whose block is still to be looked up
         seen : SUBSET Nat,         \* the channels it has read, or is about
         bars : SUBSET (Users \cup {"closed", "strangers"})] \* for NothingPastTheGate
ASSUME CallsNone == None \notin Call

(* rivals: two createDM overlapped; broken: one was cut short.             *)
Past == [rivals : BOOLEAN, broken : BOOLEAN, made : 0..MaxCalls, turns : 0..MaxTurns]

AllTypeOK ==
  /\ TypeOK
  /\ DOMAIN dms \subseteq 1..MaxCalls
  /\ \A c \in DOMAIN dms : dms[c] \subseteq Users
  /\ policy \in [Users -> Policies]
  /\ calls \in [Calls -> Call \cup {None}]
  /\ past \in Past

DmInit ==
  /\ Init
  /\ dms = <<>>
  /\ policy = [u \in Users |-> "open"]
  /\ calls = [k \in Calls |-> None]
  /\ past = [rivals |-> FALSE, broken |-> FALSE, made |-> 0, turns |-> 0]

-----------------------------------------------------------------------------
Waiting(k, kinds, stage) ==
  calls[k] # None /\ calls[k].kind \in kinds /\ calls[k].stage = stage
Caller(k) == calls[k].user
Answered(k) == calls' = [calls EXCEPT ![k] = None]
Go(k, stage) == calls' = [calls EXCEPT ![k].stage = stage]
See(k, stage, seen) == calls' = [calls EXCEPT ![k] = [@ EXCEPT !.stage = stage, !.seen = seen]]
(* Past the gate: a message is written, a channel is searched for.         *)
Admitted(k) == Go(k, IF calls[k].kind = "dm" THEN "mine" ELSE "create")
Both == {"dm", "message"}

(* Why u must not write to the other: who has blocked, the other's policy. *)
Bars(u) ==
  blocks \cup (IF policy[Other(u)] = "closed" THEN {"closed"} ELSE {})
         \cup (IF policy[Other(u)] = "friends_only" /\ ~Truth(u).friend THEN {"strangers"} ELSE {})

-----------------------------------------------------------------------------
StartCall(k, u, kind, stage, seen) ==
  /\ calls[k] = None
  /\ past.made < MaxCalls
  /\ calls' = [calls EXCEPT ![k] = [kind |-> kind, user |-> u, stage |-> stage,
                                    unread |-> Users, seen |-> seen, bars |-> Bars(u)]]
  /\ past' = [past EXCEPT !.made = @ + 1,
       !.rivals = @ \/ (kind = "dm" /\ \E j \in Calls : calls[j] # None /\ calls[j].kind = "dm")]
  /\ UNCHANGED <<vars, dms, policy>>

CreateDm(k, u) == StartCall(k, u, "dm", "gate", {})
WriteMessage(k, u) ==
  \E c \in DOMAIN dms : u \in dms[c] /\ StartCall(k, u, "message", "parts", {c})

(* Without another participant there is nobody to ask.                     *)
ReadParticipants(k) ==
  /\ Waiting(k, {"message"}, "parts")
  /\ Go(k, IF \E c \in calls[k].seen : Other(Caller(k)) \in dms[c] THEN "gate" ELSE "create")
  /\ UNCHANGED <<vars, dms, policy, past>>

GateBlocks(k) ==
  /\ Waiting(k, Both, "gate")
  /\ \E u \in calls[k].unread :
       IF u \in blocks THEN Answered(k)
       ELSE calls' = [calls EXCEPT ![k] = [calls[k] EXCEPT !.unread = @ \ {u},
              !.stage = IF calls[k].unread = {u} THEN "policy" ELSE "gate"]]
  /\ UNCHANGED <<vars, dms, policy, past>>

GatePolicy(k) ==
  /\ Waiting(k, Both, "policy")
  /\ CASE policy[Other(Caller(k))] = "closed" -> Answered(k)
       [] policy[Other(Caller(k))] = "friends_only" -> Go(k, "friends")
       [] policy[Other(Caller(k))] = "open" -> Admitted(k)
  /\ UNCHANGED <<vars, dms, policy, past>>

\* Mutant: a request that is pending makes a friend.
PendingIsFriend(k) ==
  /\ Waiting(k, Both, "friends")
  /\ IF pair # None THEN Admitted(k) ELSE Answered(k)
  /\ UNCHANGED <<vars, dms, policy, past>>

GateFriends(k) ==
  /\ Waiting(k, Both, "friends")
  /\ IF Truth(Caller(k)).friend THEN Admitted(k) ELSE Answered(k)
  /\ UNCHANGED <<vars, dms, policy, past>>

SendMessage(k) ==
  /\ Waiting(k, {"message"}, "create")
  /\ Answered(k)
  /\ UNCHANGED <<vars, dms, policy, past>>

ReadMine(k) ==
  /\ Waiting(k, {"dm"}, "mine")
  /\ See(k, "theirs", {c \in DOMAIN dms : Caller(k) \in dms[c]})
  /\ UNCHANGED <<vars, dms, policy, past>>

\* Mutant: the participations of the other are not asked for.
OwnChannelsOnly(k) ==
  /\ Waiting(k, {"dm"}, "theirs")
  /\ IF \E c \in calls[k].seen : Other(Caller(k)) \notin dms[c]
     THEN Answered(k) ELSE See(k, "channel", {})
  /\ UNCHANGED <<vars, dms, policy, past>>

ReadTheirs(k) ==
  /\ Waiting(k, {"dm"}, "theirs")
  /\ IF \E c \in calls[k].seen : Other(Caller(k)) \in dms[c]
     THEN Answered(k) ELSE See(k, "channel", {})
  /\ UNCHANGED <<vars, dms, policy, past>>

CreateChannel(k) ==
  /\ Waiting(k, {"dm"}, "channel")
  /\ LET c == Cardinality(DOMAIN dms) + 1
     IN dms' = [d \in DOMAIN dms \cup {c} |-> IF d = c THEN {} ELSE dms[d]] /\ See(k, "first", {c})
  /\ UNCHANGED <<vars, policy, past>>

(* The caller first, then the other; then both are told.                   *)
Join(k, u) ==
  dms' = [c \in DOMAIN dms |-> IF c \in calls[k].seen THEN dms[c] \cup {u} ELSE dms[c]]

JoinFirst(k) ==
  /\ Waiting(k, {"dm"}, "first")
  /\ Join(k, Caller(k)) /\ Go(k, "second")
  /\ UNCHANGED <<vars, policy, past>>

JoinSecond(k) ==
  /\ Waiting(k, {"dm"}, "second")
  /\ Join(k, Other(Caller(k))) /\ Answered(k)
  /\ UNCHANGED <<vars, policy, past>>

CallFails(k) ==
  /\ Faults
  /\ calls[k] # None
  /\ Answered(k)
  /\ past' = [past EXCEPT !.broken = TRUE]
  /\ UNCHANGED <<vars, dms, policy>>

(* A user changes who may write: updateMe merges the field.                *)
ChangePolicy(u, p) ==
  /\ past.turns < MaxTurns
  /\ p # policy[u]
  /\ policy' = [policy EXCEPT ![u] = p]
  /\ past' = [past EXCEPT !.turns = @ + 1]
  /\ UNCHANGED <<vars, dms>>

Direct(k) ==
  \/ \E u \in Users : CreateDm(k, u) \/ WriteMessage(k, u)
  \/ ReadParticipants(k) \/ GateBlocks(k) \/ GatePolicy(k) \/ GateFriends(k) \/ SendMessage(k)
  \/ ReadMine(k) \/ ReadTheirs(k) \/ CreateChannel(k) \/ JoinFirst(k) \/ JoinSecond(k)
  \/ CallFails(k)

(* What is against a message is kept by the steps of the relations and of  *)
(* the policies only as long as it lasts.                                  *)
Still == [u \in Users |-> Bars(u)']
Last ==
  calls' = [k \in Calls |-> IF calls[k] = None THEN None
                            ELSE [calls[k] EXCEPT !.bars = @ \cap Still[Caller(k)]]]

DmNext ==
  \/ \E k \in Calls : Direct(k)
  \/ \E u \in Users, p \in Policies : ChangePolicy(u, p) /\ Last
  \/ Next /\ UNCHANGED <<dms, policy, past>> /\ Last

DmSpec == DmInit /\ [][DmNext]_allVars

-----------------------------------------------------------------------------
(* No message is written and no channel made past a block, a closed door,  *)
(* or a door open to friends while one was none, if it was there from the  *)
(* call to the write: the reads of the gate miss only what is changing.    *)
(* Nor is a friend requested past a block.  (A message into a channel      *)
(* whose other participant is not there yet has asked nobody, and still    *)
(* has its look-ups to make.)                                              *)
NothingPastTheGate ==
  /\ \A k \in Calls :
       /\ calls[k] # None
       /\ calls[k].unread = {}
       /\ calls[k].stage \in {"create", "mine", "theirs", "channel"}
       => calls[k].bars = {}
  /\ \A k \in Ops : At(k, {"request"}, "create") => history.shut[k] = {}

(* The two share one channel, unless two createDM overlapped; whatever a   *)
(* failed call left behind does not stand in for it, and nothing is left   *)
(* half made by a call that did not fail.                                  *)
OneChannel ==
  /\ ~past.rivals => Cardinality({c \in DOMAIN dms : dms[c] = Users}) <= 1
  /\ ~past.broken => \A c \in DOMAIN dms :
       dms[c] = Users \/ \E k \in Calls : calls[k] # None /\ c \in calls[k].seen
===============================================================================
