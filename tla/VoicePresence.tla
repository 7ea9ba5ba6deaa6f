---------------------------- MODULE VoicePresence ----------------------------
(***************************************************************************)
(* Voice presence: VoiceService (apps/slyng/api/src/voice) and the         *)
(* handlers of ChatGateway that call it.                                   *)
(*                                                                         *)
(* Who is in which voice channel is kept three times: in the service's     *)
(* `states` map, in the voice_state table, and in the lists other members  *)
(* draw from the broadcasts on the server topic.  A join is four database  *)
(* calls, a leave is one, and every call is an await: the handlers of two  *)
(* frames, of a frame and a closing socket, or of a frame and an eviction  *)
(* interleave there.  Each running handler is a record in `ops`.           *)
(*                                                                         *)
(* Identification is one step here; GatewaySession opens it up.  The mute, *)
(* deafen, camera and screen flags of a state are left out: which of them  *)
(* a frame carries decides whether it joins or updates.                    *)
(***************************************************************************)
EXTENDS FiniteSets

CONSTANTS Users, Sockets, Channels,
          Ops,          \* bound: handlers running at the same time
          Rows,         \* bound: rows of the voice_state table
          Faults,       \* whether database calls may fail
          None

ASSUME VoiceFaults == Faults \in BOOLEAN
ASSUME VoiceNone == None \notin Users \cup Sockets \cup Channels \cup Rows

VARIABLES
  sockets,   \* registered sockets per user
  states,    \* VoiceService.states: the channel a user is in, or None
  rows,      \* the voice_state table
  ops,       \* handlers waiting for the database
  roster,    \* channels in which other members see the user
  clash      \* history: handlers of one user overlapped, or a step was lost

vars == <<sockets, states, rows, ops, roster, clash>>

Voice == [channel : Channels]
Row   == [user : Users, channel : Channels]
Stages == {"channel", "clear", "find", "write", "leave", "save"}
Op == [user : Users, channel : Channels, stage : Stages,
       clear : BOOLEAN,               \* the leave inside join found a state
       row : Rows \cup {None}]        \* the row findOne answered

ASSUME VoiceRecords == None \notin Voice \cup Row \cup Op

TypeOK ==
  /\ sockets \in [Users -> SUBSET Sockets]
  /\ states \in [Users -> Voice \cup {None}]
  /\ rows \in [Rows -> Row \cup {None}]
  /\ ops \in [Ops -> Op \cup {None}]
  /\ roster \in [Users -> SUBSET Channels]
  /\ clash \in [Users -> BOOLEAN]

Init ==
  /\ sockets = [u \in Users |-> {}]
  /\ states = [u \in Users |-> None]
  /\ rows = [r \in Rows |-> None]
  /\ ops = [k \in Ops |-> None]
  /\ roster = [u \in Users |-> {}]
  /\ clash = [u \in Users |-> FALSE]

-----------------------------------------------------------------------------
Busy(u) == \E k \in Ops : ops[k] # None /\ ops[k].user = u

RowsOf(u) == {r \in Rows : rows[r] # None /\ rows[r].user = u}

(* voiceStates.deleteWhere({ user_id }) *)
Deleted(u) == [r \in Rows |-> IF r \in RowsOf(u) THEN None ELSE rows[r]]

(* The id of a row is never given out again: not as long as a handler     *)
(* remembers it, either.                                                   *)
Unused(n) == rows[n] = None /\ \A k \in Ops : ops[k] # None => ops[k].row # n

(* A handler that reaches its first await takes a slot.  Starting one for  *)
(* a user who has another under way is what `clash` records.               *)
Start(k, u, c, stage) ==
  /\ ops[k] = None
  /\ ops' = [ops EXCEPT ![k] =
       [user |-> u, channel |-> c, stage |-> stage, clear |-> FALSE, row |-> None]]
  /\ clash' = [clash EXCEPT ![u] = @ \/ Busy(u)]

Goto(k, stage) == ops' = [ops EXCEPT ![k].stage = stage]
Finish(k) == ops' = [ops EXCEPT ![k] = None]

-----------------------------------------------------------------------------
Register(u, s) ==
  /\ \A w \in Users : s \notin sockets[w]
  /\ sockets' = [sockets EXCEPT ![u] = @ \cup {s}]
  /\ UNCHANGED <<states, rows, ops, roster, clash>>

(* VoiceService.leave up to its await: the map entry goes at once.         *)
StartLeave(k, u) ==
  /\ states[u] # None
  /\ Start(k, u, states[u].channel, "leave")
  /\ states' = [states EXCEPT ![u] = None]

(* A frame with a null channel, or evictUserFromServer after a kick.       *)
Leave(k, u) ==
  /\ StartLeave(k, u)
  /\ UNCHANGED <<sockets, rows, roster>>

(* Mutant: a clean-up with every socket.                                   *)
CloseAlwaysLeaves(k, u, s) ==
  /\ s \in sockets[u]
  /\ StartLeave(k, u)
  /\ sockets' = [sockets EXCEPT ![u] = @ \ {s}]
  /\ UNCHANGED <<rows, roster>>

(* handleDisconnect: only the user's last socket ends their voice presence *)
CloseSocket(k, u, s) ==
  /\ s \in sockets[u]
  /\ sockets' = [sockets EXCEPT ![u] = @ \ {s}]
  /\ IF sockets[u] = {s} /\ states[u] # None
     THEN StartLeave(k, u)
     ELSE /\ clash' = [clash EXCEPT ![u] = @ \/ (sockets[u] = {s} /\ Busy(u))]
          /\ UNCHANGED <<states, ops>>
  /\ UNCHANGED <<rows, roster>>

(* Mutants: the rows stay; nobody is told.                                 *)
LeaveKeepsRows(k) ==
  /\ ops[k] # None /\ ops[k].stage = "leave"
  /\ roster' = [roster EXCEPT ![ops[k].user] = {}]
  /\ Finish(k)
  /\ UNCHANGED <<sockets, states, rows, clash>>

LeaveUntold(k) ==
  /\ ops[k] # None /\ ops[k].stage = "leave"
  /\ rows' = Deleted(ops[k].user)
  /\ Finish(k)
  /\ UNCHANGED <<sockets, states, roster, clash>>

(* The rest of a leave: the rows go, then the other members are told.      *)
FinishLeave(k) ==
  /\ ops[k] # None /\ ops[k].stage = "leave"
  /\ rows' = Deleted(ops[k].user)
  /\ roster' = [roster EXCEPT ![ops[k].user] = {}]
  /\ Finish(k)
  /\ UNCHANGED <<sockets, states, clash>>

(* handleVoiceStateUpdate with a channel.  The engines send four shapes:   *)
(* "talk" carries self_mute and self_deaf (a join, or a mute toggle),      *)
(* "video" carries has_camera and has_screen, "full" carries all four (the *)
(* join of the LiveKit engine).  Only frames with video flags can update.  *)
Shapes == {"talk", "video", "full"}

InChannel(u, c) == states[u] # None /\ states[u].channel = c
IsUpdate(u, c, shape) == InChannel(u, c) /\ shape \in {"video", "full"}

(* Not an update: VoiceService.join starts by reading the channel.         *)
JoinFrame(k, u, c, shape) ==
  /\ sockets[u] # {}
  /\ ~IsUpdate(u, c, shape)
  /\ Start(k, u, c, "channel")
  /\ UNCHANGED <<sockets, states, rows, roster>>

(* An update with audio flags: set in memory (not modelled), then saved.   *)
UpdateFrame(k, u, c) ==
  /\ sockets[u] # {}
  /\ IsUpdate(u, c, "full")
  /\ Start(k, u, c, "save")
  /\ UNCHANGED <<sockets, states, rows, roster>>

(* An update of video flags alone does not wait for anything: the others   *)
(* upsert the user in the channel the frame named.                         *)
VideoFrame(u, c) ==
  /\ sockets[u] # {}
  /\ IsUpdate(u, c, "video")
  /\ roster' = [roster EXCEPT ![u] = @ \cup {c}]
  /\ UNCHANGED <<sockets, states, rows, ops, clash>>

(* After updateState: the state is read again.  When it is gone the        *)
(* handler throws, and nobody is told anything.                            *)
FinishUpdate(k) ==
  /\ ops[k] # None /\ ops[k].stage = "save"
  /\ LET u == ops[k].user
     IN  roster' = IF states[u] = None THEN roster
                   ELSE [roster EXCEPT ![u] = @ \cup {ops[k].channel}]
  /\ Finish(k)
  /\ UNCHANGED <<sockets, states, rows, clash>>

-----------------------------------------------------------------------------
(* The channel exists: leave whatever channel the user is in.              *)
ChannelFound(k) ==
  /\ ops[k] # None /\ ops[k].stage = "channel"
  /\ LET u == ops[k].user
     IN  /\ states' = [states EXCEPT ![u] = None]
         /\ ops' = [ops EXCEPT ![k].stage = "clear",
                               ![k].clear = states[u] # None]
  /\ UNCHANGED <<sockets, rows, roster, clash>>

(* Mutant: the join goes on with an empty channel id.                      *)
MissingCollapses(k) ==
  /\ ops[k] # None /\ ops[k].stage = "channel"
  /\ ops' = [ops EXCEPT ![k].stage = "clear", ![k].channel = None]
  /\ UNCHANGED <<sockets, states, rows, roster, clash>>

(* It does not: NotFoundException, before anything has changed.            *)
ChannelMissing(k) ==
  /\ ops[k] # None /\ ops[k].stage = "channel"
  /\ Finish(k)
  /\ clash' = [clash EXCEPT ![ops[k].user] = TRUE]
  /\ UNCHANGED <<sockets, states, rows, roster>>

(* The inner leave is over: the new state, with every flag reset.          *)
SetState(k) ==
  /\ ops[k] # None /\ ops[k].stage = "clear"
  /\ LET u == ops[k].user
     IN  /\ rows' = IF ops[k].clear THEN Deleted(u) ELSE rows
         /\ states' = [states EXCEPT ![u] =
              [channel |-> ops[k].channel]]
  /\ Goto(k, "find")
  /\ UNCHANGED <<sockets, roster, clash>>

(* voiceStates.findOne({ user_id }) *)
FindRow(k) ==
  /\ ops[k] # None /\ ops[k].stage = "find"
  /\ \E r \in IF RowsOf(ops[k].user) = {} THEN {None} ELSE RowsOf(ops[k].user) :
       ops' = [ops EXCEPT ![k].stage = "write", ![k].row = r]
  /\ UNCHANGED <<sockets, states, rows, roster, clash>>

(* merge into the row found (which does nothing once that row is gone) or  *)
(* create one; then the join is broadcast, and moves the user in every     *)
(* list it reaches.                                                        *)
WriteRow(k) ==
  /\ ops[k] # None /\ ops[k].stage = "write"
  /\ LET u   == ops[k].user
         row == [user |-> u, channel |-> ops[k].channel]
         r   == ops[k].row
     IN  /\ IF r = None
            THEN \E n \in Rows : /\ Unused(n)
                                 /\ rows' = [rows EXCEPT ![n] = row]
            ELSE rows' = IF rows[r] = None THEN rows ELSE [rows EXCEPT ![r] = row]
         /\ roster' = [roster EXCEPT ![u] = {ops[k].channel}]
  /\ Finish(k)
  /\ UNCHANGED <<sockets, states, clash>>

(* A database call fails: the handler ends where it is, and is logged.     *)
DatabaseFails(k) ==
  /\ Faults
  /\ ops[k] # None
  /\ Finish(k)
  /\ clash' = [clash EXCEPT ![ops[k].user] = TRUE]
  /\ UNCHANGED <<sockets, states, rows, roster>>

(* The process restarts.  The map starts empty: nothing calls loadFromDb.  *)
Restart ==
  /\ sockets' = [u \in Users |-> {}]
  /\ states' = [u \in Users |-> None]
  /\ ops' = [k \in Ops |-> None]
  /\ clash' = [u \in Users |-> TRUE]
  /\ UNCHANGED <<rows, roster>>

Handlers(k) ==
  \/ FinishLeave(k) \/ FinishUpdate(k)
  \/ ChannelFound(k) \/ ChannelMissing(k) \/ SetState(k) \/ FindRow(k) \/ WriteRow(k)
  \/ DatabaseFails(k)

Next ==
  \/ \E u \in Users, s \in Sockets :
       Register(u, s) \/ \E k \in Ops : CloseSocket(k, u, s)
  \/ \E k \in Ops, u \in Users : Leave(k, u)
  \/ \E k \in Ops, u \in Users, c \in Channels, shape \in Shapes :
       JoinFrame(k, u, c, shape)
  \/ \E k \in Ops, u \in Users, c \in Channels : UpdateFrame(k, u, c)
  \/ \E u \in Users, c \in Channels : VideoFrame(u, c)
  \/ \E k \in Ops : Handlers(k)
  \/ Restart

(* Node resumes every handler whose database call was answered.            *)
Fairness == \A k \in Ops : WF_vars(Handlers(k))

Spec == Init /\ [][Next]_vars
FairSpec == Spec /\ Fairness

-----------------------------------------------------------------------------
Quiet(u) == ~Busy(u)
Shows(u) == IF states[u] = None THEN {} ELSE {states[u].channel}

(* The map, the table and what the others see are one and the same once    *)
(* the handlers of a user are done, as long as they ran one at a time and  *)
(* every step of theirs succeeded: exactly one row while in a channel, and *)
(* none after; and nobody is in a channel without a socket.                *)
SerialVoiceAgrees ==
  \A u \in Users : Quiet(u) /\ ~clash[u] =>
    /\ states[u] # None => sockets[u] # {}
    /\ roster[u] = Shows(u)
    /\ {rows[r].channel : r \in RowsOf(u)} = Shows(u)
    /\ Cardinality(RowsOf(u)) = Cardinality(Shows(u))

(* Closing a tab while another one stays open leaves the user's voice      *)
(* presence alone: it goes only with the last socket, by a leave, or by a  *)
(* restart.                                                                *)
OnlyLastTabLeaves ==
  [][\A u \in Users : sockets'[u] # sockets[u] /\ sockets'[u] # {} =>
       states'[u] = states[u]]_vars

(* A user who left is eventually gone from everybody's lists, unless they  *)
(* come back or the leave was disturbed.                                   *)
LeaveIsSeen ==
  \A u \in Users :
    (states[u] = None /\ roster[u] # {} /\ ~clash[u]) ~>
      (roster[u] = {} \/ states[u] # None \/ clash[u])
=============================================================================
