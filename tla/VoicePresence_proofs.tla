------------------------- MODULE VoicePresence_proofs -------------------------
(***************************************************************************)
(* What VoicePresence promises for every number of users, sockets,         *)
(* channels, rows and overlapping handlers: types, that a tab ends nobody  *)
(* else's call, and that the three copies of a voice presence agree once   *)
(* the handlers of a user are done, if they ran one at a time.             *)
(***************************************************************************)
EXTENDS VoicePresence, FiniteSetTheorems, TLAPS

(* A handler of a user.                                                    *)
Of(k, u) == ops[k] # None /\ ops[k].user = u

(* A handler that remembers the id of a row cannot meet the row of another *)
(* user under it.                                                          *)
Held ==
  \A k \in Ops : \A u \in Users : Of(k, u) /\ ops[k].row # None =>
    rows[ops[k].row] = None \/ rows[ops[k].row].user = u

(* The three copies are the same.                                          *)
Agrees(u) ==
  /\ states[u] # None => sockets[u] # {}
  /\ roster[u] = Shows(u)
  /\ states[u] = None => RowsOf(u) = {}
  /\ states[u] # None => \E n \in Rows : /\ RowsOf(u) = {n}
                                         /\ rows[n].channel = states[u].channel

(* Where the only handler of a user stands, and what of the copies is true *)
(* there.                                                                  *)
Stands(k, u) ==
  /\ ops[k].stage \in {"channel", "save"} => Agrees(u)
  /\ ops[k].stage = "save" => InChannel(u, ops[k].channel)
  /\ ops[k].stage \in {"channel", "clear", "find", "write"} => sockets[u] # {}
  /\ ops[k].stage \in {"clear", "leave"} => states[u] = None
  /\ ops[k].stage = "clear" /\ ~ops[k].clear => RowsOf(u) = {}
  /\ ops[k].stage \in {"find", "write"} =>
       InChannel(u, ops[k].channel) /\ RowsOf(u) = {}
  /\ ops[k].stage = "write" => ops[k].row = None

(* The handlers of a user ran one at a time: there is one at most, and     *)
(* when there is none the copies agree.                                    *)
OneHandler(u) ==
  /\ \A k, l \in Ops : Of(k, u) /\ Of(l, u) => k = l
  /\ Quiet(u) => Agrees(u)
  /\ \A k \in Ops : Of(k, u) => Stands(k, u)

Orderly == \A u \in Users : ~clash[u] => OneHandler(u)

IInv == TypeOK /\ Held /\ Orderly

(* A step about one user: what belongs to another stays as it is.          *)
About(u) ==
  \A v \in Users \ {u} :
    /\ sockets'[v] = sockets[v]
    /\ states'[v] = states[v]
    /\ roster'[v] = roster[v]
    /\ clash'[v] = clash[v]
    /\ \A k \in Ops : ops'[k] # ops[k] => ~Of(k, v) /\ ~Of(k, v)'
    /\ \A n \in Rows : rows'[n] # rows[n] => n \notin RowsOf(v) /\ n \notin RowsOf(v)'

-----------------------------------------------------------------------------
(* None is not a value of what may be absent.                              *)
LEMMA NoneApart == /\ None \notin Users /\ None \notin Rows /\ None \notin Channels
                   /\ None \notin Voice /\ None \notin Row /\ None \notin Op
                   /\ \A x \in Voice : x.channel \in Channels
                   /\ \A x \in Row : x.user \in Users /\ x.channel \in Channels
                   /\ \A x \in Op : /\ x.user \in Users /\ x.channel \in Channels
                                    /\ x.stage \in Stages /\ x.clear \in BOOLEAN
                                    /\ x.row \in Rows \cup {None}
  BY VoiceNone, VoiceRecords DEF Voice, Row, Op

(* What the handler at k is.                                               *)
LEMMA Handler ==
  ASSUME TypeOK, NEW k \in Ops, ops[k] # None
  PROVE  /\ ops[k] \in Op
         /\ ops[k].user \in Users
         /\ ops[k].channel \in Channels
         /\ ops[k].row \in Rows \cup {None}
         /\ ops[k].clear \in BOOLEAN
         /\ Of(k, ops[k].user)
  BY DEF TypeOK, Op, Of

(* The handlers of the others, and what they rely on, are as before.       *)
LEMMA OthersKeep ==
  ASSUME TypeOK, NEW u \in Users, About(u), NEW v \in Users, v # u, OneHandler(v)
  PROVE  OneHandler(v)'
<1>1. /\ sockets'[v] = sockets[v] /\ states'[v] = states[v] /\ roster'[v] = roster[v]
      /\ \A k \in Ops : ops'[k] # ops[k] => ~Of(k, v) /\ ~Of(k, v)'
      /\ \A n \in Rows : rows'[n] # rows[n] => n \notin RowsOf(v) /\ n \notin RowsOf(v)'
  BY DEF About
<1>2. \A k \in Ops : Of(k, v)' <=> Of(k, v)
  BY <1>1 DEF Of
<1>3. \A k \in Ops : Of(k, v) => ops'[k] = ops[k]
  BY <1>1
<1>4. RowsOf(v)' = RowsOf(v) /\ \A n \in RowsOf(v) : rows'[n] = rows[n]
  BY <1>1 DEF RowsOf
<1>5. Shows(v)' = Shows(v) /\ \A c \in Channels : InChannel(v, c)' <=> InChannel(v, c)
  BY <1>1 DEF Shows, InChannel
<1>6. Agrees(v) => Agrees(v)'
  BY <1>1, <1>4, <1>5 DEF Agrees
<1>7. Quiet(v)' => Quiet(v)
  BY <1>2 DEF Quiet, Busy, Of
<1>8. ASSUME NEW k \in Ops, Of(k, v)'
      PROVE  Stands(k, v)'
  <2>1. Of(k, v) /\ ops'[k] = ops[k]
    BY <1>2, <1>3, <1>8
  <2>2. Stands(k, v)
    BY <2>1 DEF OneHandler
  <2>3. ops[k].channel \in Channels
    BY <2>1, Handler DEF Of
  <2> QED
    BY <1>1, <1>4, <1>5, <1>6, <2>1, <2>2, <2>3 DEF Stands
<1> QED
  BY <1>2, <1>6, <1>7, <1>8 DEF OneHandler

(* A step about one user keeps everybody in order if it keeps that user.   *)
LEMMA OrderKept ==
  ASSUME IInv, NEW u \in Users, About(u), ~clash'[u] => OneHandler(u)'
  PROVE  Orderly'
<1> SUFFICES ASSUME NEW v \in Users, ~clash'[v], v # u PROVE OneHandler(v)'
  BY DEF Orderly
<1>1. ~clash[v]
  BY DEF About
<1> QED
  BY <1>1, OthersKeep DEF IInv, Orderly

(* The only handler of a user ends with copies that agree.                 *)
LEMMA Ends ==
  ASSUME TypeOK, NEW u \in Users, NEW k \in Ops, Of(k, u), OneHandler(u),
         ops' = [ops EXCEPT ![k] = None], Agrees(u)'
  PROVE  OneHandler(u)'
<1>1. \A l \in Ops : ~Of(l, u)'
  BY DEF OneHandler, Of, TypeOK
<1> QED
  BY <1>1 DEF OneHandler

(* The only handler of a user goes on to another stage.                    *)
LEMMA GoesOn ==
  ASSUME TypeOK, NEW u \in Users, NEW k \in Ops, Of(k, u), OneHandler(u),
         \A l \in Ops \ {k} : ops'[l] = ops[l], Of(k, u)', Stands(k, u)'
  PROVE  OneHandler(u)'
<1>1. \A l \in Ops : Of(l, u)' => l = k
  BY DEF OneHandler, Of
<1>2. ~Quiet(u)'
  BY DEF Quiet, Busy, Of
<1> QED
  BY <1>1, <1>2 DEF OneHandler

(* A handler begins, for a user who has none.                              *)
LEMMA Begins ==
  ASSUME TypeOK, NEW u \in Users, NEW k \in Ops, Quiet(u),
         \A l \in Ops \ {k} : ops'[l] = ops[l], Of(k, u)', Stands(k, u)'
  PROVE  OneHandler(u)'
<1>1. \A l \in Ops : Of(l, u)' => l = k
  BY DEF Quiet, Busy, Of
<1>2. ~Quiet(u)'
  BY DEF Quiet, Busy, Of
<1> QED
  BY <1>1, <1>2 DEF OneHandler

(* What a step that begins a handler does with the handlers of a user.     *)
LEMMA Started ==
  ASSUME TypeOK, NEW k \in Ops, NEW u \in Users, NEW c \in Channels, NEW stage \in Stages,
         Start(k, u, c, stage)
  PROVE  /\ ops' \in [Ops -> Op \cup {None}]
         /\ clash' \in [Users -> BOOLEAN]
         /\ ops[k] = None
         /\ Of(k, u)'
         /\ ops'[k].stage = stage /\ ops'[k].channel = c /\ ops'[k].row = None
         /\ \A l \in Ops \ {k} : ops'[l] = ops[l]
         /\ \A v \in Users \ {u} : clash'[v] = clash[v]
         /\ ~clash'[u] => ~clash[u] /\ Quiet(u)
         /\ \A v \in Users \ {u}, l \in Ops : ops'[l] # ops[l] => ~Of(l, v) /\ ~Of(l, v)'
<1> DEFINE x == [user |-> u, channel |-> c, stage |-> stage, clear |-> FALSE, row |-> None]
<1>1. x \in Op /\ x.user = u /\ x.stage = stage /\ x.channel = c /\ x.row = None
  BY DEF Op
<1>2. x # None
  BY <1>1, NoneApart
<1>3. ops[k] = None /\ ops' = [ops EXCEPT ![k] = x] /\ clash' = [clash EXCEPT ![u] = @ \/ Busy(u)]
  BY DEF Start
<1> HIDE DEF x
<1>4. ops'[k] = x /\ \A l \in Ops \ {k} : ops'[l] = ops[l]
  BY <1>3 DEF TypeOK
<1>5. clash'[u] = (clash[u] \/ Busy(u)) /\ \A v \in Users \ {u} : clash'[v] = clash[v]
  BY <1>3 DEF TypeOK
<1>6. ops' \in [Ops -> Op \cup {None}]
  BY <1>1, <1>3 DEF TypeOK
<1>7. clash' \in [Users -> BOOLEAN]
  BY <1>3 DEF TypeOK, Busy
<1> QED
  BY <1>1, <1>2, <1>3, <1>4, <1>5, <1>6, <1>7 DEF Of, Quiet

(* What a handler remembers survives if ids of rows are not given out to   *)
(* others.                                                                 *)
LEMMA HeldKept ==
  ASSUME TypeOK, Held,
         \A j \in Ops : ops'[j] # None /\ ops'[j].row # None =>
           ops[j] # None /\ ops'[j].row = ops[j].row /\ ops'[j].user = ops[j].user,
         \A n \in Rows :
           \/ rows'[n] = rows[n] \/ rows'[n] = None
           \/ rows[n] # None /\ rows'[n].user = rows[n].user
           \/ \A j \in Ops : ops[j] # None => ops[j].row # n
  PROVE  Held'
<1> SUFFICES ASSUME NEW j \in Ops, NEW u \in Users, Of(j, u)', ops'[j].row # None
             PROVE  rows'[ops'[j].row] = None \/ rows'[ops'[j].row].user = u
  BY DEF Held
<1>1. ops[j] # None /\ ops'[j].row = ops[j].row /\ ops[j].user = u
  BY DEF Of
<1>2. ops[j].row \in Rows
  BY <1>1, Handler
<1>3. rows[ops[j].row] = None \/ rows[ops[j].row].user = u
  BY <1>1 DEF Held, Of
<1> QED
  BY <1>1, <1>2, <1>3

(* The rows of a user are deleted.                                         *)
LEMMA Deletes ==
  ASSUME TypeOK, NEW u \in Users, rows' = Deleted(u)
  PROVE  /\ rows' \in [Rows -> Row \cup {None}]
         /\ RowsOf(u)' = {}
         /\ \A n \in Rows : rows'[n] = rows[n] \/ rows'[n] = None
         /\ \A v \in Users \ {u}, n \in Rows :
              rows'[n] # rows[n] => n \notin RowsOf(v) /\ n \notin RowsOf(v)'
<1>1. \A n \in Rows : rows'[n] = IF n \in RowsOf(u) THEN None ELSE rows[n]
  BY DEF Deleted
<1>2. rows' \in [Rows -> Row \cup {None}]
  BY DEF Deleted, TypeOK
<1>3. RowsOf(u)' = {}
  BY <1>1 DEF RowsOf
<1> QED
  BY <1>1, <1>2, <1>3 DEF RowsOf

(* A handler ends: nobody else's changes.                                  *)
LEMMA Finished ==
  ASSUME TypeOK, NEW k \in Ops, ops[k] # None, Finish(k)
  PROVE  /\ ops' \in [Ops -> Op \cup {None}]
         /\ ops' = [ops EXCEPT ![k] = None]
         /\ \A j \in Ops : ops'[j] # None /\ ops'[j].row # None =>
              ops[j] # None /\ ops'[j].row = ops[j].row /\ ops'[j].user = ops[j].user
         /\ \A v \in Users \ {ops[k].user}, l \in Ops :
              ops'[l] # ops[l] => ~Of(l, v) /\ ~Of(l, v)'
  BY DEF Finish, TypeOK, Of

(* A handler goes on: it stays its user's, and nobody else's changes.      *)
LEMMA WentOn ==
  ASSUME TypeOK, NEW k \in Ops, NEW u \in Users, Of(k, u), NEW x \in Op,
         x.user = u, ops' = [ops EXCEPT ![k] = x]
  PROVE  /\ ops' \in [Ops -> Op \cup {None}]
         /\ ops'[k] = x
         /\ Of(k, u)'
         /\ \A l \in Ops \ {k} : ops'[l] = ops[l]
         /\ \A v \in Users \ {u}, l \in Ops :
              ops'[l] # ops[l] => ~Of(l, v) /\ ~Of(l, v)'
<1>1. x # None
  BY NoneApart
<1> QED
  BY <1>1 DEF TypeOK, Of

-----------------------------------------------------------------------------
LEMMA IInvInit == Init => IInv
<1> SUFFICES ASSUME Init PROVE IInv
  OBVIOUS
<1>1. TypeOK
  BY DEF Init, TypeOK
<1>2. \A k \in Ops, u \in Users : ~Of(k, u)
  BY DEF Init, Of
<1>3. \A u \in Users : Agrees(u)
  BY DEF Init, Agrees, Shows, RowsOf
<1> QED
  BY <1>1, <1>2, <1>3 DEF IInv, Held, Orderly, OneHandler

LEMMA RegisterStep ==
  ASSUME IInv, NEW u \in Users, NEW s \in Sockets, Register(u, s)
  PROVE  IInv'
<1> USE DEF IInv
<1>1. TypeOK'
  BY DEF TypeOK, Register
<1>2. Held'
  BY DEF Held, Of, Register
<1>3. About(u)
  BY DEF TypeOK, About, Register, RowsOf
<1>4. ASSUME ~clash'[u] PROVE OneHandler(u)'
  <2>1. OneHandler(u)
    BY <1>4 DEF Orderly, Register
  <2>2. sockets'[u] = sockets[u] \cup {s} /\ UNCHANGED <<states, rows, ops, roster>>
    BY DEF Register, TypeOK
  <2>3. Agrees(u) => Agrees(u)'
    BY <2>2 DEF Agrees, Shows, RowsOf
  <2>4. \A k \in Ops : Stands(k, u) => Stands(k, u)'
    BY <2>2, <2>3 DEF Stands, InChannel, RowsOf
  <2> QED
    BY <2>1, <2>2, <2>3, <2>4 DEF OneHandler, Of, Quiet, Busy
<1> QED
  BY <1>1, <1>2, OrderKept, <1>3, <1>4

(* The leave that begins takes the entry of the map away.                  *)
LEMMA StartLeaveStep ==
  ASSUME IInv, NEW u \in Users, NEW k \in Ops, StartLeave(k, u),
         sockets' \in [Users -> SUBSET Sockets],
         \A v \in Users \ {u} : sockets'[v] = sockets[v],
         UNCHANGED <<rows, roster>>
  PROVE  IInv'
<1> USE DEF IInv
<1> DEFINE c == states[u].channel
<1>1. c \in Channels /\ states' = [states EXCEPT ![u] = None] /\ Start(k, u, c, "leave")
  <2>1. states[u] \in Voice
    BY DEF StartLeave, TypeOK
  <2> QED
    BY <2>1, NoneApart DEF StartLeave
<1> HIDE DEF c
<1>2. "leave" \in Stages
  BY DEF Stages
<1>3. /\ ops' \in [Ops -> Op \cup {None}]
      /\ clash' \in [Users -> BOOLEAN]
      /\ ops[k] = None
      /\ Of(k, u)'
      /\ ops'[k].stage = "leave" /\ ops'[k].channel = c /\ ops'[k].row = None
      /\ \A l \in Ops \ {k} : ops'[l] = ops[l]
      /\ \A v \in Users \ {u} : clash'[v] = clash[v]
      /\ ~clash'[u] => ~clash[u] /\ Quiet(u)
      /\ \A v \in Users \ {u}, l \in Ops : ops'[l] # ops[l] => ~Of(l, v) /\ ~Of(l, v)'
  BY <1>1, <1>2, Started
<1>4. TypeOK'
  BY <1>1, <1>3 DEF TypeOK
<1>5. Held'
  <2>1. \A j \in Ops : ops'[j] # None /\ ops'[j].row # None =>
          ops[j] # None /\ ops'[j].row = ops[j].row /\ ops'[j].user = ops[j].user
    BY <1>3
  <2> QED
    BY <2>1, HeldKept
<1>6. About(u)
  BY <1>1, <1>3 DEF About, TypeOK
<1>7. ASSUME ~clash'[u] PROVE OneHandler(u)'
  <2>1. states'[u] = None
    BY <1>1 DEF TypeOK
  <2>2. Stands(k, u)'
    BY <1>3, <2>1 DEF Stands
  <2> QED
    BY <1>3, <1>7, <2>2, Begins
<1> QED
  BY <1>4, <1>5, OrderKept, <1>6, <1>7

LEMMA LeaveStep ==
  ASSUME IInv, NEW u \in Users, NEW k \in Ops, Leave(k, u)
  PROVE  IInv'
  BY StartLeaveStep DEF Leave, IInv, TypeOK

LEMMA CloseSocketStep ==
  ASSUME IInv, NEW u \in Users, NEW s \in Sockets, NEW k \in Ops, CloseSocket(k, u, s)
  PROVE  IInv'
<1> USE DEF IInv
<1>1. /\ sockets' \in [Users -> SUBSET Sockets]
      /\ \A v \in Users \ {u} : sockets'[v] = sockets[v]
      /\ sockets'[u] = sockets[u] \ {s}
      /\ s \in sockets[u]
      /\ UNCHANGED <<rows, roster>>
  BY DEF CloseSocket, TypeOK
<1>2. CASE sockets[u] = {s} /\ states[u] # None
  BY <1>1, <1>2, StartLeaveStep DEF CloseSocket
<1>3. CASE ~(sockets[u] = {s} /\ states[u] # None)
  <2>1. /\ clash' = [clash EXCEPT ![u] = @ \/ (sockets[u] = {s} /\ Busy(u))]
        /\ UNCHANGED <<states, ops>>
    BY <1>3 DEF CloseSocket
  <2>2. /\ clash' \in [Users -> BOOLEAN]
        /\ clash'[u] = (clash[u] \/ (sockets[u] = {s} /\ Busy(u)))
        /\ \A v \in Users \ {u} : clash'[v] = clash[v]
    <3>1. \A v \in Users : clash'[v] \in BOOLEAN
      BY <2>1 DEF TypeOK, Busy
    <3> QED
      BY <2>1, <3>1 DEF TypeOK
  <2>3. TypeOK'
    BY <1>1, <2>1, <2>2 DEF TypeOK
  <2>4. Held'
    BY <1>1, <2>1 DEF Held, Of
  <2>5. About(u)
    BY <1>1, <2>1, <2>2 DEF About
  <2>6. ASSUME ~clash'[u] PROVE OneHandler(u)'
    <3>1. OneHandler(u) /\ ~(sockets[u] = {s} /\ Busy(u))
      BY <2>2, <2>6 DEF Orderly
    <3>2. sockets'[u] = {} => sockets[u] = {s}
      BY <1>1 DEF TypeOK
    <3>3. Agrees(u) => Agrees(u)'
      BY <1>1, <1>3, <2>1, <3>2 DEF Agrees, Shows, RowsOf
    <3>4. \A l \in Ops : Of(l, u) /\ Stands(l, u) => Stands(l, u)'
      <4>1. SUFFICES ASSUME NEW l \in Ops, Of(l, u), Stands(l, u) PROVE Stands(l, u)'
        OBVIOUS
      <4>2. sockets'[u] # {}
        BY <3>1, <3>2, <4>1 DEF Busy, Of
      <4> QED
        BY <1>1, <2>1, <3>3, <4>1, <4>2 DEF Stands, InChannel, RowsOf
    <3> QED
      BY <2>1, <3>1, <3>3, <3>4 DEF OneHandler, Of, Quiet, Busy
  <2> QED
    BY <2>3, <2>4, OrderKept, <2>5, <2>6
<1> QED
  BY <1>2, <1>3

(* A frame that waits for the database: a join or an update.               *)
LEMMA FrameStep ==
  ASSUME IInv, NEW u \in Users, NEW c \in Channels, NEW k \in Ops, NEW stage \in Stages,
         Start(k, u, c, stage), sockets[u] # {},
         stage = "channel" \/ (stage = "save" /\ InChannel(u, c)),
         UNCHANGED <<sockets, states, rows, roster>>
  PROVE  IInv'
<1> USE DEF IInv
<1>1. /\ ops' \in [Ops -> Op \cup {None}]
      /\ clash' \in [Users -> BOOLEAN]
      /\ ops[k] = None
      /\ Of(k, u)'
      /\ ops'[k].stage = stage /\ ops'[k].channel = c /\ ops'[k].row = None
      /\ \A l \in Ops \ {k} : ops'[l] = ops[l]
      /\ \A v \in Users \ {u} : clash'[v] = clash[v]
      /\ ~clash'[u] => ~clash[u] /\ Quiet(u)
      /\ \A v \in Users \ {u}, l \in Ops : ops'[l] # ops[l] => ~Of(l, v) /\ ~Of(l, v)'
  BY Started
<1>2. TypeOK'
  BY <1>1 DEF TypeOK
<1>3. Held'
  <2>1. \A j \in Ops : ops'[j] # None /\ ops'[j].row # None =>
          ops[j] # None /\ ops'[j].row = ops[j].row /\ ops'[j].user = ops[j].user
    BY <1>1
  <2> QED
    BY <2>1, HeldKept
<1>4. About(u)
  BY <1>1 DEF About
<1>5. ASSUME ~clash'[u] PROVE OneHandler(u)'
  <2>1. Agrees(u)
    BY <1>1, <1>5 DEF Orderly, OneHandler
  <2>2. Agrees(u)'
    BY <2>1 DEF Agrees, Shows, RowsOf
  <2>3. Stands(k, u)'
    BY <1>1, <2>2 DEF Stands, InChannel
  <2> QED
    BY <1>1, <1>5, <2>3, Begins
<1> QED
  BY <1>2, <1>3, OrderKept, <1>4, <1>5

LEMMA JoinFrameStep ==
  ASSUME IInv, NEW u \in Users, NEW c \in Channels, NEW k \in Ops, NEW shape \in Shapes,
         JoinFrame(k, u, c, shape)
  PROVE  IInv'
<1>1. Start(k, u, c, "channel") /\ sockets[u] # {}
  BY DEF JoinFrame
<1>2. UNCHANGED <<sockets, states, rows, roster>>
  BY DEF JoinFrame
<1>3. "channel" \in Stages
  BY DEF Stages
<1> QED
  BY <1>1, <1>2, <1>3, FrameStep

LEMMA UpdateFrameStep ==
  ASSUME IInv, NEW u \in Users, NEW c \in Channels, NEW k \in Ops, UpdateFrame(k, u, c)
  PROVE  IInv'
<1>1. InChannel(u, c) /\ Start(k, u, c, "save") /\ sockets[u] # {}
  BY DEF UpdateFrame, IsUpdate
<1>2. UNCHANGED <<sockets, states, rows, roster>>
  BY DEF UpdateFrame
<1>3. "save" \in Stages
  BY DEF Stages
<1> QED
  BY <1>1, <1>2, <1>3, FrameStep

LEMMA VideoFrameStep ==
  ASSUME IInv, NEW u \in Users, NEW c \in Channels, VideoFrame(u, c)
  PROVE  IInv'
<1> USE DEF IInv
<1>1. /\ InChannel(u, c)
      /\ roster' = [roster EXCEPT ![u] = @ \cup {c}]
      /\ UNCHANGED <<sockets, states, rows, ops, clash>>
  BY DEF VideoFrame, IsUpdate
<1>2. TypeOK'
  BY <1>1 DEF TypeOK
<1>3. Held'
  BY <1>1 DEF Held, Of
<1>4. About(u)
  BY <1>1 DEF About, TypeOK
<1>5. ASSUME ~clash'[u] PROVE OneHandler(u)'
  <2>1. OneHandler(u)
    BY <1>1, <1>5 DEF Orderly
  <2>2. roster'[u] = roster[u] \cup {c}
    BY <1>1 DEF TypeOK
  <2>3. Agrees(u) => Agrees(u)'
    BY <1>1, <2>2 DEF Agrees, Shows, RowsOf, InChannel
  <2>4. \A k \in Ops : Stands(k, u) => Stands(k, u)'
    BY <1>1, <2>3 DEF Stands, InChannel, RowsOf
  <2> QED
    BY <1>1, <2>1, <2>3, <2>4 DEF OneHandler, Of, Quiet, Busy
<1> QED
  BY <1>2, <1>3, OrderKept, <1>4, <1>5

-----------------------------------------------------------------------------
(* A handler that ends where the copies agree, or where its user is known  *)
(* to be disturbed.                                                        *)
LEMMA EndStep ==
  ASSUME IInv, NEW k \in Ops, NEW u \in Users, Of(k, u), Finish(k), TypeOK',
         \A v \in Users \ {u} :
           /\ sockets'[v] = sockets[v] /\ states'[v] = states[v]
           /\ roster'[v] = roster[v] /\ clash'[v] = clash[v]
           /\ \A n \in Rows : rows'[n] # rows[n] => n \notin RowsOf(v) /\ n \notin RowsOf(v)',
         \A n \in Rows :
           \/ rows'[n] = rows[n] \/ rows'[n] = None
           \/ rows[n] # None /\ rows'[n].user = rows[n].user
           \/ \A j \in Ops : ops[j] # None => ops[j].row # n,
         \/ clash'[u]
         \/ clash'[u] = clash[u]
            /\ (OneHandler(u) => Agrees(u)')
  PROVE  IInv'
<1> USE DEF IInv
<1>1. ops[k] # None /\ ops[k].user = u
  BY DEF Of
<1>2. /\ ops' = [ops EXCEPT ![k] = None]
      /\ \A j \in Ops : ops'[j] # None /\ ops'[j].row # None =>
           ops[j] # None /\ ops'[j].row = ops[j].row /\ ops'[j].user = ops[j].user
      /\ \A v \in Users \ {u}, l \in Ops : ops'[l] # ops[l] => ~Of(l, v) /\ ~Of(l, v)'
  BY <1>1, Finished
<1>3. Held'
  BY <1>2, HeldKept
<1>4. About(u)
  BY <1>2 DEF About
<1>5. clash'[u] \/ (clash'[u] = clash[u] /\ (OneHandler(u) => Agrees(u)'))
  OBVIOUS
<1>6. ASSUME ~clash'[u] PROVE OneHandler(u)'
  <2>1. OneHandler(u)
    BY <1>1, <1>5, <1>6 DEF Orderly
  <2> QED
    BY <1>1, <1>2, <1>5, <1>6, <2>1, Ends
<1> QED
  BY <1>1, <1>3, OrderKept, <1>4, <1>6

(* A handler that goes on to x, with what it stands for there.             *)
LEMMA GoOnStep ==
  ASSUME IInv, NEW k \in Ops, NEW u \in Users, Of(k, u), NEW x \in Op, x.user = u,
         ops' = [ops EXCEPT ![k] = x], TypeOK', UNCHANGED <<sockets, roster, clash>>,
         \A v \in Users \ {u} :
           /\ states'[v] = states[v]
           /\ \A n \in Rows : rows'[n] # rows[n] => n \notin RowsOf(v) /\ n \notin RowsOf(v)',
         \A n \in Rows : rows'[n] = rows[n] \/ rows'[n] = None,
         x.row = ops[k].row \/ x.row = None \/ x.row \in RowsOf(u)',
         OneHandler(u) => Stands(k, u)'
  PROVE  IInv'
<1> USE DEF IInv
<1>1. ops[k] # None /\ ops[k].user = u
  BY DEF Of
<1>2. /\ ops'[k] = x
      /\ Of(k, u)'
      /\ \A l \in Ops \ {k} : ops'[l] = ops[l]
      /\ \A v \in Users \ {u}, l \in Ops : ops'[l] # ops[l] => ~Of(l, v) /\ ~Of(l, v)'
  BY <1>1, WentOn
<1>3. Held'
  <2> SUFFICES ASSUME NEW j \in Ops, NEW v \in Users, Of(j, v)', ops'[j].row # None
               PROVE  rows'[ops'[j].row] = None \/ rows'[ops'[j].row].user = v
    BY DEF Held
  <2>1. CASE j # k \/ x.row = ops[k].row
    <3>1. Of(j, v) /\ ops'[j].row = ops[j].row
      BY <1>1, <1>2, <2>1 DEF Of
    <3>2. ops[j].row \in Rows
      BY <3>1, Handler DEF Of
    <3> QED
      BY <3>1, <3>2 DEF Held
  <2>2. CASE j = k /\ x.row \in RowsOf(u)'
    BY <1>2, <2>2 DEF RowsOf, Of
  <2> QED
    BY <1>2, <2>1, <2>2
<1>4. About(u)
  BY <1>2 DEF About
<1>5. OneHandler(u) => Stands(k, u)'
  OBVIOUS
<1>6. ASSUME ~clash'[u] PROVE OneHandler(u)'
  <2>1. OneHandler(u)
    BY <1>1, <1>6 DEF Orderly
  <2> QED
    BY <1>1, <1>2, <1>5, <2>1, GoesOn
<1> QED
  BY <1>1, <1>3, OrderKept, <1>4, <1>6

(* What an orderly user relies on where their handler stands.              *)
LEMMA Standing ==
  ASSUME NEW k \in Ops, NEW u \in Users, Of(k, u), OneHandler(u)
  PROVE  Stands(k, u)
  BY DEF OneHandler

LEMMA FinishLeaveStep ==
  ASSUME IInv, NEW k \in Ops, FinishLeave(k)
  PROVE  IInv'
<1> USE DEF IInv
<1>u. PICK u \in Users : Of(k, u)
  BY Handler DEF FinishLeave
<1>1. /\ ops[k] # None /\ ops[k].stage = "leave"
      /\ rows' = Deleted(u)
      /\ roster' = [roster EXCEPT ![u] = {}]
      /\ Finish(k)
      /\ UNCHANGED <<sockets, states, clash>>
  BY <1>u DEF FinishLeave, Of
<1>2. u \in Users /\ Of(k, u)
  BY <1>u
<1>3. TypeOK'
  BY <1>1, <1>2, Deletes, Finished DEF TypeOK
<1>4. ASSUME OneHandler(u) PROVE Agrees(u)'
  <2>1. states[u] = None
    BY <1>1, <1>2, <1>4, Standing DEF Stands
  <2>2. roster'[u] = {} /\ RowsOf(u)' = {}
    BY <1>1, <1>2, Deletes DEF TypeOK
  <2> QED
    BY <1>1, <2>1, <2>2 DEF Agrees, Shows
<1>5. \A n \in Rows : rows'[n] = rows[n] \/ rows'[n] = None
  BY <1>1, <1>2, Deletes
<1>6. \A v \in Users \ {u} :
        /\ sockets'[v] = sockets[v] /\ states'[v] = states[v]
        /\ roster'[v] = roster[v] /\ clash'[v] = clash[v]
        /\ \A n \in Rows : rows'[n] # rows[n] => n \notin RowsOf(v) /\ n \notin RowsOf(v)'
  BY <1>1, <1>2, Deletes DEF TypeOK
<1> QED
  BY <1>u, <1>1, <1>3, <1>4, <1>5, <1>6, EndStep

LEMMA FinishUpdateStep ==
  ASSUME IInv, NEW k \in Ops, FinishUpdate(k)
  PROVE  IInv'
<1> USE DEF IInv
<1>u. PICK u \in Users : Of(k, u)
  BY Handler DEF FinishUpdate
<1>c. PICK c \in Channels : c = ops[k].channel
  BY <1>u, Handler DEF Of
<1>1. /\ ops[k] # None /\ ops[k].stage = "save"
      /\ roster' = IF states[u] = None THEN roster
                   ELSE [roster EXCEPT ![u] = @ \cup {c}]
      /\ Finish(k)
      /\ UNCHANGED <<sockets, states, rows, clash>>
  BY <1>u, <1>c DEF FinishUpdate, Of
<1>2. u \in Users /\ Of(k, u) /\ c \in Channels
  BY <1>u, <1>c
<1>3. TypeOK'
  BY <1>1, <1>2, Finished DEF TypeOK
<1>4. ASSUME OneHandler(u) PROVE Agrees(u)'
  <2>1. Agrees(u) /\ InChannel(u, c)
    BY <1>1, <1>2, <1>4, <1>c, Standing DEF Stands
  <2>2. roster'[u] = roster[u] \cup {c}
    BY <1>1, <1>2, <2>1 DEF TypeOK, InChannel
  <2> QED
    BY <1>1, <2>1, <2>2 DEF Agrees, Shows, RowsOf, InChannel
<1>5. \A v \in Users \ {u} : roster'[v] = roster[v]
  BY <1>1, <1>2 DEF TypeOK
<1> QED
  BY <1>u, <1>1, <1>3, <1>4, <1>5, EndStep

LEMMA ChannelMissingStep ==
  ASSUME IInv, NEW k \in Ops, ChannelMissing(k) \/ DatabaseFails(k)
  PROVE  IInv'
<1> USE DEF IInv
<1>u. PICK u \in Users : Of(k, u)
  BY Handler DEF ChannelMissing, DatabaseFails
<1>1. /\ ops[k] # None
      /\ Finish(k)
      /\ clash' = [clash EXCEPT ![u] = TRUE]
      /\ UNCHANGED <<sockets, states, rows, roster>>
  BY <1>u DEF ChannelMissing, DatabaseFails, Of
<1>3. TypeOK'
  BY <1>1, Finished DEF TypeOK
<1>4. clash'[u] /\ \A v \in Users \ {u} : clash'[v] = clash[v]
  BY <1>1, <1>u DEF TypeOK
<1> QED
  BY <1>u, <1>1, <1>3, <1>4, EndStep

LEMMA ChannelFoundStep ==
  ASSUME IInv, NEW k \in Ops, ChannelFound(k)
  PROVE  IInv'
<1> USE DEF IInv
<1>u. PICK u \in Users : Of(k, u)
  BY Handler DEF ChannelFound
<1> DEFINE x == [ops[k] EXCEPT !.stage = "clear", !.clear = states[u] # None]
<1>1. /\ ops[k] # None /\ ops[k].stage = "channel"
      /\ states' = [states EXCEPT ![u] = None]
      /\ ops' = [ops EXCEPT ![k].stage = "clear", ![k].clear = states[u] # None]
      /\ UNCHANGED <<sockets, rows, roster, clash>>
  BY <1>u DEF ChannelFound, Of
<1>2. u \in Users /\ Of(k, u) /\ ops[k] \in Op
  BY <1>u, <1>1, Handler
<1>3. x \in Op /\ x.user = u /\ x.row = ops[k].row /\ x.stage = "clear"
      /\ (x.clear <=> states[u] # None)
  BY <1>u, <1>2 DEF Op, Stages, Of
<1>4. ops' = [ops EXCEPT ![k] = x]
  BY <1>1 DEF TypeOK
<1> HIDE DEF x
<1>5. ops'[k] = x
  BY <1>4 DEF TypeOK
<1>6. TypeOK'
  <2>1. ops' \in [Ops -> Op \cup {None}]
    BY <1>3, <1>4 DEF TypeOK
  <2>2. states' \in [Users -> Voice \cup {None}]
    BY <1>1, <1>2 DEF TypeOK
  <2> QED
    BY <1>1, <2>1, <2>2 DEF TypeOK
<1>7. states'[u] = None /\ \A v \in Users \ {u} : states'[v] = states[v]
  BY <1>1, <1>2 DEF TypeOK
<1>8. ASSUME OneHandler(u) PROVE Stands(k, u)'
  <2>1. Agrees(u) /\ sockets[u] # {}
    BY <1>1, <1>2, <1>8, Standing DEF Stands
  <2>2. ~x.clear => RowsOf(u)' = {}
    BY <1>1, <1>3, <2>1 DEF Agrees, RowsOf
  <2> QED
    BY <1>1, <1>3, <1>5, <1>7, <2>1, <2>2 DEF Stands
<1>9. /\ UNCHANGED <<sockets, roster, clash>>
      /\ \A n \in Rows : rows'[n] = rows[n]
  BY <1>1
<1> QED
  BY <1>u, <1>3, <1>4, <1>6, <1>7, <1>8, <1>9, GoOnStep

LEMMA SetStateStep ==
  ASSUME IInv, NEW k \in Ops, SetState(k)
  PROVE  IInv'
<1> USE DEF IInv
<1>u. PICK u \in Users : Of(k, u)
  BY Handler DEF SetState
<1>c. PICK c \in Channels : c = ops[k].channel
  BY <1>u, Handler DEF Of
<1> DEFINE x == [ops[k] EXCEPT !.stage = "find"]
<1>1. /\ ops[k] # None /\ ops[k].stage = "clear"
      /\ rows' = IF ops[k].clear THEN Deleted(u) ELSE rows
      /\ states' = [states EXCEPT ![u] = [channel |-> c]]
      /\ ops' = [ops EXCEPT ![k].stage = "find"]
      /\ UNCHANGED <<sockets, roster, clash>>
  BY <1>u, <1>c DEF SetState, Goto, Of
<1>2. u \in Users /\ Of(k, u) /\ ops[k] \in Op /\ c \in Channels
  BY <1>u, <1>c, <1>1, Handler
<1>3. x \in Op /\ x.user = u /\ x.row = ops[k].row /\ x.stage = "find" /\ x.channel = c
  BY <1>u, <1>c, <1>2 DEF Op, Stages, Of
<1>4. ops' = [ops EXCEPT ![k] = x]
  BY <1>1 DEF TypeOK
<1> HIDE DEF x
<1>5. ops'[k] = x
  BY <1>4 DEF TypeOK
<1>6. [channel |-> c] \in Voice /\ [channel |-> c] # None
  BY <1>2, NoneApart DEF Voice
<1>7. /\ rows' \in [Rows -> Row \cup {None}]
      /\ ops[k].clear => RowsOf(u)' = {}
      /\ \A n \in Rows : rows'[n] = rows[n] \/ rows'[n] = None
      /\ \A v \in Users \ {u}, n \in Rows :
           rows'[n] # rows[n] => n \notin RowsOf(v) /\ n \notin RowsOf(v)'
  <2>1. CASE ops[k].clear
    BY <1>1, <1>2, <2>1, Deletes
  <2>2. CASE ~ops[k].clear
    BY <1>1, <2>2 DEF TypeOK
  <2> QED
    BY <2>1, <2>2
<1>8. TypeOK'
  BY <1>1, <1>2, <1>3, <1>4, <1>6, <1>7 DEF TypeOK
<1>9. states'[u] = [channel |-> c] /\ \A v \in Users \ {u} : states'[v] = states[v]
  BY <1>1, <1>2 DEF TypeOK
<1>10. ASSUME OneHandler(u) PROVE Stands(k, u)'
  <2>1. sockets[u] # {} /\ (~ops[k].clear => RowsOf(u) = {})
    BY <1>1, <1>2, <1>10, <1>c, Standing DEF Stands
  <2>2. RowsOf(u)' = {}
    BY <1>1, <1>7, <2>1 DEF RowsOf
  <2>3. InChannel(u, c)'
    BY <1>6, <1>9 DEF InChannel
  <2> QED
    BY <1>1, <1>3, <1>5, <2>1, <2>2, <2>3 DEF Stands, InChannel
<1>11. UNCHANGED <<sockets, roster, clash>>
  BY <1>1
<1> QED
  BY <1>u, <1>3, <1>4, <1>7, <1>8, <1>9, <1>10, <1>11, GoOnStep

LEMMA FindRowStep ==
  ASSUME IInv, NEW k \in Ops, FindRow(k)
  PROVE  IInv'
<1> USE DEF IInv
<1>u. PICK u \in Users : Of(k, u)
  BY Handler DEF FindRow
<1>1. /\ ops[k] # None /\ ops[k].stage = "find"
      /\ UNCHANGED <<sockets, states, rows, roster, clash>>
  BY <1>u DEF FindRow, Of
<1>2. PICK r \in IF RowsOf(u) = {} THEN {None} ELSE RowsOf(u) :
             ops' = [ops EXCEPT ![k].stage = "write", ![k].row = r]
  BY <1>u DEF FindRow, Of
<1> DEFINE x == [ops[k] EXCEPT !.stage = "write", !.row = r]
<1>3. u \in Users /\ Of(k, u) /\ ops[k] \in Op
  BY <1>u, <1>1, Handler
<1>4. r \in Rows \cup {None} /\ (r = None \/ r \in RowsOf(u)) /\ (RowsOf(u) = {} => r = None)
  BY DEF RowsOf
<1>5. x \in Op /\ x.user = u /\ x.row = r /\ x.stage = "write" /\ x.channel = ops[k].channel
  BY <1>u, <1>3, <1>4 DEF Op, Stages, Of
<1>6. ops' = [ops EXCEPT ![k] = x]
  BY <1>2 DEF TypeOK
<1> HIDE DEF x
<1>7. ops'[k] = x
  BY <1>6 DEF TypeOK
<1>8. TypeOK'
  BY <1>1, <1>5, <1>6 DEF TypeOK
<1>9. RowsOf(u)' = RowsOf(u)
  BY <1>1 DEF RowsOf
<1>10. ASSUME OneHandler(u) PROVE Stands(k, u)'
  <2>1. sockets[u] # {} /\ InChannel(u, ops[k].channel) /\ RowsOf(u) = {}
    BY <1>1, <1>3, <1>10, Standing DEF Stands
  <2> QED
    BY <1>1, <1>4, <1>5, <1>7, <1>9, <2>1 DEF Stands, InChannel
<1>11. x.row = None \/ x.row \in RowsOf(u)'
  BY <1>4, <1>5, <1>9
<1> QED
  BY <1>u, <1>1, <1>3, <1>5, <1>6, <1>8, <1>10, <1>11, GoOnStep

(* A row created or merged: nobody else's, and for an orderly user the     *)
(* only one.                                                               *)
LEMMA WriteRowStep ==
  ASSUME IInv, NEW k \in Ops, WriteRow(k)
  PROVE  IInv'
<1> USE DEF IInv
<1>u. PICK u \in Users : Of(k, u)
  BY Handler DEF WriteRow
<1>c. PICK c \in Channels : c = ops[k].channel
  BY <1>u, Handler DEF Of
<1> DEFINE r == ops[k].row
           row == [user |-> u, channel |-> c]
<1>1. /\ ops[k] # None /\ ops[k].stage = "write"
      /\ roster' = [roster EXCEPT ![u] = {c}]
      /\ Finish(k)
      /\ UNCHANGED <<sockets, states, clash>>
  BY <1>u, <1>c DEF WriteRow, Of
<1>2. u \in Users /\ Of(k, u) /\ c \in Channels /\ r \in Rows \cup {None}
  BY <1>u, <1>c, <1>1, Handler
<1>3. row \in Row /\ row.user = u /\ row.channel = c
  BY <1>2 DEF Row
<1>4. row # None
  BY <1>3, NoneApart
<1>5. \/ r = None /\ \E n \in Rows : Unused(n) /\ rows' = [rows EXCEPT ![n] = row]
      \/ r # None /\ rows[r] = None /\ rows' = rows
      \/ r # None /\ rows[r] # None /\ rows' = [rows EXCEPT ![r] = row]
  BY <1>u, <1>c DEF WriteRow, Of
<1> HIDE DEF row
<1>6. /\ rows' \in [Rows -> Row \cup {None}]
      /\ \A n \in Rows :
           \/ rows'[n] = rows[n]
           \/ rows[n] # None /\ rows[n].user = u /\ rows'[n] = row
           \/ rows[n] = None /\ Unused(n) /\ rows'[n] = row
  <2>1. CASE r = None /\ \E n \in Rows : Unused(n) /\ rows' = [rows EXCEPT ![n] = row]
    BY <1>3, <2>1 DEF TypeOK, Unused
  <2>2. CASE r # None /\ rows[r] = None /\ rows' = rows
    BY <2>2 DEF TypeOK
  <2>3. CASE r # None /\ rows[r] # None /\ rows' = [rows EXCEPT ![r] = row]
    <3>1. rows[r].user = u /\ r \in Rows
      BY <1>2, <2>3 DEF Held
    <3> QED
      BY <1>3, <2>3, <3>1 DEF TypeOK
  <2> QED
    BY <1>5, <2>1, <2>2, <2>3
<1>7. \A v \in Users \ {u}, n \in Rows :
        rows'[n] # rows[n] => n \notin RowsOf(v) /\ n \notin RowsOf(v)'
  BY <1>3, <1>6 DEF RowsOf
<1>8. \A n \in Rows :
        \/ rows'[n] = rows[n] \/ rows'[n] = None
        \/ rows[n] # None /\ rows'[n].user = rows[n].user
        \/ \A j \in Ops : ops[j] # None => ops[j].row # n
  BY <1>3, <1>6 DEF Unused
<1>9. TypeOK'
  BY <1>1, <1>2, <1>6, Finished DEF TypeOK
<1>10. ASSUME OneHandler(u) PROVE Agrees(u)'
  <2>1. sockets[u] # {} /\ InChannel(u, c) /\ RowsOf(u) = {} /\ r = None
    BY <1>1, <1>2, <1>10, <1>c, Standing DEF Stands
  <2>2. PICK n \in Rows : Unused(n) /\ rows' = [rows EXCEPT ![n] = row]
    BY <1>5, <2>1
  <2>3. rows'[n] = row /\ \A m \in Rows \ {n} : rows'[m] = rows[m]
    BY <2>2 DEF TypeOK
  <2>4. RowsOf(u)' = {n}
    BY <1>3, <1>4, <2>1, <2>3 DEF RowsOf
  <2>5. roster'[u] = {c}
    BY <1>1, <1>2 DEF TypeOK
  <2> QED
    BY <1>1, <1>3, <2>1, <2>3, <2>4, <2>5 DEF Agrees, Shows, InChannel
<1>11. \A v \in Users \ {u} :
         /\ sockets'[v] = sockets[v] /\ states'[v] = states[v]
         /\ roster'[v] = roster[v] /\ clash'[v] = clash[v]
         /\ \A n \in Rows : rows'[n] # rows[n] => n \notin RowsOf(v) /\ n \notin RowsOf(v)'
  BY <1>1, <1>2, <1>7 DEF TypeOK
<1>12. clash'[u] = clash[u]
  BY <1>1
<1> QED
  BY <1>u, <1>1, <1>8, <1>9, <1>10, <1>11, <1>12, EndStep

LEMMA RestartStep == ASSUME IInv, Restart PROVE IInv'
<1> USE DEF IInv
<1>1. TypeOK'
  BY DEF TypeOK, Restart
<1>2. \A k \in Ops : ops'[k] = None
  BY DEF Restart
<1>3. \A u \in Users : clash'[u]
  BY DEF Restart
<1> QED
  BY <1>1, <1>2, <1>3 DEF Held, Of, Orderly

-----------------------------------------------------------------------------
LEMMA IInvNext == IInv /\ [Next]_vars => IInv'
<1> SUFFICES ASSUME IInv, [Next]_vars PROVE IInv'
  OBVIOUS
<1>1. ASSUME NEW u \in Users, NEW s \in Sockets,
             Register(u, s) \/ \E k \in Ops : CloseSocket(k, u, s)
      PROVE  IInv'
  BY <1>1, RegisterStep, CloseSocketStep
<1>2. ASSUME NEW k \in Ops, NEW u \in Users, Leave(k, u) PROVE IInv'
  BY <1>2, LeaveStep
<1>3. ASSUME NEW k \in Ops, NEW u \in Users, NEW c \in Channels, NEW shape \in Shapes,
             JoinFrame(k, u, c, shape)
      PROVE  IInv'
  BY <1>3, JoinFrameStep
<1>4. ASSUME NEW k \in Ops, NEW u \in Users, NEW c \in Channels, UpdateFrame(k, u, c)
      PROVE  IInv'
  BY <1>4, UpdateFrameStep
<1>5. ASSUME NEW u \in Users, NEW c \in Channels, VideoFrame(u, c) PROVE IInv'
  BY <1>5, VideoFrameStep
<1>6. ASSUME NEW k \in Ops, Handlers(k) PROVE IInv'
  BY <1>6, FinishLeaveStep, FinishUpdateStep, ChannelFoundStep, ChannelMissingStep,
     SetStateStep, FindRowStep, WriteRowStep DEF Handlers
<1>7. ASSUME Restart PROVE IInv'
  BY <1>7, RestartStep
<1>8. ASSUME UNCHANGED vars PROVE IInv'
  BY <1>8 DEF vars, IInv, TypeOK, Held, Of, Orderly, OneHandler, Quiet, Busy, Agrees,
     Stands, Shows, RowsOf, InChannel
<1> QED
  BY <1>1, <1>2, <1>3, <1>4, <1>5, <1>6, <1>7, <1>8 DEF Next

(* The inductive invariant of voice presence.                              *)
LEMMA Invariant == Spec => []IInv
  BY IInvInit, IInvNext, PTL DEF Spec

(* Every variable of voice presence keeps its type, for any users, sockets,*)
(* channels, rows and overlapping handlers (voice.service.ts).             *)
THEOREM TypeCorrect == Spec => []TypeOK
<1>1. IInv => TypeOK
  BY DEF IInv
<1> QED
  BY <1>1, Invariant, PTL

(* The map of VoiceService, the table and what the others see are one and  *)
(* the same when the handlers of a user are done, provided they ran one at *)
(* a time and every step of theirs succeeded; whatever the handlers of     *)
(* others did meanwhile.                                                   *)
THEOREM VoiceAgrees == Spec => []SerialVoiceAgrees
<1>1. ASSUME IInv PROVE SerialVoiceAgrees
  <2> SUFFICES ASSUME NEW u \in Users, Quiet(u), ~clash[u]
               PROVE  /\ states[u] # None => sockets[u] # {}
                      /\ roster[u] = Shows(u)
                      /\ {rows[r].channel : r \in RowsOf(u)} = Shows(u)
                      /\ Cardinality(RowsOf(u)) = Cardinality(Shows(u))
    BY DEF SerialVoiceAgrees
  <2>1. Agrees(u)
    BY <1>1 DEF IInv, Orderly, OneHandler
  <2>2. CASE states[u] = None
    BY <2>1, <2>2 DEF Agrees, Shows
  <2>3. CASE states[u] # None
    <3>1. PICK n \in Rows : RowsOf(u) = {n} /\ rows[n].channel = states[u].channel
      BY <2>1, <2>3 DEF Agrees
    <3>2. Shows(u) = {states[u].channel}
      BY <2>3 DEF Shows
    <3>3. Cardinality({n}) = 1 /\ Cardinality({states[u].channel}) = 1
      BY FS_Singleton
    <3> QED
      BY <2>1, <2>3, <3>1, <3>2, <3>3 DEF Agrees
  <2> QED
    BY <2>2, <2>3
<1> QED
  BY <1>1, Invariant, PTL

(* Closing a tab while another one stays open leaves the user's voice      *)
(* presence alone (handleDisconnect of chat.gateway.ts).                   *)
THEOREM TabsApart == Spec => OnlyLastTabLeaves
<1>1. ASSUME TypeOK, [Next]_vars, NEW u \in Users, sockets'[u] # sockets[u], sockets'[u] # {}
      PROVE  states'[u] = states[u]
  <2>1. ASSUME NEW v \in Users, NEW s \in Sockets, NEW k \in Ops, CloseSocket(k, v, s)
        PROVE  states'[u] = states[u]
    <3>1. sockets' = [sockets EXCEPT ![v] = @ \ {s}]
      BY <2>1 DEF CloseSocket
    <3>2. u = v /\ sockets[u] # {s}
      BY <1>1, <3>1 DEF TypeOK
    <3> QED
      BY <2>1, <3>2 DEF CloseSocket
  <2>2. ASSUME NEW v \in Users, NEW s \in Sockets, Register(v, s)
        PROVE  states'[u] = states[u]
    BY <2>2 DEF Register
  <2>3. ASSUME Restart PROVE FALSE
    BY <1>1, <2>3 DEF Restart
  <2>4. ASSUME UNCHANGED sockets PROVE FALSE
    BY <1>1, <2>4
  <2>5. ASSUME NEW k \in Ops, Handlers(k) PROVE UNCHANGED sockets
    BY <2>5 DEF Handlers, FinishLeave, FinishUpdate, ChannelFound, ChannelMissing,
       SetState, FindRow, WriteRow, DatabaseFails
  <2> QED
    BY <1>1, <2>1, <2>2, <2>3, <2>4, <2>5
       DEF Next, Leave, JoinFrame, UpdateFrame, VideoFrame, vars
<1>2. TypeOK /\ [Next]_vars =>
        [\A u \in Users : sockets'[u] # sockets[u] /\ sockets'[u] # {} =>
           states'[u] = states[u]]_vars
  BY <1>1
<1> QED
  BY <1>2, TypeCorrect, PTL DEF Spec, OnlyLastTabLeaves
=============================================================================
