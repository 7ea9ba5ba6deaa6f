----------------------------- MODULE RealtimeClient -----------------------------
(***************************************************************************)
(* The realtime client of the apps on native targets (packages/rust/       *)
(* slyng-client/src/ws/native.rs): one handle that applications connect,   *)
(* disconnect and subscribe with, the reconnect loop it spawns, and what   *)
(* the gateway makes of the frames (handleIdentify, handleSubscribe and    *)
(* handleUnsubscribe of chat.gateway.ts).  Every section under the mutex   *)
(* is one step, and other tasks run between two of them.                   *)
(***************************************************************************)
EXTENDS Integers, Sequences, FiniteSets

CONSTANTS Topics,    \* the channels one may subscribe to
          Conns,     \* bound: sockets at once
          Loops,     \* bound: reconnect loops at once
          Calls,     \* bound: calls of subscribe and unsubscribe under way
          MaxCalls,  \* bound: calls of the application ever made
          MaxBreaks, \* bound: sockets and dials that ever fail
          None

ASSUME ClientBounds == MaxCalls \in Nat /\ MaxBreaks \in Nat
ASSUME ClientNone == None \notin Conns /\ None \notin Loops

VARIABLES
  client, \* Inner: what the mutex guards
  loops,  \* the tasks that run reconnect_loop
  calls,  \* subscriptions that have not been sent yet
  conns,  \* sockets, with the gateway's record of each
  past    \* only read by properties and bounds

clientVars == <<client, loops, calls, conns, past>>

Frame == [op : {"identify", "subscribe", "unsubscribe"}, topics : SUBSET Topics]
States == {"disconnected", "connecting", "connected", "identified"}
Inner == [state : States, stopped : BOOLEAN, outgoing : Conns \cup {None},
          subscribed : SUBSET Topics, pending : Seq(Frame)]
(* check .. again are the sections of reconnect_loop and connect_once; a   *)
(* loop has a socket from dialling until it is told that it ended.         *)
Loop == [stage : {"check", "dial", "again"}, conn : {None}]
          \cup [stage : {"hello", "flush", "pump"}, conn : Conns]
          \cup [stage : {"after"}, conn : Conns \cup {None}]
(* frames: sent and not handled yet; asked: handleIdentify is waiting for  *)
(* the session; late: topics whose authorisation is awaited; told: what    *)
(* the frames ever sent amount to (only read by properties).               *)
Conn == [open : BOOLEAN, frames : Seq(Frame), asked : BOOLEAN, user : BOOLEAN,
         late : SUBSET Topics, topics : SUBSET Topics, told : SUBSET Topics]
(* cut: disconnect met a loop or a call at work, or connect a loop that    *)
(* was between two sockets; mixed: calls about one topic overlapped;       *)
(* again: what the last socket was asked for in the name of earlier calls. *)
Past == [cut : BOOLEAN, mixed : BOOLEAN, again : SUBSET Topics,
         calls : 0..MaxCalls, breaks : 0..MaxBreaks]
ASSUME ClientRecords == None \notin Frame /\ None \notin Loop /\ None \notin Conn

(* What is declared above has the shape it says.                           *)
ClientTypeOK ==
  /\ client \in Inner
  /\ loops \in [Loops -> Loop \cup {None}]
  /\ calls \in [Calls -> Frame \cup {None}]
  /\ conns \in [Conns -> Conn \cup {None}]
  /\ past \in Past

ClientInit ==
  /\ client = [state |-> "disconnected", stopped |-> FALSE, outgoing |-> None,
               subscribed |-> {}, pending |-> <<>>]
  /\ loops = [l \in Loops |-> None]
  /\ calls = [k \in Calls |-> None]
  /\ conns = [c \in Conns |-> None]
  /\ past = [cut |-> FALSE, mixed |-> FALSE, again |-> {}, calls |-> 0, breaks |-> 0]

-----------------------------------------------------------------------------
Quiet == \A k \in Calls : calls[k] = None
Opened == [open |-> TRUE, frames |-> <<>>, asked |-> FALSE, user |-> FALSE,
           late |-> {}, topics |-> {}, told |-> {}]
Working == {l \in Loops : loops[l] # None}
Unused(c) ==
  conns[c] = None /\ client.outgoing # c /\ c \notin {loops[l].conn : l \in Working}

Amounts(topics, f) ==
  CASE f.op = "subscribe" -> topics \cup f.topics
    [] f.op = "unsubscribe" -> topics \ f.topics
    [] f.op = "identify" -> topics

(* A frame for the socket c: it is lost if nobody reads the queue any      *)
(* more.                                                                   *)
Sent(c, f) ==
  IF c = None \/ conns[c] = None THEN conns
  ELSE [conns EXCEPT ![c].frames = Append(@, f), ![c].told = Amounts(@, f)]

(* Several frames, one after the other.                                    *)
AllAmount(topics, fs) ==
  LET after[n \in 0..Len(fs)] == IF n = 0 THEN topics ELSE Amounts(after[n - 1], fs[n])
  IN  after[Len(fs)]
SentAll(c, fs) ==
  IF c = None \/ conns[c] = None THEN conns
  ELSE [conns EXCEPT ![c].frames = @ \o fs, ![c].told = AllAmount(@, fs)]

At(l, stage) == loops[l] # None /\ loops[l].stage = stage
LoopAt(l, stage) == loops' = [loops EXCEPT ![l].stage = stage]

Breaks == /\ past.breaks < MaxBreaks
          /\ past' = [past EXCEPT !.breaks = @ + 1]

-----------------------------------------------------------------------------
(* connect: a loop is spawned unless the state says that one is at work.   *)
Connect ==
  /\ past.calls < MaxCalls
  /\ past' = [past EXCEPT !.calls = @ + 1,
       !.cut = @ \/ (client.state = "disconnected" /\ Working # {})]
  /\ IF client.state # "disconnected"
     THEN client' = [client EXCEPT !.stopped = FALSE] /\ UNCHANGED loops
     ELSE /\ client' = [client EXCEPT !.stopped = FALSE, !.state = "connecting"]
          /\ \E l \in Loops : loops[l] = None
               /\ loops' = [loops EXCEPT ![l] = [stage |-> "check", conn |-> None]]
  /\ UNCHANGED <<calls, conns>>

(* disconnect: the loop and its socket are left to themselves.             *)
Disconnect ==
  /\ past.calls < MaxCalls
  /\ past' = [past EXCEPT !.calls = @ + 1,
                          !.cut = @ \/ Working # {} \/ ~Quiet]
  /\ client' = [state |-> "disconnected", stopped |-> TRUE, outgoing |-> None,
                subscribed |-> {}, pending |-> <<>>]
  /\ UNCHANGED <<loops, calls, conns>>

(* subscribe_channels and unsubscribe_channels: the set first, and then,   *)
(* under the mutex once more, the frame.                                   *)
Subscription(k, f) ==
  /\ calls[k] = None
  /\ f.op # "identify" /\ f.topics # {}
  /\ calls' = [calls EXCEPT ![k] = f]
  /\ client' = [client EXCEPT !.subscribed = Amounts(@, f)]
  /\ past' = [past EXCEPT !.calls = IF @ < MaxCalls THEN @ + 1 ELSE @,
       !.mixed = @ \/ \E j \in Calls : calls[j] # None /\ calls[j].topics \cap f.topics # {}]
  /\ UNCHANGED <<loops, conns>>

Subscribe(k, f) == past.calls < MaxCalls /\ Subscription(k, f)

(* send: at once if identified, and otherwise when it will be.             *)
SendCall(k) ==
  /\ calls[k] # None
  /\ calls' = [calls EXCEPT ![k] = None]
  /\ IF client.state = "identified" /\ client.outgoing # None
     THEN conns' = Sent(client.outgoing, calls[k]) /\ UNCHANGED client
     ELSE client' = [client EXCEPT !.pending = Append(@, calls[k])] /\ UNCHANGED conns
  /\ UNCHANGED <<loops, past>>

-----------------------------------------------------------------------------
(* reconnect_loop and connect_once.                                        *)

\* Mutant: the loop holds on to the socket that has ended.
CheckStopHolding(l) ==
  /\ At(l, "check") \/ At(l, "after")
  /\ loops' = [loops EXCEPT ![l] =
       IF client.stopped THEN None
       ELSE [@ EXCEPT !.stage = IF @ = "check" THEN "dial" ELSE "again"]]
  /\ UNCHANGED <<client, calls, conns, past>>

CheckStop(l) ==
  /\ At(l, "check") \/ At(l, "after")
  /\ loops' = [loops EXCEPT ![l] =
       IF client.stopped THEN None
       ELSE [stage |-> IF At(l, "check") THEN "dial" ELSE "again", conn |-> None]]
  /\ UNCHANGED <<client, calls, conns, past>>

(* The backoff passes, however long it is.                                 *)
Again(l) ==
  /\ At(l, "again")
  /\ client' = [client EXCEPT !.state = "connecting"]
  /\ LoopAt(l, "check")
  /\ UNCHANGED <<calls, conns, past>>

Dial(l) ==
  /\ At(l, "dial")
  /\ \/ \E c \in Conns : Unused(c)
          /\ conns' = [conns EXCEPT ![c] = Opened]
          /\ client' = [client EXCEPT !.state = "connected", !.outgoing = c]
          /\ loops' = [loops EXCEPT ![l] = [stage |-> "hello", conn |-> c]]
          /\ UNCHANGED past
     \/ Breaks /\ LoopAt(l, "after") /\ UNCHANGED <<client, conns>>
  /\ UNCHANGED calls

(* IDENTIFY goes past the queue; an error leaves the state as it is.       *)
Hello(l) ==
  /\ At(l, "hello")
  /\ LET c == loops[l].conn
     IN \/ /\ conns' = Sent(c, [op |-> "identify", topics |-> {}])
           /\ LoopAt(l, "flush")
        \/ /\ ~conns[c].open
           /\ conns' = [conns EXCEPT ![c] = None]
           /\ LoopAt(l, "after")
  /\ UNCHANGED <<client, calls, past>>

\* Mutant: what the application wants is not asked for again.
FlushPendingOnly(l) ==
  /\ At(l, "flush")
  /\ client' = [client EXCEPT !.state = "identified", !.pending = <<>>]
  /\ conns' = SentAll(client.outgoing, client.pending)
  /\ LoopAt(l, "pump")
  /\ UNCHANGED <<calls, past>>

(* Identified, as far as the client can tell: everything subscribed to is  *)
(* asked for again, and then what was queued is sent.                      *)
Flush(l) ==
  /\ At(l, "flush")
  /\ client' = [client EXCEPT !.state = "identified", !.pending = <<>>]
  /\ LET again == [op |-> "subscribe", topics |-> client.subscribed]
     IN conns' = SentAll(client.outgoing,
                         (IF client.subscribed = {} THEN <<>> ELSE <<again>>) \o client.pending)
  /\ LoopAt(l, "pump")
  /\ past' = [past EXCEPT !.again = client.subscribed]
  /\ UNCHANGED calls

(* The pump ends when its socket does, and speaks for whichever socket is  *)
(* the current one.                                                        *)
PumpEnds(l) ==
  /\ At(l, "pump")
  /\ ~conns[loops[l].conn].open
  /\ client' = [client EXCEPT !.state = "disconnected", !.outgoing = None]
  /\ conns' = [conns EXCEPT ![loops[l].conn] = None]
  /\ LoopAt(l, "after")
  /\ UNCHANGED <<calls, past>>

-----------------------------------------------------------------------------
(* The gateway: the frames of a socket are handled in order, but nobody    *)
(* waits for the handlers.                                                 *)
Break(c) ==
  /\ conns[c] # None /\ conns[c].open
  /\ Breaks
  /\ conns' = [conns EXCEPT ![c] = [Opened EXCEPT !.open = FALSE, !.told = conns[c].told]]
  /\ UNCHANGED <<client, loops, calls>>

Handle(c) ==
  /\ conns[c] # None /\ conns[c].open /\ conns[c].frames # <<>>
  /\ LET f == Head(conns[c].frames)
         rest == [conns[c] EXCEPT !.frames = Tail(@)]
     IN conns' = [conns EXCEPT ![c] =
          CASE f.op = "identify" -> [rest EXCEPT !.asked = TRUE]
            [] f.op = "subscribe" ->
                 IF rest.user THEN [rest EXCEPT !.late = @ \cup f.topics] ELSE rest
            [] f.op = "unsubscribe" -> [rest EXCEPT !.topics = @ \ f.topics]]
  /\ UNCHANGED <<client, loops, calls, past>>

SessionFound(c) ==
  /\ conns[c] # None /\ conns[c].asked
  /\ conns' = [conns EXCEPT ![c].asked = FALSE, ![c].user = TRUE]
  /\ UNCHANGED <<client, loops, calls, past>>

AddTopics(c) ==
  /\ conns[c] # None
  /\ \E t \in conns[c].late :
       conns' = [conns EXCEPT ![c].late = @ \ {t}, ![c].topics = @ \cup {t}]
  /\ UNCHANGED <<client, loops, calls, past>>

LoopStep(l) ==
  CheckStop(l) \/ Again(l) \/ Dial(l) \/ Hello(l) \/ Flush(l) \/ PumpEnds(l)
Gateway(c) == Break(c) \/ Handle(c) \/ SessionFound(c) \/ AddTopics(c)

ClientNext ==
  \/ Connect \/ Disconnect
  \/ \E k \in Calls : SendCall(k) \/ \E f \in Frame : Subscribe(k, f)
  \/ \E l \in Loops : LoopStep(l)
  \/ \E c \in Conns : Gateway(c)

ClientSpec == ClientInit /\ [][ClientNext]_clientVars

-----------------------------------------------------------------------------
Served(c) == conns[c].open /\ conns[c].frames = <<>> /\ ~conns[c].asked /\ conns[c].late = {}

(* Identified, the client has told its socket exactly what the application *)
(* is subscribed to, whatever was subscribed to and given up before,       *)
(* between and during any number of reconnections.  (Calls about one topic *)
(* that overlap may be sent in another order than they were made; what     *)
(* disconnect leaves behind is spoken of in the README.)                   *)
FramesMirror ==
  (~past.cut /\ ~past.mixed /\ Quiet /\ client.state = "identified") =>
    client.outgoing # None /\ conns[client.outgoing].told = client.subscribed

(* "so reconnects auto-resubscribe to the channels the caller originally   *)
(* requested" (slyng-client/src/ws/mod.rs): once the gateway has handled   *)
(* what it was sent after a reconnect, the socket has the topics that the  *)
(* application had asked for before, and has not given up.                 *)
Resubscribed ==
  (past.breaks > 0 /\ ~past.cut /\ ~past.mixed /\ Quiet /\ client.state = "identified"
     /\ Served(client.outgoing)) =>
    (past.again \cap client.subscribed) \subseteq conns[client.outgoing].topics
=============================================================================
