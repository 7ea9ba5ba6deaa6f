--------------------------- MODULE GatewaySession ---------------------------
(***************************************************************************)
(* Sessions and presence of ChatGateway                                    *)
(* (apps/slyng/api/src/gateway/chat.gateway.ts).                           *)
(*                                                                         *)
(* The gateway keeps three maps in memory: `clients` (one record per open  *)
(* WebSocket), `userSockets` (the registered sockets of every user) and    *)
(* `presences` (every user's real status).  Handlers are dispatched fire   *)
(* and forget and interleave at their awaits, so a handler that awaits is  *)
(* split here into one action per stretch between two awaits, and what it  *)
(* still has to do is kept in `identify` and `writes`.                     *)
(*                                                                         *)
(* On the other end of a socket is a device of some user; its presence     *)
(* store (packages/ts/app-core/src/lib/stores/presence.svelte.ts) is       *)
(* `view`.  A WebSocket is reliable and ordered, so a frame the gateway    *)
(* sends on a socket the device still holds is applied at once.            *)
(***************************************************************************)
EXTENDS Naturals

CONSTANTS Users, Devices, Sockets,
          Account,       \* Account[d]: the user whose session device d holds
          Statuses,      \* the valid statuses that are exercised
          Via,           \* the callers of handleIdentify that are exercised
          Slots,         \* bound: presence updates being persisted at once
          None

AllStatuses == {"online", "idle", "dnd", "invisible"}

ASSUME AccountAssumption == Account \in [Devices -> Users]
ASSUME StatusAssumption ==
  /\ Statuses \subseteq AllStatuses
  /\ "online" \in Statuses
ASSUME ViaAssumption == Via \subseteq {"cookie", "frame"}
ASSUME NoneAssumption == None \notin Users \cup Devices \cup Sockets \cup Statuses

VARIABLES
  clients,      \* keys of the clients map
  open,         \* sockets whose readyState is OPEN on the server
  userId,       \* clients[s].userId; kept after clients.delete, as closures do
  userSockets,  \* registered sockets per user ({} when the key is absent)
  presences,    \* real status per user, None when the key is absent
  identify,     \* identify[s][via]: where a handleIdentify call stands
  preferred,    \* users.preferred_status in the database
  writes,       \* statuses handlePresenceUpdate has yet to persist, per slot
  peer,         \* the device that dialled a socket
  link,         \* the socket a device currently uses, None when it has none
  view          \* view[d][u]: status of u in the presence store of device d

gateway == <<clients, open, userId, userSockets, presences>>
pending == <<identify, writes>>
device  == <<peer, link, view>>
vars    == <<gateway, pending, device, preferred>>

Phases == {"unsent", "session", "row", "done"}
NoWrite == [user |-> None, status |-> None]
Write  == [user : Users, status : Statuses \ {"idle"}]
Shown  == Statuses \cup {"offline"}

TypeOK ==
  /\ clients \subseteq Sockets
  /\ open \subseteq clients
  /\ userId \in [Sockets -> Users \cup {None}]
  /\ userSockets \in [Users -> SUBSET Sockets]
  /\ presences \in [Users -> Statuses \cup {None}]
  /\ identify \in [Sockets -> [Via -> Phases]]
  /\ preferred \in [Users -> Statuses \ {"idle"}]
  /\ writes \in [Slots -> Write \cup {NoWrite}]
  /\ peer \in [Sockets -> Devices \cup {None}]
  /\ link \in [Devices -> Sockets \cup {None}]
  /\ view \in [Devices -> [Users -> Shown]]

Init ==
  /\ clients = {} /\ open = {}
  /\ userId = [s \in Sockets |-> None]
  /\ userSockets = [u \in Users |-> {}]
  /\ presences = [u \in Users |-> None]
  /\ identify = [s \in Sockets |-> [v \in Via |-> "done"]]
  /\ preferred \in [Users -> Statuses \ {"idle"}]
  /\ writes = [k \in Slots |-> NoWrite]
  /\ peer = [s \in Sockets |-> None]
  /\ link = [d \in Devices |-> None]
  /\ view = [d \in Devices |-> [u \in Users |-> "offline"]]

-----------------------------------------------------------------------------
(* What a status looks like on a device: the truth to its own user, and    *)
(* invisible as offline to everybody else.                                 *)
StatusFor(d, u, st) ==
  IF st = None THEN "offline"
  ELSE IF st = "invisible" /\ Account[d] # u THEN "offline"
  ELSE st

(* broadcastPresenceUpdate reaches the identified sockets that are OPEN.   *)
Listening(d) ==
  /\ link[d] \in clients \cap open
  /\ userId[link[d]] # None

Broadcast(u, st) ==
  [d \in Devices |->
     IF Listening(d) THEN [view[d] EXCEPT ![u] = StatusFor(d, u, st)]
     ELSE view[d]]

(* A socket name nothing refers to any more stands for a new WebSocket.    *)
Fresh(s) ==
  /\ s \notin clients
  /\ \A u \in Users : s \notin userSockets[u]
  /\ \A v \in Via : identify[s][v] \notin {"session", "row"}
  /\ \A d \in Devices : link[d] # s

-----------------------------------------------------------------------------
(* handleConnection: with a session cookie the gateway identifies at once. *)
Connect(d, s, cookie) ==
  /\ cookie => "cookie" \in Via
  /\ link[d] = None
  /\ Fresh(s)
  /\ clients' = clients \cup {s}
  /\ open' = open \cup {s}
  /\ userId' = [userId EXCEPT ![s] = None]
  /\ peer' = [peer EXCEPT ![s] = d]
  /\ link' = [link EXCEPT ![d] = s]
  /\ identify' = [identify EXCEPT ![s] =
       [v \in Via |-> IF v = "frame" THEN "unsent"
                      ELSE IF cookie THEN "session" ELSE "done"]]
  /\ UNCHANGED <<userSockets, presences, preferred, writes, view>>

(* The IDENTIFY frame arrives and getSession is called. *)
SendIdentify(s) ==
  /\ s \in open /\ link[peer[s]] = s
  /\ "frame" \in Via /\ identify[s]["frame"] = "unsent"
  /\ identify' = [identify EXCEPT ![s]["frame"] = "session"]
  /\ UNCHANGED <<gateway, device, writes, preferred>>

(* getSession answers: the socket is authenticated, users.findOne starts.  *)
SessionFound(s, v) ==
  /\ identify[s][v] = "session"
  /\ userId' = [userId EXCEPT ![s] = Account[peer[s]]]
  /\ identify' = [identify EXCEPT ![s][v] = "row"]
  /\ UNCHANGED <<clients, open, userSockets, presences, device, writes, preferred>>

(* No such session, an expired one, or either read threw: READY{error}.    *)
(* A throw of findOne leaves userId set.                                   *)
IdentifyRefused(s, v) ==
  /\ identify[s][v] \in {"session", "row"}
  /\ identify' = [identify EXCEPT ![s][v] = "done"]
  /\ UNCHANGED <<gateway, device, writes, preferred>>

\* Mutant: the socket is added to userSockets before isFirstSocket is taken,
\* so that no socket is ever the first.
RestoredNever(u) == presences

(* users.findOne answers: register the socket, restore the presence if it  *)
(* is the user's first, send READY with the snapshot, tell the others.     *)
RestoredPresence(u) ==
  IF userSockets[u] = {} /\ presences[u] = None
  THEN [presences EXCEPT ![u] = preferred[u]]
  ELSE presences

\* Mutants: the first socket's presence is not broadcast; READY carries no
\* snapshot.
ReadyWithoutBroadcast(s) ==
  IF s \in open /\ link[peer[s]] = s
  THEN [view EXCEPT ![peer[s]] =
          [w \in Users |-> IF RestoredPresence(userId[s])[w] = None THEN @[w]
                           ELSE StatusFor(peer[s], w, RestoredPresence(userId[s])[w])]]
  ELSE view

ReadyWithoutSnapshot(s) ==
  IF userSockets[userId[s]] = {}
  THEN Broadcast(userId[s], RestoredPresence(userId[s])[userId[s]])
  ELSE view

(* What the devices show after READY and the broadcast of a first socket.  *)
ViewAfterReady(s) ==
  LET u == userId[s]
      p == RestoredPresence(u)
      others == IF userSockets[u] = {} THEN Broadcast(u, p[u]) ELSE view
      me == peer[s]
  IN  IF s \in open /\ link[me] = s
      THEN [others EXCEPT ![me] =
              [w \in Users |-> IF p[w] = None THEN @[w]
                               ELSE StatusFor(me, w, p[w])]]
      ELSE others

RegisterSocket(s, v) ==
  /\ identify[s][v] = "row"
  /\ presences' = RestoredPresence(userId[s])
  /\ userSockets' = [userSockets EXCEPT ![userId[s]] = @ \cup {s}]
  /\ view' = ViewAfterReady(s)
  /\ identify' = [identify EXCEPT ![s][v] = "done"]
  /\ UNCHANGED <<clients, open, userId, peer, link, writes, preferred>>

(* The device gives its socket up, and the server has not noticed yet: no  *)
(* heartbeat sweep looks for silent sockets.                               *)
DeviceDrops(d) ==
  /\ link[d] # None
  /\ link' = [link EXCEPT ![d] = None]
  /\ UNCHANGED <<gateway, pending, peer, view, preferred>>

(* handleDisconnect up to its await: the user's last socket takes the      *)
(* presence with it, and the socket stays in `clients` until the voice     *)
(* clean-up is over.                                                       *)
LastUnchecked(s) == userId[s] # None    \* mutant: any socket counts as the last

IsLast(s) == userId[s] # None /\ userSockets[userId[s]] \subseteq {s}

Disconnect(s) ==
  /\ s \in open
  /\ open' = open \ {s}
  /\ link' = [d \in Devices |-> IF link[d] = s THEN None ELSE link[d]]
  /\ userSockets' = [u \in Users |->
       IF u = userId[s] THEN userSockets[u] \ {s} ELSE userSockets[u]]
  /\ IF IsLast(s)
     THEN /\ presences' = [presences EXCEPT ![userId[s]] = None]
          /\ view' = [d \in Devices |->
               IF link[d] = s THEN view[d] ELSE Broadcast(userId[s], None)[d]]
          /\ UNCHANGED clients
     ELSE /\ clients' = clients \ {s}
          /\ UNCHANGED <<presences, view>>
  /\ UNCHANGED <<userId, pending, peer, preferred>>

(* The end of handleDisconnect after the voice clean-up. *)
DropClient(s) ==
  /\ s \in clients \ open
  /\ clients' = clients \ {s}
  /\ UNCHANGED <<open, userId, userSockets, presences, pending, device, preferred>>

(* handlePresenceUpdate up to its first await.  `asked` is None for a      *)
(* frame that carries only the custom text.                                *)
NextStatus(u, asked) ==
  IF asked # None THEN asked
  ELSE IF presences[u] # None THEN presences[u]
  ELSE "online"

FreeSlot == CHOOSE k \in Slots : writes[k] = NoWrite

UpdatePresence(s, asked) ==
  /\ s \in open /\ link[peer[s]] = s
  /\ userId[s] # None
  /\ LET u  == userId[s]
         st == NextStatus(u, asked)
     IN  /\ st = "idle" \/ \E k \in Slots : writes[k] = NoWrite
         /\ presences' = [presences EXCEPT ![u] = st]
         /\ view' = Broadcast(u, st)
         /\ writes' = IF st = "idle" THEN writes
                      ELSE [writes EXCEPT ![FreeSlot] = [user |-> u, status |-> st]]
  /\ UNCHANGED <<clients, open, userId, userSockets, identify, peer, link,
                 preferred>>

(* users.merge runs: updates in flight may reach the row in any order.     *)
Persist(k) ==
  /\ writes[k] # NoWrite
  /\ preferred' = [preferred EXCEPT ![writes[k].user] = writes[k].status]
  /\ writes' = [writes EXCEPT ![k] = NoWrite]
  /\ UNCHANGED <<gateway, identify, device>>

Next ==
  \/ \E d \in Devices, s \in Sockets, cookie \in BOOLEAN : Connect(d, s, cookie)
  \/ \E s \in Sockets : SendIdentify(s) \/ Disconnect(s) \/ DropClient(s)
  \/ \E s \in Sockets, v \in Via :
       SessionFound(s, v) \/ IdentifyRefused(s, v) \/ RegisterSocket(s, v)
  \/ \E d \in Devices : DeviceDrops(d)
  \/ \E s \in Sockets, asked \in Statuses \cup {None} : UpdatePresence(s, asked)
  \/ \E k \in Slots : Persist(k)

Spec == Init /\ [][Next]_vars

-----------------------------------------------------------------------------
(* A registered user always has a presence: the non-null assertion after   *)
(* READY in handleIdentify (`this.presences.get(state.userId)!`) is safe   *)
(* whatever other sockets of the user do while the row is read.            *)
RegisteredHasPresence ==
  \A u \in Users : userSockets[u] # {} => presences[u] # None

(* The device has been sent READY on the socket it uses. *)
Ready(d) ==
  /\ link[d] \in clients \cap open
  /\ link[d] \in userSockets[Account[d]]

(* A device that got READY shows every present user's current status:      *)
(* snapshot and broadcasts leave no gap between them, whichever sockets    *)
(* come, go and change status meanwhile, and an invisible user shows as    *)
(* offline to all but themselves.                                          *)
ViewFaithful ==
  \A d \in Devices : Ready(d) =>
    \A u \in Users : presences[u] # None =>
      view[d][u] = StatusFor(d, u, presences[u])

(* The gateway implements the atomic presence board: seen through the map  *)
(* of presences, the devices that got READY and what they show, each of    *)
(* its steps is a step of PresenceBoard or changes nothing there.          *)
Board == INSTANCE PresenceBoard
           WITH board <- presences,
                attached <- {d \in Devices : Ready(d)},
                shown <- view
ImplementsBoard == Board!Spec

(* handleDisconnect takes a user offline only with their last socket: no   *)
(* device sees a user vanish while a registered socket of theirs remains,  *)
(* unless the user turned invisible.                                       *)
NoPrematureOffline ==
  [][\A d \in Devices, u \in Users :
       view[d][u] # "offline" /\ view'[d][u] = "offline" =>
         userSockets'[u] = {} \/ presences'[u] = "invisible"]_vars

(* A user none of whose sockets is left, with no identification running,   *)
(* is not registered and not present.                                      *)
Identifying(u) ==
  \E s \in Sockets, v \in Via :
    identify[s][v] \in {"session", "row"} /\ Account[peer[s]] = u
LastCloseCleansUp ==
  \A u \in Users :
    ~Identifying(u) /\ (\A s \in clients : userId[s] # u) =>
      userSockets[u] = {} /\ presences[u] = None
=============================================================================
