---------------------------- MODULE PresenceBoard ----------------------------
(***************************************************************************)
(* What the presence half of ChatGateway promises the devices that are     *)
(* attached to it: one board of statuses, changed one user at a time, and  *)
(* every attached device shows each change in the very step that makes it. *)
(* A device that attaches is brought up to date with everybody present.    *)
(***************************************************************************)
CONSTANTS Users, Devices, Account, None

VARIABLES board, attached, shown

Visible(d, u, st) ==
  IF st = None \/ (st = "invisible" /\ Account[d] # u) THEN "offline" ELSE st

Init ==
  /\ board = [u \in Users |-> None]
  /\ attached = {}
  /\ shown = [d \in Devices |-> [u \in Users |-> "offline"]]

(* At most one user's entry changes, and nobody is told of anything else.  *)
ChangesOnly(u) ==
  /\ \A w \in Users \ {u} : board'[w] = board[w]
  /\ \A d \in attached \cap attached', w \in Users \ {u} :
       shown'[d][w] = shown[d][w]

Told(u) ==
  \A d \in attached \cap attached' :
    \/ shown'[d][u] = Visible(d, u, board'[u])
    \/ shown'[d][u] = shown[d][u] /\ board'[u] = board[u]

BroughtUpToDate ==
  \A d \in attached' \ attached, u \in Users :
    board'[u] # None => shown'[d][u] = Visible(d, u, board'[u])

Step == /\ \E u \in Users : ChangesOnly(u) /\ Told(u)
        /\ BroughtUpToDate

Spec == Init /\ [][Step]_<<board, attached, shown>>
=============================================================================
