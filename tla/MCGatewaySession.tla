-------------------------- MODULE MCGatewaySession --------------------------
(* Instances of GatewaySession for TLC.                                    *)
EXTENDS GatewaySession, TLC

CONSTANTS u1, u2, d1, d2

OneDeviceEach == (d1 :> u1) @@ (d2 :> u2)
TwoTabs       == (d1 :> u1) @@ (d2 :> u1)

(* Sockets are interchangeable, and so are the users with their devices,   *)
(* and the devices of one user.                                            *)
PeerSymmetry == Permutations(Sockets) \cup {u1 :> u2 @@ u2 :> u1 @@ d1 :> d2 @@ d2 :> d1}
TabSymmetry  == Permutations(Sockets) \cup {d1 :> d2 @@ d2 :> d1}

(* What is left in the record of a socket nothing refers to cannot         *)
(* influence a later step, nor can an IDENTIFY frame that will not be sent *)
(* because the device has given the socket up: states that differ in       *)
(* nothing else count once.                                                *)
Sent(s) == [v \in Via |-> IF identify[s][v] = "unsent" /\ link[peer[s]] # s
                          THEN "done" ELSE identify[s][v]]
Forgotten(s) == IF Fresh(s) THEN None ELSE <<userId[s], Sent(s), peer[s]>>
LiveState == <<clients, open, userSockets, presences, preferred, writes, link,
               view, [s \in Sockets |-> Forgotten(s)]>>
=============================================================================
