------------------------------ MODULE Presence ------------------------------
(***************************************************************************)
(* What the connection kernel promises its callers about presence: an      *)
(* atomic registry in which a connection comes online once, leaves once    *)
(* and never returns, and in which the number of online users is exact at  *)
(* every moment (core/hub.go: GetUserConnections, OnlineUserCount).        *)
(***************************************************************************)
EXTENDS Integers, FiniteSets

CONSTANTS Clients, UID

VARIABLES status, onlineUsers

vars == <<status, onlineUsers>>

UsersOf(st) == {UID[c] : c \in {x \in Clients : st[x] = "online"}}

Init ==
  /\ status = [c \in Clients |-> "offline"]
  /\ onlineUsers = 0

Connect(c) ==
  /\ status[c] = "offline"
  /\ status' = [status EXCEPT ![c] = "online"]
  /\ onlineUsers' = Cardinality(UsersOf(status'))

Disconnect(c) ==
  /\ status[c] = "online"
  /\ status' = [status EXCEPT ![c] = "gone"]
  /\ onlineUsers' = Cardinality(UsersOf(status'))

Next == \E c \in Clients : Connect(c) \/ Disconnect(c)

Spec == Init /\ [][Next]_vars
=============================================================================
