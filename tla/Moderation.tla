----------------------------- MODULE Moderation -----------------------------
(***************************************************************************)
(* Moderation of one room by the monolith's admin API: api.go (kick with   *)
(* or without a ban, close, slow mode, the ban check of the WebSocket      *)
(* handshake), bans.go, slowmode.go, the control channel of redis.go and   *)
(* KickClient and CloseRoom of hub.go.                                     *)
(*                                                                         *)
(* Every server keeps its own bans, slow mode interval and clients. An     *)
(* admin's request changes the server that got it and is published on one  *)
(* Redis channel; every server reads the channel in its order and skips    *)
(* its own messages. The HTTP handlers of a server and the loop that reads *)
(* the channel run at the same time. The user is one and the same          *)
(* everywhere; a connection is known by its server. Times are left out: a  *)
(* ban expires by itself.                                                  *)
(***************************************************************************)
EXTENDS Integers, Sequences, FiniteSets

CONSTANTS
  Servers,
  Handlers,       \* goroutines of a server that handle admin requests
  Sub,            \* the goroutine of a server that reads the control channel
  Handshakes,     \* attempts of the user to connect, all of them to any server
  Intervals,      \* slow mode settings, 0 = off
  NoServer,
  MaxRequests,    \* bound: admin requests
  MaxLosses       \* bound: control messages not published, or missed by a server

ASSUME ModAssumption == Sub \notin Handlers

VARIABLES
  banned, slow,       \* per server: RoomBans for the user, SlowMode's interval
  conn,               \* per handshake: server and how far it got
  todo,               \* per goroutine: steps that its admin request or control message still has to do
  ctrlLog, readTo,    \* the control channel and how far each server has read it
  requests, losses,   \* bound counters
  \* history
  overlapped,         \* handshakes that passed the ban check before the ban they are under
  crossed,            \* a request was made while another one was not yet known everywhere
  lifted,             \* a ban expired, or the room was closed
  lastSlow, everBanned

modVars == <<banned, slow, conn, todo, ctrlLog, readTo, requests, losses, overlapped, crossed, lifted,
             lastSlow, everBanned>>

\* The goroutines that moderate, and those of a server.
Actors == Servers \X (Handlers \cup {Sub})
At(k) == k[1]
ActorsOf(s) == {k \in Actors : At(k) = s}

\* Clients of the room: uid -> client, so one connection of the user per server.
InRoom(s) == {h \in Handshakes : conn[h] = [at |-> s, st |-> "in"]}
OnTheWay(s) == {h \in Handshakes : conn[h] = [at |-> s, st |-> "checked"]}
CtrlQuiet == (\A k \in Actors : todo[k] = <<>>) /\ \A s \in Servers : readTo[s] = Len(ctrlLog)

ModInit ==
  /\ banned = [s \in Servers |-> FALSE] /\ slow = [s \in Servers |-> 0]
  /\ conn = [h \in Handshakes |-> [at |-> NoServer, st |-> "none"]]
  /\ todo = [k \in Actors |-> <<>>]
  /\ ctrlLog = <<>> /\ readTo = [s \in Servers |-> 0]
  /\ requests = 0 /\ losses = 0
  /\ overlapped = {} /\ crossed = FALSE /\ lifted = FALSE
  /\ lastSlow = 0 /\ everBanned = FALSE

----------------------------------------------------------------------------
(* The handshake                                                           *)

ModHistory == UNCHANGED <<crossed, lifted, lastSlow, everBanned>>

HandshakeCheck(h, s) ==
  /\ conn[h].st = "none" /\ ~banned[s]
  /\ conn' = [conn EXCEPT ![h] = [at |-> s, st |-> "checked"]]
  /\ UNCHANGED <<banned, slow, todo, ctrlLog, readTo, requests, losses, overlapped>> /\ ModHistory

HandshakeBanned(h, s) ==
  /\ conn[h].st = "none" /\ banned[s]
  /\ conn' = [conn EXCEPT ![h] = [at |-> s, st |-> "refused"]]
  /\ UNCHANGED <<banned, slow, todo, ctrlLog, readTo, requests, losses, overlapped>> /\ ModHistory

\* Upgrade and register; the hub's goroutine replaces an older connection of the user.
HandshakeRegister(h) ==
  /\ conn[h].st = "checked"
  /\ conn' = [g \in Handshakes |-> IF g = h THEN [conn[h] EXCEPT !.st = "in"]
                                   ELSE IF g \in InRoom(conn[h].at) THEN [conn[g] EXCEPT !.st = "closed"]
                                   ELSE conn[g]]
  /\ UNCHANGED <<banned, slow, todo, ctrlLog, readTo, requests, losses, overlapped>> /\ ModHistory

----------------------------------------------------------------------------
(* Admin requests: what a goroutine has to do for one                      *)

\* Mutant: the connection is closed before the ban is set.
KickFirst(ban) == IF ban THEN <<[op |-> "kick"], [op |-> "ban"]>> ELSE <<[op |-> "kick"]>>

\* applyKick, and the kick of handleCtrl: Ban before KickClient.
ApplyKick(ban) == IF ban THEN <<[op |-> "ban"], [op |-> "kick"]>> ELSE <<[op |-> "kick"]>>

\* CloseRoom deletes the room and then clears its bans.
CloseRoom == <<[op |-> "close"], [op |-> "clear"]>>

StepsOf(msg) ==
  CASE msg.type = "kick"  -> ApplyKick(msg.ban)
    [] msg.type = "close" -> CloseRoom
    [] msg.type = "slow"  -> <<[op |-> "slow", v |-> msg.v]>>

\* An admin's request: the local steps, then publishCtrl.
AdminRequest(s, g) ==
  /\ requests < MaxRequests /\ todo[<<s, g>>] = <<>>
  /\ \E msg \in [type : {"kick"}, ban : BOOLEAN, origin : {s}] \cup [type : {"close"}, origin : {s}]
                \cup [type : {"slow"}, v : Intervals, origin : {s}] :
       /\ todo' = [todo EXCEPT ![<<s, g>>] = StepsOf(msg) \o <<[op |-> "publish", msg |-> msg]>>]
       /\ lifted' = (lifted \/ msg.type = "close")
       /\ lastSlow' = IF msg.type = "slow" THEN msg.v ELSE lastSlow
       /\ everBanned' = (everBanned \/ (msg.type = "kick" /\ msg.ban))
  /\ requests' = requests + 1
  /\ crossed' = (crossed \/ ~CtrlQuiet)
  /\ UNCHANGED <<banned, slow, conn, ctrlLog, readTo, losses, overlapped>>

Doing(k, op) == todo[k] # <<>> /\ Head(todo[k]).op = op
Did(k) == todo' = [todo EXCEPT ![k] = Tail(@)] /\ ModHistory /\ UNCHANGED requests

\* An unexpired ban is not extended; banned stays TRUE either way.
Ban(k) ==
  /\ Doing(k, "ban") /\ Did(k)
  /\ banned' = [banned EXCEPT ![At(k)] = TRUE]
  /\ overlapped' = overlapped \cup OnTheWay(At(k))
  /\ UNCHANGED <<slow, conn, ctrlLog, readTo, losses>>

ShutOut(s) == conn' = [h \in Handshakes |-> IF h \in InRoom(s) THEN [conn[h] EXCEPT !.st = "closed"] ELSE conn[h]]

KickClient(k) ==
  /\ Doing(k, "kick") /\ Did(k)
  /\ ShutOut(At(k))
  /\ UNCHANGED <<banned, slow, ctrlLog, readTo, losses, overlapped>>

\* The room exists, if only for users the model leaves out.
CloseRoomHere(k) ==
  /\ Doing(k, "close") /\ Did(k)
  /\ ShutOut(At(k))
  /\ UNCHANGED <<banned, slow, ctrlLog, readTo, losses, overlapped>>

\* A server without the room returns early and keeps its bans.
CloseRoomAbsent(k) ==
  /\ Doing(k, "close") /\ InRoom(At(k)) = {}
  /\ todo' = [todo EXCEPT ![k] = Tail(Tail(@))]
  /\ UNCHANGED <<banned, slow, conn, ctrlLog, readTo, requests, losses, overlapped>> /\ ModHistory

ClearBans(k) ==
  /\ Doing(k, "clear") /\ Did(k)
  /\ banned' = [banned EXCEPT ![At(k)] = FALSE]
  /\ UNCHANGED <<slow, conn, ctrlLog, readTo, losses, overlapped>>

\* Mutant: switching slow mode off is taken for no setting.
SetIntervalOn(k) ==
  /\ Doing(k, "slow") /\ Did(k)
  /\ slow' = IF Head(todo[k]).v = 0 THEN slow ELSE [slow EXCEPT ![At(k)] = Head(todo[k]).v]
  /\ UNCHANGED <<banned, conn, ctrlLog, readTo, losses, overlapped>>

SetInterval(k) ==
  /\ Doing(k, "slow") /\ Did(k)
  /\ slow' = [slow EXCEPT ![At(k)] = Head(todo[k]).v]
  /\ UNCHANGED <<banned, conn, ctrlLog, readTo, losses, overlapped>>

PublishCtrl(k) ==
  /\ Doing(k, "publish") /\ Did(k)
  /\ ctrlLog' = Append(ctrlLog, Head(todo[k]).msg)
  /\ UNCHANGED <<banned, slow, conn, readTo, losses, overlapped>>

\* The error is logged.
PublishFails(k) ==
  /\ Doing(k, "publish") /\ losses < MaxLosses /\ Did(k)
  /\ losses' = losses + 1
  /\ UNCHANGED <<banned, slow, conn, ctrlLog, readTo, overlapped>>

\* handleCtrl: the subscription loop takes the next message when it is done with the last.
HandleCtrl(s) ==
  /\ todo[<<s, Sub>>] = <<>> /\ readTo[s] < Len(ctrlLog)
  /\ readTo' = [readTo EXCEPT ![s] = @ + 1]
  /\ LET msg == ctrlLog[readTo[s] + 1]
     IN todo' = [todo EXCEPT ![<<s, Sub>>] = IF msg.origin = s THEN <<>> ELSE StepsOf(msg)]
  /\ UNCHANGED <<banned, slow, conn, ctrlLog, requests, losses, overlapped>> /\ ModHistory

\* Pub/Sub keeps nothing for a subscriber that is away.
MissCtrl(s) ==
  /\ readTo[s] < Len(ctrlLog) /\ losses < MaxLosses
  /\ readTo' = [readTo EXCEPT ![s] = @ + 1]
  /\ losses' = losses + 1
  /\ UNCHANGED <<banned, slow, conn, todo, ctrlLog, requests, overlapped>> /\ ModHistory

BanExpires(s) ==
  /\ banned[s]
  /\ banned' = [banned EXCEPT ![s] = FALSE]
  /\ lifted' = TRUE
  /\ UNCHANGED <<slow, conn, todo, ctrlLog, readTo, requests, losses, overlapped, crossed, lastSlow,
                 everBanned>>

ModNext ==
  \/ \E h \in Handshakes : HandshakeRegister(h)
  \/ \E h \in Handshakes, s \in Servers : HandshakeCheck(h, s) \/ HandshakeBanned(h, s)
  \/ \E s \in Servers : \/ \E g \in Handlers : AdminRequest(s, g)
                        \/ HandleCtrl(s) \/ MissCtrl(s) \/ BanExpires(s)
  \/ \E k \in Actors :
       \/ Ban(k) \/ KickClient(k) \/ CloseRoomHere(k) \/ CloseRoomAbsent(k)
       \/ ClearBans(k) \/ SetInterval(k) \/ PublishCtrl(k) \/ PublishFails(k)

ModSpec == ModInit /\ [][ModNext]_modVars

----------------------------------------------------------------------------
(* Properties                                                              *)

\* BannedStaysOut: while a ban stands on a server and a kick is nobody's next step there, the user is
\* not in the room there, except by a handshake that had passed the check of the bans when the ban was
\* set (handleWebSocket checks before it upgrades and registers; applyKick bans before it kicks),
\* whatever the other handlers and the subscription loop of the server do in between.
NoKickNext(s) == \A k \in ActorsOf(s) : ~Doing(k, "kick")
BannedStaysOut ==
  \A s \in Servers : banned[s] /\ NoKickNext(s) => InRoom(s) \subseteq overlapped

\* ServersAgree: when every control message has been read, all servers have the last slow mode
\* setting, and a ban that was neither lifted nor ran out stands on all of them; unless a message was
\* lost or a request was made before the one before it was known everywhere (publishCtrl, handleCtrl).
ServersAgree ==
  CtrlQuiet /\ losses = 0 /\ ~crossed =>
    \A s \in Servers : slow[s] = lastSlow /\ (everBanned /\ ~lifted => banned[s])

----------------------------------------------------------------------------
(* The inductive invariants behind BannedStaysOut and ServersAgree         *)

CtrlMsgs == [type : {"kick"}, ban : BOOLEAN, origin : Servers] \cup [type : {"close"}, origin : Servers]
            \cup [type : {"slow"}, v : Intervals, origin : Servers]
ModSteps == [op : {"ban", "kick", "close", "clear"}] \cup [op : {"slow"}, v : Intervals]
            \cup [op : {"publish"}, msg : CtrlMsgs]

ConnStates == [at : Servers \cup {NoServer}, st : {"none", "checked", "refused", "in", "closed"}]

\* A ban comes right before its kick, the end of a room right before the end of its bans.
InOrder(q) ==
  \A i \in 1..Len(q) :
    /\ q[i].op = "ban" => i < Len(q) /\ q[i + 1].op = "kick"
    /\ q[i].op = "close" => i < Len(q) /\ q[i + 1].op = "clear"

ModTypeOK ==
  /\ banned \in [Servers -> BOOLEAN] /\ slow \in [Servers -> Intervals \cup {0}]
  /\ conn \in [Handshakes -> ConnStates]
  /\ todo \in [Actors -> Seq(ModSteps)] /\ ctrlLog \in Seq(CtrlMsgs) /\ readTo \in [Servers -> Nat]
  /\ losses \in Nat /\ crossed \in BOOLEAN /\ lifted \in BOOLEAN /\ everBanned \in BOOLEAN
  /\ \A s \in Servers : readTo[s] <= Len(ctrlLog)
  /\ \A k \in Actors :
       /\ InOrder(todo[k])
       /\ \A i \in DOMAIN todo[k] : todo[k][i].op = "publish" => todo[k][i].msg.origin = At(k)

\* Whoever passes the check under a ban had passed it before; whoever got in under one is kicked next.
BanGuards ==
  \A s \in Servers : banned[s] =>
    /\ OnTheWay(s) \subseteq overlapped
    /\ NoKickNext(s) => InRoom(s) \subseteq overlapped

Left(k) == {todo[k][i] : i \in DOMAIN todo[k]}
Pending(s) == UNION {Left(k) : k \in ActorsOf(s)}
Unread(s) == {ctrlLog[k] : k \in (readTo[s] + 1)..Len(ctrlLog)}

\* What the other servers' requests have yet to bring to server s.
Coming(s) ==
  {m \in CtrlMsgs :
     \/ m.origin # s /\ m \in Unread(s)
     \/ \E t \in Servers \ {s} : \E e \in Pending(t) : e.op = "publish" /\ e.msg = m}

\* Once a room was to be closed, a ban may be gone.
CloseLifts ==
  /\ \A s \in Servers : \A e \in Pending(s) :
       e.op \in {"close", "clear"} \/ (e.op = "publish" /\ e.msg.type = "close") => lifted
  /\ \A k \in DOMAIN ctrlLog : ctrlLog[k].type = "close" => lifted

\* Nothing but the last setting is on its way to a server, and what a server lacks is on its way.
SettledOrComing(s) ==
  /\ \A e \in Pending(s) : e.op = "slow" => e.v = lastSlow
  /\ \A m \in Coming(s) : m.type = "slow" => m.v = lastSlow
  /\ \/ slow[s] = lastSlow
     \/ \E e \in Pending(s) : e.op = "slow"
     \/ \E m \in Coming(s) : m.type = "slow"
  /\ everBanned /\ ~lifted =>
       \/ banned[s]
       \/ \E e \in Pending(s) : e.op = "ban"
       \/ \E m \in Coming(s) : m.type = "kick" /\ m.ban

AgreeInv == CloseLifts /\ (losses = 0 /\ ~crossed => \A s \in Servers : SettledOrComing(s))
=============================================================================
