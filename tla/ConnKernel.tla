------------------------------ MODULE ConnKernel ------------------------------
(***************************************************************************)
(* The connection plane of one comet gateway: core/hub.go,                 *)
(* core/connkernel.go and the life cycle of core/client.go.                *)
(*                                                                         *)
(* Three indexes (ConnectionManager, SessionIndex, SubscriptionIndex with  *)
(* its reverse table) are sharded and locked separately, so AddClient and  *)
(* RemoveClient are sequences of critical sections.  Every critical        *)
(* section is one step here, and every goroutine that runs Hub code is an  *)
(* actor with a program counter:                                           *)
(*   <<"h", c>>  the HTTP handler that runs AddClient for connection c     *)
(*   <<"r", c>>  ReadPump of c        <<"w", c>>  WritePump of c           *)
(*   <<"a", i>>  a caller of CloseRoom / KickClient                        *)
(*                                                                         *)
(* A connection subscribes exactly one channel, that of its room, so a set *)
(* of connections stands for channel -> connID -> *Client.  ConnectionIDs  *)
(* are unique (Hub.nextConnectionID), so c is its own ConnectionID.        *)
(***************************************************************************)
EXTENDS Integers, FiniteSets

CONSTANTS
  Clients,          \* connections that may be opened
  Admins,           \* concurrent callers of CloseRoom / KickClient
  Users, Rooms,
  UID,              \* [Clients -> Users], fixed by the handshake
  RoomID,           \* [Clients -> Rooms]
  Device,           \* [Clients -> device reported in the handshake or NoDevice]
  NoDevice, DefaultDeviceID,
  ConnectionPolicy, \* "multi" (PolicyMultiDevice) or "single"
  NoClient

ASSUME ClientsAssumption == IsFiniteSet(Clients) /\ NoClient \notin Clients
ASSUME IdentityAssumption ==
  /\ UID \in [Clients -> Users]
  /\ RoomID \in [Clients -> Rooms]
ASSUME PolicyAssumption == ConnectionPolicy \in {"multi", "single"}

VARIABLES
  conns, connCount,                \* ConnectionManager
  sess, userCount, deviceCount,    \* SessionIndex
  chans, channelCount, member,     \* SubscriptionIndex and its reverse table
  pc, tgt, todo,                   \* per actor: where it is, the *Client in hand, its snapshot
  once, closeInfo, cancelled,      \* Client.closeOnce, closeInfo, ctx
  sock, sent,                      \* the socket is open; the close code written to it
  shutdown,                        \* the gateway's root context is cancelled
  prior                            \* history: same-user connections added before AddClient(c) began

indexVars == <<conns, connCount, sess, userCount, deviceCount, chans, channelCount, member>>
closeVars == <<once, closeInfo, cancelled>>
wireVars  == <<sock, sent>>
vars == <<indexVars, pc, tgt, todo, closeVars, wireVars, shutdown, prior>>

H(c) == <<"h", c>>
R(c) == <<"r", c>>
W(c) == <<"w", c>>
Actors == ({"h", "r", "w"} \X Clients) \cup ({"a"} \X Admins)

NoCode == 0
Replaced == 4009       \* "session replaced by new connection"
AdminClosed == 4001    \* "room closed" / "kicked"
SessionExpired == 4008
GoingAway == 1001      \* WritePump's default, "server shutting down"
Codes == {Replaced, AdminClosed, SessionExpired}

DeviceID(c) == IF Device[c] = NoDevice THEN DefaultDeviceID ELSE Device[c]
SameUser(c) == {x \in Clients : UID[x] = UID[c]}
SameDevice(c) == {x \in SameUser(c) : DeviceID(x) = DeviceID(c)}
SameRoom(c) == {x \in Clients : RoomID[x] = RoomID[c]}

\* ctx.Done() of the connection: its own cancel or the parent context's.
Done(c) == cancelled[c] \/ shutdown

\* AddClient(c) has returned / has published c in the session index.
AddReturned(c) == pc[H(c)] \in {"spawn", "done"}
Published(c) == pc[H(c)] \in {"subChan", "subMember", "spawn", "done"}

-----------------------------------------------------------------------------
Init ==
  /\ conns = {} /\ connCount = 0
  /\ sess = {} /\ userCount = 0 /\ deviceCount = 0
  /\ chans = {} /\ channelCount = 0 /\ member = [c \in Clients |-> 0]
  /\ pc = [a \in Actors |-> "idle"]
  /\ tgt = [a \in Actors |-> NoClient]
  /\ todo = [a \in Actors |-> {}]
  /\ once = [c \in Clients |-> "new"]
  /\ closeInfo = [c \in Clients |-> NoCode]
  /\ cancelled = [c \in Clients |-> FALSE]
  /\ sock = [c \in Clients |-> TRUE]
  /\ sent = [c \in Clients |-> NoCode]
  /\ shutdown = FALSE
  /\ prior = [c \in Clients |-> {}]

Goto(a, l) == pc' = [pc EXCEPT ![a] = l]

-----------------------------------------------------------------------------
(* Hub.AddClient *)

\* SessionIndex.GetUserConnections, without the new connection itself.
\* Mutant: only the connections of the same device are replaced.
DeviceConnections(c) == (sess \cap SameDevice(c)) \ {c}
UserConnections(c) == (sess \cap SameUser(c)) \ {c}

\* The policy check: under "single" the handler takes a snapshot of the
\* user's connections and evicts each one.
AddClientBegin(c) ==
  /\ pc[H(c)] = "idle"
  /\ IF ConnectionPolicy = "single"
     THEN /\ todo' = [todo EXCEPT ![H(c)] = UserConnections(c)]
          /\ prior' = [prior EXCEPT ![c] = {x \in SameUser(c) : AddReturned(x)}]
     ELSE UNCHANGED <<todo, prior>>
  /\ Goto(H(c), "each")
  /\ UNCHANGED <<indexVars, tgt, closeVars, wireVars, shutdown>>

\* ConnectionManager.Add
ConnManAdd(c) ==
  /\ pc[H(c)] = "connAdd"
  /\ conns' = conns \cup {c}
  /\ connCount' = IF c \in conns THEN connCount ELSE connCount + 1
  /\ Goto(H(c), "sessAdd")
  /\ UNCHANGED <<sess, userCount, deviceCount, chans, channelCount, member,
                 tgt, todo, closeVars, wireVars, shutdown, prior>>

\* SessionIndex.Add: a user or device entry is created, and counted, on demand.
SessionsAdd(c) ==
  /\ pc[H(c)] = "sessAdd"
  /\ sess' = sess \cup {c}
  /\ userCount' = IF sess \cap SameUser(c) = {} THEN userCount + 1 ELSE userCount
  /\ deviceCount' = IF sess \cap SameDevice(c) = {} THEN deviceCount + 1 ELSE deviceCount
  /\ Goto(H(c), "subChan")
  /\ UNCHANGED <<conns, connCount, chans, channelCount, member,
                 tgt, todo, closeVars, wireVars, shutdown, prior>>

\* SubscriptionIndex.Subscribe, the section under the channel shard's lock.
SubscribeChan(c) ==
  /\ pc[H(c)] = "subChan"
  /\ chans' = chans \cup {c}
  /\ channelCount' = IF chans \cap SameRoom(c) = {} THEN channelCount + 1 ELSE channelCount
  /\ Goto(H(c), "subMember")
  /\ UNCHANGED <<conns, connCount, sess, userCount, deviceCount, member,
                 tgt, todo, closeVars, wireVars, shutdown, prior>>

\* SubscriptionIndex.Subscribe, the section under the reverse table's lock.
SubscribeMember(c) ==
  /\ pc[H(c)] = "subMember"
  /\ member' = [member EXCEPT ![c] = @ + 1]
  /\ Goto(H(c), "spawn")
  /\ UNCHANGED <<conns, connCount, sess, userCount, deviceCount, chans, channelCount,
                 tgt, todo, closeVars, wireVars, shutdown, prior>>

\* handleWebSocket: go WritePump, go ReadPump, once AddClient has returned.
SpawnPumps(c) ==
  /\ pc[H(c)] = "spawn"
  /\ pc' = [pc EXCEPT ![H(c)] = "done", ![R(c)] = "run", ![W(c)] = "run"]
  /\ UNCHANGED <<indexVars, tgt, todo, closeVars, wireVars, shutdown, prior>>

-----------------------------------------------------------------------------
(* The loops that remove and close a snapshot of connections: eviction in  *)
(* AddClient, CloseRoom and KickClient.                                    *)

EachNext(a) ==
  /\ pc[a] = "each"
  /\ \E x \in todo[a] :
       /\ tgt' = [tgt EXCEPT ![a] = x]
       /\ todo' = [todo EXCEPT ![a] = @ \ {x}]
  /\ Goto(a, "rmConn")
  /\ UNCHANGED <<indexVars, closeVars, wireVars, shutdown, prior>>

EachDone(a) ==
  /\ pc[a] = "each"
  /\ todo[a] = {}
  /\ tgt' = [tgt EXCEPT ![a] = NoClient]
  /\ Goto(a, IF a[1] = "h" THEN "connAdd" ELSE "idle")
  /\ UNCHANGED <<indexVars, todo, closeVars, wireVars, shutdown, prior>>

\* Hub.CloseRoom: returns at once when the room has no subscribers.
CloseRoom(i, r) ==
  /\ pc[<<"a", i>>] = "idle"
  /\ \E c \in chans : RoomID[c] = r
  /\ todo' = [todo EXCEPT ![<<"a", i>>] = {c \in chans : RoomID[c] = r}]
  /\ Goto(<<"a", i>>, "each")
  /\ UNCHANGED <<indexVars, tgt, closeVars, wireVars, shutdown, prior>>

\* Hub.KickClient: the room's connections of one user; no match, no effect.
KickClient(i, r, u) ==
  /\ pc[<<"a", i>>] = "idle"
  /\ \E c \in chans : RoomID[c] = r /\ UID[c] = u
  /\ todo' = [todo EXCEPT ![<<"a", i>>] = {c \in chans : RoomID[c] = r /\ UID[c] = u}]
  /\ Goto(<<"a", i>>, "each")
  /\ UNCHANGED <<indexVars, tgt, closeVars, wireVars, shutdown, prior>>

-----------------------------------------------------------------------------
(* Hub.RemoveClient(tgt[a]), run by any actor.  The loops go on to         *)
(* Client.Close, ReadPump to conn.Close.                                   *)

AfterRemove(a) == IF a[1] = "r" THEN "connClose" ELSE "closeStore"

\* Size of an index of keys after its member c is removed: an emptied key is
\* deleted and uncounted.  S is the index, K the connections with c's key.
\* Mutant: every removal uncounts the key.
UncountAlways(n, S, K, c) == IF c \in S THEN n - 1 ELSE n
Uncount(n, S, K, c) == IF S \cap K = {c} THEN n - 1 ELSE n

\* ConnectionManager.Remove: only the caller that finds the entry goes on.
ConnManRemove(a) ==
  /\ pc[a] = "rmConn"
  /\ conns' = conns \ {tgt[a]}
  /\ IF tgt[a] \in conns
     THEN connCount' = connCount - 1 /\ Goto(a, "rmSess")
     ELSE connCount' = connCount /\ Goto(a, AfterRemove(a))
  /\ UNCHANGED <<sess, userCount, deviceCount, chans, channelCount, member,
                 tgt, todo, closeVars, wireVars, shutdown, prior>>

\* SessionIndex.Remove: empty device and user entries are deleted and uncounted.
SessionsRemove(a) ==
  /\ pc[a] = "rmSess"
  /\ LET c == tgt[a]
     IN  /\ sess' = sess \ {c}
         /\ deviceCount' = Uncount(deviceCount, sess, SameDevice(c), c)
         /\ userCount' = Uncount(userCount, sess, SameUser(c), c)
  /\ Goto(a, "rmSnap")
  /\ UNCHANGED <<conns, connCount, chans, channelCount, member,
                 tgt, todo, closeVars, wireVars, shutdown, prior>>

\* SubscriptionIndex.RemoveConn: the channels are read from the reverse table.
RemoveConnSnapshot(a) ==
  /\ pc[a] = "rmSnap"
  /\ Goto(a, IF member[tgt[a]] > 0 THEN "unsubChan" ELSE AfterRemove(a))
  /\ UNCHANGED <<indexVars, tgt, todo, closeVars, wireVars, shutdown, prior>>

\* SubscriptionIndex.Unsubscribe, the section under the channel shard's lock.
UnsubscribeChan(a) ==
  /\ pc[a] = "unsubChan"
  /\ LET c == tgt[a]
     IN  /\ chans' = chans \ {c}
         /\ channelCount' = Uncount(channelCount, chans, SameRoom(c), c)
  /\ Goto(a, "unsubMember")
  /\ UNCHANGED <<conns, connCount, sess, userCount, deviceCount, member,
                 tgt, todo, closeVars, wireVars, shutdown, prior>>

\* The count of a channel in the reverse table after Unsubscribe.
\* Mutant: the reverse table is left alone.
MemberKept(n) == n
MemberAfterUnsubscribe(n) == IF n <= 1 THEN 0 ELSE n - 1

\* SubscriptionIndex.Unsubscribe, the section under the reverse table's lock.
UnsubscribeMember(a) ==
  /\ pc[a] = "unsubMember"
  /\ member' = [member EXCEPT ![tgt[a]] = MemberAfterUnsubscribe(@)]
  /\ Goto(a, AfterRemove(a))
  /\ UNCHANGED <<conns, connCount, sess, userCount, deviceCount, chans, channelCount,
                 tgt, todo, closeVars, wireVars, shutdown, prior>>

-----------------------------------------------------------------------------
(* Client.Close(code, reason) on tgt[a]: closeOnce around the store of     *)
(* closeInfo and cancel.  A second caller waits for the first to finish.   *)

CloseCode(a) == CASE a[1] = "h" -> Replaced
                  [] a[1] = "a" -> AdminClosed
                  [] OTHER      -> SessionExpired

AfterClose(a) == IF a[1] = "w" THEN "run" ELSE "each"

CloseStore(a) ==
  /\ pc[a] = "closeStore"
  /\ once[tgt[a]] = "new"
  /\ once' = [once EXCEPT ![tgt[a]] = "busy"]
  /\ closeInfo' = [closeInfo EXCEPT ![tgt[a]] = CloseCode(a)]
  /\ Goto(a, "closeCancel")
  /\ UNCHANGED <<indexVars, tgt, todo, cancelled, wireVars, shutdown, prior>>

CloseCancel(a) ==
  /\ pc[a] = "closeCancel"
  /\ once' = [once EXCEPT ![tgt[a]] = "done"]
  /\ cancelled' = [cancelled EXCEPT ![tgt[a]] = TRUE]
  /\ Goto(a, AfterClose(a))
  /\ UNCHANGED <<indexVars, tgt, todo, closeInfo, wireVars, shutdown, prior>>

CloseAgain(a) ==
  /\ pc[a] = "closeStore"
  /\ once[tgt[a]] = "done"
  /\ Goto(a, AfterClose(a))
  /\ UNCHANGED <<indexVars, tgt, todo, closeVars, wireVars, shutdown, prior>>

-----------------------------------------------------------------------------
(* The pumps *)

\* Mutant: the deferred function is entered with no client in hand.
ReadPumpReturnNil(c) ==
  /\ pc[R(c)] = "run"
  /\ Goto(R(c), "rmConn")
  /\ UNCHANGED <<indexVars, tgt, todo, closeVars, wireVars, shutdown, prior>>

\* Mutant: the deferred function does not call RemoveClient.
ReadPumpReturnNoRemove(c) ==
  /\ pc[R(c)] = "run"
  /\ Goto(R(c), "connClose")
  /\ UNCHANGED <<indexVars, tgt, todo, closeVars, wireVars, shutdown, prior>>

\* ReadPump returns: the read failed (peer gone, read deadline, socket closed
\* by WritePump) or the loop saw ctx.Done.  Its deferred function runs next.
ReadPumpReturn(c) ==
  /\ pc[R(c)] = "run"
  /\ tgt' = [tgt EXCEPT ![R(c)] = c]
  /\ Goto(R(c), "rmConn")
  /\ UNCHANGED <<indexVars, todo, closeVars, wireVars, shutdown, prior>>

\* Mutant: cancel comes before the socket is closed.
ReadPumpKeepConn(c) ==
  /\ pc[R(c)] = "connClose"
  /\ Goto(R(c), "cancel")
  /\ UNCHANGED <<indexVars, tgt, todo, closeVars, wireVars, shutdown, prior>>

\* The deferred function after RemoveClient: conn.Close, then cancel.
ReadPumpCloseConn(c) ==
  /\ pc[R(c)] = "connClose"
  /\ sock' = [sock EXCEPT ![c] = FALSE]
  /\ Goto(R(c), "cancel")
  /\ UNCHANGED <<indexVars, tgt, todo, closeVars, sent, shutdown, prior>>

ReadPumpCancel(c) ==
  /\ pc[R(c)] = "cancel"
  /\ cancelled' = [cancelled EXCEPT ![c] = TRUE]
  /\ Goto(R(c), "done")
  /\ UNCHANGED <<indexVars, tgt, todo, once, closeInfo, wireVars, shutdown, prior>>

\* WritePump, ctx.Done: the close frame carries closeInfo, or 1001 when nobody
\* stored one; nothing reaches the peer when the socket is already closed.
WritePumpCtxDone(c) ==
  /\ pc[W(c)] = "run"
  /\ Done(c)
  /\ sent' = [sent EXCEPT ![c] =
                IF ~sock[c] THEN @
                ELSE IF closeInfo[c] = NoCode THEN GoingAway ELSE closeInfo[c]]
  /\ Goto(W(c), "connClose")
  /\ UNCHANGED <<indexVars, tgt, todo, closeVars, sock, shutdown, prior>>

\* WritePump: a write of a message or a ping fails.
WritePumpWriteError(c) ==
  /\ pc[W(c)] = "run"
  /\ Goto(W(c), "connClose")
  /\ UNCHANGED <<indexVars, tgt, todo, closeVars, wireVars, shutdown, prior>>

\* WritePump, sessionTicker: the session token has expired.
WritePumpExpire(c) ==
  /\ pc[W(c)] = "run"
  /\ once[c] = "new"
  /\ tgt' = [tgt EXCEPT ![W(c)] = c]
  /\ Goto(W(c), "closeStore")
  /\ UNCHANGED <<indexVars, todo, closeVars, wireVars, shutdown, prior>>

\* Mutant: WritePump leaves the socket open.
WritePumpKeepConn(c) ==
  /\ pc[W(c)] = "connClose"
  /\ Goto(W(c), "done")
  /\ UNCHANGED <<indexVars, tgt, todo, closeVars, wireVars, shutdown, prior>>

\* WritePump's deferred conn.Close.
WritePumpCloseConn(c) ==
  /\ pc[W(c)] = "connClose"
  /\ sock' = [sock EXCEPT ![c] = FALSE]
  /\ Goto(W(c), "done")
  /\ UNCHANGED <<indexVars, tgt, todo, closeVars, sent, shutdown, prior>>

\* comet main: the signal handler cancels the context every Client derives from.
Shutdown ==
  /\ ~shutdown
  /\ shutdown' = TRUE
  /\ UNCHANGED <<indexVars, pc, tgt, todo, closeVars, wireVars, prior>>

\* Every connection has come and gone; nothing is left to run.
Terminated ==
  /\ shutdown
  /\ \A c \in Clients : pc[H(c)] = "done" /\ pc[R(c)] = "done" /\ pc[W(c)] = "done"
  /\ \A i \in Admins : pc[<<"a", i>>] = "idle"
  /\ UNCHANGED vars

-----------------------------------------------------------------------------
AddClientStep(c) ==
  \/ ConnManAdd(c) \/ SessionsAdd(c) \/ SubscribeChan(c) \/ SubscribeMember(c) \/ SpawnPumps(c)

RemoveClientStep(a) ==
  \/ ConnManRemove(a) \/ SessionsRemove(a) \/ RemoveConnSnapshot(a)
  \/ UnsubscribeChan(a) \/ UnsubscribeMember(a)

CloseStep(a) == CloseStore(a) \/ CloseCancel(a) \/ CloseAgain(a)

LoopStep(a) == EachNext(a) \/ EachDone(a)

Next ==
  \/ \E c \in Clients : AddClientBegin(c) \/ AddClientStep(c)
  \/ \E a \in Actors : RemoveClientStep(a) \/ CloseStep(a) \/ LoopStep(a)
  \/ \E i \in Admins, r \in Rooms : CloseRoom(i, r)
  \/ \E i \in Admins, r \in Rooms, u \in Users : KickClient(i, r, u)
  \/ \E c \in Clients : ReadPumpReturn(c) \/ ReadPumpCloseConn(c) \/ ReadPumpCancel(c)
  \/ \E c \in Clients : WritePumpCtxDone(c) \/ WritePumpWriteError(c)
                          \/ WritePumpExpire(c) \/ WritePumpCloseConn(c)
  \/ Shutdown
  \/ Terminated

Spec == Init /\ [][Next]_vars

\* A goroutine that can run does run; a read on a closed socket fails; select
\* does not starve ctx.Done.  Peers, administrators and signals owe nothing.
Fairness ==
  /\ \A c \in Clients :
       /\ WF_vars(AddClientStep(c))
       /\ WF_vars(~sock[c] /\ ReadPumpReturn(c))
       /\ WF_vars(ReadPumpCloseConn(c)) /\ WF_vars(ReadPumpCancel(c))
       /\ WF_vars(WritePumpCtxDone(c)) /\ WF_vars(WritePumpCloseConn(c))
  /\ \A a \in Actors : WF_vars(RemoveClientStep(a) \/ CloseStep(a) \/ LoopStep(a))

FairSpec == Spec /\ Fairness

-----------------------------------------------------------------------------
(* Properties *)

Labels == {"idle", "each", "connAdd", "sessAdd", "subChan", "subMember", "spawn", "done",
           "rmConn", "rmSess", "rmSnap", "unsubChan", "unsubMember",
           "closeStore", "closeCancel", "run", "connClose", "cancel"}

\* Every variable has its type; an actor in the middle of RemoveClient or
\* Close holds a connection.
TypeOK ==
  /\ conns \in SUBSET Clients /\ sess \in SUBSET Clients /\ chans \in SUBSET Clients
  /\ connCount \in Int /\ userCount \in Int /\ deviceCount \in Int /\ channelCount \in Int
  /\ member \in [Clients -> Nat]
  /\ pc \in [Actors -> Labels]
  /\ tgt \in [Actors -> Clients \cup {NoClient}]
  /\ todo \in [Actors -> SUBSET Clients]
  /\ once \in [Clients -> {"new", "busy", "done"}]
  /\ closeInfo \in [Clients -> Codes \cup {NoCode}]
  /\ cancelled \in [Clients -> BOOLEAN]
  /\ sock \in [Clients -> BOOLEAN]
  /\ sent \in [Clients -> Codes \cup {GoingAway, NoCode}]
  /\ shutdown \in BOOLEAN
  /\ prior \in [Clients -> SUBSET Clients]
  /\ \A a \in Actors :
       pc[a] \in {"rmConn", "rmSess", "rmSnap", "unsubChan", "unsubMember",
                  "closeStore", "closeCancel"} => tgt[a] \in Clients

\* The O(1) counters behind OnlineCount, OnlineUserCount, OnlineDeviceCount
\* and RoomCountFast, kept by increments in two places each, equal the sizes
\* of the indexes they replace a scan of (hub.go 205-219).
CountersExact ==
  /\ connCount = Cardinality(conns)
  /\ userCount = Cardinality({UID[c] : c \in sess})
  /\ deviceCount = Cardinality({<<UID[c], DeviceID(c)>> : c \in sess})
  /\ channelCount = Cardinality({RoomID[c] : c \in chans})

Removing(a, c) ==
  tgt[a] = c /\ pc[a] \in {"rmSess", "rmSnap", "unsubChan", "unsubMember"}

\* Nobody is inside RemoveClient(c) any more and c's ReadPump has returned.
Finished(c) == pc[R(c)] = "done" /\ \A a \in Actors : ~Removing(a, c)

\* RemoveClient and whoever beats ReadPump to it leave no trace of a finished
\* connection in the connection registry and the session index, under either
\* policy and whoever evicts (hub.go 118-125).
NoGhostSession == \A c \in Clients : Finished(c) => c \notin conns /\ c \notin sess

\* ... nor in the subscription index ("removed from all three indexes",
\* hub.go 118).
NoGhostSubscription == \A c \in Clients : Finished(c) => c \notin chans /\ member[c] = 0

\* The channel table and its reverse table agree except inside the two
\* sections of Subscribe and Unsubscribe: nothing is broadcast to a connection
\* the disconnect cleanup cannot find (connkernel.go 243-248, 329-344).
ReverseTableAgrees ==
  \A c \in Clients :
    \/ c \in chans <=> member[c] = 1
    \/ pc[H(c)] = "subMember" /\ c \in chans /\ member[c] = 0
    \/ \E a \in Actors : tgt[a] = c /\ pc[a] = "unsubMember" /\ member[c] = 1

\* Under "single", once AddClient(c) has evicted, no connection of the user
\* whose AddClient had returned before is still registered (hub.go 103-111).
EvictsEarlier ==
  ConnectionPolicy = "single" =>
    \A c \in Clients :
      pc[H(c)] \in {"connAdd", "sessAdd", "subChan", "subMember", "spawn", "done"} =>
        prior[c] \cap conns = {}

\* Under "single" a user has one live connection once every handler has
\* returned: "a new connection replaces all old ones" (hub.go 26, connkernel.go 35).
OneConnectionPerUser ==
  (ConnectionPolicy = "single" /\ \A c \in Clients : pc[H(c)] \in {"idle", "done"}) =>
    \A c, d \in conns : UID[c] = UID[d] => c = d

\* The close frame the peer reads carries the code of the Close call that
\* cancelled the connection; 1001 only when the gateway shuts down (client.go 170-177).
CloseFrameHonest ==
  \A c \in Clients :
    sent[c] # NoCode => sent[c] = closeInfo[c] \/ (sent[c] = GoingAway /\ shutdown)

\* Either pump ending, or any Close, leads to both pumps ended and the
\* connection out of the registry and the session index, whoever initiated it.
CloseDrains ==
  \A c \in Clients :
    (cancelled[c] \/ ~sock[c]) ~>
       (pc[R(c)] = "done" /\ pc[W(c)] = "done" /\ c \notin conns /\ c \notin sess)

-----------------------------------------------------------------------------
(* The inductive invariant behind NoGhostSession and EvictsEarlier.        *)

RemoveLabels == {"rmConn", "rmSess", "rmSnap", "unsubChan", "unsubMember"}

\* The labels the pumps go through; the handler has returned before they run.
PumpControl ==
  \A c \in Clients :
    /\ pc[R(c)] \in RemoveLabels \cup {"idle", "run", "connClose", "cancel", "done"}
    /\ pc[W(c)] \in {"idle", "run", "closeStore", "closeCancel", "connClose", "done"}
    /\ pc[R(c)] # "idle" \/ pc[W(c)] # "idle" => pc[H(c)] = "done"
    /\ pc[R(c)] \in RemoveLabels => tgt[R(c)] = c

\* Only published connections are indexed, snapshot or removed.
OnlyPublished ==
  /\ \A c \in Clients : c \in conns => Published(c) \/ pc[H(c)] = "sessAdd"
  /\ \A c \in Clients : c \in sess \/ c \in chans => Published(c)
  /\ \A a \in Actors : \A c \in todo[a] : Published(c)
  /\ \A a \in Actors : pc[a] \in RemoveLabels => Published(tgt[a])

\* The registry and the session index differ only inside AddClient and RemoveClient.
SessionFollowsRegistry ==
  /\ \A c \in Clients : pc[H(c)] = "sessAdd" => c \in conns
  /\ \A c \in conns : Published(c) => c \in sess
  /\ \A c \in sess \ conns : \E a \in Actors : tgt[a] = c /\ pc[a] = "rmSess"
  /\ \A a \in Actors : pc[a] = "rmSess" => tgt[a] \notin conns
  /\ \A c \in Clients :
       pc[R(c)] \in {"rmSess", "rmSnap", "unsubChan", "unsubMember", "connClose", "cancel", "done"}
         => c \notin conns

\* An earlier connection that is still registered is in the evicting handler's hands.
EvictionPending ==
  \A c \in Clients :
    /\ \A x \in prior[c] : AddReturned(x)
    /\ \A x \in prior[c] \cap conns :
         \/ x \in todo[H(c)] /\ pc[H(c)] \in RemoveLabels \cup {"each", "closeStore", "closeCancel"}
         \/ pc[H(c)] = "rmConn" /\ tgt[H(c)] = x
    /\ pc[H(c)] = "idle" => prior[c] = {}

SessionInv == PumpControl /\ OnlyPublished /\ SessionFollowsRegistry

-----------------------------------------------------------------------------
(* The inductive invariants behind ReverseTableAgrees and CloseFrameHonest. *)

PastRegistry == {"rmSess", "rmSnap", "unsubChan", "unsubMember"}

\* Of all callers of RemoveClient(c) one finds the registry entry and goes on alone.
SoleRemover ==
  /\ \A a \in Actors : pc[a] \in PastRegistry => tgt[a] \notin conns
  /\ \A a, b \in Actors :
       pc[a] \in PastRegistry /\ pc[b] \in PastRegistry /\ tgt[a] = tgt[b] => a = b

\* Both tables follow Subscribe and Unsubscribe: nobody unsubscribes a connection
\* before its Subscribe is complete, and nobody unsubscribes one twice.
TablesFollow ==
  /\ \A c \in Clients :
       /\ ~AddReturned(c) => member[c] = 0
       /\ ~AddReturned(c) => (c \in chans <=> pc[H(c)] = "subMember")
       /\ AddReturned(c) => member[c] \in {0, 1} /\ (c \in chans => member[c] = 1)
       /\ AddReturned(c) /\ member[c] = 1 /\ c \notin chans =>
            \E a \in Actors : tgt[a] = c /\ pc[a] = "unsubMember"
  /\ \A a \in Actors :
       /\ pc[a] = "unsubChan" =>
            AddReturned(tgt[a]) /\ tgt[a] \in chans /\ member[tgt[a]] = 1
       /\ pc[a] = "unsubMember" =>
            AddReturned(tgt[a]) /\ tgt[a] \notin chans /\ member[tgt[a]] = 1

\* Whoever cancels has stored a code or closed the socket, so no frame that still
\* reaches the peer can miss the code.
CloseOrder ==
  /\ \A c \in Clients :
       /\ once[c] = "new" <=> closeInfo[c] = NoCode
       /\ pc[R(c)] \in {"cancel", "done"} => ~sock[c]
       /\ cancelled[c] => closeInfo[c] # NoCode \/ ~sock[c]
  /\ \A a \in Actors : pc[a] = "closeCancel" => once[tgt[a]] # "new"

\* Presence as the session index serves it: a connection is online from
\* SessionIndex.Add to SessionIndex.Remove.
PresenceStatus == [c \in Clients |-> IF c \in sess THEN "online"
                                    ELSE IF Published(c) THEN "gone" ELSE "offline"]

Presence == INSTANCE Presence WITH status <- PresenceStatus, onlineUsers <- userCount

\* The three-index kernel implements the atomic registry of Presence.
PresenceRefinement == Presence!Spec
=============================================================================
