------------------------------ MODULE MonoRoom ------------------------------
(***************************************************************************)
(* One room of one monolith server: monolith/server/client.go (readPump's  *)
(* danmu path, sendAck, handleReconnect, Close), msgidset.go, worker.go,   *)
(* roomhist.go, hub.go (Run, addClient, removeClient, broadcastToRoom,     *)
(* CloseRoom, KickClient) and the inbound side of redis.go.                *)
(*                                                                         *)
(* Goroutines: the readPumps of senders (Readers), the worker pool         *)
(* (Workers), the Redis subscription loop (Sub), Hub.Run, one caller of    *)
(* CloseRoom / KickClient and the connections of viewers.  A viewer is a   *)
(* uid; <<v, k>> is the Client of its k-th connection.  Every critical     *)
(* section, channel operation and atomic is one step.                      *)
(*                                                                         *)
(* An entry is a numbered copy of a danmu.  A channel to a viewer may be   *)
(* full at any time, because of other traffic.  Left out, because they do  *)
(* not touch this state: rate limits and filters, metrics, bans, the       *)
(* Kafka copy and what PublishBatch sends to the other servers.            *)
(***************************************************************************)
EXTENDS HistRing, FiniteSets

CONSTANTS
  Msgs,        \* client msg_ids; one the server makes up is never sent again
  High,        \* the ones sent with priority > 0
  RemoteMsgs,  \* danmu of another server, arriving through Redis
  Readers, Workers, Viewers,
  Sub,         \* the Redis subscription loop
  QueueCap,    \* msgQueueSize
  BatchMax,    \* WorkerPool.batchSize
  MaxSends,    \* bound: times a client sends one msg_id
  MaxExpiries, \* bound: msg_ids that outlive the idempotence window
  MaxConns,    \* bound: connections of one viewer
  Older,       \* numbers of danmu the room has had when the behaviour begins
  AfterSeqs,   \* the after_seq values clients report
  RemoteSeqs,  \* the seqs remote danmu carry
  MaxAdmin,    \* bound: calls of CloseRoom and KickClient
  MaxTTL,      \* bound: times the history outlives its TTL
  MaxStops,    \* bound: shutdowns
  None

ASSUME RoomAssumption ==
  /\ None \notin Msgs /\ Workers # {} /\ Sub \notin Workers
  /\ IsFiniteSet(Readers) /\ MaxConns \in Nat
  /\ Older \subseteq Nat /\ AfterSeqs \subseteq Nat
  /\ RemoteSeqs \subseteq Nat \ {0}    \* every danmu is numbered before PublishBatch

VARIABLES
  sends, hand,            \* per msg_id, per reader: copies sent, danmu between MarkSeen and msgQueue
  seen,                   \* MsgIDSet, the unexpired entries
  msgQueue,
  acked, refused,         \* msg_ids acknowledged / dropped because msgQueue was full
  remote,                 \* danmu Redis has not delivered yet
  batch, pc, mode,        \* per pusher: its batch, where it is, whether it serves, drains or leaves
  targets,                \* per pusher: the clients it still has to send this round to
  handle,                 \* per pusher: the histRoom getOrCreate gave it
  roomSeq,                \* the room's counter in roomSeqs
  rings, cur,             \* every histRoom ever made; the one the map holds, 0 for none
  regQ, unregQ,           \* Hub.register, Hub.unregister
  room,                   \* per viewer: the connection the room's map holds, 0 for none
  conns, live, cancelled, \* per viewer: connections opened; the ones whose pumps run / told to end
  after, replay, view,    \* per connection: its after_seq, where its replay is, the histRoom it reads
  sendCh,                 \* per connection: entries offered to sendCh or hpSendCh, taken or dropped
  admin, victims,         \* the caller of CloseRoom / KickClient
  stopping,               \* the root context is cancelled
  expiries, ttls, calls,  \* bound counters
  \* history
  enqueued, forgotten,    \* per msg_id: times enqueued / times MsgIDSet forgot it
  late,                   \* msg_ids enqueued after the shutdown began
  kept,                   \* per histRoom: the last HistMax entries since it was last emptied
  appended, completed,    \* entries written to a history / broadcast to the end
  excused,                \* per connection: entries its replay does not owe it
  overtaken               \* connections unregistered before they were registered

ingestVars == <<sends, hand, seen, msgQueue, acked, refused, expiries, enqueued, forgotten, late>>
pushVars   == <<remote, batch, pc, mode, targets, handle, roomSeq, completed>>
histVars   == <<rings, cur, ttls, kept, appended>>
connVars   == <<regQ, unregQ, room, conns, live, cancelled, overtaken>>
viewVars   == <<after, replay, view, sendCh, excused>>
adminVars  == <<admin, victims, calls>>
vars == <<ingestVars, pushVars, histVars, connVars, viewVars, adminVars, stopping>>

Pushers == Workers \cup {Sub}
Conns == Viewers \X (1..MaxConns)
Goto(w, l) == pc' = [pc EXCEPT ![w] = l]
Entries(w) == ToSet(batch[w])
IsHigh(e) == e.msg \in High
LastOf(s) == IF Len(s) <= HistMax THEN s ELSE SubSeq(s, Len(s) - HistMax + 1, Len(s))

Init ==
  /\ sends = [m \in Msgs |-> 0] /\ hand = [r \in Readers |-> None]
  /\ seen = {} /\ msgQueue = <<>> /\ acked = {} /\ refused = {}
  /\ remote = RemoteMsgs
  /\ batch = [w \in Pushers |-> <<>>] /\ pc = [w \in Pushers |-> "select"]
  /\ mode = [w \in Pushers |-> "serve"]
  /\ targets = [w \in Pushers |-> {}] /\ handle = [w \in Pushers |-> 0]
  /\ \E n \in Older :
       LET old == [i \in 1..n |-> [msg |-> None, seq |-> i]]
       IN  /\ roomSeq = n
           /\ rings = IF n = 0 THEN <<>> ELSE <<PushAll(NewRing, old)>>
           /\ kept = IF n = 0 THEN <<>> ELSE <<LastOf(old)>>
           /\ cur = Len(rings)
           /\ appended = ToSet(old) /\ completed = ToSet(old)
  /\ regQ = <<>> /\ unregQ = <<>> /\ room = [v \in Viewers |-> 0]
  /\ conns = [v \in Viewers |-> 0] /\ live = {} /\ cancelled = {}
  /\ after = [c \in Conns |-> 0] /\ replay = [c \in Conns |-> "asked"]
  /\ view = [c \in Conns |-> 0] /\ sendCh = [c \in Conns |-> {}]
  /\ admin = "idle" /\ victims = {}
  /\ stopping = FALSE
  /\ expiries = 0 /\ ttls = 0 /\ calls = 0
  /\ enqueued = [m \in Msgs |-> 0] /\ forgotten = [m \in Msgs |-> 0] /\ late = {}
  /\ excused = [c \in Conns |-> {}] /\ overtaken = {}

-----------------------------------------------------------------------------
(* readPump: from the decoded danmu to msgQueue *)

\* MsgIDSet.MarkSeen; a duplicate is acknowledged and goes no further.
\* Mutant: the id is looked up but not recorded.
SeenAfterLookup(m) == seen
SeenAfter(m) == seen \cup {m}

MarkSeen(r, m) ==
  /\ hand[r] = None
  /\ sends[m] < MaxSends /\ sends' = [sends EXCEPT ![m] = @ + 1]
  /\ IF m \in seen
     THEN acked' = acked \cup {m} /\ UNCHANGED <<seen, hand>>
     ELSE seen' = SeenAfter(m) /\ hand' = [hand EXCEPT ![r] = m] /\ UNCHANGED acked
  /\ UNCHANGED <<msgQueue, refused, expiries, enqueued, forgotten, late,
                 pushVars, histVars, connVars, viewVars, adminVars, stopping>>

\* msgQueue <- msg, then sendAck
Enqueue(r) ==
  /\ hand[r] # None
  /\ Len(msgQueue) < QueueCap
  /\ msgQueue' = Append(msgQueue, hand[r])
  /\ acked' = acked \cup {hand[r]}
  /\ enqueued' = [enqueued EXCEPT ![hand[r]] = @ + 1]
  /\ late' = IF stopping THEN late \cup {hand[r]} ELSE late
  /\ hand' = [hand EXCEPT ![r] = None]
  /\ UNCHANGED <<sends, seen, refused, expiries, forgotten,
                 pushVars, histVars, connVars, viewVars, adminVars, stopping>>

\* The queue is full: the danmu is dropped and not acknowledged.
QueueFull(r) ==
  /\ hand[r] # None
  /\ Len(msgQueue) >= QueueCap
  /\ refused' = refused \cup {hand[r]}
  /\ hand' = [hand EXCEPT ![r] = None]
  /\ UNCHANGED <<sends, seen, msgQueue, acked, expiries, enqueued, forgotten, late,
                 pushVars, histVars, connVars, viewVars, adminVars, stopping>>

\* Entries leave MsgIDSet: their window has passed (MarkSeen ignores them, Sweep
\* deletes them) or the room is cleared.
Forget(S) ==
  /\ seen' = seen \ S
  /\ forgotten' = [m \in Msgs |-> IF m \in S \cap seen THEN forgotten[m] + 1 ELSE forgotten[m]]

Expire(m) ==
  /\ m \in seen
  /\ expiries < MaxExpiries /\ expiries' = expiries + 1
  /\ Forget({m})
  /\ UNCHANGED <<sends, hand, msgQueue, acked, refused, enqueued, late,
                 pushVars, histVars, connVars, viewVars, adminVars, stopping>>

-----------------------------------------------------------------------------
(* worker: collecting a batch *)

Unnumbered(m) == [msg |-> m, seq |-> 0]

Receive(w) ==
  /\ pc[w] = "select" /\ mode[w] \in {"serve", "drain"}
  /\ msgQueue # <<>>
  /\ msgQueue' = Tail(msgQueue)
  /\ batch' = [batch EXCEPT ![w] = Append(@, Unnumbered(Head(msgQueue)))]
  /\ Goto(w, IF Len(batch[w]) + 1 >= BatchMax THEN "number" ELSE "select")
  /\ UNCHANGED <<sends, hand, seen, acked, refused, expiries, enqueued, forgotten, late,
                 remote, mode, targets, handle, roomSeq, completed,
                 histVars, connVars, viewVars, adminVars, stopping>>

\* Mutant: the timer only flushes a full batch.
FlushFull(w) ==
  /\ pc[w] = "select" /\ mode[w] = "serve"
  /\ Len(batch[w]) >= BatchMax
  /\ Goto(w, "number")
  /\ UNCHANGED <<ingestVars, remote, batch, mode, targets, handle, roomSeq, completed,
                 histVars, connVars, viewVars, adminVars, stopping>>

\* timer.C
FlushTimer(w) ==
  /\ pc[w] = "select" /\ mode[w] = "serve"
  /\ batch[w] # <<>>
  /\ Goto(w, "number")
  /\ UNCHANGED <<ingestVars, remote, batch, mode, targets, handle, roomSeq, completed,
                 histVars, connVars, viewVars, adminVars, stopping>>

SeeCtxDone(w) ==
  /\ pc[w] = "select" /\ mode[w] = "serve"
  /\ stopping
  /\ mode' = [mode EXCEPT ![w] = "drain"]
  /\ UNCHANGED <<ingestVars, remote, batch, pc, targets, handle, roomSeq, completed,
                 histVars, connVars, viewVars, adminVars, stopping>>

\* Mutant: the worker flushes what it holds and leaves the rest in the queue.
LeaveAtOnce(w) ==
  /\ pc[w] = "select" /\ mode[w] = "drain"
  /\ mode' = [mode EXCEPT ![w] = "leave"]
  /\ Goto(w, IF batch[w] = <<>> THEN "exited" ELSE "number")
  /\ UNCHANGED <<ingestVars, remote, batch, targets, handle, roomSeq, completed,
                 histVars, connVars, viewVars, adminVars, stopping>>

\* The queue is empty: the last flush, then return.
Drained(w) ==
  /\ pc[w] = "select" /\ mode[w] = "drain"
  /\ msgQueue = <<>>
  /\ mode' = [mode EXCEPT ![w] = "leave"]
  /\ Goto(w, IF batch[w] = <<>> THEN "exited" ELSE "number")
  /\ UNCHANGED <<ingestVars, remote, batch, targets, handle, roomSeq, completed,
                 histVars, connVars, viewVars, adminVars, stopping>>

-----------------------------------------------------------------------------
(* flush: number, append to the history, broadcast normal, broadcast high *)

\* Hub.nextRoomSeq for the next message of the batch.
Number(w) ==
  /\ pc[w] = "number"
  /\ LET i == CHOOSE j \in DOMAIN batch[w] :
                /\ batch[w][j].seq = 0
                /\ \A k \in 1..(j - 1) : batch[w][k].seq # 0
     IN  /\ batch' = [batch EXCEPT ![w][i].seq = roomSeq + 1]
         /\ Goto(w, IF i = Len(batch[w]) THEN "attach" ELSE "number")
  /\ roomSeq' = roomSeq + 1
  /\ UNCHANGED <<ingestVars, remote, mode, targets, handle, completed,
                 histVars, connVars, viewVars, adminVars, stopping>>

\* RoomHist.getOrCreate
GetOrCreate(w) ==
  /\ pc[w] = "attach"
  /\ IF cur # 0 THEN UNCHANGED <<rings, cur, kept>>
     ELSE rings' = Append(rings, NewRing) /\ cur' = Len(rings) + 1 /\ kept' = Append(kept, <<>>)
  /\ handle' = [handle EXCEPT ![w] = cur']
  /\ Goto(w, "append")
  /\ UNCHANGED <<ingestVars, remote, batch, mode, targets, roomSeq, completed,
                 ttls, appended, connVars, viewVars, adminVars, stopping>>

\* AppendBatch under the lock of its histRoom, whether or not the map still
\* holds that one.
AppendBatch(w) ==
  /\ pc[w] = "append"
  /\ LET h == handle[w]
     IN  /\ rings' = [rings EXCEPT ![h] = PushAll(@, batch[w])]
         /\ kept' = [kept EXCEPT ![h] =
              LastOf((IF Expired(rings[h]) THEN <<>> ELSE @) \o batch[w])]
  /\ appended' = appended \cup Entries(w)
  /\ Goto(w, "normal")
  /\ UNCHANGED <<ingestVars, remote, batch, mode, targets, handle, roomSeq, completed,
                 cur, ttls, connVars, viewVars, adminVars, stopping>>

Round(w) == {e \in Entries(w) : IsHigh(e) <=> pc[w] \in {"high", "sendHigh"}}

\* What follows a round: the high one, then the next batch or return.
NextRound(w) ==
  IF pc[w] \in {"normal", "sendNormal"}
  THEN Goto(w, "high") /\ UNCHANGED <<batch, completed>>
  ELSE /\ Goto(w, IF mode[w] = "leave" THEN "exited" ELSE "select")
       /\ batch' = [batch EXCEPT ![w] = <<>>]
       /\ completed' = completed \cup Entries(w)

Members == {<<v, room[v]>> : v \in {u \in Viewers : room[u] # 0}}

\* broadcastToRoom, under the shard's RLock: copy the client list.
SnapshotRoom(w) ==
  /\ pc[w] \in {"normal", "high"}
  /\ IF Round(w) = {} \/ Members = {}
     THEN NextRound(w) /\ UNCHANGED targets
     ELSE /\ targets' = [targets EXCEPT ![w] = Members]
          /\ Goto(w, IF pc[w] = "normal" THEN "sendNormal" ELSE "sendHigh")
          /\ UNCHANGED <<batch, completed>>
  /\ UNCHANGED <<ingestVars, remote, mode, handle, roomSeq,
                 histVars, connVars, viewVars, adminVars, stopping>>

\* One non-blocking send: taken, or dropped because the channel is full.  What
\* goes to a connection that has ended is read by nobody.
SendTo(w, c) ==
  /\ pc[w] \in {"sendNormal", "sendHigh"}
  /\ c \in targets[w]
  /\ targets' = [targets EXCEPT ![w] = @ \ {c}]
  /\ IF targets[w] = {c} THEN NextRound(w) ELSE UNCHANGED <<pc, batch, completed>>
  /\ sendCh' = IF c \in live THEN [sendCh EXCEPT ![c] = @ \cup Round(w)] ELSE sendCh
  /\ UNCHANGED <<ingestVars, remote, mode, handle, roomSeq, histVars, connVars,
                 after, replay, view, excused, adminVars, stopping>>

\* RedisHub.handleIncoming: a room nobody here is in is skipped unread.  The
\* server's own danmu, which come back to it, are skipped as well.
HandleIncoming(m, s) ==
  /\ pc[Sub] = "select"
  /\ m \in remote /\ remote' = remote \ {m}
  /\ IF Members # {}
     THEN batch' = [batch EXCEPT ![Sub] = <<[msg |-> m, seq |-> s]>>] /\ Goto(Sub, "adopt")
     ELSE UNCHANGED <<batch, pc>>
  /\ UNCHANGED <<ingestVars, mode, targets, handle, roomSeq, completed,
                 histVars, connVars, viewVars, adminVars, stopping>>

\* Hub.adoptRoomSeq: the counter only moves up.
AdoptRoomSeq ==
  /\ pc[Sub] = "adopt"
  /\ LET s == batch[Sub][1].seq IN roomSeq' = IF s > roomSeq THEN s ELSE roomSeq
  /\ Goto(Sub, "attach")
  /\ UNCHANGED <<ingestVars, remote, batch, mode, targets, handle, completed,
                 histVars, connVars, viewVars, adminVars, stopping>>

-----------------------------------------------------------------------------
(* The hot history's clock *)

TTLPasses(h) ==
  /\ rings[h].count > 0 /\ ~rings[h].stale
  /\ ttls < MaxTTL /\ ttls' = ttls + 1
  /\ rings' = [rings EXCEPT ![h].stale = TRUE]
  /\ UNCHANGED <<ingestVars, pushVars, cur, kept, appended,
                 connVars, viewVars, adminVars, stopping>>

\* Reading or sweeping an expired histRoom empties it.
Empty(h) ==
  /\ rings' = [rings EXCEPT ![h] = Reset(@)]
  /\ kept' = [kept EXCEPT ![h] = <<>>]

\* SweepLoop: an expired or empty room leaves the map.
Sweep ==
  /\ cur # 0
  /\ Expired(rings[cur]) \/ rings[cur].count = 0
  /\ Empty(cur)
  /\ cur' = 0
  /\ UNCHANGED <<ingestVars, pushVars, ttls, appended,
                 connVars, viewVars, adminVars, stopping>>

-----------------------------------------------------------------------------
(* Viewers, Hub.Run, replay *)

\* handleWebSocket sends the client to register and starts its pumps without
\* waiting; the client asks for what follows the seq s.
Connect(v, s) ==
  /\ conns[v] < MaxConns
  /\ LET c == <<v, conns[v] + 1>>
     IN  /\ conns' = [conns EXCEPT ![v] = @ + 1]
         /\ live' = live \cup {c}
         /\ after' = [after EXCEPT ![c] = s]
         /\ regQ' = Append(regQ, c)
  /\ UNCHANGED <<ingestVars, pushVars, histVars, overtaken, unregQ, room, cancelled,
                 replay, view, sendCh, excused, adminVars, stopping>>

\* The pumps end, because the client left or because they were told to.
Exit(c) ==
  /\ c \in live
  /\ live' = live \ {c}
  /\ unregQ' = Append(unregQ, c)
  /\ after' = [after EXCEPT ![c] = 0] /\ view' = [view EXCEPT ![c] = 0]
  /\ replay' = [replay EXCEPT ![c] = "ended"]
  /\ sendCh' = [sendCh EXCEPT ![c] = {}] /\ excused' = [excused EXCEPT ![c] = {}]
  /\ UNCHANGED <<ingestVars, pushVars, histVars, overtaken, regQ, room, conns, cancelled,
                 adminVars, stopping>>

\* Hub.addClient: an older connection of the uid is cancelled.
AddClient ==
  /\ regQ # <<>>
  /\ regQ' = Tail(regQ)
  /\ LET v == Head(regQ)[1]
     IN  /\ cancelled' = cancelled \cup {c \in Members : c[1] = v}
         /\ room' = [room EXCEPT ![v] = Head(regQ)[2]]
  /\ UNCHANGED <<ingestVars, pushVars, histVars, overtaken, unregQ, conns, live,
                 viewVars, adminVars, stopping>>

\* Mutant: the replay does not wait for the registration.
RegisteredAlways(c) == TRUE

\* Client.registered
Registered(c) == c \notin ToSet(regQ)

\* Mutant: a client that leaves stays in the room.
RoomKept(c) == room

\* Hub.removeClient: only the connection itself, not one that took its uid over.
RoomAfter(c) == IF room[c[1]] = c[2] THEN [room EXCEPT ![c[1]] = 0] ELSE room

RemoveClient ==
  /\ unregQ # <<>>
  /\ unregQ' = Tail(unregQ)
  /\ room' = RoomAfter(Head(unregQ))
  /\ overtaken' = IF Head(unregQ) \in ToSet(regQ) THEN overtaken \cup {Head(unregQ)}
                  ELSE overtaken
  /\ UNCHANGED <<ingestVars, pushVars, histVars, regQ, conns, live, cancelled,
                 viewVars, adminVars, stopping>>

\* handleReconnect waits for the registration; ReplayFrom looks the room up.
ReplayLookup(c) ==
  /\ c \in live /\ replay[c] = "asked"
  /\ Registered(c)
  /\ view' = [view EXCEPT ![c] = cur]
  /\ replay' = [replay EXCEPT ![c] = "found"]
  /\ UNCHANGED <<ingestVars, pushVars, histVars, connVars,
                 after, sendCh, excused, adminVars, stopping>>

\* ReplayFrom under the histRoom's lock; the frame goes to sendCh.  What has left
\* the history, or has a seq the client says it is past, is not owed to it.
ReplayFrom(c) ==
  /\ c \in live /\ replay[c] = "found"
  /\ LET h == view[c]
     IN  /\ IF h # 0 /\ Expired(rings[h]) THEN Empty(h) ELSE UNCHANGED <<rings, kept>>
         /\ sendCh' = [sendCh EXCEPT ![c] =
              @ \cup (IF h = 0 THEN {} ELSE ReplayAfter(rings[h], after[c]))]
  /\ LET held == IF cur = 0 THEN {} ELSE ToSet(kept'[cur])
     IN  excused' = [excused EXCEPT ![c] = {e \in appended : e \notin held \/ e.seq <= after[c]}]
  /\ replay' = [replay EXCEPT ![c] = "done"]
  /\ UNCHANGED <<ingestVars, pushVars, cur, ttls, appended, connVars,
                 after, view, adminVars, stopping>>

-----------------------------------------------------------------------------
(* CloseRoom and KickClient, by an API handler or by handleCtrl *)

\* Under the shard's lock: take the clients out of the map.
CloseRoom ==
  /\ admin = "idle" /\ calls < MaxAdmin
  /\ Members # {}
  /\ calls' = calls + 1
  /\ victims' = Members
  /\ room' = [v \in Viewers |-> 0]
  /\ admin' = "seqs"
  /\ UNCHANGED <<ingestVars, pushVars, histVars, overtaken, regQ, unregQ, conns, live, cancelled,
                 viewVars, stopping>>

CloseRoomSeqs ==
  /\ admin = "seqs" /\ admin' = "hist"
  /\ roomSeq' = 0
  /\ UNCHANGED <<ingestVars, remote, batch, pc, mode, targets, handle, completed,
                 histVars, connVars, viewVars, victims, calls, stopping>>

CloseRoomHist ==
  /\ admin = "hist" /\ admin' = "idem"
  /\ cur' = 0
  /\ UNCHANGED <<ingestVars, pushVars, rings, ttls, kept, appended,
                 connVars, viewVars, victims, calls, stopping>>

CloseRoomIdem ==
  /\ admin = "idem" /\ admin' = "close"
  /\ Forget(Msgs)
  /\ UNCHANGED <<sends, hand, msgQueue, acked, refused, expiries, enqueued, late,
                 pushVars, histVars, connVars, viewVars, victims, calls, stopping>>

KickClient(v) ==
  /\ admin = "idle" /\ calls < MaxAdmin
  /\ room[v] # 0
  /\ calls' = calls + 1
  /\ victims' = {<<v, room[v]>>}
  /\ room' = [room EXCEPT ![v] = 0]
  /\ admin' = "close"
  /\ UNCHANGED <<ingestVars, pushVars, histVars, overtaken, regQ, unregQ, conns, live, cancelled,
                 viewVars, stopping>>

\* Client.Close on each victim.
CloseVictims ==
  /\ admin = "close" /\ admin' = "idle"
  /\ cancelled' = cancelled \cup victims
  /\ victims' = {}
  /\ UNCHANGED <<ingestVars, pushVars, histVars, overtaken, regQ, unregQ, room, conns, live,
                 viewVars, calls, stopping>>

\* The root context, the parent of every client's, is cancelled.
Shutdown ==
  /\ ~stopping /\ MaxStops > 0
  /\ stopping' = TRUE
  /\ cancelled' = Conns
  /\ UNCHANGED <<ingestVars, pushVars, histVars, overtaken, regQ, unregQ, room, conns, live,
                 viewVars, adminVars>>

-----------------------------------------------------------------------------
FlushStep(w) ==
  \/ Number(w) \/ GetOrCreate(w) \/ AppendBatch(w) \/ SnapshotRoom(w)
  \/ \E c \in targets[w] : SendTo(w, c)

WorkerStep(w) == Receive(w) \/ FlushTimer(w) \/ SeeCtxDone(w) \/ Drained(w)

Next ==
  \/ \E r \in Readers : (\E m \in Msgs : MarkSeen(r, m)) \/ Enqueue(r) \/ QueueFull(r)
  \/ \E m \in Msgs : Expire(m)
  \/ \E w \in Workers : WorkerStep(w)
  \/ \E w \in Pushers : FlushStep(w)
  \/ \E m \in RemoteMsgs, s \in RemoteSeqs : HandleIncoming(m, s)
  \/ AdoptRoomSeq
  \/ \E h \in DOMAIN rings : TTLPasses(h)
  \/ Sweep
  \/ \E v \in Viewers, s \in AfterSeqs : Connect(v, s)
  \/ \E c \in Conns : Exit(c) \/ ReplayLookup(c) \/ ReplayFrom(c)
  \/ AddClient \/ RemoveClient
  \/ CloseRoom \/ CloseRoomSeqs \/ CloseRoomHist \/ CloseRoomIdem
  \/ \E v \in Viewers : KickClient(v)
  \/ CloseVictims \/ Shutdown

Spec == Init /\ [][Next]_vars

\* A worker goroutine never blocks for ever in a flush (sends do not wait), and
\* its select takes a danmu or the timer that stays ready.
Fairness == \A w \in Workers :
  WF_vars(FlushStep(w)) /\ WF_vars(Receive(w)) /\ WF_vars(FlushTimer(w))

FairSpec == Spec /\ Fairness

-----------------------------------------------------------------------------
(* Properties *)

\* Queues, batches and rings respect their bounds, and every handle names a
\* histRoom that exists.
TypeOK ==
  /\ seen \subseteq Msgs /\ acked \subseteq Msgs /\ refused \subseteq Msgs
  /\ hand \in [Readers -> Msgs \cup {None}]
  /\ msgQueue \in Seq(Msgs) /\ Len(msgQueue) <= QueueCap
  /\ \A w \in Workers : Len(batch[w]) <= BatchMax
  /\ cur \in 0..Len(rings) /\ Len(kept) = Len(rings)
  /\ \A h \in DOMAIN rings :
       /\ rings[h].count <= Len(rings[h].entries) /\ Len(rings[h].entries) <= HistMax
       /\ rings[h].head < HistMax
  /\ live \subseteq Conns /\ cancelled \subseteq Conns
  /\ room \in [Viewers -> 0..MaxConns]
  /\ \A w \in Pushers : targets[w] \subseteq Conns /\ handle[w] \in 0..Len(rings)

InHand(m) == \E r \in Readers : hand[r] = m

\* "The server acknowledges once the message is in msgQueue, and a client that
\* gets no ack may retry" (README, client.go): an acknowledged msg_id has been
\* queued, or another reader is about to.
AckedIsQueued == \A m \in acked : enqueued[m] > 0 \/ InHand(m)

\* What sendAck does guarantee: an acknowledged msg_id has been queued, unless
\* another copy of it was refused by a full queue or is still on its way there.
AckedUnlessDropped == \A m \in acked : enqueued[m] > 0 \/ m \in refused \/ InHand(m)

\* MarkSeen against retries on any connection: a msg_id is queued once, and once
\* more for every time its window passed or its room was closed.
BroadcastOnce == \A m \in Msgs : enqueued[m] <= 1 + forgotten[m]

\* What readPump's idempotence and acks promise a client that retries: no second copy, and
\* no ack for a danmu that never got a place in msgQueue but for the refused ones (client.go 154-190).
AckedOnce == AckedUnlessDropped /\ BroadcastOnce

\* histRoom through wrap-around, expiry, reset and the reuse of its slice: what
\* ReplayFrom walks over is exactly the last HistMax entries since it was emptied.
RingIsRecent == \A h \in DOMAIN rings : Contents(rings[h]) = kept[h]

\* Entries whose broadcast is under way.
OnTheWay ==
  UNION {Entries(w) : w \in {p \in Pushers : pc[p] \in {"normal", "sendNormal", "high", "sendHigh"}}}

\* handleReconnect against flush ("append to the history first, then broadcast";
\* "the live stream follows seamlessly"): once its replay is done, a connection
\* the room holds has been offered every danmu broadcast so far, replayed or live,
\* except what had left the history, what is not after its after_seq, and a danmu
\* that is being broadcast once more under the same seq (after CloseRoom).
NoReplayGap ==
  \A c \in live \ cancelled :
    replay[c] = "done" /\ c \in Members =>
      completed \ OnTheWay \subseteq sendCh[c] \cup excused[c]

\* addClient, removeClient, CloseRoom and KickClient together: a running
\* connection that the room does not hold is not yet registered or is being closed.
NoDeafViewer ==
  \A c \in live \ cancelled :
    c \in Members \/ c \in ToSet(regQ) \/ c \in victims

\* What a viewer who reconnects relies on: the hub holds its connection, the ring
\* holds the recent danmu, and replay and live stream together leave nothing out
\* (handleReconnect, flush, CloseRoom, KickClient).
StreamUnbroken == NoReplayGap /\ NoDeafViewer /\ RingIsRecent

\* Hub.Run over two channels: a connection that has ended leaves the room, unless
\* Run took its unregister before its register; then it stays (client.go never
\* sends a second one) and the room counts it and broadcasts to it.
LeavesUnlessOvertaken ==
  \A c \in Members \ live : c \in ToSet(unregQ) \/ c \in overtaken

\* worker's drain on ctx.Done: once all workers have returned, only danmu queued
\* after the shutdown began can be left behind.
StopDrains ==
  (\A w \in Workers : pc[w] = "exited") => ToSet(msgQueue) \subseteq late

\* worker and its timer: a danmu in msgQueue is broadcast in the end, also when it
\* fills no batch, unless the server shuts down.
EventuallyBroadcast ==
  \A m \in Msgs : m \in ToSet(msgQueue) ~> (stopping \/ \E e \in completed : e.msg = m)

-----------------------------------------------------------------------------
(* The inductive invariants behind AckedOnce, StopDrains, StreamUnbroken   *)
(* and LeavesUnlessOvertaken                                               *)

IngestTypes ==
  /\ hand \in [Readers -> Msgs \cup {None}]
  /\ seen \subseteq Msgs /\ acked \subseteq Msgs
  /\ msgQueue \in Seq(Msgs)
  /\ enqueued \in [Msgs -> Nat] /\ forgotten \in [Msgs -> Nat]

\* A danmu that MsgIDSet knows or that was acknowledged has had its turn at msgQueue.
KnownIsPlaced == \A m \in acked \cup seen : enqueued[m] > 0 \/ m \in refused \/ InHand(m)

\* Each copy queued or on its way there was let through by MarkSeen, once per time it forgot.
Copies(m) == Cardinality({r \in Readers : hand[r] = m})
CopiesCounted ==
  \A m \in Msgs : enqueued[m] + Copies(m) <= forgotten[m] + (IF m \in seen THEN 1 ELSE 0)

IngestInv == IngestTypes /\ KnownIsPlaced /\ CopiesCounted

\* A worker leaves with the queue empty, in a server that is stopping.
LeavesDrained ==
  /\ pc \in [Pushers -> {"select", "number", "adopt", "attach", "append", "normal", "sendNormal",
                         "high", "sendHigh", "exited"}]
  /\ mode \in [Pushers -> {"serve", "drain", "leave"}]
  /\ \A w \in Workers :
       /\ mode[w] # "serve" => stopping
       /\ pc[w] = "exited" => mode[w] = "leave"
       /\ mode[w] = "leave" => ToSet(msgQueue) \subseteq late

ConnTypes ==
  /\ regQ \in Seq(Conns) /\ unregQ \in Seq(Conns) /\ live \subseteq Conns
  /\ room \in [Viewers -> 0..MaxConns] /\ conns \in [Viewers -> 0..MaxConns]

\* Every connection the hub holds or will hold runs, or is queued to leave, or was overtaken.
HeldIsTracked ==
  \A c \in Members \cup ToSet(regQ) : c \in live \/ c \in ToSet(unregQ) \/ c \in overtaken

\* Only connections that have ended are queued to leave, and a number is used once.
LeavesOnce ==
  /\ \A c \in live \cup ToSet(unregQ) : c[2] <= conns[c[1]]
  /\ live \cap ToSet(unregQ) = {}
  /\ admin = "idle" => victims = {}

ConnInv == ConnTypes /\ HeldIsTracked /\ LeavesOnce

Entry == [msg : Msgs \cup RemoteMsgs \cup {None}, seq : Nat]

Labels == {"select", "number", "adopt", "attach", "append", "normal", "sendNormal",
           "high", "sendHigh", "exited"}

BatchTypes ==
  /\ roomSeq \in Nat /\ batch \in [Pushers -> Seq(Entry)] /\ handle \in [Pushers -> Nat]
  /\ pc \in [Pushers -> Labels]

\* A batch b of a pusher at l is numbered from its first message on, all of it before it is kept.
InTurn(b, l) ==
  /\ l = "select" => \A i \in DOMAIN b : b[i].seq = 0
  /\ l = "number" => \E j \in DOMAIN b : \A i \in DOMAIN b : b[i].seq = 0 <=> j <= i
  /\ l \notin {"select", "number", "exited"} => \A i \in DOMAIN b : b[i].seq # 0
  /\ l = "adopt" => 1 \in DOMAIN b

NumberedInTurn == \A w \in Pushers : InTurn(batch[w], pc[w])

HistTypes ==
  /\ rings \in Seq(Rings(Entry)) /\ kept \in Seq(Seq(Entry)) /\ Len(kept) = Len(rings)
  /\ cur \in 0..Len(rings)
  /\ \A w \in Pushers : pc[w] = "append" => handle[w] \in DOMAIN rings

RingsSound == \A h \in DOMAIN rings : RingSound(rings[h], Entry)

RingInv == BatchTypes /\ NumberedInTurn /\ HistTypes /\ RingsSound /\ RingIsRecent

ViewTypes ==
  /\ after \in [Conns -> Nat] /\ view \in [Conns -> Nat]
  /\ replay \in [Conns -> {"asked", "found", "done", "ended"}]
  /\ DOMAIN sendCh = Conns /\ DOMAIN excused = Conns /\ DOMAIN targets = Pushers
  /\ completed \subseteq appended /\ appended \subseteq Entry

\* A connection that waits for its registration, or is not yet opened, has replayed nothing.
AskedFirst ==
  \A c \in Conns : (c \in live /\ c \in ToSet(regQ)) \/ c[2] > conns[c[1]] => replay[c] = "asked"

\* What is being broadcast is in a history.
BroadcastIsKept == OnTheWay \subseteq appended

\* The pusher has e ahead of it for the connection, if the room still holds it then.
WillSend(w, c, e) ==
  /\ e \in Entries(w)
  /\ \/ pc[w] = "normal"
     \/ pc[w] = "sendNormal" /\ (IsHigh(e) \/ c \in targets[w])
     \/ pc[w] = "high" /\ IsHigh(e)
     \/ pc[w] = "sendHigh" /\ IsHigh(e) /\ c \in targets[w]

Reached(c, e) == e \in sendCh[c] \/ \E w \in Pushers : WillSend(w, c, e)

\* Once it has replayed, a connection has or will get all that was ever kept and is not excused;
\* while it replays from a histRoom the map has given up, all that the new one holds.
NothingMissed ==
  \A c \in (live \ cancelled) \cap Members :
    /\ replay[c] = "done" => \A e \in appended \ excused[c] : Reached(c, e)
    /\ replay[c] = "found" /\ view[c] # cur /\ cur # 0 => \A e \in ToSet(kept[cur]) : Reached(c, e)

JoinInv == ViewTypes /\ AskedFirst /\ BroadcastIsKept /\ NothingMissed
=============================================================================
