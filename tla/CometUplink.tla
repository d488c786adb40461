---------------------------- MODULE CometUplink ----------------------------
(***************************************************************************)
(* The comet gateway between its clients and the logic service: the        *)
(* bounded uplink queue and its workers, the call of OnMessage with its    *)
(* timeout (or the local broadcast of a comet that stands alone) and the   *)
(* fan-out of a room's messages over bounded send queues (comet/main.go,   *)
(* ReadPump and WritePump of core/client.go, PushChannel of connkernel.go).*)
(*                                                                         *)
(* One room; its members can leave. A message is its sender and a number.  *)
(* Behind OnMessage the topic is a sequence; the job pushes it in order,   *)
(* one PushRoom at a time (what the job may do wrong is JobPipeline's).    *)
(***************************************************************************)
EXTENDS Integers, Sequences, SequencesExt, FiniteSets

CONSTANTS
  Members, Workers, Job, NoMsg, RateLimited,
  UplinkCap, SendCap,   \* uplinkCh and sendCh
  MaxSends,             \* bound: messages
  MaxUplinkFaults       \* bound: refused calls, calls given up, rate-limited messages

\* A message: its sender and its number.
UplinkMsgs == [from : Members, n : Nat \ {0}]

ASSUME CometUplinkAssumption ==
  Job \notin Workers /\ IsFiniteSet(Members) /\ NoMsg \notin UplinkMsgs

VARIABLES
  standalone,
  sent,               \* per member: messages read from its connection
  uplinkCh, droppedUplink,
  worker,             \* per worker: the message it handles
  late,               \* messages whose call was given up while logic may still execute it
  topic, pushed,      \* messages accepted by logic, and how many the job took on
  fanout,             \* per pusher: message, connections still to try, sends dropped so far
  inRoom, sendCh, got,
  droppedOut,
  running,            \* the process's context
  faults,
  \* history
  lostUplink,         \* messages dropped by a full uplink queue
  raced,              \* pairs {k, m}: m was taken while k, of the same sender, was under way
  spread, missed      \* messages fanned out to the end, and per member the ones dropped

uplinkVars == <<standalone, sent, uplinkCh, droppedUplink, worker, late, topic, pushed, fanout, inRoom, sendCh, got,
                droppedOut, running, faults, lostUplink, raced, spread, missed>>

Pushers == Workers \cup {Job}
Idle == [msg |-> NoMsg, to |-> {}, dropped |-> 0, phase |-> "idle"]

UplinkInit ==
  /\ standalone \in BOOLEAN
  /\ sent = [c \in Members |-> 0]
  /\ uplinkCh = <<>> /\ droppedUplink = 0
  /\ worker = [w \in Workers |-> NoMsg] /\ late = {}
  /\ topic = <<>> /\ pushed = 0
  /\ fanout = [p \in Pushers |-> Idle]
  /\ inRoom = Members /\ sendCh = [c \in Members |-> <<>>] /\ got = [c \in Members |-> {}]
  /\ droppedOut = 0 /\ running = TRUE /\ faults = 0
  /\ lostUplink = {} /\ raced = {} /\ spread = {} /\ missed = [c \in Members |-> {}]

----------------------------------------------------------------------------
(* Upwards                                                                 *)

\* ReadPump and onUplink: a full queue drops the message and counts it.
OnUplink(c) ==
  /\ c \in inRoom /\ FoldFunction(+, 0, sent) < MaxSends
  /\ LET m == [from |-> c, n |-> sent[c] + 1]
     IN IF Len(uplinkCh) < UplinkCap
        THEN uplinkCh' = Append(uplinkCh, m) /\ UNCHANGED <<droppedUplink, lostUplink>>
        ELSE droppedUplink' = droppedUplink + 1 /\ lostUplink' = lostUplink \cup {m} /\ UNCHANGED uplinkCh
  /\ sent' = [sent EXCEPT ![c] = @ + 1]
  /\ UNCHANGED <<standalone, worker, late, topic, pushed, fanout, inRoom, sendCh, got, droppedOut, running, faults,
                 raced, spread, missed>>

TrySend(c, m) == sendCh' = IF Len(sendCh[c]) < SendCap THEN [sendCh EXCEPT ![c] = Append(@, m)] ELSE sendCh

\* A message over the limit is answered with a frame of its own, if there is room for it.
ReadPumpLimited(c) ==
  /\ c \in inRoom /\ faults < MaxUplinkFaults
  /\ TrySend(c, RateLimited)
  /\ faults' = faults + 1
  /\ UNCHANGED <<standalone, sent, uplinkCh, droppedUplink, worker, late, topic, pushed, fanout, inRoom, got,
                 droppedOut, running, lostUplink, raced, spread, missed>>

\* The messages with a worker, and those of the calls it gave up.
UnderWay == late \cup {worker[w] : w \in {v \in Workers : worker[v] # NoMsg}}

\* uplinkWorker receives from the queue; its other case is the end of the context.
TakeUplink(w) ==
  /\ running /\ worker[w] = NoMsg /\ uplinkCh # <<>>
  /\ worker' = [worker EXCEPT ![w] = Head(uplinkCh)]
  /\ uplinkCh' = Tail(uplinkCh)
  /\ raced' = raced \cup {{k, Head(uplinkCh)} : k \in {l \in UnderWay : l.from = Head(uplinkCh).from}}
  /\ UNCHANGED <<standalone, sent, droppedUplink, late, topic, pushed, fanout, inRoom, sendCh, got, droppedOut,
                 running, faults, lostUplink, spread, missed>>

Quiet == UNCHANGED <<standalone, sent, uplinkCh, droppedUplink, inRoom, got, running, lostUplink, raced>>

\* Mutant: a call that timed out is made again.
OnMessageRetries(w) ==
  /\ ~standalone /\ worker[w] # NoMsg /\ Len(topic) < 2 * MaxSends
  /\ topic' = Append(topic, worker[w])
  /\ worker' \in {worker, [worker EXCEPT ![w] = NoMsg]}
  /\ UNCHANGED <<pushed, fanout, sendCh, droppedOut, faults, spread, missed, late>> /\ Quiet

\* handleUplink: OnMessage accepts the message, before the worker goes on; an answer that is an error
\* all the same is logged, and the call is never repeated.
OnMessage(w) ==
  /\ ~standalone /\ worker[w] # NoMsg
  /\ topic' = Append(topic, worker[w])
  /\ worker' = [worker EXCEPT ![w] = NoMsg]
  /\ UNCHANGED <<pushed, fanout, sendCh, droppedOut, faults, spread, missed, late>> /\ Quiet

\* No logic instance, or an error: the message is dropped.
OnMessageFails(w) ==
  /\ ~standalone /\ worker[w] # NoMsg /\ faults < MaxUplinkFaults
  /\ worker' = [worker EXCEPT ![w] = NoMsg]
  /\ faults' = faults + 1
  /\ UNCHANGED <<topic, pushed, fanout, sendCh, droppedOut, spread, missed, late>> /\ Quiet

\* The call is given up, after three seconds or because the connection broke, while logic has not
\* handed the message to its writer: the worker goes on to the next one.
OnMessageTimeout(w) ==
  /\ ~standalone /\ worker[w] # NoMsg /\ faults < MaxUplinkFaults
  /\ worker' = [worker EXCEPT ![w] = NoMsg]
  /\ late' = late \cup {worker[w]}
  /\ faults' = faults + 1
  /\ UNCHANGED <<topic, pushed, fanout, sendCh, droppedOut, spread, missed>> /\ Quiet

\* OnMessage of the logic service does not look at the caller's deadline: it may still publish.
OnMessageLate(m) ==
  /\ m \in late
  /\ topic' = Append(topic, m)
  /\ late' = late \ {m}
  /\ UNCHANGED <<worker, pushed, fanout, sendCh, droppedOut, faults, spread, missed>> /\ Quiet

\* localBroadcast; its message id is the place in topic.
LocalBroadcast(w) ==
  /\ standalone /\ worker[w] # NoMsg /\ fanout[w].phase = "idle"
  /\ topic' = Append(topic, worker[w])
  /\ fanout' = [fanout EXCEPT ![w] = [Idle EXCEPT !.msg = worker[w], !.phase = "begin"]]
  /\ UNCHANGED <<worker, pushed, sendCh, droppedOut, faults, spread, missed, late>> /\ Quiet

----------------------------------------------------------------------------
(* Downwards                                                               *)

PushRoom ==
  /\ ~standalone /\ fanout[Job].phase = "idle" /\ pushed < Len(topic)
  /\ fanout' = [fanout EXCEPT ![Job] = [Idle EXCEPT !.msg = topic[pushed + 1], !.phase = "begin"]]
  /\ pushed' = pushed + 1
  /\ UNCHANGED <<topic, worker, sendCh, droppedOut, faults, spread, missed, late>> /\ Quiet

\* The copy of the channel's subscribers, taken under the shard's lock.
GetSubscribers(p) ==
  /\ fanout[p].phase = "begin"
  /\ fanout' = [fanout EXCEPT ![p].to = inRoom, ![p].phase = "send"]
  /\ UNCHANGED <<topic, pushed, worker, sendCh, droppedOut, faults, spread, missed, late>> /\ Quiet

PushSend(p, c) ==
  /\ fanout[p].phase = "send" /\ c \in fanout[p].to
  /\ TrySend(c, fanout[p].msg)
  /\ IF Len(sendCh[c]) < SendCap
     THEN fanout' = [fanout EXCEPT ![p].to = @ \ {c}] /\ UNCHANGED missed
     ELSE /\ fanout' = [fanout EXCEPT ![p].to = @ \ {c}, ![p].dropped = @ + 1]
          /\ missed' = [missed EXCEPT ![c] = @ \cup {fanout[p].msg}]
  /\ UNCHANGED <<topic, pushed, worker, droppedOut, faults, spread, late>> /\ Quiet

\* The count of drops, and for a worker the end of handleUplink.
PushDone(p) ==
  /\ fanout[p].phase = "send" /\ fanout[p].to = {}
  /\ droppedOut' = droppedOut + fanout[p].dropped
  /\ spread' = spread \cup {fanout[p].msg}
  /\ fanout' = [fanout EXCEPT ![p] = Idle]
  /\ worker' = [w \in Workers |-> IF w = p THEN NoMsg ELSE worker[w]]
  /\ UNCHANGED <<topic, pushed, sendCh, faults, missed, late>> /\ Quiet

WritePump(c) ==
  /\ c \in inRoom /\ sendCh[c] # <<>>
  /\ got' = [got EXCEPT ![c] = @ \cup {Head(sendCh[c])}]
  /\ sendCh' = [sendCh EXCEPT ![c] = Tail(@)]
  /\ UNCHANGED <<standalone, sent, uplinkCh, droppedUplink, worker, late, topic, pushed, fanout, inRoom, droppedOut,
                 running, faults, lostUplink, raced, spread, missed>>

\* RemoveClient: the send queue stays, and a fan-out that copied the subscribers still fills it.
Leave(c) ==
  /\ c \in inRoom /\ inRoom' = inRoom \ {c}
  /\ UNCHANGED <<standalone, sent, uplinkCh, droppedUplink, worker, late, topic, pushed, fanout, sendCh, got,
                 droppedOut, running, faults, lostUplink, raced, spread, missed>>

\* The context ends: workers finish the message at hand and leave the queue as it is.
CometStop ==
  /\ running /\ running' = FALSE
  /\ UNCHANGED <<standalone, sent, uplinkCh, droppedUplink, worker, late, topic, pushed, fanout, inRoom, sendCh, got,
                 droppedOut, faults, lostUplink, raced, spread, missed>>

UplinkNext ==
  \/ CometStop \/ PushRoom
  \/ \E c \in Members : OnUplink(c) \/ ReadPumpLimited(c) \/ WritePump(c) \/ Leave(c)
  \/ \E w \in Workers :
       TakeUplink(w) \/ OnMessage(w) \/ OnMessageFails(w) \/ OnMessageTimeout(w) \/ LocalBroadcast(w)
  \/ \E m \in late : OnMessageLate(m)
  \/ \E p \in Pushers : GetSubscribers(p) \/ PushDone(p) \/ \E c \in Members : PushSend(p, c)

----------------------------------------------------------------------------
(* Properties                                                              *)

\* PublishedOnceInOrder: no message is published twice, none that the full queue dropped is published,
\* and of two messages of one member the later one is published first only if it was taken from the
\* queue while the earlier one was with another worker or in a call that had been given up and that
\* logic executed afterwards (onUplink, uplinkWorker, handleUplink, OnMessage).
PublishedOnceInOrder ==
  /\ \A m \in ToSet(topic) : m \notin lostUplink
  /\ \A i, j \in DOMAIN topic : i < j /\ topic[i].from = topic[j].from =>
       \/ topic[i].n < topic[j].n
       \/ topic[i] # topic[j] /\ {topic[i], topic[j]} \in raced

\* FanoutAccounted: a message that has been fanned out has reached the queue of every member that was
\* in the room all the time, or its drop is counted, and then only for a member whose queue was full;
\* the metric of drops is exact (GetSubscribers, PushChannel, PushRoom).
FanoutAccounted ==
  /\ \A m \in spread, c \in inRoom : m \in got[c] \cup ToSet(sendCh[c]) \cup missed[c]
  /\ (\A p \in Pushers : fanout[p].phase = "idle") =>
       droppedOut = Cardinality({x \in Members \X ToSet(topic) : x[2] \in missed[x[1]]})

\* UplinkAccounted: a danmu's way through one comet, up to logic and back out to the members, neither
\* doubles it nor loses it uncounted (onUplink, handleUplink, PushRoom, PushChannel).
UplinkAccounted == PublishedOnceInOrder /\ FanoutAccounted

----------------------------------------------------------------------------
(* The inductive invariant behind UplinkAccounted                          *)

UplinkTypes ==
  /\ standalone \in BOOLEAN
  /\ sent \in [Members -> Nat]
  /\ uplinkCh \in Seq(UplinkMsgs) /\ topic \in Seq(UplinkMsgs) /\ pushed \in 0..Len(topic)
  /\ worker \in [Workers -> UplinkMsgs \cup {NoMsg}] /\ late \subseteq UplinkMsgs
  /\ fanout \in [Pushers -> [msg : UplinkMsgs \cup {NoMsg}, to : SUBSET Members, dropped : Nat,
                              phase : {"idle", "begin", "send"}]]
  /\ inRoom \subseteq Members /\ sendCh \in [Members -> Seq(UplinkMsgs \cup {RateLimited})]
  /\ DOMAIN got = Members /\ DOMAIN missed = Members
  /\ IsFiniteSet(spread) /\ lostUplink \subseteq UplinkMsgs

\* Workers with a message that is not published yet.
Unpublished == {w \in Workers : worker[w] # NoMsg /\ fanout[w].phase = "idle"}

\* m was published before k is, or was under way together with it.
Precedes(m, k) == m.from = k.from => m.n < k.n \/ (m # k /\ {m, k} \in raced)

\* Different messages, and if they are of one sender they were under way together.
Apart(m, k) == m # k /\ (m.from = k.from => {m, k} \in raced)

\* Queue, workers and topic hold each member's messages in the order of their numbers, newest first,
\* but for the pairs that were under way together.
UplinkPath ==
  /\ \A i, j \in DOMAIN uplinkCh :
       i < j /\ uplinkCh[i].from = uplinkCh[j].from => uplinkCh[i].n < uplinkCh[j].n
  /\ \A m \in ToSet(uplinkCh), k \in UnderWay \cup ToSet(topic) : k.from = m.from => k.n < m.n
  /\ \A v, w \in Workers : v # w /\ worker[v] # NoMsg /\ worker[w] # NoMsg => Apart(worker[v], worker[w])
  /\ \A w \in Workers, k \in late : worker[w] # NoMsg => Apart(worker[w], k)
  /\ \A k, l \in late : k # l => Apart(k, l)
  /\ \A t \in ToSet(topic), w \in Unpublished : Precedes(t, worker[w])
  /\ \A t \in ToSet(topic), k \in late : Precedes(t, k)
  /\ \A i, j \in DOMAIN topic : i < j => Precedes(topic[i], topic[j])

\* Messages that are queued, under way or published.
OnItsWay == ToSet(uplinkCh) \cup ToSet(topic) \cup UnderWay

\* A dropped message is nowhere else, and no message has a number that is still to come.
DropsStayDropped ==
  /\ lostUplink \cap OnItsWay = {}
  /\ \A m \in lostUplink \cup OnItsWay : m.n <= sent[m.from]

Active == {p \in Pushers : fanout[p].phase # "idle"}

\* A message is fanned out once: by the worker that published it, or by the job in the topic's order.
FanoutOnce ==
  /\ \A w \in Workers \cap Active : standalone /\ worker[w] # NoMsg /\ fanout[w].msg = worker[w]
  /\ Job \in Active => ~standalone /\ pushed > 0 /\ fanout[Job].msg = topic[pushed]
  /\ \A p \in Active : fanout[p].msg \in ToSet(topic) \ spread
  /\ spread \subseteq ToSet(topic)
  /\ ~standalone => \A m \in spread : \E i \in 1..pushed : m = topic[i]

\* What a fan-out under way has reached, and what it and the ones before it dropped.
FanoutReach ==
  /\ \A p \in Active : \A c \in inRoom :
       fanout[p].phase = "send" =>
         c \in fanout[p].to \/ fanout[p].msg \in got[c] \cup ToSet(sendCh[c]) \cup missed[c]
  /\ \A m \in spread, c \in inRoom : m \in got[c] \cup ToSet(sendCh[c]) \cup missed[c]

Missers(m) == {c \in Members : m \in missed[c]}

DropsCounted ==
  /\ \A c \in Members : missed[c] \subseteq spread \cup {fanout[p].msg : p \in Active}
  /\ \A p \in Active :
       /\ Cardinality(Missers(fanout[p].msg)) = fanout[p].dropped
       /\ fanout[p].phase = "begin" => Missers(fanout[p].msg) = {}
       /\ fanout[p].to \cap Missers(fanout[p].msg) = {}
  /\ droppedOut = Cardinality({x \in Members \X spread : x[2] \in missed[x[1]]})

UplinkInv == UplinkTypes /\ UplinkPath /\ DropsStayDropped /\ FanoutOnce /\ FanoutReach /\ DropsCounted
=============================================================================
