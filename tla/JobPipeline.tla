----------------------------- MODULE JobPipeline -----------------------------
(***************************************************************************)
(* The broadcast path from logic to the comets: logic's OnMessage writes a *)
(* danmu to Kafka with an asynchronous, retrying writer; the job process   *)
(* reads records with ReadMessage (commit on read), collects them per room *)
(* for one flush window and pushes each room's batch to every comet of its *)
(* pool in parallel, waiting at most two seconds for each.                 *)
(*                                                                         *)
(* A record is its offset in the log; Kafka, gRPC and the pool's upkeep    *)
(* (module Discovery) are external.  The job process may be stopped,       *)
(* crash and be restarted.                                                 *)
(***************************************************************************)
EXTENDS Integers, Sequences, FiniteSets, Functions

CONSTANTS
  Msgs,       \* danmu handed to logic, each once
  Rooms,
  Comets,
  RoomOf,     \* [Msgs -> Rooms]: the record's key
  ChanCap,    \* capacity of msgCh (4096 in the code)
  MaxFaults,  \* bound on crashes, failed commits, produce retries and RPC errors together
  MaxStops,   \* bound on termination signals
  MaxPool     \* bound on changes of the pool

ASSUME PipelineAssumption ==
  /\ RoomOf \in [Msgs -> Rooms] /\ IsFiniteSet(Comets)
  /\ ChanCap \in Nat \ {0} /\ MaxFaults \in Nat /\ MaxStops \in Nat /\ MaxPool \in Nat

VARIABLES
  todo, log,        \* danmu not yet handed to logic; the topic's partition
  committed,        \* the group's offset, NoOffset before the first commit
  pos, hand,        \* the reader: its position and the record it holds
  msgCh, roomBatch,
  pc,               \* main loop: "select", "flush", "push", "drain", "stopped"; "down"
  room, waiting,    \* pushRoom: the room being pushed and the comets not answered yet
  ctxDone, draining,
  pool,             \* cometPool.clients
  rpcs,             \* PushRoom calls a comet has not executed, late ones included
  arrived,          \* per comet: the records broadcast there, in order
  faults, stops, changes,
  base, attempted, dropped, late, owed   \* history, see Properties

logicVars == <<todo, log>>
readVars == <<committed, pos, hand>>
loopVars == <<msgCh, roomBatch, pc, room, waiting, ctxDone, draining>>
netVars == <<pool, rpcs, arrived>>
bounds == <<faults, stops, changes>>
history == <<base, attempted, dropped, late, owed>>
vars == <<logicVars, readVars, loopVars, netVars, bounds, history>>

NoOffset == -1
Empty == 0          \* the reader holds nothing
Returned == -1      \* the reader goroutine has returned

NoBatch == [r \in Rooms |-> <<>>]
Batched == UNION {Range(roomBatch[r]) : r \in Rooms}
Running == pc \notin {"stopped", "down"}

Fault == faults < MaxFaults /\ faults' = faults + 1 /\ UNCHANGED <<stops, changes>>

Init ==
  /\ todo = Msgs /\ log = <<>>
  /\ committed = NoOffset /\ pos = 0 /\ hand = Empty
  /\ msgCh = <<>> /\ roomBatch = NoBatch /\ pc = "select"
  /\ room \in Rooms /\ waiting = {} /\ ctxDone = FALSE /\ draining = FALSE
  /\ pool = Comets /\ rpcs = {} /\ arrived = [k \in Comets |-> <<>>]
  /\ faults = 0 /\ stops = 0 /\ changes = 0
  /\ base = 0 /\ attempted = {} /\ dropped = {} /\ late = {} /\ owed = {}

-----------------------------------------------------------------------------
(* logic: OnMessage and the asynchronous writer *)

Produce(m) ==
  /\ m \in todo
  /\ todo' = todo \ {m}
  /\ log' = Append(log, m)
  /\ UNCHANGED <<readVars, loopVars, netVars, bounds, history>>

\* The answer to the first attempt is lost and the writer tries again.
ProduceRetried(m) ==
  /\ m \in todo
  /\ Fault
  /\ todo' = todo \ {m}
  /\ log' = log \o <<m, m>>
  /\ UNCHANGED <<readVars, loopVars, netVars, history>>

\* Every attempt fails: counted and dropped.
ProduceFails(m) ==
  /\ m \in todo
  /\ Fault
  /\ todo' = todo \ {m}
  /\ UNCHANGED <<log, readVars, loopVars, netVars, history>>

-----------------------------------------------------------------------------
(* The reader goroutine *)

\* Mutant: FetchMessage, with the commit left to a later read.
ReadUncommitted ==
  /\ Running
  /\ hand = Empty /\ pos < Len(log)
  /\ pos' = pos + 1 /\ committed' = pos /\ hand' = pos + 1
  /\ UNCHANGED <<logicVars, loopVars, netVars, bounds, history>>

\* ReadMessage: fetch, then commit synchronously.
ReadMessage ==
  /\ Running
  /\ hand = Empty /\ pos < Len(log)
  /\ pos' = pos + 1 /\ committed' = pos + 1 /\ hand' = pos + 1
  /\ UNCHANGED <<logicVars, loopVars, netVars, bounds, history>>

\* ReadMessage fails in the commit, which the broker may have applied: the
\* error path sleeps and reads the next record.
ReadCommitFails ==
  /\ Running
  /\ hand = Empty /\ pos < Len(log)
  /\ Fault
  /\ pos' = pos + 1
  /\ committed' \in {committed, pos + 1}
  /\ dropped' = dropped \cup {pos + 1}
  /\ UNCHANGED <<logicVars, hand, loopVars, netVars, base, attempted, late, owed>>

\* case msgCh <- m: blocks while the channel is full.
SendMsgCh ==
  /\ Running
  /\ hand > 0 /\ Len(msgCh) < ChanCap
  /\ msgCh' = Append(msgCh, hand)
  /\ hand' = Empty
  /\ UNCHANGED <<logicVars, committed, pos, roomBatch, pc, room, waiting, ctxDone, draining,
                 netVars, bounds, history>>

\* case <-ctx.Done(), or ReadMessage fails because ctx is cancelled.
ReaderReturns ==
  /\ Running
  /\ ctxDone /\ hand # Returned
  /\ hand' = Returned
  /\ dropped' = IF hand > 0 THEN dropped \cup {hand} ELSE dropped
  /\ UNCHANGED <<logicVars, committed, pos, loopVars, netVars, bounds,
                 base, attempted, late, owed>>

-----------------------------------------------------------------------------
(* The main loop *)

\* ingest: append the record to the batch of the room its key names.
Ingest ==
  /\ pc \in {"select", "drain"}
  /\ msgCh # <<>>
  /\ LET i == Head(msgCh)
     IN  roomBatch' = [roomBatch EXCEPT ![RoomOf[log[i]]] = Append(@, i)]
  /\ msgCh' = Tail(msgCh)
  /\ UNCHANGED <<logicVars, readVars, pc, room, waiting, ctxDone, draining,
                 netVars, bounds, history>>

\* case <-timer.C
FlushWindow ==
  /\ pc = "select"
  /\ roomBatch # NoBatch
  /\ pc' = "flush"
  /\ UNCHANGED <<logicVars, readVars, msgCh, roomBatch, room, waiting, ctxDone, draining,
                 netVars, bounds, history>>

\* case <-ctx.Done(): drain what is buffered, then flush and return.
SeeCtxDone ==
  /\ pc = "select" /\ ctxDone
  /\ pc' = "drain" /\ draining' = TRUE
  /\ owed' = Range(msgCh) \cup Batched
  /\ UNCHANGED <<logicVars, readVars, msgCh, roomBatch, room, waiting, ctxDone,
                 netVars, bounds, base, attempted, dropped, late>>

\* Mutant: stop on ctx.Done without draining the channel.
DrainNothing ==
  /\ pc = "drain"
  /\ pc' = "flush"
  /\ UNCHANGED <<logicVars, readVars, msgCh, roomBatch, room, waiting, ctxDone, draining,
                 netVars, bounds, history>>

Drained ==
  /\ pc = "drain"
  /\ msgCh = <<>>
  /\ pc' = "flush"
  /\ UNCHANGED <<logicVars, readVars, msgCh, roomBatch, room, waiting, ctxDone, draining,
                 netVars, bounds, history>>

\* pushRoom: one call per comet of the pool's snapshot; with no comet the
\* batch goes nowhere.
PushRoom(r) ==
  /\ pc = "flush"
  /\ roomBatch[r] # <<>>
  /\ room' = r /\ waiting' = pool
  /\ rpcs' = rpcs \cup {[comet |-> k, ids |-> roomBatch[r]] : k \in pool}
  /\ attempted' = attempted \cup Range(roomBatch[r])
  /\ pc' = "push"
  /\ UNCHANGED <<logicVars, readVars, msgCh, roomBatch, ctxDone, draining, pool, arrived,
                 bounds, base, dropped, late, owed>>

\* The call x of the push under way.
Current(x) == pc = "push" /\ x.comet \in waiting /\ x.ids = roomBatch[room]

\* The comet broadcasts the batch; the answer counts if somebody waits for it.
CometPushRoom(x) ==
  /\ x \in rpcs
  /\ rpcs' = rpcs \ {x}
  /\ arrived' = [arrived EXCEPT ![x.comet] = @ \o x.ids]
  /\ waiting' = IF Current(x) THEN waiting \ {x.comet} ELSE waiting
  /\ UNCHANGED <<logicVars, readVars, msgCh, roomBatch, pc, room, ctxDone, draining, pool,
                 bounds, history>>

\* The call fails before the comet has executed it.
PushError(x) ==
  /\ x \in rpcs /\ Current(x)
  /\ Fault
  /\ rpcs' = rpcs \ {x}
  /\ waiting' = waiting \ {x.comet}
  /\ UNCHANGED <<logicVars, readVars, msgCh, roomBatch, pc, room, ctxDone, draining, pool,
                 arrived, history>>

\* Mutant: the call has no deadline of its own.
PushNoTimeout(k) == FALSE /\ UNCHANGED vars

\* Two seconds have passed; the comet may still execute the call.
PushTimeout(k) ==
  /\ pc = "push"
  /\ k \in waiting
  /\ waiting' = waiting \ {k}
  /\ late' = late \cup {k}
  /\ UNCHANGED <<logicVars, readVars, msgCh, roomBatch, pc, room, ctxDone, draining, netVars,
                 bounds, base, attempted, dropped, owed>>

\* Mutant: pushRoom returns without wg.Wait.
PushNoWait ==
  /\ pc = "push"
  /\ roomBatch' = [roomBatch EXCEPT ![room] = <<>>]
  /\ pc' = "flush"
  /\ waiting' = {}
  /\ UNCHANGED <<logicVars, readVars, msgCh, room, ctxDone, draining, netVars, bounds, history>>

\* wg.Wait returns and flush deletes the batch.
PushDone ==
  /\ pc = "push"
  /\ waiting = {}
  /\ roomBatch' = [roomBatch EXCEPT ![room] = <<>>]
  /\ pc' = "flush"
  /\ UNCHANGED <<logicVars, readVars, msgCh, room, waiting, ctxDone, draining,
                 netVars, bounds, history>>

FlushDone ==
  /\ pc = "flush"
  /\ roomBatch = NoBatch
  /\ pc' = IF draining THEN "stopped" ELSE "select"
  /\ UNCHANGED <<logicVars, readVars, msgCh, roomBatch, room, waiting, ctxDone, draining,
                 netVars, bounds, history>>

-----------------------------------------------------------------------------
(* The pool and the process *)

\* cometPool.apply
Apply(S) ==
  /\ S # pool
  /\ changes < MaxPool /\ changes' = changes + 1
  /\ pool' = S
  /\ UNCHANGED <<logicVars, readVars, loopVars, rpcs, arrived, faults, stops, history>>

Signal ==
  /\ Running /\ ~ctxDone
  /\ stops < MaxStops /\ stops' = stops + 1
  /\ ctxDone' = TRUE
  /\ UNCHANGED <<logicVars, readVars, msgCh, roomBatch, pc, room, waiting, draining,
                 netVars, faults, changes, history>>

\* Calls on the wire outlive the process.
Crash ==
  /\ Running
  /\ Fault
  /\ pc' = "down"
  /\ late' = late \cup {x.comet : x \in rpcs}
  /\ UNCHANGED <<logicVars, readVars, msgCh, roomBatch, room, waiting, ctxDone, draining,
                 netVars, base, attempted, dropped, owed>>

\* A new process starts at the committed offset, or at the end of the log when
\* the group has none (StartOffset: LastOffset).
Restart ==
  /\ ~Running
  /\ pos' = IF committed = NoOffset THEN Len(log) ELSE committed
  /\ base' = pos' /\ hand' = Empty
  /\ msgCh' = <<>> /\ roomBatch' = NoBatch /\ pc' = "select" /\ waiting' = {}
  /\ ctxDone' = FALSE /\ draining' = FALSE /\ owed' = {}
  /\ UNCHANGED <<logicVars, committed, room, netVars, bounds, attempted, dropped, late>>

ReaderStep == ReadMessage \/ SendMsgCh \/ ReaderReturns
LoopStep ==
  \/ Ingest \/ FlushWindow \/ SeeCtxDone \/ Drained \/ PushDone \/ FlushDone
  \/ \E r \in Rooms : PushRoom(r)

Next ==
  \/ \E m \in Msgs : Produce(m) \/ ProduceRetried(m) \/ ProduceFails(m)
  \/ ReaderStep \/ ReadCommitFails \/ LoopStep
  \/ \E x \in rpcs : CometPushRoom(x) \/ PushError(x)
  \/ \E k \in Comets : PushTimeout(k)
  \/ \E S \in SUBSET Comets : Apply(S)
  \/ Signal \/ Crash \/ Restart

Spec == Init /\ [][Next]_vars

\* The two goroutines run, the timer fires although records keep coming, and
\* every call ends within its deadline.  No comet owes an answer.
Fairness ==
  /\ WF_vars(ReadMessage) /\ WF_vars(SendMsgCh)
  /\ WF_vars(Ingest) /\ SF_vars(FlushWindow)
  /\ WF_vars(SeeCtxDone \/ Drained \/ PushDone \/ FlushDone \/ \E r \in Rooms : PushRoom(r))
  /\ \A k \in Comets : WF_vars(PushTimeout(k))

FairSpec == Spec /\ Fairness

-----------------------------------------------------------------------------
(* Properties.  History: base is where this process started, attempted the *)
(* records some pushRoom has sent, dropped the ones the reader lost, late  *)
(* the comets with calls that outlived their caller, owed the records      *)
(* buffered when the loop saw ctx.Done.                                    *)

\* Every variable has its type and msgCh its bound.
TypeOK ==
  LET Ids == 1..Len(log)
  IN  /\ todo \in SUBSET Msgs /\ log \in Seq(Msgs)
      /\ committed \in {NoOffset} \cup Ids /\ pos \in 0..Len(log)
      /\ hand \in Ids \cup {Empty, Returned}
      /\ msgCh \in Seq(Ids) /\ Len(msgCh) <= ChanCap
      /\ roomBatch \in [Rooms -> Seq(Ids)]
      /\ pc \in {"select", "flush", "push", "drain", "stopped", "down"}
      /\ room \in Rooms /\ waiting \in SUBSET Comets
      /\ ctxDone \in BOOLEAN /\ draining \in BOOLEAN
      /\ pool \in SUBSET Comets
      /\ \A x \in rpcs : x.comet \in Comets /\ x.ids \in Seq(Ids)
      /\ arrived \in [Comets -> Seq(Ids)]

\* A record is broadcast at most once on each comet, through crashes, failed
\* commits, late calls and restarts: "danmu may be lost, but are never
\* duplicated" (job/main.go 191).
AtMostOnce ==
  \A k \in Comets : \A i, j \in DOMAIN arrived[k] : arrived[k][i] = arrived[k][j] => i = j

\* A running job loses only what ReadMessage failed to commit: every record it
\* has read is in its hands, pushed, or dropped by the reader (job/main.go 250-316).
NothingVanishes ==
  Running =>
    \A i \in (base + 1)..pos :
      i = hand \/ i \in Range(msgCh) \cup Batched \cup attempted \cup dropped

\* The job's account of its records: none is broadcast twice and none it has read is
\* lost in between (job/main.go 185-316).
OnceOrDropped == AtMostOnce /\ NothingVanishes

\* An orderly stop pushes everything the loop had buffered (job/main.go 298-309).
StopDrains == pc = "stopped" => owed \subseteq attempted

\* Within a room, a comet broadcasts records in log order unless one of its
\* calls outlived the two-second wait or the job process (job/main.go 113-146).
PushInOrder ==
  \A k \in Comets \ late : \A i, j \in DOMAIN arrived[k] :
    i < j /\ RoomOf[log[arrived[k][i]]] = RoomOf[log[arrived[k][j]]] =>
      arrived[k][i] < arrived[k][j]

\* A record that was read is pushed in the end even when comets never answer,
\* as long as the process runs: one bad comet does not hold up the pipeline
\* (job/main.go 111-112).
EventuallyPushed ==
  \A i \in 1..Cardinality(Msgs) :
    (Running /\ ~ctxDone /\ base < i /\ i <= pos) ~>
       (i \in attempted \cup dropped \/ ctxDone \/ ~Running)

-----------------------------------------------------------------------------
(* The inductive invariants behind OnceOrDropped, StopDrains and           *)
(* PushInOrder: a record passes hand, msgCh, roomBatch and rpcs in offset  *)
(* order and is never behind the committed offset of the next process.     *)

Ascending(s) == \A i, j \in DOMAIN s : i < j => s[i] < s[j]

PipelineTypes ==
  /\ TypeOK
  /\ rpcs \subseteq [comet : Comets, ids : Seq(1..Len(log))]
  /\ base \in 0..pos
  /\ attempted \subseteq 1..Len(log)

\* A record is committed before it is anywhere, so no later process reads it.
CommittedFirst ==
  /\ committed <= pos
  /\ hand <= committed \/ hand \in {Empty, Returned}
  /\ \A i \in Range(msgCh) \cup Batched \cup attempted : i <= committed

\* What is ahead in the pipeline has the lower offsets.
PathInOrder ==
  /\ Ascending(msgCh)
  /\ \A i \in Range(msgCh) \cup Batched \cup attempted : hand > 0 => i < hand
  /\ \A i \in Range(msgCh) : \A j \in Batched \cup attempted : j < i

\* The batch of a room holds the room's records, after those pushed before; the batch being pushed
\* is itself attempted.
BatchInOrder ==
  \A r \in Rooms :
    /\ Ascending(roomBatch[r])
    /\ \A i \in Range(roomBatch[r]) : RoomOf[log[i]] = r
    /\ IF pc = "push" /\ room = r
       THEN Range(roomBatch[r]) \subseteq attempted
       ELSE Running => \A a \in attempted : RoomOf[log[a]] = r =>
                         \A b \in Range(roomBatch[r]) : a < b

\* A comet gets each record in one call.
CallsOnce ==
  /\ \A k \in Comets : Range(arrived[k]) \subseteq attempted
  /\ \A x \in rpcs :
       /\ Range(x.ids) \subseteq attempted
       /\ Ascending(x.ids)
       /\ Range(x.ids) \cap Range(arrived[x.comet]) = {}
  /\ \A x, y \in rpcs : x # y /\ x.comet = y.comet => Range(x.ids) \cap Range(y.ids) = {}

\* A comet that answered every call in time has only the call under way, whose records come after
\* what it has broadcast of the room.
CallsCurrent ==
  \A x \in rpcs : x.comet \notin late =>
    /\ Current(x)
    /\ \A a \in Range(arrived[x.comet]) : RoomOf[log[a]] = room =>
         \A b \in Range(x.ids) : a < b

OnceInv ==
  PipelineTypes /\ CommittedFirst /\ PathInOrder /\ BatchInOrder /\ CallsOnce /\ AtMostOnce

\* The records owed at ctx.Done are still buffered or pushed.
OwedKept ==
  /\ pc = "drain" => draining
  /\ pc = "stopped" => owed \subseteq attempted
  /\ draining => /\ pc # "select"
                 /\ pc = "drain" => owed \subseteq Range(msgCh) \cup Batched \cup attempted
                 /\ pc \in {"flush", "push"} => owed \subseteq Batched \cup attempted
=============================================================================
