--------------------------- MODULE MonoRoomProofs ---------------------------
(***************************************************************************)
(* Proofs about a room of the monolith: idempotence and acknowledgements   *)
(* of the ingest path, the drain of the workers at a shutdown, which       *)
(* connections the hub holds, what the history ring holds, and what a      *)
(* viewer that joins, leaves and reconnects is offered; for any number of  *)
(* senders, workers, viewers, danmu and calls of CloseRoom and KickClient, *)
(* and any ring size.                                                      *)
(***************************************************************************)
EXTENDS MonoRoom, DataLemmas, FiniteSetTheorems, TLAPS

-----------------------------------------------------------------------------
(* Ingest *)

\* The steps that touch the ingest path.
LEMMA IngestSteps ==
  ASSUME [Next]_vars
  PROVE  \/ \E r \in Readers : (\E m \in Msgs : MarkSeen(r, m)) \/ Enqueue(r) \/ QueueFull(r)
         \/ \E m \in Msgs : Expire(m)
         \/ \E w \in Workers : Receive(w)
         \/ CloseRoomIdem
         \/ UNCHANGED ingestVars
<1>1. ASSUME NEW w \in Workers, FlushTimer(w) \/ SeeCtxDone(w) \/ Drained(w) PROVE UNCHANGED ingestVars
  BY <1>1 DEF FlushTimer, SeeCtxDone, Drained
<1>2. ASSUME NEW w \in Pushers, FlushStep(w) PROVE UNCHANGED ingestVars
  BY <1>2 DEF FlushStep, Number, GetOrCreate, AppendBatch, SnapshotRoom, SendTo
<1>3. ASSUME NEW m \in RemoteMsgs, NEW s \in RemoteSeqs, HandleIncoming(m, s) PROVE UNCHANGED ingestVars
  BY <1>3 DEF HandleIncoming
<1>4. ASSUME AdoptRoomSeq \/ Sweep PROVE UNCHANGED ingestVars
  BY <1>4 DEF AdoptRoomSeq, Sweep
<1>5. ASSUME NEW h \in DOMAIN rings, TTLPasses(h) PROVE UNCHANGED ingestVars
  BY <1>5 DEF TTLPasses
<1>6. ASSUME NEW v \in Viewers, NEW s \in AfterSeqs, Connect(v, s) PROVE UNCHANGED ingestVars
  BY <1>6 DEF Connect
<1>7. ASSUME NEW c \in Conns, Exit(c) \/ ReplayLookup(c) \/ ReplayFrom(c) PROVE UNCHANGED ingestVars
  BY <1>7 DEF Exit, ReplayLookup, ReplayFrom
<1>8. ASSUME AddClient \/ RemoveClient \/ CloseRoom \/ CloseRoomSeqs \/ CloseRoomHist \/ CloseVictims \/ Shutdown
      PROVE  UNCHANGED ingestVars
  BY <1>8 DEF AddClient, RemoveClient, CloseRoom, CloseRoomSeqs, CloseRoomHist, CloseVictims, Shutdown
<1>9. ASSUME NEW v \in Viewers, KickClient(v) PROVE UNCHANGED ingestVars
  BY <1>9 DEF KickClient
<1>10. ASSUME UNCHANGED vars PROVE UNCHANGED ingestVars
  BY <1>10 DEF vars
<1> QED BY <1>1, <1>2, <1>3, <1>4, <1>5, <1>6, <1>7, <1>8, <1>9, <1>10 DEF Next, WorkerStep

\* The number of copies of a danmu in the readers' hands.
LEMMA CopiesNat ==
  ASSUME NEW f \in [Readers -> Msgs \cup {None}], NEW m \in Msgs
  PROVE  IsFiniteSet({r \in Readers : f[r] = m}) /\ Cardinality({r \in Readers : f[r] = m}) \in Nat
<1>1. {r \in Readers : f[r] = m} \in SUBSET Readers
  OBVIOUS
<1>2. IsFiniteSet({r \in Readers : f[r] = m})
  BY <1>1, FS_Subset, RoomAssumption
<1> QED BY <1>2, FS_CardinalityType

\* A reader takes a danmu it did not hold.
LEMMA CopiesTaken ==
  ASSUME NEW f \in [Readers -> Msgs \cup {None}], NEW q \in Readers, f[q] = None, NEW n \in Msgs, NEW m \in Msgs
  PROVE  Cardinality({r \in Readers : [f EXCEPT ![q] = n][r] = m})
           = Cardinality({r \in Readers : f[r] = m}) + (IF m = n THEN 1 ELSE 0)
<1> DEFINE A == {r \in Readers : f[r] = m}
           B == {r \in Readers : [f EXCEPT ![q] = n][r] = m}
<1>1. IsFiniteSet(A) /\ Cardinality(A) \in Nat
  BY CopiesNat
<1>2. q \notin A
  BY RoomAssumption
<1>3. CASE m = n
  <2>1. B = A \cup {q}
    BY <1>3
  <2>2. Cardinality(A \cup {q}) = Cardinality(A) + 1
    BY <1>1, <1>2, FS_AddElement
  <2> QED BY <1>3, <2>1, <2>2
<1>4. CASE m # n
  <2>1. B = A
    BY <1>2, <1>4
  <2> QED BY <1>1, <1>4, <2>1
<1> QED BY <1>3, <1>4

\* A reader lets a danmu go.
LEMMA CopiesLeft ==
  ASSUME NEW f \in [Readers -> Msgs \cup {None}], NEW q \in Readers, NEW m \in Msgs
  PROVE  Cardinality({r \in Readers : [f EXCEPT ![q] = None][r] = m})
           = Cardinality({r \in Readers : f[r] = m}) - (IF f[q] = m THEN 1 ELSE 0)
<1> DEFINE A == {r \in Readers : f[r] = m}
           B == {r \in Readers : [f EXCEPT ![q] = None][r] = m}
<1>1. IsFiniteSet(A) /\ Cardinality(A) \in Nat
  BY CopiesNat
<1>2. B = A \ {q}
  BY RoomAssumption
<1>3. Cardinality(A \ {q}) = IF q \in A THEN Cardinality(A) - 1 ELSE Cardinality(A)
  BY <1>1, FS_RemoveElement
<1>4. q \in A <=> f[q] = m
  OBVIOUS
<1> HIDE DEF A, B
<1>5. Cardinality(B) = Cardinality(A) - (IF f[q] = m THEN 1 ELSE 0)
  BY <1>1, <1>2, <1>3, <1>4
<1> QED BY <1>5 DEF A, B

\* The ingest path keeps its types.
LEMMA IngestTypesStep ==
  ASSUME IngestTypes, [Next]_vars
  PROVE  IngestTypes'
<1>1. ASSUME NEW r \in Readers, NEW m \in Msgs, MarkSeen(r, m) PROVE IngestTypes'
  BY <1>1 DEF MarkSeen, SeenAfter, IngestTypes
<1>2. ASSUME NEW r \in Readers, Enqueue(r) PROVE IngestTypes'
  <2>1. hand[r] \in Msgs /\ msgQueue \in Seq(Msgs)
    BY <1>2 DEF Enqueue, IngestTypes
  <2>2. msgQueue' \in Seq(Msgs)
    BY <1>2, <2>1, AppendToSet DEF Enqueue
  <2> QED BY <1>2, <2>1, <2>2 DEF Enqueue, IngestTypes
<1>3. ASSUME NEW r \in Readers, QueueFull(r) PROVE IngestTypes'
  BY <1>3 DEF QueueFull, IngestTypes
<1>4. ASSUME NEW m \in Msgs, Expire(m) PROVE IngestTypes'
  BY <1>4 DEF Expire, Forget, IngestTypes
<1>5. ASSUME NEW w \in Workers, Receive(w) PROVE IngestTypes'
  <2>1. msgQueue' \in Seq(Msgs)
    BY <1>5, TailToSet DEF Receive, IngestTypes
  <2> QED BY <1>5, <2>1 DEF Receive, IngestTypes
<1>6. CASE CloseRoomIdem
  BY <1>6 DEF CloseRoomIdem, Forget, IngestTypes
<1>7. CASE UNCHANGED ingestVars
  BY <1>7 DEF ingestVars, IngestTypes
<1> QED BY <1>1, <1>2, <1>3, <1>4, <1>5, <1>6, <1>7, IngestSteps

\* What is known has had its turn at the queue.
LEMMA KnownIsPlacedStep ==
  ASSUME IngestTypes, KnownIsPlaced, [Next]_vars
  PROVE  KnownIsPlaced'
<1>1. ASSUME NEW r \in Readers, NEW m \in Msgs, MarkSeen(r, m) PROVE KnownIsPlaced'
  <2>1. hand[r] = None /\ UNCHANGED <<enqueued, refused>>
    BY <1>1 DEF MarkSeen
  <2>2. CASE m \in seen
    BY <1>1, <2>1, <2>2 DEF MarkSeen, KnownIsPlaced, InHand
  <2>3. CASE m \notin seen
    <3>1. hand' = [hand EXCEPT ![r] = m] /\ seen' = seen \cup {m} /\ acked' = acked
      BY <1>1, <2>3 DEF MarkSeen, SeenAfter
    <3>2. hand'[r] = m /\ \A q \in Readers \ {r} : hand'[q] = hand[q]
      BY <3>1 DEF IngestTypes
    <3>3. \A n \in Msgs : InHand(n) => InHand(n)'
      BY <2>1, <3>2, RoomAssumption DEF InHand
    <3>4. InHand(m)'
      BY <3>2 DEF InHand
    <3>5. acked \cup seen \subseteq Msgs
      BY DEF IngestTypes
    <3> QED BY <2>1, <3>1, <3>3, <3>4, <3>5 DEF KnownIsPlaced
  <2> QED BY <2>2, <2>3
<1>2. ASSUME NEW r \in Readers, Enqueue(r) PROVE KnownIsPlaced'
  <2>1. hand[r] \in Msgs /\ enqueued[hand[r]] \in Nat
    BY <1>2 DEF Enqueue, IngestTypes
  <2>2. /\ enqueued' = [enqueued EXCEPT ![hand[r]] = @ + 1] /\ hand' = [hand EXCEPT ![r] = None]
        /\ acked' = acked \cup {hand[r]} /\ UNCHANGED <<seen, refused>>
    BY <1>2 DEF Enqueue
  <2>3. enqueued'[hand[r]] > 0 /\ \A n \in Msgs : enqueued[n] > 0 => enqueued'[n] > 0
    BY <2>1, <2>2 DEF IngestTypes
  <2>4. \A n \in Msgs : InHand(n) => InHand(n)' \/ n = hand[r]
    BY <2>2 DEF InHand, IngestTypes
  <2>5. acked \cup seen \subseteq Msgs
    BY DEF IngestTypes
  <2> QED BY <2>1, <2>2, <2>3, <2>4, <2>5 DEF KnownIsPlaced
<1>3. ASSUME NEW r \in Readers, QueueFull(r) PROVE KnownIsPlaced'
  <2>1. /\ hand' = [hand EXCEPT ![r] = None] /\ refused' = refused \cup {hand[r]}
        /\ UNCHANGED <<seen, acked, enqueued>>
    BY <1>3 DEF QueueFull
  <2>2. \A n \in Msgs : InHand(n) => InHand(n)' \/ n = hand[r]
    BY <2>1 DEF InHand, IngestTypes
  <2>3. acked \cup seen \subseteq Msgs
    BY DEF IngestTypes
  <2> QED BY <2>1, <2>2, <2>3 DEF KnownIsPlaced
<1>4. ASSUME NEW m \in Msgs, Expire(m) PROVE KnownIsPlaced'
  BY <1>4 DEF Expire, Forget, KnownIsPlaced, InHand
<1>5. ASSUME NEW w \in Workers, Receive(w) PROVE KnownIsPlaced'
  BY <1>5 DEF Receive, KnownIsPlaced, InHand
<1>6. CASE CloseRoomIdem
  BY <1>6 DEF CloseRoomIdem, Forget, KnownIsPlaced, InHand
<1>7. CASE UNCHANGED ingestVars
  BY <1>7 DEF ingestVars, KnownIsPlaced, InHand
<1> QED BY <1>1, <1>2, <1>3, <1>4, <1>5, <1>6, <1>7, IngestSteps

\* Copies stay counted.
LEMMA CopiesCountedStep ==
  ASSUME IngestTypes, CopiesCounted, [Next]_vars
  PROVE  CopiesCounted'
<1>0. /\ hand \in [Readers -> Msgs \cup {None}]
      /\ \A m \in Msgs : enqueued[m] \in Nat /\ forgotten[m] \in Nat /\ Copies(m) \in Nat
  BY CopiesNat DEF IngestTypes, Copies
<1>1. ASSUME NEW r \in Readers, NEW m \in Msgs, MarkSeen(r, m) PROVE CopiesCounted'
  <2>1. hand[r] = None /\ UNCHANGED <<enqueued, forgotten>>
    BY <1>1 DEF MarkSeen
  <2>2. CASE m \in seen
    <3>1. UNCHANGED <<seen, hand>>
      BY <1>1, <2>2 DEF MarkSeen
    <3> QED BY <2>1, <3>1 DEF CopiesCounted, Copies
  <2>3. CASE m \notin seen
    <3>1. hand' = [hand EXCEPT ![r] = m] /\ seen' = seen \cup {m}
      BY <1>1, <2>3 DEF MarkSeen, SeenAfter
    <3>2. \A n \in Msgs : Copies(n)' = Copies(n) + (IF n = m THEN 1 ELSE 0)
      BY <1>0, <2>1, <3>1, CopiesTaken DEF Copies
    <3> SUFFICES ASSUME NEW n \in Msgs
                 PROVE  enqueued[n] + Copies(n)' <= forgotten[n] + (IF n \in seen' THEN 1 ELSE 0)
      BY <2>1 DEF CopiesCounted
    <3>3. enqueued[n] + Copies(n) <= forgotten[n] + (IF n \in seen THEN 1 ELSE 0)
      BY DEF CopiesCounted
    <3>4. CASE n = m
      BY <1>0, <2>3, <3>1, <3>2, <3>3, <3>4
    <3>5. CASE n # m
      BY <1>0, <3>1, <3>2, <3>3, <3>5
    <3> QED BY <3>4, <3>5
  <2> QED BY <2>2, <2>3
<1>2. ASSUME NEW r \in Readers, Enqueue(r) PROVE CopiesCounted'
  <2>1. hand[r] \in Msgs
    BY <1>2 DEF Enqueue, IngestTypes
  <2>2. /\ enqueued' = [enqueued EXCEPT ![hand[r]] = @ + 1] /\ hand' = [hand EXCEPT ![r] = None]
        /\ UNCHANGED <<seen, forgotten>>
    BY <1>2 DEF Enqueue
  <2>3. \A n \in Msgs : Copies(n)' = Copies(n) - (IF hand[r] = n THEN 1 ELSE 0)
    BY <1>0, <2>2, CopiesLeft DEF Copies
  <2>4. \A n \in Msgs : enqueued'[n] = enqueued[n] + (IF hand[r] = n THEN 1 ELSE 0)
    BY <1>0, <2>1, <2>2 DEF IngestTypes
  <2> SUFFICES ASSUME NEW n \in Msgs
               PROVE  enqueued'[n] + Copies(n)' <= forgotten[n] + (IF n \in seen THEN 1 ELSE 0)
    BY <2>2 DEF CopiesCounted
  <2>5. enqueued[n] + Copies(n) <= forgotten[n] + (IF n \in seen THEN 1 ELSE 0)
    BY DEF CopiesCounted
  <2> QED BY <1>0, <2>3, <2>4, <2>5
<1>3. ASSUME NEW r \in Readers, QueueFull(r) PROVE CopiesCounted'
  <2>1. hand' = [hand EXCEPT ![r] = None] /\ UNCHANGED <<enqueued, seen, forgotten>>
    BY <1>3 DEF QueueFull
  <2>2. \A n \in Msgs : Copies(n)' = Copies(n) - (IF hand[r] = n THEN 1 ELSE 0)
    BY <1>0, <2>1, CopiesLeft DEF Copies
  <2> SUFFICES ASSUME NEW n \in Msgs
               PROVE  enqueued[n] + Copies(n)' <= forgotten[n] + (IF n \in seen THEN 1 ELSE 0)
    BY <2>1 DEF CopiesCounted
  <2>3. enqueued[n] + Copies(n) <= forgotten[n] + (IF n \in seen THEN 1 ELSE 0)
    BY DEF CopiesCounted
  <2> QED BY <1>0, <2>2, <2>3
<1>4. ASSUME NEW S, Forget(S), UNCHANGED <<hand, enqueued>> PROVE CopiesCounted'
  <2> SUFFICES ASSUME NEW n \in Msgs
               PROVE  enqueued[n] + Copies(n) <= forgotten'[n] + (IF n \in seen' THEN 1 ELSE 0)
    BY <1>4 DEF CopiesCounted, Copies
  <2>1. enqueued[n] + Copies(n) <= forgotten[n] + (IF n \in seen THEN 1 ELSE 0)
    BY DEF CopiesCounted
  <2>2. seen' = seen \ S /\ forgotten'[n] = IF n \in S \cap seen THEN forgotten[n] + 1 ELSE forgotten[n]
    BY <1>4 DEF Forget
  <2> QED BY <1>0, <2>1, <2>2
<1>5. ASSUME NEW m \in Msgs, Expire(m) PROVE CopiesCounted'
  BY <1>4, <1>5 DEF Expire
<1>6. CASE CloseRoomIdem
  BY <1>4, <1>6 DEF CloseRoomIdem
<1>7. ASSUME NEW w \in Workers, Receive(w) PROVE CopiesCounted'
  BY <1>7 DEF Receive, CopiesCounted, Copies
<1>8. CASE UNCHANGED ingestVars
  BY <1>8 DEF ingestVars, CopiesCounted, Copies
<1> QED BY <1>1, <1>2, <1>3, <1>5, <1>6, <1>7, <1>8, IngestSteps

\* A msg_id that was acknowledged has been queued unless a copy was refused or is on its way, and it is
\* queued once plus once per time MsgIDSet forgot it; for any number of senders, retries and expiries
\* (monolith/server client.go 154-190, msgidset.go).
THEOREM AckedOnceHolds == Spec => []AckedOnce
<1>1. Init => IngestInv
  <2> SUFFICES ASSUME Init PROVE IngestInv
    OBVIOUS
  <2>1. IngestTypes
    BY DEF Init, IngestTypes
  <2>2. KnownIsPlaced
    BY DEF Init, KnownIsPlaced
  <2>3. ASSUME NEW m \in Msgs PROVE Copies(m) = 0
    <3>1. {r \in Readers : hand[r] = m} = {}
      BY RoomAssumption DEF Init
    <3> QED BY <3>1, FS_EmptySet DEF Copies
  <2>4. CopiesCounted
    BY <2>3 DEF Init, CopiesCounted
  <2> QED BY <2>1, <2>2, <2>4 DEF IngestInv
<1>2. IngestInv /\ [Next]_vars => IngestInv'
  BY IngestTypesStep, KnownIsPlacedStep, CopiesCountedStep DEF IngestInv
<1>3. IngestInv => AckedOnce
  <2> SUFFICES ASSUME IngestInv PROVE AckedOnce
    OBVIOUS
  <2>1. AckedUnlessDropped
    BY DEF IngestInv, KnownIsPlaced, AckedUnlessDropped
  <2>2. ASSUME NEW m \in Msgs PROVE enqueued[m] <= 1 + forgotten[m]
    <3>1. enqueued[m] \in Nat /\ forgotten[m] \in Nat /\ Copies(m) \in Nat
      BY CopiesNat DEF IngestInv, IngestTypes, Copies
    <3>2. enqueued[m] + Copies(m) <= forgotten[m] + (IF m \in seen THEN 1 ELSE 0)
      BY DEF IngestInv, CopiesCounted
    <3> QED BY <3>1, <3>2
  <2> QED BY <2>1, <2>2 DEF AckedOnce, BroadcastOnce
<1> QED BY <1>1, <1>2, <1>3, PTL DEF Spec

-----------------------------------------------------------------------------
(* The drain at a shutdown *)

\* The steps that touch the queue, the workers' loops or the root context.
LEMMA DrainSteps ==
  ASSUME [Next]_vars
  PROVE  \/ \E r \in Readers : Enqueue(r)
         \/ \E w \in Workers : WorkerStep(w)
         \/ \E w \in Pushers : FlushStep(w)
         \/ \E m \in RemoteMsgs, s \in RemoteSeqs : HandleIncoming(m, s)
         \/ AdoptRoomSeq \/ Shutdown
         \/ UNCHANGED <<pc, mode, msgQueue, late, stopping>>
<1> DEFINE Same == UNCHANGED <<pc, mode, msgQueue, late, stopping>>
<1>1. ASSUME NEW r \in Readers, (\E m \in Msgs : MarkSeen(r, m)) \/ QueueFull(r) PROVE Same
  BY <1>1 DEF MarkSeen, QueueFull, pushVars
<1>2. ASSUME NEW m \in Msgs, Expire(m) PROVE Same
  BY <1>2 DEF Expire, pushVars
<1>3. ASSUME NEW h \in DOMAIN rings, TTLPasses(h) PROVE Same
  BY <1>3 DEF TTLPasses, ingestVars, pushVars
<1>4. ASSUME Sweep \/ AddClient \/ RemoveClient PROVE Same
  BY <1>4 DEF Sweep, AddClient, RemoveClient, ingestVars, pushVars
<1>5. ASSUME NEW v \in Viewers, NEW s \in AfterSeqs, Connect(v, s) PROVE Same
  BY <1>5 DEF Connect, ingestVars, pushVars
<1>6. ASSUME NEW c \in Conns, Exit(c) \/ ReplayLookup(c) \/ ReplayFrom(c) PROVE Same
  BY <1>6 DEF Exit, ReplayLookup, ReplayFrom, ingestVars, pushVars
<1>7. ASSUME CloseRoom \/ CloseRoomSeqs \/ CloseRoomHist \/ CloseRoomIdem \/ CloseVictims PROVE Same
  BY <1>7 DEF CloseRoom, CloseRoomSeqs, CloseRoomHist, CloseRoomIdem, CloseVictims, ingestVars, pushVars
<1>8. ASSUME NEW v \in Viewers, KickClient(v) PROVE Same
  BY <1>8 DEF KickClient, ingestVars, pushVars
<1>9. ASSUME UNCHANGED vars PROVE Same
  BY <1>9 DEF vars, ingestVars, pushVars
<1> HIDE DEF Same
<1>10. \/ \E r \in Readers : Enqueue(r)
       \/ \E w \in Workers : WorkerStep(w)
       \/ \E w \in Pushers : FlushStep(w)
       \/ \E m \in RemoteMsgs, s \in RemoteSeqs : HandleIncoming(m, s)
       \/ AdoptRoomSeq \/ Shutdown
       \/ Same
  BY <1>1, <1>2, <1>3, <1>4, <1>5, <1>6, <1>7, <1>8, <1>9 DEF Next
<1> QED BY <1>10 DEF Same

\* A flush of a worker: it stays in its mode, and it ends by returning only when it is leaving.
LEMMA FlushModes ==
  ASSUME LeavesDrained, NEW w \in Pushers, FlushStep(w)
  PROVE  /\ UNCHANGED <<mode, msgQueue, late, stopping>>
         /\ \E l \in {"select", "number", "attach", "append", "normal", "sendNormal", "high", "sendHigh",
                      "exited"} :
              pc' = [pc EXCEPT ![w] = l] /\ (l = "exited" => mode[w] = "leave" \/ pc[w] = "exited")
<1>1. CASE Number(w)
  BY <1>1 DEF Number, Goto, ingestVars
<1>2. CASE GetOrCreate(w)
  BY <1>2 DEF GetOrCreate, Goto, ingestVars
<1>3. CASE AppendBatch(w)
  BY <1>3 DEF AppendBatch, Goto, ingestVars
<1>4. CASE SnapshotRoom(w)
  BY <1>4 DEF SnapshotRoom, NextRound, Goto, ingestVars
<1>5. ASSUME NEW c \in targets[w], SendTo(w, c)
      PROVE  /\ UNCHANGED <<mode, msgQueue, late, stopping>>
             /\ \E l \in {"select", "number", "attach", "append", "normal", "sendNormal", "high", "sendHigh",
                          "exited"} :
                  pc' = [pc EXCEPT ![w] = l] /\ (l = "exited" => mode[w] = "leave" \/ pc[w] = "exited")
  <2>1. UNCHANGED <<mode, msgQueue, late, stopping>> /\ pc[w] \in {"sendNormal", "sendHigh"}
    BY <1>5 DEF SendTo, ingestVars
  <2>2. CASE targets[w] = {c}
    BY <1>5, <2>1, <2>2 DEF SendTo, NextRound, Goto
  <2>3. CASE targets[w] # {c}
    <3>1. pc' = [pc EXCEPT ![w] = pc[w]]
      BY <1>5, <2>3 DEF SendTo, LeavesDrained
    <3> QED BY <2>1, <3>1
  <2> QED BY <2>2, <2>3
<1> QED BY <1>1, <1>2, <1>3, <1>4, <1>5 DEF FlushStep

\* A worker that is leaving left nothing behind but what came after the shutdown began.
LEMMA LeavesDrainedStep ==
  ASSUME IngestTypes, LeavesDrained, [Next]_vars
  PROVE  LeavesDrained'
<1>0. /\ msgQueue \in Seq(Msgs) /\ Workers \subseteq Pushers /\ Sub \in Pushers /\ Sub \notin Workers
      /\ pc \in [Pushers -> {"select", "number", "adopt", "attach", "append", "normal", "sendNormal",
                             "high", "sendHigh", "exited"}]
      /\ mode \in [Pushers -> {"serve", "drain", "leave"}]
  BY RoomAssumption DEF IngestTypes, Pushers, LeavesDrained
<1>1. ASSUME NEW r \in Readers, Enqueue(r) PROVE LeavesDrained'
  <2>1. /\ hand[r] \in Msgs /\ msgQueue' = Append(msgQueue, hand[r])
        /\ late' = (IF stopping THEN late \cup {hand[r]} ELSE late) /\ UNCHANGED <<pc, mode, stopping>>
    BY <1>1 DEF Enqueue, IngestTypes, pushVars
  <2>2. ToSet(msgQueue') = ToSet(msgQueue) \cup {hand[r]}
    BY <1>0, <2>1, AppendToSet
  <2>3. ASSUME NEW w \in Workers, mode[w] = "leave" PROVE ToSet(msgQueue') \subseteq late'
    BY <1>0, <2>1, <2>2, <2>3 DEF LeavesDrained
  <2> QED BY <2>1, <2>3 DEF LeavesDrained
<1>2. ASSUME NEW w \in Workers, Receive(w) PROVE LeavesDrained'
  <2>1. /\ msgQueue # <<>> /\ msgQueue' = Tail(msgQueue) /\ UNCHANGED <<mode, late, stopping>>
        /\ \E l \in {"number", "select"} : pc' = [pc EXCEPT ![w] = l]
    BY <1>2 DEF Receive, Goto
  <2>2. ToSet(msgQueue') \subseteq ToSet(msgQueue)
    BY <1>0, <2>1, TailToSet
  <2> QED BY <1>0, <2>1, <2>2 DEF LeavesDrained
<1>3. ASSUME NEW w \in Workers, FlushTimer(w) PROVE LeavesDrained'
  BY <1>0, <1>3 DEF FlushTimer, Goto, LeavesDrained, ingestVars
<1>4. ASSUME NEW w \in Workers, SeeCtxDone(w) PROVE LeavesDrained'
  BY <1>0, <1>4 DEF SeeCtxDone, LeavesDrained, ingestVars
<1>5. ASSUME NEW w \in Workers, Drained(w) PROVE LeavesDrained'
  <2>1. /\ mode[w] = "drain" /\ msgQueue = <<>> /\ mode' = [mode EXCEPT ![w] = "leave"]
        /\ UNCHANGED <<msgQueue, late, stopping>>
        /\ \E l \in {"exited", "number"} : pc' = [pc EXCEPT ![w] = l]
    BY <1>5 DEF Drained, Goto, ingestVars
  <2>2. ToSet(msgQueue') \subseteq late'
    BY <2>1, EmptyToSet
  <2> QED BY <1>0, <2>1, <2>2 DEF LeavesDrained
<1>6. ASSUME NEW w \in Pushers, FlushStep(w) PROVE LeavesDrained'
  <2>1. UNCHANGED <<mode, msgQueue, late, stopping>>
    BY <1>6, FlushModes
  <2>2. PICK l \in {"select", "number", "attach", "append", "normal", "sendNormal", "high", "sendHigh", "exited"} :
          pc' = [pc EXCEPT ![w] = l] /\ (l = "exited" => mode[w] = "leave" \/ pc[w] = "exited")
    BY <1>6, FlushModes
  <2> QED BY <1>0, <2>1, <2>2 DEF LeavesDrained
<1>7. ASSUME NEW m \in RemoteMsgs, NEW s \in RemoteSeqs, HandleIncoming(m, s) PROVE LeavesDrained'
  BY <1>0, <1>7 DEF HandleIncoming, Goto, LeavesDrained, ingestVars
<1>8. CASE AdoptRoomSeq
  BY <1>0, <1>8 DEF AdoptRoomSeq, Goto, LeavesDrained, ingestVars
<1>9. CASE Shutdown
  BY <1>9 DEF Shutdown, LeavesDrained, ingestVars, pushVars
<1>10. CASE UNCHANGED <<pc, mode, msgQueue, late, stopping>>
  BY <1>10 DEF LeavesDrained
<1> QED BY <1>1, <1>2, <1>3, <1>4, <1>5, <1>6, <1>7, <1>8, <1>9, <1>10, DrainSteps DEF WorkerStep

\* Once every worker has returned after ctx.Done, only danmu queued after the shutdown began are still in
\* msgQueue; for any number of workers and any batch size (monolith/server worker.go, worker).
THEOREM StopDrainsHolds == Spec => []StopDrains
<1>1. Init => IngestTypes /\ LeavesDrained
  BY DEF Init, IngestTypes, LeavesDrained, Pushers
<1>2. IngestTypes /\ LeavesDrained /\ [Next]_vars => (IngestTypes /\ LeavesDrained)'
  BY IngestTypesStep, LeavesDrainedStep
<1>3. LeavesDrained => StopDrains
  BY RoomAssumption DEF LeavesDrained, StopDrains
<1> QED BY <1>1, <1>2, <1>3, PTL DEF Spec

-----------------------------------------------------------------------------
(* The connections a room holds *)

\* A map of the hub as a set of connections.
LEMMA MembersOf ==
  ASSUME NEW f \in [Viewers -> 0..MaxConns]
  PROVE  /\ {<<v, f[v]>> : v \in {u \in Viewers : f[u] # 0}} \subseteq Conns
         /\ \A c \in Conns : c \in {<<v, f[v]>> : v \in {u \in Viewers : f[u] # 0}} <=> f[c[1]] = c[2]
<1>1. MaxConns \in Nat
  BY RoomAssumption
<1>2. ASSUME NEW v \in Viewers, f[v] # 0 PROVE <<v, f[v]>> \in Conns
  <2>1. f[v] \in 1..MaxConns
    BY <1>1, <1>2
  <2> QED BY <2>1 DEF Conns
<1>3. ASSUME NEW c \in Conns PROVE c[1] \in Viewers /\ c[2] \in 1..MaxConns /\ c = <<c[1], c[2]>>
  BY <1>3 DEF Conns
<1>4. ASSUME NEW c \in Conns, f[c[1]] = c[2] PROVE c \in {<<v, f[v]>> : v \in {u \in Viewers : f[u] # 0}}
  <2>1. f[c[1]] # 0
    BY <1>1, <1>3, <1>4
  <2> QED BY <1>3, <1>4, <2>1
<1> QED BY <1>2, <1>4

\* The steps that touch connections, the hub's channels or the caller of CloseRoom and KickClient.
LEMMA ConnSteps ==
  ASSUME [Next]_vars
  PROVE  \/ \E v \in Viewers, s \in AfterSeqs : Connect(v, s)
         \/ \E c \in Conns : Exit(c)
         \/ AddClient \/ RemoveClient
         \/ CloseRoom \/ CloseRoomSeqs \/ CloseRoomHist \/ CloseRoomIdem
         \/ \E v \in Viewers : KickClient(v)
         \/ CloseVictims \/ Shutdown
         \/ UNCHANGED <<connVars, admin, victims>>
<1> DEFINE Same == UNCHANGED <<connVars, admin, victims>>
<1>1. ASSUME NEW r \in Readers, (\E m \in Msgs : MarkSeen(r, m)) \/ Enqueue(r) \/ QueueFull(r) PROVE Same
  BY <1>1 DEF MarkSeen, Enqueue, QueueFull, adminVars
<1>2. ASSUME NEW m \in Msgs, Expire(m) PROVE Same
  BY <1>2 DEF Expire, adminVars
<1>3. ASSUME NEW w \in Workers, WorkerStep(w) PROVE Same
  BY <1>3 DEF WorkerStep, Receive, FlushTimer, SeeCtxDone, Drained, adminVars
<1>4. ASSUME NEW w \in Pushers, FlushStep(w) PROVE Same
  BY <1>4 DEF FlushStep, Number, GetOrCreate, AppendBatch, SnapshotRoom, SendTo, adminVars
<1>5. ASSUME NEW m \in RemoteMsgs, NEW s \in RemoteSeqs, HandleIncoming(m, s) PROVE Same
  BY <1>5 DEF HandleIncoming, adminVars
<1>6. ASSUME AdoptRoomSeq \/ Sweep PROVE Same
  BY <1>6 DEF AdoptRoomSeq, Sweep, adminVars
<1>7. ASSUME NEW h \in DOMAIN rings, TTLPasses(h) PROVE Same
  BY <1>7 DEF TTLPasses, adminVars
<1>8. ASSUME NEW c \in Conns, ReplayLookup(c) \/ ReplayFrom(c) PROVE Same
  BY <1>8 DEF ReplayLookup, ReplayFrom, adminVars
<1>9. ASSUME UNCHANGED vars PROVE Same
  BY <1>9 DEF vars, adminVars
<1> HIDE DEF Same
<1>10. \/ \E v \in Viewers, s \in AfterSeqs : Connect(v, s)
       \/ \E c \in Conns : Exit(c)
       \/ AddClient \/ RemoveClient
       \/ CloseRoom \/ CloseRoomSeqs \/ CloseRoomHist \/ CloseRoomIdem
       \/ \E v \in Viewers : KickClient(v)
       \/ CloseVictims \/ Shutdown
       \/ Same
  BY <1>1, <1>2, <1>3, <1>4, <1>5, <1>6, <1>7, <1>8, <1>9 DEF Next
<1> QED BY <1>10 DEF Same

\* A new connection has a number nothing else has.
LEMMA ConnectNew ==
  ASSUME ConnTypes, NEW v \in Viewers, NEW s \in AfterSeqs, Connect(v, s)
  PROVE  /\ <<v, conns[v] + 1>> \in Conns
         /\ regQ' \in Seq(Conns) /\ ToSet(regQ') = ToSet(regQ) \cup {<<v, conns[v] + 1>>}
         /\ live' = live \cup {<<v, conns[v] + 1>>}
         /\ conns' \in [Viewers -> 0..MaxConns] /\ conns'[v] = conns[v] + 1
         /\ \A u \in Viewers : conns[u] <= conns'[u]
         /\ UNCHANGED <<unregQ, room, cancelled, overtaken, admin, victims>>
<1>1. MaxConns \in Nat /\ conns \in [Viewers -> 0..MaxConns] /\ conns[v] < MaxConns /\ regQ \in Seq(Conns)
  BY RoomAssumption DEF ConnTypes, Connect
<1>2. <<v, conns[v] + 1>> \in Conns
  BY <1>1 DEF Conns
<1>3. conns' = [conns EXCEPT ![v] = @ + 1] /\ regQ' = Append(regQ, <<v, conns[v] + 1>>)
  BY DEF Connect
<1>4. regQ' \in Seq(Conns) /\ ToSet(regQ') = ToSet(regQ) \cup {<<v, conns[v] + 1>>}
  <2> DEFINE n == <<v, conns[v] + 1>>
  <2>1. n \in Conns /\ regQ' = Append(regQ, n) /\ regQ \in Seq(Conns)
    BY <1>1, <1>2, <1>3
  <2> HIDE DEF n
  <2>2. regQ' \in Seq(Conns) /\ ToSet(regQ') = ToSet(regQ) \cup {n}
    BY <2>1, AppendToSet
  <2> QED BY <2>2 DEF n
<1>5. conns' \in [Viewers -> 0..MaxConns] /\ conns'[v] = conns[v] + 1 /\ \A u \in Viewers : conns[u] <= conns'[u]
  BY <1>1, <1>3
<1> QED BY <1>2, <1>4, <1>5 DEF Connect, adminVars

\* What RemoveClient leaves in the room: every connection but the one that leaves.
LEMMA RemoveMembers ==
  ASSUME ConnTypes, RemoveClient
  PROVE  /\ Head(unregQ) \in Conns /\ unregQ' \in Seq(Conns)
         /\ ToSet(unregQ) = ToSet(unregQ') \cup {Head(unregQ)}
         /\ room' \in [Viewers -> 0..MaxConns]
         /\ Members' = Members \ {Head(unregQ)}
<1> DEFINE h == Head(unregQ)
<1>1. h \in Conns /\ unregQ' \in Seq(Conns) /\ ToSet(unregQ) = ToSet(unregQ') \cup {h}
  BY TailToSet DEF RemoveClient, ConnTypes
<1>2. h[1] \in Viewers /\ h[2] \in 1..MaxConns
  BY <1>1 DEF Conns
<1>3. room \in [Viewers -> 0..MaxConns] /\ room' = (IF room[h[1]] = h[2] THEN [room EXCEPT ![h[1]] = 0] ELSE room)
  BY DEF ConnTypes, RemoveClient, RoomAfter
<1>4. MaxConns \in Nat /\ 0 \in 0..MaxConns /\ h[2] # 0
  BY <1>2, RoomAssumption
<1>5. room' \in [Viewers -> 0..MaxConns]
  BY <1>3, <1>4
<1>6. ASSUME NEW c \in Conns PROVE c \in Members' <=> c \in Members /\ c # h
  <2>1. c \in Members' <=> room'[c[1]] = c[2]
    BY <1>5, MembersOf DEF Members
  <2>2. c \in Members <=> room[c[1]] = c[2]
    BY <1>3, MembersOf DEF Members
  <2>3. c[1] \in Viewers /\ c[2] \in 1..MaxConns /\ c = <<c[1], c[2]>> /\ h = <<h[1], h[2]>>
    BY <1>1 DEF Conns
  <2>4. c = h <=> c[1] = h[1] /\ c[2] = h[2]
    BY <2>3
  <2>5. c[2] # 0
    BY <1>4, <2>3
  <2> HIDE DEF h
  <2>6. room'[c[1]] = c[2] <=> room[c[1]] = c[2] /\ c # h
    <3>1. CASE room[h[1]] = h[2]
      BY <1>2, <1>3, <2>3, <2>4, <2>5, <3>1
    <3>2. CASE room[h[1]] # h[2]
      BY <1>3, <2>4, <3>2
    <3> QED BY <3>1, <3>2
  <2> QED BY <2>1, <2>2, <2>6
<1>7. Members \subseteq Conns /\ Members' \subseteq Conns
  BY <1>3, <1>5, MembersOf DEF Members
<1> QED BY <1>1, <1>5, <1>6, <1>7

\* What AddClient puts in the room: the connection, in the place of an older one of its viewer.
LEMMA AddMembers ==
  ASSUME ConnTypes, AddClient
  PROVE  /\ Head(regQ) \in Conns /\ regQ' \in Seq(Conns)
         /\ ToSet(regQ) = ToSet(regQ') \cup {Head(regQ)}
         /\ room' \in [Viewers -> 0..MaxConns]
         /\ Members' = {c \in Members : c[1] # Head(regQ)[1]} \cup {Head(regQ)}
<1> DEFINE h == Head(regQ)
<1>1. h \in Conns /\ regQ' \in Seq(Conns) /\ ToSet(regQ) = ToSet(regQ') \cup {h}
  BY TailToSet DEF AddClient, ConnTypes
<1>2. h[1] \in Viewers /\ h[2] \in 1..MaxConns /\ h = <<h[1], h[2]>>
  BY <1>1 DEF Conns
<1>3. room \in [Viewers -> 0..MaxConns] /\ room' = [room EXCEPT ![h[1]] = h[2]]
  BY DEF ConnTypes, AddClient
<1>4. MaxConns \in Nat /\ h[2] \in 0..MaxConns
  BY <1>2, RoomAssumption
<1>5. room' \in [Viewers -> 0..MaxConns]
  BY <1>3, <1>4
<1>6. ASSUME NEW c \in Conns PROVE c \in Members' <=> (c \in Members /\ c[1] # h[1]) \/ c = h
  <2>1. c \in Members' <=> room'[c[1]] = c[2]
    BY <1>5, MembersOf DEF Members
  <2>2. c \in Members <=> room[c[1]] = c[2]
    BY <1>3, MembersOf DEF Members
  <2>3. c[1] \in Viewers /\ c = <<c[1], c[2]>>
    BY DEF Conns
  <2>4. c = h <=> c[1] = h[1] /\ c[2] = h[2]
    BY <1>2, <2>3
  <2> HIDE DEF h
  <2> QED BY <1>2, <1>3, <2>1, <2>2, <2>3, <2>4
<1>7. Members \subseteq Conns /\ Members' \subseteq Conns
  BY <1>3, <1>5, MembersOf DEF Members
<1> QED BY <1>1, <1>5, <1>6, <1>7

\* CloseRoom and KickClient take their victims out of the room.
LEMMA VictimMembers ==
  ASSUME ConnTypes, CloseRoom \/ \E v \in Viewers : KickClient(v)
  PROVE  /\ room' \in [Viewers -> 0..MaxConns] /\ Members' = Members \ victims'
         /\ admin = "idle" /\ admin' # "idle"
         /\ UNCHANGED <<regQ, unregQ, conns, live, cancelled, overtaken>>
<1>1. MaxConns \in Nat /\ 0 \in 0..MaxConns /\ room \in [Viewers -> 0..MaxConns]
  BY RoomAssumption DEF ConnTypes
<1>2. CASE CloseRoom
  <2>1. room' = [v \in Viewers |-> 0] /\ victims' = Members
    BY <1>2 DEF CloseRoom
  <2>2. Members' = {}
    BY <2>1 DEF Members
  <2> QED BY <1>1, <1>2, <2>1, <2>2 DEF CloseRoom
<1>3. ASSUME NEW v \in Viewers, KickClient(v)
      PROVE  /\ room' \in [Viewers -> 0..MaxConns] /\ Members' = Members \ victims'
             /\ admin = "idle" /\ admin' # "idle"
             /\ UNCHANGED <<regQ, unregQ, conns, live, cancelled, overtaken>>
  <2>1. room' = [room EXCEPT ![v] = 0] /\ victims' = {<<v, room[v]>>}
    BY <1>3 DEF KickClient
  <2>2. room' \in [Viewers -> 0..MaxConns]
    BY <1>1, <2>1
  <2>3. ASSUME NEW c \in Conns PROVE c \in Members' <=> c \in Members /\ c # <<v, room[v]>>
    <3>1. c \in Members' <=> room'[c[1]] = c[2]
      BY <2>2, MembersOf DEF Members
    <3>2. c \in Members <=> room[c[1]] = c[2]
      BY <1>1, MembersOf DEF Members
    <3>3. c[1] \in Viewers /\ c[2] \in 1..MaxConns /\ c = <<c[1], c[2]>>
      BY DEF Conns
    <3>4. c[2] # 0
      BY <1>1, <3>3
    <3> QED BY <1>1, <2>1, <3>1, <3>2, <3>3, <3>4
  <2>4. Members \subseteq Conns /\ Members' \subseteq Conns
    BY <1>1, <2>2, MembersOf DEF Members
  <2>5. Members' = Members \ victims'
    BY <2>1, <2>3, <2>4
  <2> QED BY <1>3, <2>2, <2>5 DEF KickClient
<1> QED BY <1>2, <1>3

\* The connections keep their places.
LEMMA ConnInvStep ==
  ASSUME ConnInv, [Next]_vars
  PROVE  ConnInv'
<1> USE DEF ConnInv
<1>0. /\ regQ \in Seq(Conns) /\ unregQ \in Seq(Conns) /\ live \subseteq Conns /\ MaxConns \in Nat
      /\ ToSet(regQ) \subseteq Conns /\ ToSet(unregQ) \subseteq Conns /\ Members \subseteq Conns
      /\ \A u \in Viewers : conns[u] \in Nat
  <2>1. Members \subseteq Conns
    BY MembersOf DEF Members, ConnTypes
  <2>2. ToSet(regQ) \subseteq Conns /\ ToSet(unregQ) \subseteq Conns
    BY DEF ConnTypes, ToSet
  <2> QED BY <2>1, <2>2, RoomAssumption DEF ConnTypes
<1>00. \A c \in Conns : c[1] \in Viewers /\ c[2] \in Nat
  BY <1>0 DEF Conns
<1>1. ASSUME NEW v \in Viewers, NEW s \in AfterSeqs, Connect(v, s) PROVE ConnInv'
  <2> DEFINE n == <<v, conns[v] + 1>>
  <2>1. /\ n \in Conns /\ regQ' \in Seq(Conns) /\ ToSet(regQ') = ToSet(regQ) \cup {n}
        /\ live' = live \cup {n} /\ conns' \in [Viewers -> 0..MaxConns] /\ conns'[v] = conns[v] + 1
        /\ \A u \in Viewers : conns[u] <= conns'[u]
        /\ UNCHANGED <<unregQ, room, cancelled, overtaken, admin, victims>>
    BY <1>1, ConnectNew
  <2>2. n[1] = v /\ n[2] = conns[v] + 1
    OBVIOUS
  <2> HIDE DEF n
  <2>3. Members' = Members
    BY <2>1 DEF Members
  <2>4. ConnTypes'
    BY <2>1 DEF ConnTypes
  <2>5. HeldIsTracked'
    BY <2>1, <2>3 DEF HeldIsTracked
  <2>6. n \notin ToSet(unregQ)
    BY <1>0, <2>2 DEF LeavesOnce
  <2>7. ASSUME NEW c \in live \cup ToSet(unregQ) PROVE c[2] <= conns'[c[1]]
    <3>1. c \in Conns /\ c[2] <= conns[c[1]]
      BY <1>0 DEF LeavesOnce
    <3>2. c[1] \in Viewers /\ c[2] \in Nat /\ conns[c[1]] \in Nat /\ conns'[c[1]] \in Nat
      BY <1>0, <1>00, <2>1, <3>1
    <3> QED BY <2>1, <3>1, <3>2
  <2>8. LeavesOnce'
    <3>1. n[2] <= conns'[n[1]]
      BY <1>0, <2>1, <2>2
    <3> QED BY <2>1, <2>6, <2>7, <3>1 DEF LeavesOnce
  <2> QED BY <2>4, <2>5, <2>8
<1>2. ASSUME NEW c \in Conns, Exit(c) PROVE ConnInv'
  <2>1. /\ c \in live /\ live' = live \ {c} /\ unregQ' = Append(unregQ, c)
        /\ UNCHANGED <<regQ, room, conns, cancelled, overtaken, admin, victims>>
    BY <1>2 DEF Exit, adminVars
  <2>2. unregQ' \in Seq(Conns) /\ ToSet(unregQ') = ToSet(unregQ) \cup {c}
    BY <1>0, <2>1, AppendToSet
  <2>3. Members' = Members
    BY <2>1 DEF Members
  <2> QED BY <2>1, <2>2, <2>3 DEF ConnTypes, HeldIsTracked, LeavesOnce
<1>3. CASE AddClient
  <2>1. /\ regQ' \in Seq(Conns) /\ ToSet(regQ) = ToSet(regQ') \cup {Head(regQ)}
        /\ room' \in [Viewers -> 0..MaxConns]
        /\ Members' = {c \in Members : c[1] # Head(regQ)[1]} \cup {Head(regQ)}
    BY <1>3, AddMembers
  <2>2. UNCHANGED <<unregQ, conns, live, overtaken, admin, victims>>
    BY <1>3 DEF AddClient, adminVars
  <2> QED BY <2>1, <2>2 DEF ConnTypes, HeldIsTracked, LeavesOnce
<1>4. CASE RemoveClient
  <2>1. /\ unregQ' \in Seq(Conns) /\ ToSet(unregQ) = ToSet(unregQ') \cup {Head(unregQ)}
        /\ room' \in [Viewers -> 0..MaxConns] /\ Members' = Members \ {Head(unregQ)}
    BY <1>4, RemoveMembers
  <2>2. /\ overtaken' = (IF Head(unregQ) \in ToSet(regQ) THEN overtaken \cup {Head(unregQ)} ELSE overtaken)
        /\ UNCHANGED <<regQ, conns, live, admin, victims>>
    BY <1>4 DEF RemoveClient, adminVars
  <2> QED BY <2>1, <2>2 DEF ConnTypes, HeldIsTracked, LeavesOnce
<1>5. CASE CloseRoom \/ \E v \in Viewers : KickClient(v)
  <2>1. /\ room' \in [Viewers -> 0..MaxConns] /\ Members' = Members \ victims' /\ admin' # "idle"
        /\ UNCHANGED <<regQ, unregQ, conns, live, cancelled, overtaken>>
    BY <1>5, VictimMembers
  <2> QED BY <2>1 DEF ConnTypes, HeldIsTracked, LeavesOnce
<1>6. CASE CloseRoomSeqs \/ CloseRoomHist \/ CloseRoomIdem
  BY <1>6 DEF CloseRoomSeqs, CloseRoomHist, CloseRoomIdem, ConnTypes, HeldIsTracked, LeavesOnce, Members, connVars
<1>7. CASE CloseVictims
  BY <1>7 DEF CloseVictims, ConnTypes, HeldIsTracked, LeavesOnce, Members
<1>8. CASE Shutdown
  BY <1>8 DEF Shutdown, ConnTypes, HeldIsTracked, LeavesOnce, Members, adminVars
<1>9. CASE UNCHANGED <<connVars, admin, victims>>
  BY <1>9 DEF ConnTypes, HeldIsTracked, LeavesOnce, Members, connVars
<1> QED BY <1>1, <1>2, <1>3, <1>4, <1>5, <1>6, <1>7, <1>8, <1>9, ConnSteps

\* No step leaves a running connection outside the room, the channels and the caller's list.
LEMMA NoDeafViewerStep ==
  ASSUME ConnInv, NoDeafViewer, [Next]_vars
  PROVE  NoDeafViewer'
<1>0. ConnTypes /\ LeavesOnce /\ live \subseteq Conns
  BY DEF ConnInv, ConnTypes
<1>1. ASSUME NEW v \in Viewers, NEW s \in AfterSeqs, Connect(v, s) PROVE NoDeafViewer'
  <2> DEFINE n == <<v, conns[v] + 1>>
  <2>1. /\ ToSet(regQ') = ToSet(regQ) \cup {n} /\ live' = live \cup {n}
        /\ UNCHANGED <<room, cancelled, victims>>
    BY <1>0, <1>1, ConnectNew
  <2> HIDE DEF n
  <2> QED BY <2>1 DEF NoDeafViewer, Members
<1>2. ASSUME NEW c \in Conns, Exit(c) PROVE NoDeafViewer'
  BY <1>2 DEF Exit, NoDeafViewer, Members, adminVars
<1>3. CASE AddClient
  <2>1. /\ ToSet(regQ) = ToSet(regQ') \cup {Head(regQ)}
        /\ Members' = {c \in Members : c[1] # Head(regQ)[1]} \cup {Head(regQ)}
    BY <1>0, <1>3, AddMembers
  <2>2. /\ cancelled' = cancelled \cup {c \in Members : c[1] = Head(regQ)[1]}
        /\ UNCHANGED <<live, victims>>
    BY <1>3 DEF AddClient, adminVars
  <2> QED BY <2>1, <2>2 DEF NoDeafViewer
<1>4. CASE RemoveClient
  <2>1. ToSet(unregQ) = ToSet(unregQ') \cup {Head(unregQ)} /\ Members' = Members \ {Head(unregQ)}
    BY <1>0, <1>4, RemoveMembers
  <2>2. UNCHANGED <<regQ, live, cancelled, victims>>
    BY <1>4 DEF RemoveClient, adminVars
  <2>3. Head(unregQ) \notin live
    BY <1>0, <2>1 DEF LeavesOnce
  <2> QED BY <2>1, <2>2, <2>3 DEF NoDeafViewer
<1>5. CASE CloseRoom \/ \E v \in Viewers : KickClient(v)
  <2>1. Members' = Members \ victims' /\ admin = "idle" /\ UNCHANGED <<regQ, live, cancelled>>
    BY <1>0, <1>5, VictimMembers
  <2>2. victims = {}
    BY <1>0, <2>1 DEF LeavesOnce
  <2> QED BY <2>1, <2>2 DEF NoDeafViewer
<1>6. CASE CloseRoomSeqs \/ CloseRoomHist \/ CloseRoomIdem
  BY <1>6 DEF CloseRoomSeqs, CloseRoomHist, CloseRoomIdem, NoDeafViewer, Members, connVars
<1>7. CASE CloseVictims
  BY <1>7 DEF CloseVictims, NoDeafViewer, Members
<1>8. CASE Shutdown
  BY <1>0, <1>8 DEF Shutdown, NoDeafViewer
<1>9. CASE UNCHANGED <<connVars, admin, victims>>
  BY <1>9 DEF NoDeafViewer, Members, connVars
<1> QED BY <1>1, <1>2, <1>3, <1>4, <1>5, <1>6, <1>7, <1>8, <1>9, ConnSteps

\* The hub starts empty.
LEMMA ConnInit ==
  ASSUME Init
  PROVE  ConnInv /\ NoDeafViewer
<1>1. MaxConns \in Nat /\ 0 \in 0..MaxConns
  BY RoomAssumption
<1>2. Members = {} /\ ToSet(regQ) = {} /\ ToSet(unregQ) = {} /\ live = {}
  BY EmptyToSet DEF Init, Members
<1>3. ConnTypes
  BY <1>1 DEF Init, ConnTypes
<1>4. HeldIsTracked /\ LeavesOnce /\ NoDeafViewer
  BY <1>2 DEF Init, HeldIsTracked, LeavesOnce, NoDeafViewer
<1> QED BY <1>3, <1>4 DEF ConnInv

\* A connection that has ended and that the room still holds is queued to leave, unless Hub.Run took its
\* unregister before its register; for any number of viewers and reconnects (hub.go Run, removeClient).
THEOREM LeavesUnlessOvertakenHolds == Spec => []LeavesUnlessOvertaken
<1>1. Init => ConnInv
  BY ConnInit
<1>2. ConnInv /\ [Next]_vars => ConnInv'
  BY ConnInvStep
<1>3. ConnInv => LeavesUnlessOvertaken
  BY DEF ConnInv, HeldIsTracked, LeavesUnlessOvertaken
<1> QED BY <1>1, <1>2, <1>3, PTL DEF Spec

\* A running connection that nobody told to end is in the room, waits to be registered or is a victim of
\* the CloseRoom or KickClient under way; one third of StreamUnbroken (hub.go addClient, CloseRoom, KickClient).
THEOREM NoDeafViewerHolds == Spec => []NoDeafViewer
<1>1. Init => ConnInv /\ NoDeafViewer
  BY ConnInit
<1>2. ConnInv /\ NoDeafViewer /\ [Next]_vars => (ConnInv /\ NoDeafViewer)'
  BY ConnInvStep, NoDeafViewerStep
<1> QED BY <1>1, <1>2, PTL DEF Spec

-----------------------------------------------------------------------------
(* The history ring: what one pushAll leaves in it *)

\* The recursive function of PushAll exists: its values, one push after the other.
LEMMA PushedUnfolds ==
  ASSUME NEW r, NEW msgs, Len(msgs) \in Nat
  PROVE  \E f : /\ f[0] = (IF Expired(r) THEN Reset(r) ELSE r)
                /\ \A n \in 1..Len(msgs) : f[n] = Push(f[n - 1], msgs[n])
                /\ PushAll(r, msgs) = [f[Len(msgs)] EXCEPT !.stale = FALSE]
<1> DEFINE start == IF Expired(r) THEN Reset(r) ELSE r
           L == Len(msgs)
           IsF(g, m) == g = [n \in 0..m |-> IF n = 0 THEN start ELSE Push(g[n - 1], msgs[n])]
           S == {m \in Nat : \E g : IsF(g, m)}
<1> HIDE DEF start
<1>1. 0 \in S
  <2> DEFINE g == [n \in 0..0 |-> start]
  <2>1. IsF(g, 0)
    OBVIOUS
  <2> QED BY <2>1
<1>2. ASSUME NEW m \in Nat, m \in S PROVE m + 1 \in S
  <2>1. PICK g : IsF(g, m)
    BY <1>2
  <2> DEFINE h == [n \in 0..(m + 1) |-> IF n = m + 1 THEN Push(g[m], msgs[m + 1]) ELSE g[n]]
  <2>2. \A n \in 0..m : h[n] = g[n] /\ g[n] = IF n = 0 THEN start ELSE Push(g[n - 1], msgs[n])
    BY <2>1
  <2>3. \A n \in 0..(m + 1) : h[n] = IF n = 0 THEN start ELSE Push(h[n - 1], msgs[n])
    <3> TAKE n \in 0..(m + 1)
    <3>1. CASE n = m + 1
      <4>1. h[n] = Push(g[m], msgs[m + 1]) /\ h[n - 1] = g[m] /\ n # 0
        BY <2>2, <3>1
      <4> QED BY <3>1, <4>1
    <3>2. CASE n \in 1..m
      <4>1. n - 1 \in 0..m /\ n \in 0..m /\ n # 0
        BY <3>2
      <4> HIDE DEF h
      <4> QED BY <2>2, <4>1
    <3>3. CASE n = 0
      <4>1. 0 \in 0..m
        OBVIOUS
      <4>2. h[0] = g[0] /\ g[0] = start
        <5> HIDE DEF h
        <5> QED BY <2>2, <4>1
      <4> QED BY <3>3, <4>2
    <3> QED BY <3>1, <3>2, <3>3
  <2>4. DOMAIN h = 0..(m + 1) /\ h = [n \in 0..(m + 1) |-> h[n]]
    OBVIOUS
  <2> HIDE DEF h
  <2>5. IsF(h, m + 1)
    BY <2>3, <2>4
  <2> QED BY <2>5
<1>3. L \in S
  <2> HIDE DEF S
  <2> QED BY <1>1, <1>2, AllNumbers
<1> DEFINE f == CHOOSE g : IsF(g, L)
<1>4. IsF(f, L)
  BY <1>3
<1>5. PushAll(r, msgs) = [f[L] EXCEPT !.stale = FALSE]
  BY DEF PushAll, start
<1> HIDE DEF f
<1>6. f[0] = start /\ \A n \in 1..L : f[n] = Push(f[n - 1], msgs[n])
  BY <1>4
<1> QED BY <1>5, <1>6 DEF start

\* Places in the ring: a position less than a turn ahead wraps at most once.
LEMMA RingTurn ==
  ASSUME NEW x \in Nat, x < 2 * HistMax
  PROVE  x % HistMax = IF x < HistMax THEN x ELSE x - HistMax
<1> USE HistMaxAssumption
<1> DEFINE q == x \div HistMax
           m == x % HistMax
<1>1. q \in Int /\ m \in 0..(HistMax - 1) /\ x = HistMax * q + m
  OBVIOUS
<1> HIDE DEF q, m
<1>2. q = 0 \/ q = 1
  <2>1. CASE q >= 2
    <3>1. HistMax * q >= 2 * HistMax
      BY <1>1, <2>1
    <3> QED BY <1>1, <3>1
  <2>2. CASE q <= -1
    <3>1. HistMax * q <= -HistMax
      BY <1>1, <2>2
    <3> QED BY <1>1, <3>1
  <2> QED BY <1>1, <2>1, <2>2
<1>3. CASE q = 0
  <2>1. x = m
    BY <1>1, <1>3
  <2> QED BY <1>1, <2>1 DEF m
<1>4. CASE q = 1
  <2>1. x = HistMax + m
    BY <1>1, <1>4
  <2> QED BY <1>1, <2>1 DEF m
<1> QED BY <1>2, <1>3, <1>4

\* A push appends to the contents, and from a full ring the oldest entry goes.
Pushed(p, r, e, S) ==
  /\ RingSound(p, S) /\ p.count = (IF r.count < HistMax THEN r.count + 1 ELSE HistMax)
  /\ \A i \in 1..p.count :
       Contents(p)[i] = IF i = p.count THEN e
                        ELSE IF r.count < HistMax THEN Contents(r)[i] ELSE Contents(r)[i + 1]

\* One push keeps the ring sound, drops at most the oldest entry and ends with the new one.
LEMMA PushStep ==
  ASSUME NEW S, \A x \in S : x.seq \in Nat, NEW r, RingSound(r, S), NEW e \in S, e.seq # 0
  PROVE  Pushed(Push(r, e), r, e, S)
<1> USE HistMaxAssumption
<1> DEFINE p == Push(r, e)
           en == r.entries
           L == Len(r.entries)
           At(q, i) == ((q.head + i - 1) % HistMax) + 1
<1>1. /\ r \in [entries : Seq(S), head : Nat, count : Nat, lastSeq : Nat, stale : BOOLEAN]
      /\ en \in Seq(S) /\ L \in Nat /\ DOMAIN en = 1..L
      /\ r.count \in Nat /\ r.head \in Nat /\ r.lastSeq \in Nat /\ e.seq \in Nat
      /\ r.count <= L /\ L <= HistMax /\ r.head < HistMax /\ (r.count < HistMax => r.head = 0)
  BY LenProperties DEF RingSound, Rings
<1>2. /\ \A i \in 1..r.count : Contents(r)[i] = en[At(r, i)]
      /\ \A i \in 1..p.count : Contents(p)[i] = p.entries[At(p, i)]
  BY DEF Contents
<1>3. CASE r.count < HistMax
  <2> DEFINE ne == IF r.count = L THEN Append(en, e) ELSE [en EXCEPT ![r.count + 1] = e]
  <2>1. p = [r EXCEPT !.entries = ne, !.head = r.head, !.count = r.count + 1,
                      !.lastSeq = IF e.seq > r.lastSeq THEN e.seq ELSE r.lastSeq]
    <3>1. (r.count >= HistMax) = FALSE /\ (e.seq = 0) = FALSE
      BY <1>1, <1>3
    <3> QED BY <3>1 DEF Push
  <2>2. /\ ne \in Seq(S) /\ r.count + 1 <= Len(ne) /\ Len(ne) <= HistMax
        /\ ne[r.count + 1] = e /\ \A i \in 1..r.count : ne[i] = en[i]
    <3>1. CASE r.count = L
      BY <1>1, <1>3, <3>1, AppendProperties
    <3>2. CASE r.count # L
      <4>1. r.count + 1 \in 1..L /\ ne = [en EXCEPT ![r.count + 1] = e]
        BY <1>1, <3>2
      <4>2. ne \in Seq(S) /\ Len(ne) = L
        BY <1>1, <4>1, ExceptSeq
      <4>3. ne[r.count + 1] = e /\ \A i \in 1..r.count : ne[i] = en[i]
        BY <1>1, <4>1
      <4> QED BY <1>1, <4>1, <4>2, <4>3
    <3> QED BY <3>1, <3>2
  <2> HIDE DEF ne
  <2> DEFINE ls == IF e.seq > r.lastSeq THEN e.seq ELSE r.lastSeq
  <2>3. ls \in Nat
    BY <1>1
  <2> HIDE DEF ls
  <2>4. p = [entries |-> ne, head |-> 0, count |-> r.count + 1, lastSeq |-> ls, stale |-> r.stale]
    BY <1>1, <1>3, <2>1 DEF ls
  <2> HIDE DEF p
  <2>5. p.entries = ne /\ p.head = 0 /\ p.count = r.count + 1 /\ r.head = 0
    BY <1>1, <1>3, <2>4
  <2>6. RingSound(p, S)
    BY <1>1, <1>3, <2>2, <2>3, <2>4 DEF RingSound, Rings
  <2>7. ASSUME NEW i \in 1..(r.count + 1) PROVE (i - 1) % HistMax = i - 1
    BY <1>1, <1>3, RingTurn
  <2>8. ASSUME NEW i \in 1..p.count PROVE Contents(p)[i] = IF i = p.count THEN e ELSE Contents(r)[i]
    <3>1. At(p, i) = i /\ At(r, i) = i
      BY <1>1, <2>5, <2>7
    <3>2. Contents(p)[i] = ne[i] /\ (i \in 1..r.count => Contents(r)[i] = en[i])
      BY <1>2, <2>5, <3>1
    <3> HIDE DEF At
    <3>3. i = p.count \/ i \in 1..r.count
      BY <1>1, <2>5, SMTT(30)
    <3>4. i = p.count => ne[i] = e
      BY <2>2, <2>5
    <3>5. i \in 1..r.count => ne[i] = en[i] /\ i # p.count
      BY <1>1, <2>2, <2>5
    <3> QED BY <3>2, <3>3, <3>4, <3>5
  <2> HIDE DEF At
  <2>9. /\ p.count = (IF r.count < HistMax THEN r.count + 1 ELSE HistMax)
        /\ \A i \in 1..p.count :
                 Contents(p)[i] = IF i = p.count THEN e
                                  ELSE IF r.count < HistMax THEN Contents(r)[i] ELSE Contents(r)[i + 1]
    BY <1>3, <2>5, <2>8
  <2> QED BY <2>6, <2>9 DEF p, Pushed
<1>4. CASE r.count >= HistMax
  <2>1. r.count = HistMax /\ L = HistMax
    BY <1>1, <1>4
  <2> DEFINE ne == [en EXCEPT ![r.head + 1] = e]
             nh == (r.head + 1) % HistMax
             ls == IF e.seq > r.lastSeq THEN e.seq ELSE r.lastSeq
  <2>2. p = [r EXCEPT !.entries = ne, !.head = nh, !.count = r.count, !.lastSeq = ls]
    BY <1>1, <1>4, <2>1 DEF Push
  <2>3. ls \in Nat
    BY <1>1
  <2>4. nh \in Nat /\ nh < HistMax /\ nh = IF r.head + 1 < HistMax THEN r.head + 1 ELSE 0
    <3>1. nh = IF r.head + 1 < HistMax THEN r.head + 1 ELSE (r.head + 1) - HistMax
      BY <1>1, RingTurn
    <3> HIDE DEF nh
    <3> QED BY <1>1, <3>1
  <2>5. /\ r.head + 1 \in 1..L /\ ne \in Seq(S) /\ Len(ne) = L
        /\ ne[r.head + 1] = e /\ \A i \in 1..L : i # r.head + 1 => ne[i] = en[i]
    BY <1>1, <2>1, ExceptSeq
  <2> HIDE DEF ne, nh, ls
  <2>6. p = [entries |-> ne, head |-> nh, count |-> HistMax, lastSeq |-> ls, stale |-> r.stale]
    BY <1>1, <2>1, <2>2
  <2> HIDE DEF p
  <2>7. p.entries = ne /\ p.head = nh /\ p.count = HistMax
    BY <2>6
  <2>8. RingSound(p, S)
    BY <1>1, <2>1, <2>3, <2>4, <2>5, <2>6 DEF RingSound, Rings
  <2>9. ASSUME NEW i \in 1..HistMax PROVE Contents(p)[i] = IF i = HistMax THEN e ELSE Contents(r)[i + 1]
    <3>1. (nh + i - 1) % HistMax = IF nh + i - 1 < HistMax THEN nh + i - 1 ELSE nh + i - 1 - HistMax
      BY <2>4, RingTurn
    <3>2. i < HistMax => (r.head + (i + 1) - 1) % HistMax
                           = IF r.head + i < HistMax THEN r.head + i ELSE (r.head + i) - HistMax
      <4> SUFFICES ASSUME i < HistMax
                   PROVE  (r.head + (i + 1) - 1) % HistMax = IF r.head + i < HistMax THEN r.head + i ELSE (r.head + i) - HistMax
        OBVIOUS
      <4> DEFINE x == r.head + (i + 1) - 1
      <4>1. x \in Nat /\ x < 2 * HistMax /\ x = r.head + i
        BY <1>1
      <4> HIDE DEF x
      <4>2. x % HistMax = IF x < HistMax THEN x ELSE x - HistMax
        BY <4>1, RingTurn
      <4>3. r.head + (i + 1) - 1 = x
        BY DEF x
      <4>4. (r.head + (i + 1) - 1) % HistMax = x % HistMax
        BY <4>3
      <4>5. x % HistMax = IF r.head + i < HistMax THEN r.head + i ELSE (r.head + i) - HistMax
        BY <4>1, <4>2, Zenon
      <4> QED BY <4>4, <4>5, Zenon
    <3> DEFINE a == At(p, i)
               b == At(r, i + 1)
    <3>3. a = (IF nh + i - 1 < HistMax THEN nh + i - 1 ELSE nh + i - 1 - HistMax) + 1
      BY <2>7, <3>1
    <3>4. i < HistMax => b = (IF r.head + i < HistMax THEN r.head + i ELSE (r.head + i) - HistMax) + 1
      BY <3>2
    <3>5. Contents(p)[i] = ne[a] /\ (i < HistMax => Contents(r)[i + 1] = en[b])
      BY <1>2, <2>1, <2>7
    <3> HIDE DEF a, b, At
    <3>6. i = HistMax => a = r.head + 1
      BY <1>1, <2>4, <3>3
    <3>7. i < HistMax => a = b /\ a # r.head + 1 /\ a \in 1..L
      <4> DEFINE k == r.head
      <4>1. k \in Nat /\ k < HistMax /\ nh = (IF k + 1 < HistMax THEN k + 1 ELSE 0) /\ L = HistMax
        BY <1>1, <2>1, <2>4
      <4>2. i < HistMax => b = (IF k + i < HistMax THEN k + i ELSE (k + i) - HistMax) + 1
        BY <3>4
      <4> HIDE DEF k, L
      <4>3. ASSUME k + 1 < HistMax, i < HistMax PROVE a = b /\ a # k + 1 /\ a \in 1..L
        BY <3>3, <4>1, <4>2, <4>3
      <4>4. ASSUME k + 1 = HistMax, i < HistMax PROVE a = b /\ a # k + 1 /\ a \in 1..L
        BY <3>3, <4>1, <4>2, <4>4
      <4>5. i < HistMax => a = b /\ a # k + 1 /\ a \in 1..L
        BY <4>1, <4>3, <4>4
      <4> QED BY <4>5 DEF k
    <3> QED BY <2>5, <3>5, <3>6, <3>7
  <2> HIDE DEF At
  <2>10. /\ p.count = (IF r.count < HistMax THEN r.count + 1 ELSE HistMax)
        /\ \A i \in 1..p.count :
                 Contents(p)[i] = IF i = p.count THEN e
                                  ELSE IF r.count < HistMax THEN Contents(r)[i] ELSE Contents(r)[i + 1]
    BY <1>4, <2>1, <2>7, <2>9
  <2> QED BY <2>8, <2>10 DEF p, Pushed
<1> QED BY <1>1, <1>3, <1>4

\* The last entries of a sequence.
LEMMA LastOfPlaces ==
  ASSUME NEW S, NEW s \in Seq(S)
  PROVE  /\ LastOf(s) \in Seq(S)
         /\ Len(s) <= HistMax => LastOf(s) = s
         /\ Len(s) > HistMax => /\ Len(LastOf(s)) = HistMax
                                /\ \A i \in 1..HistMax : LastOf(s)[i] = s[(Len(s) - HistMax) + i]
<1> USE HistMaxAssumption
<1>1. Len(s) \in Nat
  BY LenProperties
<1> DEFINE l == Len(s)
           m == (l - HistMax) + 1
<1>2. l <= HistMax => LastOf(s) = s
  BY <1>1 DEF LastOf
<1>3. ASSUME l > HistMax
      PROVE  /\ LastOf(s) \in Seq(S) /\ Len(LastOf(s)) = HistMax
             /\ \A i \in 1..HistMax : LastOf(s)[i] = s[(l - HistMax) + i]
  <2>1. m \in 1..(l + 1) /\ l \in (m - 1)..l /\ m <= l /\ (l - m) + 1 = HistMax
    BY <1>1, <1>3
  <2>2. LastOf(s) = SubSeq(s, m, l)
    BY <1>1, <1>3 DEF LastOf
  <2>3. /\ SubSeq(s, m, l) \in Seq(S)
        /\ Len(SubSeq(s, m, l)) = IF m <= l THEN (l - m) + 1 ELSE 0
        /\ \A i \in 1..((l - m) + 1) : SubSeq(s, m, l)[i] = s[m + (i - 1)]
    BY <1>1, <2>1, SubSeqProperties
  <2>4. \A i \in 1..HistMax : m + (i - 1) = (l - HistMax) + i
    BY <1>1
  <2> HIDE DEF m, l
  <2> QED BY <2>1, <2>2, <2>3, <2>4
<1> HIDE DEF m
<1> QED BY <1>1, <1>2, <1>3

\* A ring that is emptied keeps its slice.
LEMMA ResetSound ==
  ASSUME NEW S, NEW r, RingSound(r, S)
  PROVE  RingSound(Reset(r), S) /\ Reset(r).count = 0
<1> DEFINE R == Reset(r)
<1>1. r \in [entries : Seq(S), head : Nat, count : Nat, lastSeq : Nat, stale : BOOLEAN]
  BY DEF RingSound, Rings
<1>2. R = [entries |-> r.entries, head |-> 0, count |-> 0, lastSeq |-> 0, stale |-> r.stale]
  <2>1. R \in [entries : Seq(S), head : Nat, count : Nat, lastSeq : Nat, stale : BOOLEAN]
    BY <1>1 DEF Reset
  <2>2. R.head = 0 /\ R.count = 0 /\ R.lastSeq = 0
    BY <1>1 DEF Reset
  <2>3. R.entries = r.entries /\ R.stale = r.stale
    BY <1>1 DEF Reset
  <2> HIDE DEF R
  <2> QED BY <2>1, <2>2, <2>3
<1>3. r.entries \in Seq(S) /\ r.stale \in BOOLEAN /\ Len(r.entries) \in Nat /\ Len(r.entries) <= HistMax
  BY LenProperties DEF RingSound, Rings
<1> HIDE DEF R
<1>4. /\ R \in [entries : Seq(S), head : Nat, count : Nat, lastSeq : Nat, stale : BOOLEAN]
      /\ R.entries = r.entries /\ R.head = 0 /\ R.count = 0
  BY <1>2, <1>3
<1>5. RingSound(R, S)
  BY <1>3, <1>4, HistMaxAssumption DEF RingSound, Rings
<1> QED BY <1>4, <1>5 DEF R

\* What a batch leaves in the ring: the last entries of what it held and the batch.
LEMMA PushAllRecent ==
  ASSUME NEW S, \A x \in S : x.seq \in Nat, NEW r, RingSound(r, S),
         NEW b \in Seq(S), \A i \in DOMAIN b : b[i].seq # 0,
         NEW k \in Seq(S), k = Contents(IF Expired(r) THEN Reset(r) ELSE r)
  PROVE  /\ RingSound(PushAll(r, b), S) /\ Contents(PushAll(r, b)) = LastOf(k \o b)
<1> USE HistMaxAssumption
<1> DEFINE r0 == IF Expired(r) THEN Reset(r) ELSE r
           K == k \o b
           l == Len(k)
           L == Len(b)
<1>1. PICK f : /\ f[0] = r0
               /\ \A n \in 1..L : f[n] = Push(f[n - 1], b[n])
               /\ PushAll(r, b) = [f[L] EXCEPT !.stale = FALSE]
  BY PushedUnfolds, LenProperties, SMTT(30)
<1>2. RingSound(r0, S)
  BY ResetSound
<1> HIDE DEF r0
<1>3. /\ l = r0.count /\ l \in Nat /\ l <= HistMax /\ DOMAIN k = 1..l
      /\ L \in Nat /\ DOMAIN b = 1..L
  <2>1. r0.count \in Nat /\ r0.count <= HistMax
    BY <1>2, LenProperties DEF RingSound, Rings
  <2>2. DOMAIN k = 1..r0.count
    BY DEF Contents, r0
  <2> QED BY <2>1, <2>2, LenProperties
<1>4. /\ K \in Seq(S) /\ Len(K) = l + L
      /\ \A i \in 1..(l + L) : K[i] = IF i <= l THEN k[i] ELSE b[i - l]
  BY ConcatProperties
<1>5. \A i \in 1..L : b[i] \in S /\ b[i].seq # 0
  BY <1>3, ElementOfSeq
<1> HIDE DEF K, l, L
<1> DEFINE Good(n) ==
             /\ RingSound(f[n], S)
             /\ l + n <= HistMax => f[n].count = l + n /\ \A i \in 1..(l + n) : Contents(f[n])[i] = K[i]
             /\ l + n > HistMax =>
                  f[n].count = HistMax /\ \A i \in 1..HistMax : Contents(f[n])[i] = K[((l + n) - HistMax) + i]
           T == {n \in Nat : n <= L => Good(n)}
<1>6. Good(0)
  <2>1. k = Contents(f[0]) /\ RingSound(f[0], S) /\ f[0].count = l
    BY <1>1, <1>2, <1>3 DEF r0
  <2>2. \A i \in 1..l : i \in 1..(l + L) /\ i <= l
    BY <1>3
  <2>3. \A i \in 1..l : Contents(f[0])[i] = K[i]
    BY <1>4, <2>1, <2>2
  <2>4. l + 0 = l /\ ~(l + 0 > HistMax)
    BY <1>3
  <2> QED BY <2>1, <2>3, <2>4
<1>7. ASSUME NEW n \in Nat, n + 1 <= L, Good(n) PROVE Good(n + 1)
  <2> DEFINE e == b[n + 1]
             q == f[n + 1]
             c == f[n].count
             d == q.count
             t == l + n
  <2>1. q = Push(f[n], e) /\ e \in S /\ e.seq # 0 /\ K[t + 1] = e
    <3>1. n + 1 \in 1..L /\ (n + 1) - 1 = n
      BY <1>3, <1>7
    <3>2. f[n + 1] = Push(f[n], b[n + 1])
      BY <1>1, <3>1
    <3>4. (t + 1) \in 1..(l + L) /\ ~(t + 1 <= l) /\ (t + 1) - l = n + 1
      BY <1>3, <3>1
    <3> QED BY <1>4, <1>5, <3>1, <3>2, <3>4
  <2>2. t \in Nat /\ l + (n + 1) = t + 1
    BY <1>3
  <2>3. /\ RingSound(f[n], S)
        /\ t <= HistMax => c = t /\ \A i \in 1..t : Contents(f[n])[i] = K[i]
        /\ t > HistMax => c = HistMax /\ \A i \in 1..HistMax : Contents(f[n])[i] = K[(t - HistMax) + i]
    BY <1>7
  <2> HIDE DEF e, q, t, d
  <2>4. /\ RingSound(q, S) /\ d = (IF c < HistMax THEN c + 1 ELSE HistMax)
        /\ \A i \in 1..d :
             Contents(q)[i] = IF i = d THEN e
                              ELSE IF c < HistMax THEN Contents(f[n])[i] ELSE Contents(f[n])[i + 1]
    <3>1. Pushed(q, f[n], e, S)
      BY <2>1, <2>3, PushStep
    <3> QED BY <3>1 DEF d, Pushed
  <2> HIDE DEF c
  <2>5. ASSUME t + 1 <= HistMax PROVE d = t + 1 /\ \A i \in 1..(t + 1) : Contents(q)[i] = K[i]
    <3>1. c = t /\ c < HistMax /\ d = t + 1 /\ t <= HistMax
      BY <2>2, <2>3, <2>4, <2>5
    <3>2. ASSUME NEW i \in 1..(t + 1) PROVE Contents(q)[i] = K[i]
      <4>1. i = t + 1 \/ (i \in 1..t /\ i # d)
        BY <2>2, <3>1
      <4> QED BY <2>1, <2>3, <2>4, <3>1, <4>1
    <3> QED BY <3>1, <3>2
  <2>6. ASSUME t + 1 > HistMax
        PROVE  d = HistMax /\ \A i \in 1..HistMax : Contents(q)[i] = K[((t + 1) - HistMax) + i]
    <3>1. c = HistMax /\ d = HistMax
      BY <2>2, <2>3, <2>4, <2>6
    <3>2. ASSUME NEW i \in 1..HistMax PROVE Contents(q)[i] = K[((t + 1) - HistMax) + i]
      <4>1. CASE i = HistMax
        <5>1. ((t + 1) - HistMax) + i = t + 1
          BY <2>2, <4>1
        <5> QED BY <2>1, <2>4, <3>1, <4>1, <5>1
      <4>2. CASE i # HistMax
        <5>1. i + 1 \in 1..HistMax /\ ((t + 1) - HistMax) + i = (t - HistMax) + (i + 1)
          BY <2>2, <4>2
        <5>2. Contents(q)[i] = Contents(f[n])[i + 1]
          BY <2>4, <3>1, <4>2
        <5>3. Contents(f[n])[i + 1] = K[(t - HistMax) + (i + 1)]
          <6>1. CASE t > HistMax
            BY <2>3, <5>1, <6>1
          <6>2. CASE t = HistMax
            <7>1. (t - HistMax) + (i + 1) = i + 1 /\ t <= HistMax /\ i + 1 \in 1..t
              BY <2>2, <5>1, <6>2
            <7> QED BY <2>3, <7>1
          <6> QED BY <2>2, <2>6, <6>1, <6>2
        <5> QED BY <5>1, <5>2, <5>3
      <4> QED BY <4>1, <4>2
    <3> QED BY <3>1, <3>2
  <2>7. RingSound(q, S) /\ q.count = d
    BY <2>4 DEF d
  <2>8. Good(n + 1) <=>
             /\ RingSound(q, S)
             /\ t + 1 <= HistMax => q.count = t + 1 /\ \A i \in 1..(t + 1) : Contents(q)[i] = K[i]
             /\ t + 1 > HistMax =>
                  q.count = HistMax /\ \A i \in 1..HistMax : Contents(q)[i] = K[((t + 1) - HistMax) + i]
    BY <2>2 DEF q
  <2> HIDE DEF Good
  <2> QED BY <2>5, <2>6, <2>7, <2>8
<1>8. Good(L)
  <2> HIDE DEF Good
  <2>1. 0 \in T
    BY <1>6
  <2>2. ASSUME NEW n \in Nat, n \in T PROVE n + 1 \in T
    <3> SUFFICES ASSUME n + 1 <= L PROVE Good(n + 1)
      OBVIOUS
    <3>1. n <= L
      BY <1>3
    <3> QED BY <1>7, <2>2, <3>1
  <2>3. Nat \subseteq T
    <3> HIDE DEF T
    <3> QED BY <2>1, <2>2, AllNumbers
  <2>4. L \in T /\ L <= L
    BY <1>3, <2>3
  <2> QED BY <2>4
<1> DEFINE z == f[L]
           p == PushAll(r, b)
           N == l + L
<1>9. /\ p = [z EXCEPT !.stale = FALSE] /\ RingSound(z, S)
      /\ N <= HistMax => z.count = N /\ \A i \in 1..N : Contents(z)[i] = K[i]
      /\ N > HistMax => z.count = HistMax /\ \A i \in 1..HistMax : Contents(z)[i] = K[(N - HistMax) + i]
  BY <1>1, <1>8
<1>10. N \in Nat /\ Len(K) = N
  BY <1>3, <1>4
<1> HIDE DEF Good, T, p, z, N
<1>11. RingSound(p, S) /\ p.entries = z.entries /\ p.count = z.count /\ p.head = z.head
  <2>1. p = [entries |-> z.entries, head |-> z.head, count |-> z.count, lastSeq |-> z.lastSeq, stale |-> FALSE]
    BY <1>9 DEF RingSound, Rings
  <2>2. p.entries = z.entries /\ p.count = z.count /\ p.head = z.head
    BY <2>1
  <2>3. p \in [entries : Seq(S), head : Nat, count : Nat, lastSeq : Nat, stale : BOOLEAN]
    BY <1>9, <2>1 DEF RingSound, Rings
  <2> QED BY <1>9, <2>2, <2>3 DEF RingSound, Rings
<1>12. Contents(p) = Contents(z)
  BY <1>11 DEF Contents
<1>13. DOMAIN Contents(z) = 1..z.count /\ Contents(z) = [i \in 1..z.count |-> Contents(z)[i]]
  BY DEF Contents
<1>14. Contents(z) = LastOf(K)
  <2>1. CASE N <= HistMax
    <3>1. LastOf(K) = K /\ DOMAIN K = 1..N /\ K = [i \in 1..N |-> K[i]]
      BY <1>4, <1>10, <2>1, LastOfPlaces, LenProperties
    <3>2. z.count = N /\ \A i \in 1..N : Contents(z)[i] = K[i]
      BY <1>9, <2>1
    <3> QED BY <1>13, <3>1, <3>2
  <2>2. CASE N > HistMax
    <3> DEFINE a == LastOf(K)
    <3>1. /\ a \in Seq(S) /\ Len(a) = HistMax
          /\ \A i \in 1..HistMax : a[i] = K[(N - HistMax) + i]
      BY <1>4, <1>10, <2>2, LastOfPlaces
    <3> HIDE DEF a
    <3>2. a = [i \in 1..HistMax |-> a[i]]
      BY <3>1, LenProperties
    <3>3. z.count = HistMax /\ \A i \in 1..HistMax : Contents(z)[i] = a[i]
      BY <1>9, <2>2, <3>1
    <3>4. Contents(z) = a
      BY <1>13, <3>2, <3>3
    <3> QED BY <3>4 DEF a
  <2> QED BY <1>10, <2>1, <2>2
<1> QED BY <1>11, <1>12, <1>14 DEF p, K

-----------------------------------------------------------------------------
(* Sequence numbers, batches and histories of the room *)

\* The variables of batches and histories.
ringVars == <<roomSeq, batch, handle, pc, rings, kept, cur>>

\* The steps that touch the batches and the histories.
LEMMA RingSteps ==
  ASSUME [Next]_vars
  PROVE  \/ \E w \in Workers : Receive(w) \/ FlushTimer(w) \/ Drained(w)
         \/ \E w \in Pushers : FlushStep(w)
         \/ \E m \in RemoteMsgs, s \in RemoteSeqs : HandleIncoming(m, s)
         \/ AdoptRoomSeq \/ Sweep \/ CloseRoomSeqs \/ CloseRoomHist
         \/ \E h \in DOMAIN rings : TTLPasses(h)
         \/ \E c \in Conns : ReplayFrom(c)
         \/ UNCHANGED ringVars
<1> USE DEF ringVars, pushVars, histVars
<1>1. ASSUME NEW r \in Readers, (\E m \in Msgs : MarkSeen(r, m)) \/ Enqueue(r) \/ QueueFull(r)
      PROVE  UNCHANGED ringVars
  BY <1>1 DEF MarkSeen, Enqueue, QueueFull
<1>2. ASSUME NEW m \in Msgs, Expire(m) PROVE UNCHANGED ringVars
  BY <1>2 DEF Expire
<1>3. ASSUME NEW w \in Workers, SeeCtxDone(w) PROVE UNCHANGED ringVars
  BY <1>3 DEF SeeCtxDone
<1>4. ASSUME NEW v \in Viewers, NEW s \in AfterSeqs, Connect(v, s) PROVE UNCHANGED ringVars
  BY <1>4 DEF Connect
<1>5. ASSUME NEW c \in Conns, Exit(c) \/ ReplayLookup(c) PROVE UNCHANGED ringVars
  BY <1>5 DEF Exit, ReplayLookup
<1>6. ASSUME AddClient \/ RemoveClient \/ CloseRoom \/ CloseRoomIdem \/ CloseVictims \/ Shutdown
      PROVE  UNCHANGED ringVars
  BY <1>6 DEF AddClient, RemoveClient, CloseRoom, CloseRoomIdem, CloseVictims, Shutdown
<1>7. ASSUME NEW v \in Viewers, KickClient(v) PROVE UNCHANGED ringVars
  BY <1>7 DEF KickClient
<1>8. ASSUME UNCHANGED vars PROVE UNCHANGED ringVars
  BY <1>8 DEF vars
<1> QED BY <1>1, <1>2, <1>3, <1>4, <1>5, <1>6, <1>7, <1>8 DEF Next, WorkerStep

\* A pusher moves on with a batch that is numbered as its new place requires.
LEMMA MoveInTurn ==
  ASSUME BatchTypes, NumberedInTurn, NEW w \in Pushers, NEW b \in Seq(Entry), NEW l \in Labels, InTurn(b, l),
         batch' = [batch EXCEPT ![w] = b], pc' = [pc EXCEPT ![w] = l]
  PROVE  batch' \in [Pushers -> Seq(Entry)] /\ pc' \in [Pushers -> Labels] /\ NumberedInTurn'
<1>1. batch' \in [Pushers -> Seq(Entry)] /\ pc' \in [Pushers -> Labels]
  BY DEF BatchTypes
<1>2. \A u \in Pushers : batch'[u] = (IF u = w THEN b ELSE batch[u]) /\ pc'[u] = (IF u = w THEN l ELSE pc[u])
  BY DEF BatchTypes
<1>3. ASSUME NEW u \in Pushers PROVE InTurn(batch'[u], pc'[u])
  BY <1>2 DEF NumberedInTurn
<1> QED BY <1>1, <1>3 DEF NumberedInTurn

\* The next message of a batch gets its number.
LEMMA NumberNext ==
  ASSUME BatchTypes, NumberedInTurn, NEW w \in Pushers, Number(w)
  PROVE  \E b \in Seq(Entry), l \in Labels :
           InTurn(b, l) /\ batch' = [batch EXCEPT ![w] = b] /\ pc' = [pc EXCEPT ![w] = l]
<1> DEFINE b0 == batch[w]
           L == Len(b0)
           Next1(j) == b0[j].seq = 0 /\ \A k \in 1..(j - 1) : b0[k].seq # 0
           i == CHOOSE j \in DOMAIN b0 : Next1(j)
           l == IF i = L THEN "attach" ELSE "number"
           b == [b0 EXCEPT ![i].seq = roomSeq + 1]
<1>1. b0 \in Seq(Entry) /\ L \in Nat /\ DOMAIN b0 = 1..L /\ pc[w] = "number" /\ roomSeq \in Nat
  BY LenProperties DEF BatchTypes, Number
<1>2. PICK j \in 1..L : \A k \in 1..L : b0[k].seq = 0 <=> j <= k
  BY <1>1 DEF NumberedInTurn, InTurn
<1>3. batch' = [batch EXCEPT ![w] = b] /\ pc' = [pc EXCEPT ![w] = l]
  BY DEF Number, Goto, BatchTypes
<1>4. Next1(j) /\ \A k \in 1..L : Next1(k) => k = j
  <2>1. \A k \in 1..(j - 1) : k \in 1..L /\ ~(j <= k)
    BY <1>1
  <2>2. Next1(j)
    BY <1>1, <1>2, <2>1
  <2>3. ASSUME NEW k \in 1..L, Next1(k) PROVE k = j
    <3>1. j <= k
      BY <1>2, <2>3
    <3>2. j < k => j \in 1..(k - 1)
      BY <1>1
    <3>3. b0[j].seq = 0
      BY <2>2
    <3> QED BY <1>1, <2>3, <3>1, <3>2, <3>3
  <2> QED BY <2>2, <2>3
<1>5. i = j
  <2> HIDE DEF Next1, b0, L
  <2>1. i \in DOMAIN b0 /\ Next1(i)
    BY <1>1, <1>4
  <2> QED BY <1>1, <1>4, <2>1
<1> HIDE DEF i, Next1
<1>6. b \in Seq(Entry) /\ DOMAIN b = 1..L /\ \A k \in 1..L : b[k].seq = IF k = j THEN roomSeq + 1 ELSE b0[k].seq
  <2> DEFINE e == [b0[j] EXCEPT !.seq = roomSeq + 1]
  <2>1. b0[j] \in Entry
    BY <1>1, ElementOfSeq
  <2>2. e \in Entry /\ e.seq = roomSeq + 1
    BY <1>1, <2>1 DEF Entry
  <2>3. b = [b0 EXCEPT ![j] = e]
    BY <1>5
  <2> HIDE DEF e, b, b0
  <2>4. b \in Seq(Entry) /\ Len(b) = L
    BY <1>1, <2>2, <2>3, ExceptSeq
  <2>5. DOMAIN b = 1..L /\ \A k \in 1..L : b[k] = IF k = j THEN e ELSE b0[k]
    BY <1>1, <2>3
  <2> QED BY <2>2, <2>4, <2>5
<1> HIDE DEF b
<1>7. InTurn(b, l)
  <2>1. CASE j = L
    <3>1. \A k \in 1..L : b[k].seq # 0
      <4> TAKE k \in 1..L
      <4>1. k # j => ~(j <= k)
        BY <1>1, <2>1
      <4>2. roomSeq + 1 # 0
        BY <1>1
      <4> QED BY <1>2, <1>6, <4>1, <4>2
    <3> QED BY <1>5, <1>6, <2>1, <3>1 DEF InTurn
  <2>2. CASE j # L
    <3>1. j + 1 \in 1..L
      BY <1>1, <2>2
    <3>2. \A k \in 1..L : b[k].seq = 0 <=> j + 1 <= k
      <4> TAKE k \in 1..L
      <4>1. CASE k = j
        BY <1>1, <1>6, <4>1
      <4>2. CASE k # j
        <5>1. j <= k <=> j + 1 <= k
          BY <1>1, <4>2
        <5> QED BY <1>2, <1>6, <4>2, <5>1
      <4> QED BY <4>1, <4>2
    <3> QED BY <1>5, <1>6, <2>2, <3>1, <3>2 DEF InTurn
  <2> QED BY <2>1, <2>2
<1> QED BY <1>3, <1>6, <1>7 DEF Labels

\* The batches stay numbered in turn.
LEMMA BatchStep ==
  ASSUME IngestTypes, BatchTypes, NumberedInTurn, HistTypes, [Next]_vars
  PROVE  BatchTypes' /\ NumberedInTurn'
<1> DEFINE Goal == BatchTypes' /\ NumberedInTurn'
<1>0. /\ roomSeq \in Nat /\ handle \in [Pushers -> Nat] /\ pc \in [Pushers -> Labels]
      /\ \A w \in Pushers : batch[w] \in Seq(Entry) /\ DOMAIN batch[w] = 1..Len(batch[w]) /\ Len(batch[w]) \in Nat
      /\ Workers \subseteq Pushers /\ Sub \in Pushers
  BY LenProperties DEF BatchTypes, Pushers
<1>1. ASSUME NEW w \in Pushers, NEW b \in Seq(Entry), NEW l \in Labels, InTurn(b, l), roomSeq' \in Nat,
             batch' = [batch EXCEPT ![w] = b], pc' = [pc EXCEPT ![w] = l], handle' \in [Pushers -> Nat]
      PROVE  Goal
  <2>1. batch' \in [Pushers -> Seq(Entry)] /\ pc' \in [Pushers -> Labels] /\ NumberedInTurn'
    BY <1>1, MoveInTurn
  <2> QED BY <1>1, <2>1 DEF BatchTypes
<1>2. ASSUME NEW w \in Pushers, NEW l \in Labels, InTurn(batch[w], l), roomSeq' \in Nat,
             batch' = batch, pc' = [pc EXCEPT ![w] = l], handle' \in [Pushers -> Nat]
      PROVE  Goal
  <2>1. batch' = [batch EXCEPT ![w] = batch[w]]
    BY <1>2 DEF BatchTypes
  <2> HIDE DEF Goal
  <2> QED BY <1>0, <1>1, <1>2, <2>1
<1>3. ASSUME UNCHANGED <<roomSeq, batch, handle, pc>> PROVE Goal
  BY <1>3 DEF BatchTypes, NumberedInTurn
<1>4. ASSUME NEW w \in Pushers, pc' = [pc EXCEPT ![w] = "select"] \/ pc' = [pc EXCEPT ![w] = "exited"],
             batch' = [batch EXCEPT ![w] = <<>>], UNCHANGED <<roomSeq, handle>>
      PROVE  Goal
  <2> DEFINE b == <<>>
  <2>1. b \in Seq(Entry) /\ InTurn(b, "select") /\ InTurn(b, "exited")
    BY DEF InTurn
  <2> HIDE DEF Goal, b
  <2> QED BY <1>0, <1>1, <1>4, <2>1 DEF Labels, b
<1>5. ASSUME NEW w \in Pushers, InTurn(batch[w], "high"), NextRound(w), UNCHANGED <<roomSeq, handle>> PROVE Goal
  <2>1. CASE pc[w] \in {"normal", "sendNormal"}
    <3>1. batch' = batch /\ pc' = [pc EXCEPT ![w] = "high"]
      BY <1>5, <2>1 DEF NextRound, Goto
    <3> HIDE DEF Goal
    <3> QED BY <1>0, <1>2, <1>5, <3>1 DEF Labels
  <2>2. CASE pc[w] \notin {"normal", "sendNormal"}
    <3>1. /\ pc' = [pc EXCEPT ![w] = "select"] \/ pc' = [pc EXCEPT ![w] = "exited"]
          /\ batch' = [batch EXCEPT ![w] = <<>>]
      BY <1>5, <2>2 DEF NextRound, Goto
    <3> HIDE DEF Goal
    <3> QED BY <1>4, <1>5, <3>1
  <2> QED BY <2>1, <2>2
<1>6. ASSUME NEW w \in Workers, Receive(w) PROVE Goal
  <2> DEFINE e == Unnumbered(Head(msgQueue))
             b == Append(batch[w], e)
             l == IF Len(batch[w]) + 1 >= BatchMax THEN "number" ELSE "select"
  <2>1. e \in Entry /\ e.seq = 0
    <3>1. Head(msgQueue) \in Msgs
      BY <1>6, TailToSet DEF Receive, IngestTypes
    <3> QED BY <3>1 DEF Unnumbered, Entry
  <2>2. pc[w] = "select" /\ batch' = [batch EXCEPT ![w] = b] /\ pc' = [pc EXCEPT ![w] = l] /\ UNCHANGED <<roomSeq, handle>>
    BY <1>6 DEF Receive, Goto
  <2>3. \A i \in DOMAIN batch[w] : batch[w][i].seq = 0
    BY <1>0, <2>2 DEF NumberedInTurn, InTurn
  <2> HIDE DEF e
  <2>4. /\ b \in Seq(Entry) /\ DOMAIN b = 1..(Len(batch[w]) + 1) /\ b[Len(batch[w]) + 1] = e
        /\ \A i \in DOMAIN batch[w] : b[i] = batch[w][i]
    BY <1>0, <2>1, AppendPlaces
  <2>5. \A i \in DOMAIN b : b[i].seq = 0
    <3> HIDE DEF b
    <3> TAKE i \in DOMAIN b
    <3>1. i \in DOMAIN batch[w] \/ i = Len(batch[w]) + 1
      BY <1>0, <2>4
    <3> QED BY <2>1, <2>3, <2>4, <3>1
  <2>6. 1 \in DOMAIN b /\ \A i \in DOMAIN b : 1 <= i
    <3> HIDE DEF b
    <3> QED BY <1>0, <2>4
  <2> HIDE DEF b
  <2>7. InTurn(b, "select") /\ InTurn(b, "number")
    BY <2>5, <2>6 DEF InTurn
  <2>8. l \in Labels /\ InTurn(b, l)
    BY <2>7 DEF Labels
  <2> HIDE DEF l, Goal
  <2> QED BY <1>0, <1>1, <2>2, <2>4, <2>8
<1>7. ASSUME NEW w \in Workers, FlushTimer(w) \/ Drained(w) PROVE Goal
  <2>1. /\ pc[w] = "select" /\ UNCHANGED <<batch, roomSeq, handle>>
        /\ \/ batch[w] # <<>> /\ pc' = [pc EXCEPT ![w] = "number"]
           \/ pc' = [pc EXCEPT ![w] = "exited"]
    BY <1>7 DEF FlushTimer, Drained, Goto
  <2>2. InTurn(batch[w], "exited")
    BY DEF InTurn
  <2>3. ASSUME batch[w] # <<>> PROVE InTurn(batch[w], "number")
    <3>1. 1 \in DOMAIN batch[w] /\ \A i \in DOMAIN batch[w] : 1 <= i
      <4>1. Len(batch[w]) # 0
        BY <1>0, <2>3, EmptySeq
      <4> QED BY <1>0, <4>1
    <3>2. \A i \in DOMAIN batch[w] : batch[w][i].seq = 0
      BY <1>0, <2>1 DEF NumberedInTurn, InTurn
    <3> QED BY <3>1, <3>2 DEF InTurn
  <2> HIDE DEF Goal
  <2> QED BY <1>0, <1>2, <2>1, <2>2, <2>3 DEF Labels
<1>8. ASSUME NEW w \in Pushers, Number(w) PROVE Goal
  <2>1. PICK b \in Seq(Entry), l \in Labels :
           InTurn(b, l) /\ batch' = [batch EXCEPT ![w] = b] /\ pc' = [pc EXCEPT ![w] = l]
    BY <1>8, NumberNext
  <2>2. roomSeq' \in Nat /\ handle' \in [Pushers -> Nat]
    BY <1>0, <1>8 DEF Number
  <2> HIDE DEF Goal
  <2> QED BY <1>1, <2>1, <2>2
<1>9. ASSUME NEW w \in Pushers, GetOrCreate(w) PROVE Goal
  <2>1. InTurn(batch[w], "append")
    BY <1>0, <1>9 DEF GetOrCreate, NumberedInTurn, InTurn
  <2>2. cur' \in Nat
    <3>1. Len(rings) \in Nat /\ cur \in Nat
      BY LenProperties DEF HistTypes
    <3> QED BY <1>9, <3>1 DEF GetOrCreate
  <2>3. /\ batch' = batch /\ pc' = [pc EXCEPT ![w] = "append"] /\ roomSeq' = roomSeq
        /\ handle' = [handle EXCEPT ![w] = cur']
    BY <1>9 DEF GetOrCreate, Goto
  <2>4. handle' \in [Pushers -> Nat]
    BY <1>0, <2>2, <2>3
  <2> HIDE DEF Goal
  <2> QED BY <1>0, <1>2, <2>1, <2>3, <2>4 DEF Labels
<1>10. ASSUME NEW w \in Pushers, AppendBatch(w) PROVE Goal
  <2>1. InTurn(batch[w], "normal")
    BY <1>0, <1>10 DEF AppendBatch, NumberedInTurn, InTurn
  <2>2. batch' = batch /\ pc' = [pc EXCEPT ![w] = "normal"] /\ roomSeq' = roomSeq /\ handle' = handle
    BY <1>10 DEF AppendBatch, Goto
  <2> HIDE DEF Goal
  <2> QED BY <1>0, <1>2, <2>1, <2>2 DEF Labels
<1>11. ASSUME NEW w \in Pushers, SnapshotRoom(w) PROVE Goal
  <2>1. /\ InTurn(batch[w], "high") /\ InTurn(batch[w], "sendNormal") /\ InTurn(batch[w], "sendHigh")
    BY <1>0, <1>11 DEF SnapshotRoom, NumberedInTurn, InTurn
  <2>2. UNCHANGED <<roomSeq, handle>>
    BY <1>11 DEF SnapshotRoom
  <2>3. CASE NextRound(w)
    <3> HIDE DEF Goal
    <3> QED BY <1>5, <2>1, <2>2, <2>3
  <2>4. CASE /\ pc' = [pc EXCEPT ![w] = "sendNormal"] \/ pc' = [pc EXCEPT ![w] = "sendHigh"]
             /\ batch' = batch
    <3> HIDE DEF Goal
    <3> QED BY <1>0, <1>2, <2>1, <2>2, <2>4 DEF Labels
  <2> QED BY <1>11, <2>3, <2>4 DEF SnapshotRoom, Goto
<1>12. ASSUME NEW w \in Pushers, NEW c \in targets[w], SendTo(w, c) PROVE Goal
  <2>1. InTurn(batch[w], "high") /\ UNCHANGED <<roomSeq, handle>>
    BY <1>0, <1>12 DEF SendTo, NumberedInTurn, InTurn
  <2>2. NextRound(w) \/ UNCHANGED <<pc, batch>>
    BY <1>12 DEF SendTo
  <2> HIDE DEF Goal
  <2> QED BY <1>3, <1>5, <2>1, <2>2
<1>13. ASSUME NEW m \in RemoteMsgs, NEW s \in RemoteSeqs, HandleIncoming(m, s) PROVE Goal
  <2> DEFINE e == [msg |-> m, seq |-> s]
             b == <<e>>
  <2>1. e \in Entry /\ e.seq # 0
    BY RoomAssumption DEF Entry
  <2> HIDE DEF e
  <2>2. b \in Seq(Entry) /\ (\A i \in DOMAIN b : b[i] = e) /\ 1 \in DOMAIN b
    BY <2>1
  <2> HIDE DEF b
  <2>3. InTurn(b, "adopt")
    BY <2>1, <2>2 DEF InTurn
  <2>4. /\ UNCHANGED <<roomSeq, handle>>
        /\ \/ batch' = [batch EXCEPT ![Sub] = b] /\ pc' = [pc EXCEPT ![Sub] = "adopt"]
           \/ UNCHANGED <<batch, pc>>
    BY <1>13 DEF HandleIncoming, Goto, b, e
  <2> HIDE DEF Goal
  <2> QED BY <1>0, <1>1, <1>3, <2>2, <2>3, <2>4 DEF Labels
<1>14. ASSUME AdoptRoomSeq PROVE Goal
  <2>1. InTurn(batch[Sub], "attach") /\ pc[Sub] = "adopt"
    BY <1>0, <1>14 DEF AdoptRoomSeq, NumberedInTurn, InTurn
  <2>2. roomSeq' \in Nat
    <3> DEFINE s == batch[Sub][1].seq
    <3>1. (roomSeq' = s /\ s > roomSeq) \/ roomSeq' = roomSeq
      BY <1>14 DEF AdoptRoomSeq
    <3>2. s \in Nat
      <4>1. 1 \in DOMAIN batch[Sub]
        BY <1>0, <2>1 DEF NumberedInTurn, InTurn
      <4>2. batch[Sub][1] \in Entry
        BY <1>0, <4>1, ElementOfSeq
      <4> QED BY <4>2 DEF Entry
    <3> QED BY <1>0, <3>1, <3>2
  <2>3. batch' = batch /\ pc' = [pc EXCEPT ![Sub] = "attach"] /\ handle' = handle
    BY <1>14 DEF AdoptRoomSeq, Goto
  <2> HIDE DEF Goal
  <2> QED BY <1>0, <1>2, <2>1, <2>2, <2>3 DEF Labels
<1>15. CASE CloseRoomSeqs
  BY <1>15 DEF CloseRoomSeqs, BatchTypes, NumberedInTurn
<1>16. ASSUME Sweep \/ CloseRoomHist \/ (\E h \in DOMAIN rings : TTLPasses(h)) \/ (\E c \in Conns : ReplayFrom(c))
       PROVE  UNCHANGED <<roomSeq, batch, handle, pc>>
  BY <1>16 DEF Sweep, CloseRoomHist, TTLPasses, ReplayFrom, pushVars
<1>17. ASSUME UNCHANGED ringVars PROVE UNCHANGED <<roomSeq, batch, handle, pc>>
  BY <1>17 DEF ringVars
<1> HIDE DEF Goal
<1>18. Goal
  BY <1>3, <1>6, <1>7, <1>8, <1>9, <1>10, <1>11, <1>12, <1>13, <1>14, <1>15, <1>16, <1>17, RingSteps
     DEF FlushStep, Goal
<1> QED BY <1>18 DEF Goal

\* What ReplayFrom walks over are entries.
LEMMA ContentsSeq ==
  ASSUME NEW S, NEW r, RingSound(r, S)
  PROVE  Contents(r) \in Seq(S) /\ Len(Contents(r)) = r.count /\ DOMAIN Contents(r) = 1..r.count
<1> USE HistMaxAssumption
<1> DEFINE en == r.entries
           L == Len(r.entries)
<1>1. /\ en \in Seq(S) /\ L \in Nat /\ DOMAIN en = 1..L /\ r.count \in Nat /\ r.head \in Nat
      /\ r.count <= L /\ L <= HistMax /\ r.head < HistMax /\ (r.count < HistMax => r.head = 0)
  BY LenProperties DEF RingSound, Rings
<1>2. ASSUME NEW i \in 1..r.count PROVE en[((r.head + i - 1) % HistMax) + 1] \in S
  <2> DEFINE x == r.head + i - 1
             t == x % HistMax
  <2>1. x \in Nat /\ x < 2 * HistMax
    BY <1>1
  <2>2. t = IF x < HistMax THEN x ELSE x - HistMax
    <3> HIDE DEF x
    <3> QED BY <2>1, RingTurn
  <2> HIDE DEF t
  <2>3. t + 1 \in 1..L
    <3> DEFINE a == r.head
               n == r.count
    <3>1. /\ a \in Nat /\ n \in Nat /\ n <= L /\ L \in Nat /\ L <= HistMax /\ a < HistMax
          /\ (n < HistMax => a = 0) /\ i \in 1..n /\ x = (a + i) - 1
      BY <1>1
    <3> HIDE DEF a, n, L, x
    <3>2. CASE n < HistMax
      BY <2>2, <3>1, <3>2
    <3>3. CASE n = HistMax
      BY <2>1, <2>2, <3>1, <3>3
    <3> QED BY <3>1, <3>2, <3>3
  <2>4. en[t + 1] \in S
    BY <1>1, <2>3, ElementOfSeq
  <2> QED BY <2>4 DEF t
<1>3. Contents(r) = [i \in 1..r.count |-> en[((r.head + i - 1) % HistMax) + 1]]
  BY DEF Contents
<1>4. Contents(r) \in [1..r.count -> S]
  BY <1>2, <1>3
<1> HIDE DEF en, L
<1> QED BY <1>1, <1>4

\* An emptied ring holds nothing.
LEMMA NothingHeld ==
  ASSUME NEW S, NEW r, RingSound(r, S), r.count = 0
  PROVE  Contents(r) = <<>>
<1>1. Contents(r) \in Seq(S) /\ Len(Contents(r)) = 0
  BY ContentsSeq
<1> QED BY <1>1, EmptySeq

\* A histRoom gets a new state and its history follows.
LEMMA SetRing ==
  ASSUME HistTypes, RingsSound, RingIsRecent, NEW h \in DOMAIN rings, NEW r, RingSound(r, Entry),
         NEW k, Contents(r) = k, rings' = [rings EXCEPT ![h] = r], kept' = [kept EXCEPT ![h] = k]
  PROVE  /\ rings' \in Seq(Rings(Entry)) /\ kept' \in Seq(Seq(Entry))
         /\ Len(rings') = Len(rings) /\ Len(kept') = Len(rings) /\ DOMAIN rings' = DOMAIN rings
         /\ RingsSound' /\ RingIsRecent'
<1>1. /\ rings \in Seq(Rings(Entry)) /\ kept \in Seq(Seq(Entry)) /\ Len(kept) = Len(rings) /\ Len(rings) \in Nat
      /\ DOMAIN rings = 1..Len(rings) /\ DOMAIN kept = 1..Len(rings)
  BY LenProperties DEF HistTypes
<1>2. r \in Rings(Entry) /\ k \in Seq(Entry)
  BY ContentsSeq DEF RingSound
<1>3. /\ rings' \in Seq(Rings(Entry)) /\ Len(rings') = Len(rings) /\ DOMAIN rings' = DOMAIN rings
      /\ \A g \in DOMAIN rings : rings'[g] = IF g = h THEN r ELSE rings[g]
  BY <1>1, <1>2, ExceptSeq
<1>4. /\ kept' \in Seq(Seq(Entry)) /\ Len(kept') = Len(rings)
      /\ \A g \in DOMAIN rings : kept'[g] = IF g = h THEN k ELSE kept[g]
  BY <1>1, <1>2, ExceptSeq
<1>5. RingsSound'
  BY <1>3 DEF RingsSound
<1>6. RingIsRecent'
  BY <1>3, <1>4 DEF RingIsRecent
<1> QED BY <1>3, <1>4, <1>5, <1>6

\* Emptying a histRoom that may not be there any more.
LEMMA EmptyRing ==
  ASSUME HistTypes, RingsSound, RingIsRecent, NEW h, Empty(h)
  PROVE  /\ rings' \in Seq(Rings(Entry)) /\ kept' \in Seq(Seq(Entry))
         /\ Len(rings') = Len(rings) /\ Len(kept') = Len(rings) /\ DOMAIN rings' = DOMAIN rings
         /\ RingsSound' /\ RingIsRecent'
<1>1. CASE h \in DOMAIN rings
  <2> DEFINE r == Reset(rings[h])
  <2>1. RingSound(r, Entry) /\ r.count = 0
    BY <1>1, ResetSound DEF RingsSound
  <2>2. Contents(r) = <<>>
    BY <2>1, NothingHeld
  <2>3. rings' = [rings EXCEPT ![h] = r] /\ kept' = [kept EXCEPT ![h] = <<>>]
    BY DEF Empty
  <2> HIDE DEF r
  <2> QED BY <1>1, <2>1, <2>2, <2>3, SetRing
<1>2. CASE h \notin DOMAIN rings
  <2>1. DOMAIN rings = DOMAIN kept
    BY LenProperties DEF HistTypes
  <2>2. rings' = rings /\ kept' = kept
    BY <1>2, <2>1 DEF Empty, HistTypes
  <2> QED BY <2>2 DEF HistTypes, RingsSound, RingIsRecent
<1> QED BY <1>1, <1>2

\* The batch is appended to the histRoom the pusher holds.
LEMMA AppendRing ==
  ASSUME BatchTypes, NumberedInTurn, HistTypes, RingsSound, RingIsRecent, NEW w \in Pushers, AppendBatch(w)
  PROVE  /\ rings' \in Seq(Rings(Entry)) /\ kept' \in Seq(Seq(Entry))
         /\ Len(rings') = Len(rings) /\ Len(kept') = Len(rings) /\ DOMAIN rings' = DOMAIN rings
         /\ RingsSound' /\ RingIsRecent'
<1> DEFINE h == handle[w]
           r == rings[h]
           b == batch[w]
           k == IF Expired(r) THEN <<>> ELSE kept[h]
           p == PushAll(r, b)
           q == LastOf(k \o b)
<1>1. pc[w] = "append" /\ h \in DOMAIN rings /\ RingSound(r, Entry) /\ Contents(r) = kept[h]
  BY DEF AppendBatch, HistTypes, RingsSound, RingIsRecent
<1>2. b \in Seq(Entry) /\ \A i \in DOMAIN b : b[i].seq # 0
  BY <1>1 DEF BatchTypes, NumberedInTurn, InTurn
<1>3. rings' = [rings EXCEPT ![h] = p] /\ kept' = [kept EXCEPT ![h] = q]
  BY DEF AppendBatch
<1>4. \A x \in Entry : x.seq \in Nat
  BY DEF Entry
<1> HIDE DEF r, b, h
<1>5. k \in Seq(Entry) /\ k = Contents(IF Expired(r) THEN Reset(r) ELSE r)
  <2>1. CASE Expired(r)
    <3>1. Contents(Reset(r)) = <<>>
      BY <1>1, ResetSound, NothingHeld
    <3>2. <<>> \in Seq(Entry)
      OBVIOUS
    <3> QED BY <2>1, <3>1, <3>2, Zenon
  <2>2. CASE ~Expired(r)
    BY <1>1, <2>2, ContentsSeq
  <2> QED BY <2>1, <2>2
<1> HIDE DEF k
<1>6. RingSound(p, Entry) /\ Contents(p) = q
  BY <1>1, <1>2, <1>4, <1>5, PushAllRecent
<1> HIDE DEF p, q
<1> QED BY <1>1, <1>3, <1>6, SetRing

\* A pusher that moves elsewhere than to its append still holds no room it could lose.
LEMMA HandlesStay ==
  ASSUME BatchTypes, HistTypes, NEW w \in Pushers, NEW l, l # "append", pc' = [pc EXCEPT ![w] = l],
         UNCHANGED <<handle, rings, kept, cur>>
  PROVE  HistTypes'
<1>1. \A u \in Pushers : pc'[u] = "append" => pc[u] = "append"
  BY DEF BatchTypes
<1> QED BY <1>1 DEF HistTypes

\* Every history stays a sound ring that holds exactly the last HistMax entries kept in it.
LEMMA HistStep ==
  ASSUME RingInv, [Next]_vars
  PROVE  HistTypes' /\ RingsSound' /\ RingIsRecent'
<1> DEFINE Goal == HistTypes' /\ RingsSound' /\ RingIsRecent'
<1>0. /\ BatchTypes /\ NumberedInTurn /\ HistTypes /\ RingsSound /\ RingIsRecent
      /\ cur \in 0..Len(rings) /\ Len(rings) \in Nat /\ DOMAIN rings = 1..Len(rings)
  BY LenProperties DEF RingInv, HistTypes
<1>1. ASSUME UNCHANGED <<rings, kept>>, HistTypes' PROVE Goal
  BY <1>0, <1>1 DEF RingsSound, RingIsRecent
<1>2. ASSUME /\ rings' \in Seq(Rings(Entry)) /\ kept' \in Seq(Seq(Entry))
             /\ Len(rings') = Len(rings) /\ Len(kept') = Len(rings) /\ DOMAIN rings' = DOMAIN rings
             /\ RingsSound' /\ RingIsRecent',
             cur' = cur \/ cur' = 0, handle' = handle,
             \A u \in Pushers : pc'[u] = "append" => pc[u] = "append"
      PROVE  Goal
  BY <1>0, <1>2 DEF HistTypes
<1>3. ASSUME NEW w \in Pushers, NEW l, l # "append", pc' = [pc EXCEPT ![w] = l],
             UNCHANGED <<handle, rings, kept, cur>>
      PROVE  Goal
  BY <1>0, <1>1, <1>3, HandlesStay
<1>4. ASSUME UNCHANGED <<pc, handle, rings, kept, cur>> PROVE Goal
  BY <1>0, <1>4 DEF HistTypes, RingsSound, RingIsRecent
<1>5. ASSUME NEW w \in Pushers, NextRound(w), UNCHANGED <<handle, rings, kept, cur>> PROVE Goal
  <2>1. \E l : l # "append" /\ pc' = [pc EXCEPT ![w] = l]
    BY <1>5 DEF NextRound, Goto
  <2> HIDE DEF Goal
  <2> QED BY <1>3, <1>5, <2>1
<1>6. ASSUME NEW w \in Workers, Receive(w) \/ FlushTimer(w) \/ Drained(w) PROVE Goal
  <2>1. w \in Pushers /\ (\E l : l # "append" /\ pc' = [pc EXCEPT ![w] = l]) /\ UNCHANGED <<handle, rings, kept, cur>>
    BY <1>6 DEF Receive, FlushTimer, Drained, Goto, histVars, Pushers
  <2> HIDE DEF Goal
  <2> QED BY <1>3, <2>1
<1>7. ASSUME NEW w \in Pushers, Number(w) PROVE Goal
  <2>1. (\E l : l # "append" /\ pc' = [pc EXCEPT ![w] = l]) /\ UNCHANGED <<handle, rings, kept, cur>>
    BY <1>7 DEF Number, Goto, histVars
  <2> HIDE DEF Goal
  <2> QED BY <1>3, <2>1
<1>8. ASSUME NEW w \in Pushers, GetOrCreate(w) PROVE Goal
  <2>1. /\ handle' = [handle EXCEPT ![w] = cur'] /\ pc' = [pc EXCEPT ![w] = "append"]
        /\ handle \in [Pushers -> Nat] /\ pc \in [Pushers -> Labels]
    BY <1>0, <1>8 DEF GetOrCreate, Goto, BatchTypes
  <2>2. \A u \in Pushers : handle'[u] = (IF u = w THEN cur' ELSE handle[u]) /\ (u # w => pc'[u] = pc[u])
    BY <2>1
  <2>3. CASE cur # 0
    <3>1. UNCHANGED <<rings, cur, kept>>
      BY <1>8, <2>3 DEF GetOrCreate
    <3>2. cur \in DOMAIN rings
      BY <1>0, <2>3
    <3>3. HistTypes'
      BY <1>0, <2>2, <3>1, <3>2 DEF HistTypes
    <3> QED BY <1>1, <3>1, <3>3
  <2>4. CASE cur = 0
    <3> DEFINE n == Len(rings) + 1
               e == <<>>
    <3>1. rings' = Append(rings, NewRing) /\ cur' = n /\ kept' = Append(kept, <<>>)
      BY <1>8, <2>4 DEF GetOrCreate
    <3>2. RingSound(NewRing, Entry) /\ NewRing.count = 0
      BY HistMaxAssumption DEF RingSound, Rings, NewRing
    <3>3. Contents(NewRing) = <<>> /\ NewRing \in Rings(Entry)
      BY <3>2, NothingHeld DEF RingSound
    <3>4. e \in Seq(Entry)
      OBVIOUS
    <3>5. rings \in Seq(Rings(Entry)) /\ kept \in Seq(Seq(Entry)) /\ Len(kept) = Len(rings)
      BY <1>0 DEF HistTypes
    <3>6. /\ rings' \in Seq(Rings(Entry)) /\ Len(rings') = n /\ DOMAIN rings' = 1..n /\ rings'[n] = NewRing
          /\ \A g \in DOMAIN rings : rings'[g] = rings[g]
      BY <3>1, <3>3, <3>5, AppendPlaces
    <3>7. /\ kept' \in Seq(Seq(Entry)) /\ Len(kept') = n /\ kept'[n] = <<>>
          /\ \A g \in DOMAIN rings : kept'[g] = kept[g]
      <4> HIDE DEF e
      <4>1. kept' = Append(kept, e) /\ DOMAIN kept = DOMAIN rings
        BY <1>0, <3>1, <3>5, LenProperties DEF e
      <4>2. /\ kept' \in Seq(Seq(Entry)) /\ Len(kept') = n /\ kept'[n] = e
            /\ \A g \in DOMAIN kept : kept'[g] = kept[g]
        BY <3>4, <3>5, <4>1, AppendPlaces
      <4> QED BY <4>1, <4>2 DEF e
    <3>8. DOMAIN rings' = DOMAIN rings \cup {n} /\ n \in Nat
      BY <1>0, <3>6
    <3> HIDE DEF n
    <3>9. RingsSound' /\ RingIsRecent'
      BY <1>0, <3>2, <3>3, <3>6, <3>7, <3>8 DEF RingsSound, RingIsRecent
    <3>10. \A u \in Pushers : pc'[u] = "append" => handle'[u] \in DOMAIN rings'
      BY <1>0, <2>2, <3>1, <3>8 DEF HistTypes
    <3>11. cur' \in 0..Len(rings')
      BY <3>1, <3>6, <3>8
    <3> QED BY <3>6, <3>7, <3>9, <3>10, <3>11 DEF HistTypes
  <2> QED BY <2>3, <2>4
<1>9. ASSUME NEW w \in Pushers, AppendBatch(w) PROVE Goal
  <2>1. /\ rings' \in Seq(Rings(Entry)) /\ kept' \in Seq(Seq(Entry))
        /\ Len(rings') = Len(rings) /\ Len(kept') = Len(rings) /\ DOMAIN rings' = DOMAIN rings
        /\ RingsSound' /\ RingIsRecent'
    BY <1>0, <1>9, AppendRing
  <2>2. cur' = cur /\ handle' = handle /\ pc' = [pc EXCEPT ![w] = "normal"]
    BY <1>9 DEF AppendBatch, Goto
  <2>3. \A u \in Pushers : pc'[u] = "append" => pc[u] = "append"
    BY <1>0, <2>2 DEF BatchTypes
  <2> HIDE DEF Goal
  <2> QED BY <1>2, <2>1, <2>2, <2>3
<1>10. ASSUME NEW w \in Pushers, SnapshotRoom(w) \/ \E c \in targets[w] : SendTo(w, c) PROVE Goal
  <2>1. /\ UNCHANGED <<handle, rings, kept, cur>>
        /\ \/ NextRound(w) \/ UNCHANGED pc
           \/ \E l : l # "append" /\ pc' = [pc EXCEPT ![w] = l]
    BY <1>10 DEF SnapshotRoom, SendTo, Goto, histVars
  <2> HIDE DEF Goal
  <2> QED BY <1>3, <1>4, <1>5, <2>1
<1>11. ASSUME (\E m \in RemoteMsgs, s \in RemoteSeqs : HandleIncoming(m, s)) \/ AdoptRoomSeq PROVE Goal
  <2>1. /\ UNCHANGED <<handle, rings, kept, cur>> /\ Sub \in Pushers
        /\ UNCHANGED pc \/ \E l : l # "append" /\ pc' = [pc EXCEPT ![Sub] = l]
    BY <1>11 DEF HandleIncoming, AdoptRoomSeq, Goto, histVars, Pushers
  <2> HIDE DEF Goal
  <2> QED BY <1>3, <1>4, <2>1
<1>12. ASSUME Sweep PROVE Goal
  <2>1. Empty(cur) /\ cur' = 0 /\ UNCHANGED <<pc, handle>>
    BY <1>12 DEF Sweep, pushVars
  <2>2. /\ rings' \in Seq(Rings(Entry)) /\ kept' \in Seq(Seq(Entry))
        /\ Len(rings') = Len(rings) /\ Len(kept') = Len(rings) /\ DOMAIN rings' = DOMAIN rings
        /\ RingsSound' /\ RingIsRecent'
    BY <1>0, <2>1, EmptyRing
  <2> HIDE DEF Goal
  <2> QED BY <1>2, <2>1, <2>2
<1>13. ASSUME NEW c \in Conns, ReplayFrom(c) PROVE Goal
  <2>1. (Empty(view[c]) \/ UNCHANGED <<rings, kept>>) /\ UNCHANGED <<pc, handle, cur>>
    BY <1>13 DEF ReplayFrom, pushVars
  <2>2. ASSUME Empty(view[c])
        PROVE /\ rings' \in Seq(Rings(Entry)) /\ kept' \in Seq(Seq(Entry))
              /\ Len(rings') = Len(rings) /\ Len(kept') = Len(rings) /\ DOMAIN rings' = DOMAIN rings
              /\ RingsSound' /\ RingIsRecent'
    BY <1>0, <2>2, EmptyRing
  <2> HIDE DEF Goal
  <2> QED BY <1>2, <1>4, <2>1, <2>2
<1>14. ASSUME NEW h \in DOMAIN rings, TTLPasses(h) PROVE Goal
  <2> DEFINE r == rings[h]
             p == [r EXCEPT !.stale = TRUE]
  <2>1. rings' = [rings EXCEPT ![h] = p] /\ UNCHANGED <<pc, handle, cur, kept>>
    BY <1>14 DEF TTLPasses, pushVars
  <2>2. RingSound(r, Entry) /\ Contents(r) = kept[h]
    BY <1>0 DEF RingsSound, RingIsRecent
  <2> HIDE DEF r
  <2>3. RingSound(p, Entry) /\ p.entries = r.entries /\ p.head = r.head /\ p.count = r.count
    BY <2>2 DEF RingSound, Rings
  <2>4. Contents(p) = kept[h]
    BY <2>2, <2>3 DEF Contents
  <2>5. kept' = [kept EXCEPT ![h] = kept[h]]
    BY <1>0, <2>1 DEF HistTypes
  <2> HIDE DEF p
  <2>6. /\ rings' \in Seq(Rings(Entry)) /\ kept' \in Seq(Seq(Entry))
        /\ Len(rings') = Len(rings) /\ Len(kept') = Len(rings) /\ DOMAIN rings' = DOMAIN rings
        /\ RingsSound' /\ RingIsRecent'
    BY <1>0, <2>1, <2>3, <2>4, <2>5, SetRing
  <2> HIDE DEF Goal
  <2> QED BY <1>2, <2>1, <2>6
<1>15. ASSUME CloseRoomHist PROVE Goal
  <2>1. UNCHANGED <<pc, handle, rings, kept>> /\ cur' = 0
    BY <1>15 DEF CloseRoomHist, pushVars
  <2>2. HistTypes'
    BY <1>0, <2>1 DEF HistTypes
  <2> QED BY <1>1, <2>1, <2>2
<1>16. ASSUME CloseRoomSeqs PROVE Goal
  <2>1. UNCHANGED <<pc, handle, rings, kept, cur>>
    BY <1>16 DEF CloseRoomSeqs, histVars
  <2> HIDE DEF Goal
  <2> QED BY <1>4, <2>1
<1>17. ASSUME UNCHANGED ringVars PROVE Goal
  <2>1. UNCHANGED <<pc, handle, rings, kept, cur>>
    BY <1>17 DEF ringVars
  <2> HIDE DEF Goal
  <2> QED BY <1>4, <2>1
<1> HIDE DEF Goal
<1>18. Goal
  BY <1>6, <1>7, <1>8, <1>9, <1>10, <1>11, <1>12, <1>13, <1>14, <1>15, <1>16, <1>17, RingSteps DEF FlushStep
<1> QED BY <1>18 DEF Goal

\* A sequence of one item.
LEMMA OneItem ==
  ASSUME NEW S, NEW x \in S
  PROVE  <<x>> \in Seq(S) /\ Len(<<x>>) = 1 /\ DOMAIN <<x>> = {1} /\ <<x>>[1] = x
  OBVIOUS

\* The histories begin empty, or with the last of the older danmu.
LEMMA RingStart ==
  ASSUME Init
  PROVE  RingInv
<1>1. PICK n \in Older :
        LET old == [i \in 1..n |-> [msg |-> None, seq |-> i]]
        IN  /\ roomSeq = n
            /\ rings = IF n = 0 THEN <<>> ELSE <<PushAll(NewRing, old)>>
            /\ kept = IF n = 0 THEN <<>> ELSE <<LastOf(old)>>
            /\ cur = Len(rings)
  BY DEF Init
<1> DEFINE old == [i \in 1..n |-> [msg |-> None, seq |-> i]]
           p == PushAll(NewRing, old)
           k == LastOf(old)
<1>2. n \in Nat
  BY RoomAssumption
<1>3. old \in Seq(Entry) /\ \A i \in DOMAIN old : old[i].seq # 0
  <2>1. \A i \in 1..n : [msg |-> None, seq |-> i] \in Entry
    BY <1>2 DEF Entry
  <2>2. old \in [1..n -> Entry]
    BY <2>1
  <2>3. \A i \in DOMAIN old : old[i].seq # 0
    BY <1>2
  <2> HIDE DEF old
  <2> QED BY <1>2, <2>2, <2>3
<1> HIDE DEF old
<1>4. BatchTypes /\ NumberedInTurn /\ \A w \in Pushers : pc[w] # "append"
  <2>1. batch = [w \in Pushers |-> <<>>] /\ pc = [w \in Pushers |-> "select"] /\ handle = [w \in Pushers |-> 0]
    BY DEF Init
  <2>2. BatchTypes
    BY <1>1, <1>2, <2>1 DEF BatchTypes, Labels
  <2>3. NumberedInTurn
    BY <2>1 DEF NumberedInTurn, InTurn
  <2> QED BY <2>1, <2>2, <2>3
<1>5. RingSound(p, Entry) /\ Contents(p) = k
  <2> DEFINE r == NewRing
             e == <<>>
  <2>1. RingSound(r, Entry) /\ r.count = 0 /\ ~Expired(r)
    BY HistMaxAssumption DEF RingSound, Rings, NewRing, Expired
  <2> HIDE DEF r
  <2>2. Contents(r) = e /\ e \in Seq(Entry) /\ e \o old = old
    BY <1>3, <2>1, NothingHeld
  <2>3. \A x \in Entry : x.seq \in Nat
    BY DEF Entry
  <2> HIDE DEF e
  <2>4. e = Contents(IF Expired(r) THEN Reset(r) ELSE r)
    BY <2>1, <2>2
  <2>5. RingSound(PushAll(r, old), Entry) /\ Contents(PushAll(r, old)) = LastOf(e \o old)
    BY <1>3, <2>1, <2>2, <2>3, <2>4, PushAllRecent
  <2> QED BY <2>2, <2>5 DEF r
<1>6. p \in Rings(Entry) /\ k \in Seq(Entry)
  BY <1>3, <1>5, LastOfPlaces DEF RingSound
<1>7. (n = 0 /\ rings = <<>> /\ kept = <<>>) \/ (n # 0 /\ rings = <<p>> /\ kept = <<k>>)
  BY <1>1 DEF old
<1> HIDE DEF p, k
<1>8. CASE rings = <<>> /\ kept = <<>>
  <2>1. HistTypes /\ RingsSound /\ RingIsRecent
    BY <1>1, <1>4, <1>8 DEF HistTypes, RingsSound, RingIsRecent
  <2> QED BY <1>4, <2>1 DEF RingInv
<1>9. CASE rings = <<p>> /\ kept = <<k>>
  <2>1. /\ rings \in Seq(Rings(Entry)) /\ kept \in Seq(Seq(Entry)) /\ Len(rings) = 1 /\ Len(kept) = 1
        /\ DOMAIN rings = {1} /\ rings[1] = p /\ kept[1] = k /\ cur = Len(rings)
    <3>1. cur = Len(rings)
      BY <1>1
    <3>2. <<p>> \in Seq(Rings(Entry)) /\ Len(<<p>>) = 1 /\ DOMAIN <<p>> = {1} /\ <<p>>[1] = p
      BY <1>6, OneItem
    <3>3. <<k>> \in Seq(Seq(Entry)) /\ Len(<<k>>) = 1 /\ <<k>>[1] = k
      BY <1>6, OneItem
    <3> QED BY <1>9, <3>1, <3>2, <3>3
  <2>2. HistTypes /\ RingsSound /\ RingIsRecent
    BY <1>4, <1>5, <2>1 DEF HistTypes, RingsSound, RingIsRecent
  <2> QED BY <1>4, <2>2 DEF RingInv
<1> QED BY <1>7, <1>8, <1>9

-----------------------------------------------------------------------------
(* Broadcasts and the reconnect replay *)

\* The variables that say what a viewer is offered.
streamVars == <<pc, batch, targets, completed, appended, kept, cur, live, cancelled, room, regQ, conns, viewVars>>

\* The steps that touch what a viewer is offered.
LEMMA StreamSteps ==
  ASSUME [Next]_vars
  PROVE  \/ \E w \in Workers : Receive(w) \/ FlushTimer(w) \/ Drained(w)
         \/ \E w \in Pushers : FlushStep(w)
         \/ \E m \in RemoteMsgs, s \in RemoteSeqs : HandleIncoming(m, s)
         \/ AdoptRoomSeq \/ Sweep \/ CloseRoomHist
         \/ \E v \in Viewers, s \in AfterSeqs : Connect(v, s)
         \/ \E c \in Conns : Exit(c) \/ ReplayLookup(c) \/ ReplayFrom(c)
         \/ AddClient \/ RemoveClient \/ CloseRoom \/ (\E v \in Viewers : KickClient(v))
         \/ CloseVictims \/ Shutdown
         \/ UNCHANGED streamVars
<1> USE DEF streamVars, pushVars, histVars, connVars
<1>1. ASSUME NEW r \in Readers, (\E m \in Msgs : MarkSeen(r, m)) \/ Enqueue(r) \/ QueueFull(r)
      PROVE  UNCHANGED streamVars
  BY <1>1 DEF MarkSeen, Enqueue, QueueFull
<1>2. ASSUME NEW m \in Msgs, Expire(m) PROVE UNCHANGED streamVars
  BY <1>2 DEF Expire
<1>3. ASSUME NEW w \in Workers, SeeCtxDone(w) PROVE UNCHANGED streamVars
  BY <1>3 DEF SeeCtxDone
<1>4. ASSUME NEW h \in DOMAIN rings, TTLPasses(h) PROVE UNCHANGED streamVars
  BY <1>4 DEF TTLPasses
<1>5. ASSUME CloseRoomSeqs \/ CloseRoomIdem PROVE UNCHANGED streamVars
  BY <1>5 DEF CloseRoomSeqs, CloseRoomIdem
<1>6. ASSUME UNCHANGED vars PROVE UNCHANGED streamVars
  BY <1>6 DEF vars
<1> HIDE DEF streamVars
<1> QED BY <1>1, <1>2, <1>3, <1>4, <1>5, <1>6 DEF Next, WorkerStep

\* The labels of a pusher in a broadcast.
Rounds == {"normal", "sendNormal", "high", "sendHigh"}

\* A pusher that is not in a broadcast before or after its step.
LEMMA QuietStep ==
  ASSUME NEW w \in Pushers, pc[w] \notin Rounds, pc'[w] \notin Rounds,
         \A u \in Pushers \ {w} : pc'[u] = pc[u] /\ batch'[u] = batch[u],
         targets' = targets, sendCh' = sendCh
  PROVE  OnTheWay' = OnTheWay /\ \A c, e : Reached(c, e) => Reached(c, e)'
<1>1. \A u \in Pushers : pc[u] \in Rounds <=> pc'[u] \in Rounds
  OBVIOUS
<1>2. \A u \in Pushers : pc[u] \in Rounds => batch'[u] = batch[u] /\ pc'[u] = pc[u]
  OBVIOUS
<1>3. OnTheWay' = OnTheWay
  BY <1>1, <1>2 DEF OnTheWay, Entries, Rounds
<1>4. ASSUME NEW c, NEW e, NEW u \in Pushers, WillSend(u, c, e) PROVE WillSend(u, c, e)'
  <2>1. pc[u] \in Rounds
    BY <1>4 DEF WillSend, Rounds
  <2> QED BY <1>2, <1>4, <2>1 DEF WillSend, Entries
<1> QED BY <1>3, <1>4 DEF Reached

\* The batch enters its broadcast.
LEMMA AppendStep ==
  ASSUME BatchTypes, NEW w \in Pushers, AppendBatch(w)
  PROVE  /\ OnTheWay' \subseteq OnTheWay \cup Entries(w)
         /\ \A c, e : Reached(c, e) \/ e \in Entries(w) => Reached(c, e)'
<1>1. /\ pc[w] = "append" /\ pc'[w] = "normal" /\ \A u \in Pushers \ {w} : pc'[u] = pc[u]
      /\ UNCHANGED <<batch, targets, sendCh>>
  BY DEF AppendBatch, Goto, BatchTypes, viewVars
<1>2. OnTheWay' \subseteq OnTheWay \cup Entries(w)
  BY <1>1 DEF OnTheWay, Entries
<1>3. ASSUME NEW c, NEW e, NEW u \in Pushers, WillSend(u, c, e) PROVE WillSend(u, c, e)'
  <2>1. u # w
    BY <1>1, <1>3 DEF WillSend
  <2> QED BY <1>1, <1>3, <2>1 DEF WillSend, Entries
<1>4. ASSUME NEW c, NEW e \in Entries(w) PROVE WillSend(w, c, e)'
  BY <1>1 DEF WillSend, Entries
<1> QED BY <1>1, <1>2, <1>3, <1>4 DEF Reached

\* The end of a round.
LEMMA RoundEnds ==
  ASSUME BatchTypes, NEW w \in Pushers, pc[w] \in Rounds, NextRound(w)
  PROVE  /\ \A u \in Pushers \ {w} : pc'[u] = pc[u] /\ batch'[u] = batch[u]
         /\ pc[w] \in {"normal", "sendNormal"} => pc'[w] = "high" /\ batch'[w] = batch[w] /\ completed' = completed
         /\ pc[w] \in {"high", "sendHigh"} => pc'[w] \notin Rounds /\ completed' = completed \cup Entries(w)
  BY DEF BatchTypes, NextRound, Goto, Rounds

\* A pusher takes its snapshot of the room: what it owes a member, it still owes it.
LEMMA SnapshotStep ==
  ASSUME BatchTypes, ViewTypes, NEW w \in Pushers, SnapshotRoom(w)
  PROVE  /\ OnTheWay' \subseteq OnTheWay /\ completed' \subseteq completed \cup OnTheWay
         /\ DOMAIN targets' = Pushers /\ sendCh' = sendCh
         /\ \A c \in Members : \A e : Reached(c, e) => Reached(c, e)'
<1>1. pc[w] \in {"normal", "high"} /\ pc[w] \in Rounds /\ sendCh' = sendCh /\ Entries(w) \subseteq OnTheWay
  BY DEF SnapshotRoom, Rounds, viewVars, OnTheWay
<1>2. CASE (Round(w) = {} \/ Members = {}) /\ NextRound(w) /\ targets' = targets
  <2>1. /\ \A u \in Pushers \ {w} : pc'[u] = pc[u] /\ batch'[u] = batch[u]
        /\ pc[w] = "normal" => pc'[w] = "high" /\ batch'[w] = batch[w] /\ completed' = completed
        /\ pc[w] = "high" => pc'[w] \notin Rounds /\ completed' = completed \cup Entries(w)
    BY <1>1, <1>2, RoundEnds
  <2>2. OnTheWay' \subseteq OnTheWay
    <3> SUFFICES ASSUME NEW u \in Pushers, pc'[u] \in Rounds PROVE pc[u] \in Rounds /\ batch'[u] = batch[u]
      BY DEF OnTheWay, Entries, Rounds
    <3> QED BY <1>1, <2>1
  <2>3. ASSUME NEW c \in Members, NEW e, NEW u \in Pushers, WillSend(u, c, e) PROVE WillSend(u, c, e)'
    <3>1. CASE u # w
      BY <1>2, <2>1, <2>3, <3>1 DEF WillSend, Entries
    <3>2. CASE u = w
      <4>1. e \in Entries(w) /\ Round(w) = {}
        BY <1>2, <2>3, <3>2 DEF WillSend
      <4>2. CASE pc[w] = "normal"
        <5>1. IsHigh(e)
          BY <4>1, <4>2 DEF Round
        <5> QED BY <2>1, <3>2, <4>1, <4>2, <5>1 DEF WillSend, Entries
      <4>3. CASE pc[w] = "high"
        <5>1. ~IsHigh(e)
          BY <4>1, <4>3 DEF Round
        <5> QED BY <2>3, <3>2, <4>3, <5>1 DEF WillSend
      <4> QED BY <1>1, <4>2, <4>3
    <3> QED BY <3>1, <3>2
  <2> QED BY <1>1, <1>2, <2>1, <2>2, <2>3 DEF Reached, ViewTypes
<1>3. CASE /\ targets' = [targets EXCEPT ![w] = Members]
           /\ pc' = [pc EXCEPT ![w] = IF pc[w] = "normal" THEN "sendNormal" ELSE "sendHigh"]
           /\ UNCHANGED <<batch, completed>>
  <2>1. /\ DOMAIN targets' = Pushers /\ targets'[w] = Members /\ \A u \in Pushers \ {w} : targets'[u] = targets[u]
        /\ pc'[w] = IF pc[w] = "normal" THEN "sendNormal" ELSE "sendHigh"
        /\ \A u \in Pushers \ {w} : pc'[u] = pc[u]
    BY <1>3 DEF ViewTypes, BatchTypes
  <2>2. OnTheWay' \subseteq OnTheWay
    <3> SUFFICES ASSUME NEW u \in Pushers, pc'[u] \in Rounds PROVE pc[u] \in Rounds /\ batch'[u] = batch[u]
      BY DEF OnTheWay, Entries, Rounds
    <3> QED BY <1>1, <1>3, <2>1
  <2>3. ASSUME NEW c \in Members, NEW e, NEW u \in Pushers, WillSend(u, c, e) PROVE WillSend(u, c, e)'
    <3>1. CASE u # w
      BY <1>3, <2>1, <2>3, <3>1 DEF WillSend, Entries
    <3>2. CASE u = w
      BY <1>1, <1>3, <2>1, <2>3, <3>2 DEF WillSend, Entries
    <3> QED BY <3>1, <3>2
  <2> QED BY <1>1, <1>3, <2>1, <2>2, <2>3 DEF Reached
<1> QED BY <1>2, <1>3 DEF SnapshotRoom, Goto

\* A pusher offers its round to one connection of its snapshot.
LEMMA SendStep ==
  ASSUME BatchTypes, ViewTypes, live \subseteq Conns, NEW w \in Pushers, NEW d \in targets[w], SendTo(w, d)
  PROVE  /\ OnTheWay' \subseteq OnTheWay /\ completed' \subseteq completed \cup OnTheWay
         /\ DOMAIN targets' = Pushers /\ DOMAIN sendCh' = Conns
         /\ \A c \in live : \A e : Reached(c, e) => Reached(c, e)'
<1>1. /\ pc[w] \in {"sendNormal", "sendHigh"} /\ pc[w] \in Rounds /\ Entries(w) \subseteq OnTheWay
      /\ targets' = [targets EXCEPT ![w] = targets[w] \ {d}]
      /\ sendCh' = IF d \in live THEN [sendCh EXCEPT ![d] = sendCh[d] \cup Round(w)] ELSE sendCh
  BY DEF SendTo, Rounds, OnTheWay
<1>2. DOMAIN targets' = Pushers /\ targets'[w] = targets[w] \ {d} /\ \A u \in Pushers \ {w} : targets'[u] = targets[u]
  BY <1>1 DEF ViewTypes
<1>3. /\ DOMAIN sendCh' = Conns /\ \A c \in Conns : sendCh[c] \subseteq sendCh'[c]
      /\ d \in live => Round(w) \subseteq sendCh'[d]
  BY <1>1 DEF ViewTypes
<1>4. /\ \A u \in Pushers \ {w} : pc'[u] = pc[u] /\ batch'[u] = batch[u]
      /\ \/ UNCHANGED <<pc, batch, completed>>
         \/ targets[w] = {d} /\ NextRound(w)
  <2>1. CASE targets[w] = {d} /\ NextRound(w)
    BY <1>1, <2>1, RoundEnds
  <2>2. CASE UNCHANGED <<pc, batch, completed>>
    BY <2>2
  <2> QED BY <2>1, <2>2 DEF SendTo
<1>5. OnTheWay' \subseteq OnTheWay /\ completed' \subseteq completed \cup OnTheWay
  <2>1. ASSUME NEW u \in Pushers, pc'[u] \in Rounds PROVE pc[u] \in Rounds /\ batch'[u] = batch[u]
    BY <1>1, <1>4, <2>1, RoundEnds
  <2>2. completed' \subseteq completed \cup OnTheWay
    BY <1>1, <1>4, RoundEnds
  <2> QED BY <2>1, <2>2 DEF OnTheWay, Entries, Rounds
<1>6. ASSUME NEW c \in live, NEW e, NEW u \in Pushers, WillSend(u, c, e) PROVE Reached(c, e)'
  <2>1. CASE u # w
    <3>1. WillSend(u, c, e)'
      BY <1>2, <1>4, <1>6, <2>1 DEF WillSend, Entries
    <3> QED BY <3>1 DEF Reached
  <2>2. CASE u = w /\ c = d /\ e \in Round(w)
    BY <1>3, <2>2 DEF Reached
  <2>3. CASE u = w /\ ~(c = d /\ e \in Round(w))
    <3>1. e \in Entries(w) /\ (IsHigh(e) \/ (c \in targets[w] /\ pc[w] = "sendNormal"))
      BY <1>1, <1>6, <2>3 DEF WillSend
    <3>2. CASE pc[w] = "sendNormal" /\ IsHigh(e)
      <4>1. pc'[w] \in {"sendNormal", "high"} /\ batch'[w] = batch[w]
        BY <1>1, <1>4, <3>2, RoundEnds
      <4>2. WillSend(w, c, e)'
        BY <3>1, <3>2, <4>1 DEF WillSend, Entries
      <4> QED BY <4>2 DEF Reached
    <3>3. CASE pc[w] = "sendHigh" \/ ~IsHigh(e)
      <4>1. e \in Round(w) /\ c \in targets[w] /\ c # d
        BY <1>1, <1>6, <2>3, <3>1, <3>3 DEF WillSend, Round
      <4>2. c \in targets'[w] /\ UNCHANGED <<pc, batch>>
        BY <1>2, <1>4, <4>1
      <4>3. WillSend(w, c, e)'
        BY <1>6, <2>3, <4>1, <4>2 DEF WillSend, Entries
      <4> QED BY <4>3 DEF Reached
    <3> QED BY <1>1, <3>2, <3>3
  <2> QED BY <2>1, <2>2, <2>3
<1>7. ASSUME NEW c \in live, NEW e, e \in sendCh[c] PROVE Reached(c, e)'
  BY <1>3, <1>7 DEF Reached
<1> QED BY <1>2, <1>3, <1>5, <1>6, <1>7 DEF Reached

\* A pusher collects, numbers or looks up its histRoom: nothing is offered yet.
LEMMA QuietPushers ==
  ASSUME BatchTypes, [Next]_vars,
         \/ \E w \in Workers : Receive(w) \/ FlushTimer(w) \/ Drained(w)
         \/ \E w \in Pushers : Number(w) \/ GetOrCreate(w)
         \/ \E m \in RemoteMsgs, s \in RemoteSeqs : HandleIncoming(m, s)
         \/ AdoptRoomSeq
  PROVE  /\ OnTheWay' = OnTheWay /\ \A c, e : Reached(c, e) => Reached(c, e)'
         /\ UNCHANGED <<targets, completed, appended, live, cancelled, room, regQ, conns, viewVars>>
<1> DEFINE Same == UNCHANGED <<targets, completed, appended, live, cancelled, room, regQ, conns, viewVars>>
           Quiet(w) == /\ pc[w] \notin Rounds /\ pc'[w] \notin Rounds
                       /\ \A u \in Pushers \ {w} : pc'[u] = pc[u] /\ batch'[u] = batch[u]
<1>1. ASSUME NEW w \in Workers, Receive(w) \/ FlushTimer(w) \/ Drained(w) PROVE w \in Pushers /\ Quiet(w) /\ Same
  BY <1>1, SMTT(30) DEF Receive, FlushTimer, Drained, Goto, BatchTypes, Rounds, Pushers, histVars, connVars
<1>2. ASSUME NEW w \in Pushers, Number(w) PROVE Quiet(w) /\ Same
  <2> DEFINE i == CHOOSE j \in DOMAIN batch[w] : batch[w][j].seq = 0 /\ \A k \in 1..(j - 1) : batch[w][k].seq # 0
             b == [batch[w] EXCEPT ![i].seq = roomSeq + 1]
             l == IF i = Len(batch[w]) THEN "attach" ELSE "number"
  <2>1. pc[w] = "number" /\ batch' = [batch EXCEPT ![w] = b] /\ pc' = [pc EXCEPT ![w] = l] /\ Same
    BY <1>2 DEF Number, Goto, histVars, connVars, BatchTypes
  <2> HIDE DEF i, b
  <2> QED BY <2>1 DEF BatchTypes, Rounds
<1>3. ASSUME NEW w \in Pushers, GetOrCreate(w) PROVE Quiet(w) /\ Same
  BY <1>3 DEF GetOrCreate, Goto, BatchTypes, Rounds, connVars
<1>4. ASSUME NEW m \in RemoteMsgs, NEW s \in RemoteSeqs, HandleIncoming(m, s)
      PROVE  Sub \in Pushers /\ Quiet(Sub) /\ Same
  <2> DEFINE b == <<[msg |-> m, seq |-> s]>>
  <2>1. /\ pc[Sub] = "select" /\ Same /\ Sub \in Pushers
        /\ \/ batch' = [batch EXCEPT ![Sub] = b] /\ pc' = [pc EXCEPT ![Sub] = "adopt"]
           \/ UNCHANGED <<batch, pc>>
    BY <1>4 DEF HandleIncoming, Goto, histVars, connVars, Pushers
  <2> HIDE DEF b
  <2> QED BY <2>1 DEF BatchTypes, Rounds
<1>5. ASSUME AdoptRoomSeq PROVE Sub \in Pushers /\ Quiet(Sub) /\ Same
  BY <1>5 DEF AdoptRoomSeq, Goto, BatchTypes, Rounds, Pushers, histVars, connVars
<1>6. (\E w \in Pushers : Quiet(w)) /\ Same
  <2> HIDE DEF Quiet, Same
  <2> QED BY <1>1, <1>2, <1>3, <1>4, <1>5
<1>7. PICK w \in Pushers : Quiet(w)
  BY <1>6
<1>8. targets' = targets /\ sendCh' = sendCh
  BY <1>6 DEF viewVars
<1>9. OnTheWay' = OnTheWay /\ \A c, e : Reached(c, e) => Reached(c, e)'
  BY <1>7, <1>8, QuietStep
<1> QED BY <1>6, <1>9

\* Nothing is offered when only connections, their replay or the histories change.
LEMMA PushersRest ==
  ASSUME UNCHANGED <<pc, batch>>
  PROVE  /\ OnTheWay' = OnTheWay
         /\ targets' = targets =>
              \A c, e : Reached(c, e) /\ sendCh[c] \subseteq sendCh'[c] => Reached(c, e)'
<1>1. OnTheWay' = OnTheWay
  BY DEF OnTheWay, Entries
<1>2. ASSUME targets' = targets, NEW c, NEW e, NEW u \in Pushers, WillSend(u, c, e) PROVE WillSend(u, c, e)'
  BY <1>2 DEF WillSend, Entries
<1> QED BY <1>1, <1>2 DEF Reached

\* Types of what a viewer sees, and what is broadcast is in a history.
LEMMA ViewStep ==
  ASSUME RingInv, ConnInv, JoinInv, [Next]_vars
  PROVE  ViewTypes' /\ BroadcastIsKept'
<1>0. BatchTypes /\ ViewTypes /\ BroadcastIsKept /\ live \subseteq Conns /\ cur \in Nat
  BY LenProperties DEF RingInv, JoinInv, ConnInv, ConnTypes, HistTypes
<1>1. ASSUME \/ \E w \in Workers : Receive(w) \/ FlushTimer(w) \/ Drained(w)
             \/ \E w \in Pushers : Number(w) \/ GetOrCreate(w)
             \/ \E m \in RemoteMsgs, s \in RemoteSeqs : HandleIncoming(m, s)
             \/ AdoptRoomSeq
      PROVE  ViewTypes' /\ BroadcastIsKept'
  <2>1. OnTheWay' = OnTheWay /\ UNCHANGED <<targets, completed, appended, viewVars>>
    BY <1>0, <1>1, QuietPushers
  <2> QED BY <1>0, <2>1 DEF ViewTypes, BroadcastIsKept, viewVars
<1>2. ASSUME NEW w \in Pushers, AppendBatch(w) PROVE ViewTypes' /\ BroadcastIsKept'
  <2>1. OnTheWay' \subseteq OnTheWay \cup Entries(w)
    BY <1>0, <1>2, AppendStep
  <2>2. appended' = appended \cup Entries(w) /\ UNCHANGED <<targets, completed, viewVars>>
    BY <1>2 DEF AppendBatch
  <2>3. Entries(w) \subseteq Entry
    <3>1. batch[w] \in Seq(Entry)
      BY <1>0 DEF BatchTypes
    <3>2. \A i \in DOMAIN batch[w] : batch[w][i] \in Entry
      BY <3>1
    <3> QED BY <3>2 DEF Entries, ToSet
  <2> QED BY <1>0, <2>1, <2>2, <2>3 DEF ViewTypes, BroadcastIsKept, viewVars
<1>3. ASSUME NEW w \in Pushers, SnapshotRoom(w) PROVE ViewTypes' /\ BroadcastIsKept'
  <2>1. /\ OnTheWay' \subseteq OnTheWay /\ completed' \subseteq completed \cup OnTheWay
        /\ DOMAIN targets' = Pushers
    BY <1>0, <1>3, SnapshotStep
  <2>2. UNCHANGED <<viewVars, appended>>
    BY <1>3 DEF SnapshotRoom, histVars
  <2> QED BY <1>0, <2>1, <2>2 DEF ViewTypes, BroadcastIsKept, viewVars
<1>4. ASSUME NEW w \in Pushers, NEW d \in targets[w], SendTo(w, d) PROVE ViewTypes' /\ BroadcastIsKept'
  <2>1. /\ OnTheWay' \subseteq OnTheWay /\ completed' \subseteq completed \cup OnTheWay
        /\ DOMAIN targets' = Pushers /\ DOMAIN sendCh' = Conns
    BY <1>0, <1>4, SendStep
  <2>2. UNCHANGED <<after, replay, view, excused, appended>>
    BY <1>4 DEF SendTo, histVars
  <2> QED BY <1>0, <2>1, <2>2 DEF ViewTypes, BroadcastIsKept
<1>5. ASSUME UNCHANGED <<pc, batch, targets, completed, appended>>,
             after' \in [Conns -> Nat], view' \in [Conns -> Nat],
             replay' \in [Conns -> {"asked", "found", "done", "ended"}],
             DOMAIN sendCh' = Conns, DOMAIN excused' = Conns
      PROVE  ViewTypes' /\ BroadcastIsKept'
  <2>1. OnTheWay' = OnTheWay
    BY <1>5, PushersRest
  <2> QED BY <1>0, <1>5, <2>1 DEF ViewTypes, BroadcastIsKept
<1>6. ASSUME \/ Sweep \/ CloseRoomHist \/ AddClient \/ RemoveClient \/ CloseRoom \/ (\E v \in Viewers : KickClient(v))
             \/ CloseVictims \/ Shutdown \/ UNCHANGED streamVars
      PROVE  UNCHANGED <<pc, batch, targets, completed, appended, viewVars>>
  BY <1>6 DEF Sweep, CloseRoomHist, AddClient, RemoveClient, CloseRoom, KickClient, CloseVictims, Shutdown,
     streamVars, pushVars, histVars
<1>7. ASSUME NEW v \in Viewers, NEW s \in AfterSeqs, Connect(v, s) PROVE ViewTypes' /\ BroadcastIsKept'
  <2> DEFINE n == <<v, conns[v] + 1>>
  <2>1. /\ UNCHANGED <<pc, batch, targets, completed, appended, replay, view, sendCh, excused>>
        /\ after' = [after EXCEPT ![n] = s] /\ s \in Nat
    BY <1>7, RoomAssumption DEF Connect, pushVars, histVars
  <2> HIDE DEF n
  <2>2. after' \in [Conns -> Nat]
    BY <1>0, <2>1 DEF ViewTypes
  <2>3. /\ view' \in [Conns -> Nat] /\ replay' \in [Conns -> {"asked", "found", "done", "ended"}]
        /\ DOMAIN sendCh' = Conns /\ DOMAIN excused' = Conns
    BY <1>0, <2>1 DEF ViewTypes
  <2> QED BY <1>5, <2>1, <2>2, <2>3
<1>8. ASSUME NEW c \in Conns, Exit(c) \/ ReplayLookup(c) \/ ReplayFrom(c) PROVE ViewTypes' /\ BroadcastIsKept'
  <2>1. UNCHANGED <<pc, batch, targets, completed, appended>>
    BY <1>8 DEF Exit, ReplayLookup, ReplayFrom, pushVars, histVars
  <2>2. /\ after' \in [Conns -> Nat] /\ view' \in [Conns -> Nat]
        /\ replay' \in [Conns -> {"asked", "found", "done", "ended"}]
        /\ DOMAIN sendCh' = Conns /\ DOMAIN excused' = Conns
    <3>1. CASE Exit(c)
      BY <1>0, <3>1 DEF Exit, ViewTypes
    <3>2. CASE ReplayLookup(c)
      BY <1>0, <3>2 DEF ReplayLookup, ViewTypes
    <3>3. CASE ReplayFrom(c)
      BY <1>0, <3>3 DEF ReplayFrom, ViewTypes
    <3> QED BY <1>8, <3>1, <3>2, <3>3
  <2> QED BY <1>5, <2>1, <2>2
<1>9. ASSUME UNCHANGED <<pc, batch, targets, completed, appended, viewVars>> PROVE ViewTypes' /\ BroadcastIsKept'
  BY <1>0, <1>5, <1>9 DEF ViewTypes, viewVars
<1> DEFINE Goal == ViewTypes' /\ BroadcastIsKept'
<1> HIDE DEF Goal
<1>10. Goal
  BY <1>1, <1>2, <1>3, <1>4, <1>6, <1>7, <1>8, <1>9, StreamSteps DEF FlushStep, Goal
<1> QED BY <1>10 DEF Goal

\* A connection replays after its registration only.
LEMMA AskedFirstStep ==
  ASSUME ConnInv, JoinInv, [Next]_vars
  PROVE  AskedFirst'
<1>0. /\ ConnTypes /\ LeavesOnce /\ AskedFirst /\ live \subseteq Conns /\ ViewTypes
      /\ conns \in [Viewers -> 0..MaxConns] /\ MaxConns \in Nat
  BY RoomAssumption DEF ConnInv, ConnTypes, JoinInv
<1>1. \A c \in Conns : c[1] \in Viewers /\ c[2] \in Nat /\ conns[c[1]] \in Nat
  BY <1>0 DEF Conns
<1>2. \A c \in live : ~(c[2] > conns[c[1]])
  BY <1>0, <1>1 DEF LeavesOnce
<1>3. ASSUME UNCHANGED <<conns, replay>>, live' \subseteq live, ToSet(regQ') \subseteq ToSet(regQ) PROVE AskedFirst'
  BY <1>0, <1>3 DEF AskedFirst
<1>4. ASSUME NEW v \in Viewers, NEW s \in AfterSeqs, Connect(v, s) PROVE AskedFirst'
  <2> DEFINE n == <<v, conns[v] + 1>>
  <2>1. /\ n \in Conns /\ ToSet(regQ') = ToSet(regQ) \cup {n} /\ live' = live \cup {n}
        /\ conns' \in [Viewers -> 0..MaxConns] /\ \A u \in Viewers : conns[u] <= conns'[u]
    BY <1>0, <1>4, ConnectNew
  <2>2. replay' = replay
    BY <1>4 DEF Connect
  <2>3. n[1] = v /\ n[2] = conns[v] + 1 /\ conns[v] \in Nat
    BY <1>0
  <2> HIDE DEF n
  <2>4. replay[n] = "asked"
    BY <1>0, <2>1, <2>3 DEF AskedFirst
  <2>5. ASSUME NEW c \in Conns, c[2] > conns'[c[1]] PROVE c[2] > conns[c[1]]
    <3>1. conns'[c[1]] \in Nat /\ conns[c[1]] <= conns'[c[1]]
      BY <1>0, <1>1, <2>1
    <3> QED BY <1>1, <2>5, <3>1
  <2> QED BY <1>0, <2>1, <2>2, <2>4, <2>5 DEF AskedFirst
<1>5. ASSUME NEW d \in live, UNCHANGED <<conns, regQ>>, d \notin live' \/ d \notin ToSet(regQ), live' \subseteq live,
             \A c \in Conns \ {d} : replay'[c] = replay[c]
      PROVE  AskedFirst'
  BY <1>0, <1>2, <1>5 DEF AskedFirst
<1>6. ASSUME NEW c \in Conns, Exit(c) PROVE AskedFirst'
  BY <1>0, <1>5, <1>6 DEF Exit, ViewTypes
<1>7. ASSUME NEW c \in Conns, ReplayLookup(c) PROVE AskedFirst'
  BY <1>0, <1>5, <1>7 DEF ReplayLookup, Registered, ViewTypes, connVars
<1>8. ASSUME NEW c \in Conns, ReplayFrom(c) PROVE AskedFirst'
  <2>1. c \in live /\ replay[c] = "found" /\ c \notin ToSet(regQ)
    BY <1>0, <1>8 DEF ReplayFrom, AskedFirst
  <2>2. UNCHANGED <<conns, regQ, live>> /\ \A d \in Conns \ {c} : replay'[d] = replay[d]
    BY <1>0, <1>8 DEF ReplayFrom, ViewTypes, connVars
  <2> QED BY <1>5, <2>1, <2>2
<1>9. CASE AddClient
  <2>1. ToSet(regQ') \subseteq ToSet(regQ)
    BY <1>0, <1>9, AddMembers
  <2>2. UNCHANGED <<conns, replay, live>>
    BY <1>9 DEF AddClient, viewVars
  <2> QED BY <1>3, <2>1, <2>2
<1>10. ASSUME \/ Sweep \/ CloseRoomHist \/ RemoveClient \/ CloseRoom \/ (\E v \in Viewers : KickClient(v))
              \/ CloseVictims \/ Shutdown \/ UNCHANGED streamVars
              \/ \E w \in Workers : Receive(w) \/ FlushTimer(w) \/ Drained(w)
       PROVE  UNCHANGED <<conns, replay, live, regQ>>
  BY <1>10 DEF Sweep, CloseRoomHist, RemoveClient, CloseRoom, KickClient, CloseVictims, Shutdown, Receive, FlushTimer,
     Drained, streamVars, viewVars, connVars
<1>11. ASSUME NEW w \in Pushers, FlushStep(w) PROVE UNCHANGED <<conns, replay, live, regQ>>
  BY <1>11 DEF FlushStep, Number, GetOrCreate, AppendBatch, SnapshotRoom, SendTo, viewVars, connVars
<1>12. ASSUME (\E m \in RemoteMsgs, s \in RemoteSeqs : HandleIncoming(m, s)) \/ AdoptRoomSeq
       PROVE  UNCHANGED <<conns, replay, live, regQ>>
  BY <1>12 DEF HandleIncoming, AdoptRoomSeq, viewVars, connVars
<1>13. ASSUME UNCHANGED <<conns, replay, live, regQ>> PROVE AskedFirst'
  BY <1>0, <1>13 DEF AskedFirst
<1> QED BY <1>4, <1>6, <1>7, <1>8, <1>9, <1>10, <1>11, <1>12, <1>13, StreamSteps

\* The entries a histRoom keeps after an append were there or are of the batch.
LEMMA KeptGrows ==
  ASSUME NEW S, NEW k \in Seq(S), NEW b \in Seq(S)
  PROVE  ToSet(LastOf(k \o b)) \subseteq ToSet(k) \cup ToSet(b)
<1> DEFINE s == k \o b
           q == LastOf(s)
<1>1. s \in Seq(S) /\ ToSet(s) = ToSet(k) \cup ToSet(b)
  BY ConcatRange, ToSetIsRange
<1> HIDE DEF s
<1>2. Len(s) \in Nat /\ DOMAIN s = 1..Len(s) /\ HistMax \in Nat \ {0}
  BY <1>1, LenProperties, HistMaxAssumption
<1>3. ToSet(q) \subseteq ToSet(s)
  <2>1. CASE Len(s) <= HistMax
    BY <1>1, <2>1, LastOfPlaces
  <2>2. CASE Len(s) > HistMax
    <3>1. q \in Seq(S) /\ Len(q) = HistMax /\ \A i \in 1..HistMax : q[i] = s[(Len(s) - HistMax) + i]
      BY <1>1, <2>2, LastOfPlaces
    <3> HIDE DEF q
    <3>2. DOMAIN q = 1..HistMax
      BY <3>1, LenProperties
    <3>3. \A i \in 1..HistMax : (Len(s) - HistMax) + i \in DOMAIN s
      BY <1>2, <2>2
    <3> QED BY <3>1, <3>2, <3>3 DEF ToSet
  <2> QED BY <1>2, <2>1, <2>2
<1> QED BY <1>1, <1>3 DEF s

\* ReplayFrom gives its connection what the histRoom in the map holds, or what was or will be sent.
LEMMA ReplayReaches ==
  ASSUME RingInv, ConnInv, JoinInv, NEW d \in Conns, ReplayFrom(d)
  PROVE  NothingMissed'
<1>0. /\ HistTypes /\ RingIsRecent /\ NothingMissed /\ ViewTypes /\ live \subseteq Conns
      /\ DOMAIN kept = DOMAIN rings /\ cur \in 0..Len(rings) /\ DOMAIN rings = 1..Len(rings) /\ Len(rings) \in Nat
  BY LenProperties DEF RingInv, JoinInv, ConnInv, ConnTypes, HistTypes
<1>1. /\ d \in live /\ replay[d] = "found"
      /\ UNCHANGED <<pc, batch, targets, cur, appended, live, cancelled, room, view, after>>
      /\ replay' = [replay EXCEPT ![d] = "done"]
  BY DEF ReplayFrom, pushVars, connVars
<1> DEFINE h == view[d]
           got == IF h = 0 THEN {} ELSE ReplayAfter(rings[h], after[d])
           held == IF cur = 0 THEN {} ELSE ToSet(kept'[cur])
           ex == {e \in appended : e \notin held \/ e.seq <= after[d]}
<1>2. /\ IF h # 0 /\ Expired(rings[h]) THEN Empty(h) ELSE UNCHANGED <<rings, kept>>
      /\ sendCh' = [sendCh EXCEPT ![d] = sendCh[d] \cup got]
      /\ excused' = [excused EXCEPT ![d] = ex]
  BY DEF ReplayFrom
<1> HIDE DEF got, ex
<1>3. /\ sendCh'[d] = sendCh[d] \cup got /\ excused'[d] = ex /\ replay'[d] = "done"
      /\ \A c \in Conns \ {d} : sendCh'[c] = sendCh[c] /\ excused'[c] = excused[c] /\ replay'[c] = replay[c]
  BY <1>0, <1>1, <1>2 DEF ViewTypes
<1>4. \A c \in Conns : \A e : Reached(c, e) => Reached(c, e)'
  <2>1. \A c \in Conns : sendCh[c] \subseteq sendCh'[c]
    BY <1>3
  <2> QED BY <1>1, <2>1, PushersRest
<1>5. ASSUME cur # 0
      PROVE  /\ ToSet(kept'[cur]) \subseteq ToSet(kept[cur])
             /\ h = cur /\ Expired(rings[h]) => ToSet(kept'[cur]) = {}
  <2>1. cur \in DOMAIN kept
    BY <1>0, <1>5
  <2>2. CASE h # 0 /\ Expired(rings[h])
    <3>1. kept' = [kept EXCEPT ![h] = <<>>]
      BY <1>2, <2>2 DEF Empty
    <3>2. CASE h = cur
      <4>1. kept'[cur] = <<>>
        BY <2>1, <3>1, <3>2
      <4> QED BY <4>1, EmptyToSet
    <3>3. CASE h # cur
      <4>1. kept'[cur] = kept[cur]
        BY <2>1, <3>1, <3>3
      <4> QED BY <3>3, <4>1
    <3> QED BY <3>2, <3>3
  <2>3. CASE ~(h # 0 /\ Expired(rings[h]))
    BY <1>2, <1>5, <2>3
  <2> QED BY <2>2, <2>3
<1>6. ASSUME d \notin cancelled, d \in Members, NEW e \in appended \ excused'[d] PROVE Reached(d, e)'
  <2>1. e \in held /\ ~(e.seq <= after[d])
    BY <1>3, <1>6 DEF ex
  <2>2. cur # 0 /\ e \in ToSet(kept'[cur]) /\ e \in ToSet(kept[cur])
    BY <1>5, <2>1
  <2>3. CASE h = cur
    <3>1. ~Expired(rings[cur])
      BY <1>5, <2>2, <2>3
    <3>2. kept[cur] = Contents(rings[cur])
      BY <1>0, <2>2 DEF RingIsRecent
    <3>3. e.seq > after[d]
      <4>1. e.seq \in Nat /\ after[d] \in Nat
        BY <1>0 DEF ViewTypes, Entry
      <4> QED BY <2>1, <4>1
    <3>4. e \in got
      BY <2>2, <2>3, <3>1, <3>2, <3>3 DEF got, ReplayAfter
    <3> QED BY <1>3, <3>4 DEF Reached
  <2>4. CASE h # cur
    <3>1. Reached(d, e)
      BY <1>0, <1>1, <1>6, <2>2, <2>4 DEF NothingMissed
    <3> QED BY <1>4, <3>1
  <2> QED BY <2>3, <2>4
<1>7. live' = live /\ cancelled' = cancelled /\ Members' = Members
  BY <1>1 DEF Members
<1>8. ASSUME NEW c \in (live \ cancelled) \cap Members
      PROVE  /\ replay'[c] = "done" => \A e \in appended \ excused'[c] : Reached(c, e)'
             /\ replay'[c] = "found" /\ view[c] # cur /\ cur # 0 => \A e \in ToSet(kept'[cur]) : Reached(c, e)'
  <2>1. CASE c = d
    BY <1>3, <1>6, <2>1
  <2>2. CASE c # d
    BY <1>0, <1>3, <1>4, <1>5, <2>2 DEF NothingMissed
  <2> QED BY <2>1, <2>2
<1> HIDE DEF held, h
<1> QED BY <1>1, <1>7, <1>8 DEF NothingMissed

\* Nothing that was kept escapes a connection that has replayed.
LEMMA NothingMissedStep ==
  ASSUME RingInv, ConnInv, JoinInv, [Next]_vars
  PROVE  NothingMissed'
<1>0. /\ BatchTypes /\ HistTypes /\ NothingMissed /\ ViewTypes /\ AskedFirst /\ ConnTypes /\ live \subseteq Conns
      /\ Members \subseteq Conns
      /\ DOMAIN kept = DOMAIN rings /\ cur \in 0..Len(rings) /\ DOMAIN rings = 1..Len(rings) /\ Len(rings) \in Nat
  BY LenProperties, MembersOf DEF RingInv, JoinInv, ConnInv, ConnTypes, HistTypes, Members
<1> DEFINE Here == (live \ cancelled) \cap Members
\* The pushers, the histories or the set of connections move on.
<1>1. ASSUME Here' \subseteq Here, UNCHANGED <<replay, view, excused>>,
             \A c \in Here' : \A e : Reached(c, e) => Reached(c, e)',
             \A e \in appended' \ appended, c \in Here' : Reached(c, e)',
             \/ cur' = 0
             \/ cur' = cur /\ \A e \in ToSet(kept'[cur]) \ ToSet(kept[cur]), c \in Here' : Reached(c, e)'
             \/ ToSet(kept'[cur']) = {}
      PROVE  NothingMissed'
  <2> SUFFICES ASSUME NEW c \in Here'
               PROVE  /\ replay[c] = "done" => \A e \in appended' \ excused[c] : Reached(c, e)'
                      /\ replay[c] = "found" /\ view[c] # cur' /\ cur' # 0 =>
                           \A e \in ToSet(kept'[cur']) : Reached(c, e)'
    BY <1>1 DEF NothingMissed
  <2>1. ASSUME replay[c] = "done", NEW e \in appended' \ excused[c] PROVE Reached(c, e)'
    <3>1. CASE e \in appended
      <4>1. Reached(c, e)
        BY <1>0, <1>1, <2>1, <3>1 DEF NothingMissed
      <4> QED BY <1>1, <4>1
    <3>2. CASE e \notin appended
      BY <1>1, <3>2
    <3> QED BY <3>1, <3>2
  <2>2. ASSUME replay[c] = "found", view[c] # cur', cur' # 0, NEW e \in ToSet(kept'[cur']) PROVE Reached(c, e)'
    <3>1. cur' = cur /\ (e \in ToSet(kept[cur]) \/ Reached(c, e)')
      BY <1>1, <2>2
    <3>2. CASE e \in ToSet(kept[cur])
      <4>1. Reached(c, e)
        BY <1>0, <1>1, <2>2, <3>1, <3>2 DEF NothingMissed
      <4> QED BY <1>1, <4>1
    <3> QED BY <3>1, <3>2
  <2> QED BY <2>1, <2>2
<1>2. ASSUME \/ \E w \in Workers : Receive(w) \/ FlushTimer(w) \/ Drained(w)
             \/ \E w \in Pushers : Number(w) \/ GetOrCreate(w)
             \/ \E m \in RemoteMsgs, s \in RemoteSeqs : HandleIncoming(m, s)
             \/ AdoptRoomSeq
      PROVE  NothingMissed'
  <2>1. /\ \A c, e : Reached(c, e) => Reached(c, e)'
        /\ UNCHANGED <<appended, live, cancelled, room, viewVars>>
    BY <1>0, <1>2, QuietPushers
  <2>2. Here' = Here /\ UNCHANGED <<replay, view, excused>>
    BY <2>1 DEF Members, viewVars
  <2>3. ToSet(kept'[cur']) = {} \/ UNCHANGED <<kept, cur>>
    <3>1. ASSUME NEW w \in Pushers, GetOrCreate(w), ~UNCHANGED <<kept, cur>> PROVE ToSet(kept'[cur']) = {}
      <4> DEFINE n == Len(rings) + 1
                 e == <<>>
      <4>1. cur' = n /\ kept' = Append(kept, e)
        BY <3>1 DEF GetOrCreate
      <4>2. kept \in Seq(Seq(Entry)) /\ Len(kept) + 1 = n /\ e \in Seq(Entry)
        BY <1>0 DEF HistTypes
      <4> HIDE DEF e
      <4>3. kept'[n] = e
        BY <4>1, <4>2, AppendPlaces
      <4> QED BY <4>1, <4>3, EmptyToSet DEF e
    <3>2. ASSUME NEW w \in Pushers, Number(w) PROVE UNCHANGED <<kept, cur>>
      BY <3>2 DEF Number, histVars
    <3>3. ASSUME \/ \E w \in Workers : Receive(w) \/ FlushTimer(w) \/ Drained(w)
                 \/ \E m \in RemoteMsgs, s \in RemoteSeqs : HandleIncoming(m, s)
                 \/ AdoptRoomSeq
          PROVE  UNCHANGED <<kept, cur>>
      BY <3>3 DEF Receive, FlushTimer, Drained, HandleIncoming, AdoptRoomSeq, histVars
    <3> QED BY <1>2, <3>1, <3>2, <3>3
  <2> HIDE DEF Here
  <2> QED BY <1>1, <2>1, <2>2, <2>3
<1>3. ASSUME NEW w \in Pushers, AppendBatch(w) PROVE NothingMissed'
  <2> DEFINE h == handle[w]
             k == IF Expired(rings[h]) THEN <<>> ELSE kept[h]
  <2>1. \A c, e : Reached(c, e) \/ e \in Entries(w) => Reached(c, e)'
    BY <1>0, <1>3, AppendStep
  <2>2. /\ UNCHANGED <<live, cancelled, room, viewVars, cur>> /\ appended' = appended \cup Entries(w)
        /\ pc[w] = "append" /\ kept' = [kept EXCEPT ![h] = LastOf(k \o batch[w])]
    BY <1>3 DEF AppendBatch, connVars
  <2>3. Here' = Here /\ UNCHANGED <<replay, view, excused>>
    BY <2>2 DEF Members, viewVars
  <2>4. cur # 0 => ToSet(kept'[cur]) \subseteq ToSet(kept[cur]) \cup Entries(w)
    <3> SUFFICES ASSUME cur # 0 PROVE ToSet(kept'[cur]) \subseteq ToSet(kept[cur]) \cup Entries(w)
      OBVIOUS
    <3>1. cur \in DOMAIN kept /\ h \in DOMAIN kept
      BY <1>0, <2>2 DEF HistTypes
    <3>2. kept[h] \in Seq(Entry) /\ batch[w] \in Seq(Entry)
      BY <1>0, <3>1 DEF HistTypes, BatchTypes
    <3>3. k \in Seq(Entry) /\ ToSet(k) \subseteq ToSet(kept[h])
      <4>1. CASE Expired(rings[h])
        <5> DEFINE e == <<>>
        <5>1. e \in Seq(Entry) /\ ToSet(e) = {}
          BY EmptyToSet
        <5>2. k = e
          BY <4>1
        <5> HIDE DEF e, k
        <5> QED BY <5>1, <5>2
      <4>2. CASE ~Expired(rings[h])
        BY <3>2, <4>2
      <4> QED BY <4>1, <4>2
    <3> HIDE DEF k
    <3>4. ToSet(LastOf(k \o batch[w])) \subseteq ToSet(k) \cup Entries(w)
      BY <3>2, <3>3, KeptGrows DEF Entries
    <3>5. CASE h = cur
      <4>1. kept'[cur] = LastOf(k \o batch[w])
        BY <2>2, <3>1, <3>5
      <4> QED BY <3>3, <3>4, <3>5, <4>1
    <3>6. CASE h # cur
      <4>1. kept'[cur] = kept[cur]
        BY <2>2, <3>1, <3>6
      <4> QED BY <4>1
    <3> QED BY <3>5, <3>6
  <2> HIDE DEF Here
  <2> QED BY <1>1, <2>1, <2>2, <2>3, <2>4
<1>4. ASSUME NEW w \in Pushers, SnapshotRoom(w) PROVE NothingMissed'
  <2>1. \A c \in Members : \A e : Reached(c, e) => Reached(c, e)'
    BY <1>0, <1>4, SnapshotStep
  <2>2. UNCHANGED <<live, cancelled, room, viewVars, cur, kept, appended>>
    BY <1>4 DEF SnapshotRoom, connVars, histVars
  <2>3. Here' = Here /\ UNCHANGED <<replay, view, excused>> /\ Here \subseteq Members
    BY <2>2 DEF Members, viewVars
  <2> HIDE DEF Here
  <2> QED BY <1>1, <2>1, <2>2, <2>3
<1>5. ASSUME NEW w \in Pushers, NEW d \in targets[w], SendTo(w, d) PROVE NothingMissed'
  <2>1. \A c \in live : \A e : Reached(c, e) => Reached(c, e)'
    BY <1>0, <1>5, SendStep
  <2>2. UNCHANGED <<live, cancelled, room, replay, view, excused, cur, kept, appended>>
    BY <1>5 DEF SendTo, connVars, histVars
  <2>3. Here' = Here /\ Here \subseteq live
    BY <2>2 DEF Members
  <2> HIDE DEF Here
  <2> QED BY <1>1, <2>1, <2>2, <2>3
<1>6. ASSUME UNCHANGED <<pc, batch, targets, viewVars, appended>>, Here' \subseteq Here,
             cur' = 0 \/ UNCHANGED <<cur, kept>>
      PROVE  NothingMissed'
  <2>1. UNCHANGED <<replay, view, excused, sendCh>>
    BY <1>6 DEF viewVars
  <2>2. \A c, e : Reached(c, e) => Reached(c, e)'
    BY <1>6, <2>1, PushersRest
  <2> HIDE DEF Here
  <2> QED BY <1>1, <1>6, <2>1, <2>2
<1>7. ASSUME Sweep \/ CloseRoomHist PROVE NothingMissed'
  <2>1. UNCHANGED <<pc, batch, targets, viewVars, appended, live, cancelled, room>> /\ cur' = 0
    BY <1>7 DEF Sweep, CloseRoomHist, pushVars, connVars
  <2> QED BY <1>6, <2>1 DEF Members
<1>8. ASSUME UNCHANGED streamVars PROVE NothingMissed'
  <2>1. UNCHANGED <<pc, batch, targets, viewVars, appended, live, cancelled, room, cur, kept>>
    BY <1>8 DEF streamVars
  <2> QED BY <1>6, <2>1 DEF Members
<1>9. ASSUME RemoveClient \/ CloseRoom \/ (\E v \in Viewers : KickClient(v)) \/ CloseVictims \/ Shutdown
      PROVE  NothingMissed'
  <2>1. UNCHANGED <<pc, batch, targets, viewVars, appended, cur, kept, live>>
    BY <1>9 DEF RemoveClient, CloseRoom, KickClient, CloseVictims, Shutdown, pushVars, histVars
  <2>2. Members' \subseteq Members
    <3>1. CASE RemoveClient
      BY <1>0, <3>1, RemoveMembers
    <3>2. CASE CloseRoom \/ \E v \in Viewers : KickClient(v)
      BY <1>0, <3>2, VictimMembers
    <3>3. CASE CloseVictims \/ Shutdown
      BY <3>3 DEF CloseVictims, Shutdown, Members
    <3> QED BY <1>9, <3>1, <3>2, <3>3
  <2>3. Here \cap cancelled' \subseteq cancelled' /\ (cancelled \cap live) \subseteq cancelled'
    BY <1>0, <1>9 DEF RemoveClient, CloseRoom, KickClient, CloseVictims, Shutdown
  <2> QED BY <1>6, <2>1, <2>2, <2>3
\* A connection that enters the room or the server has not replayed yet.
<1>10. ASSUME UNCHANGED <<pc, batch, targets, appended, cur, kept, replay, view, excused, sendCh>>,
              \A c \in Here' \ Here : replay[c] = "asked"
       PROVE  NothingMissed'
  <2>1. \A c, e : Reached(c, e) => Reached(c, e)'
    BY <1>10, PushersRest
  <2> SUFFICES ASSUME NEW c \in Here'
               PROVE  /\ replay[c] = "done" => \A e \in appended \ excused[c] : Reached(c, e)'
                      /\ replay[c] = "found" /\ view[c] # cur /\ cur # 0 => \A e \in ToSet(kept[cur]) : Reached(c, e)'
    BY <1>10 DEF NothingMissed
  <2>2. CASE c \in Here
    BY <1>0, <2>1, <2>2 DEF NothingMissed
  <2>3. CASE c \notin Here
    BY <1>10, <2>3
  <2> QED BY <2>2, <2>3
<1>11. ASSUME NEW v \in Viewers, NEW s \in AfterSeqs, Connect(v, s) PROVE NothingMissed'
  <2> DEFINE n == <<v, conns[v] + 1>>
  <2>1. n \in Conns /\ live' = live \cup {n} /\ UNCHANGED <<room, cancelled>>
    BY <1>0, <1>11, ConnectNew
  <2>2. UNCHANGED <<pc, batch, targets, appended, cur, kept, replay, view, excused, sendCh>>
    BY <1>11 DEF Connect, pushVars, histVars
  <2>3. n[1] = v /\ n[2] = conns[v] + 1 /\ conns[v] \in Nat
    BY <1>0, RoomAssumption DEF ConnTypes
  <2> HIDE DEF n
  <2>4. replay[n] = "asked"
    BY <1>0, <2>1, <2>3 DEF AskedFirst
  <2>5. Here' \ Here \subseteq {n}
    BY <2>1 DEF Members
  <2> HIDE DEF Here
  <2> QED BY <1>10, <2>2, <2>4, <2>5
<1>12. CASE AddClient
  <2>1. /\ ToSet(regQ) = ToSet(regQ') \cup {Head(regQ)} /\ Head(regQ) \in Conns
        /\ Members' = {c \in Members : c[1] # Head(regQ)[1]} \cup {Head(regQ)}
    BY <1>0, <1>12, AddMembers
  <2>2. /\ UNCHANGED <<pc, batch, targets, appended, cur, kept, replay, view, excused, sendCh, live>>
        /\ cancelled \subseteq cancelled'
    BY <1>12 DEF AddClient, pushVars, histVars, viewVars
  <2>3. Here' \ Here \subseteq {Head(regQ)} \cap live
    BY <2>1, <2>2
  <2>4. \A c \in Here' \ Here : replay[c] = "asked"
    <3> HIDE DEF Here
    <3> QED BY <1>0, <2>1, <2>3 DEF AskedFirst
  <2> HIDE DEF Here
  <2> QED BY <1>10, <2>2, <2>4
<1>13. ASSUME NEW d \in Conns, Exit(d) PROVE NothingMissed'
  <2>1. /\ UNCHANGED <<pc, batch, targets, appended, cur, kept, room, cancelled>> /\ live' = live \ {d}
        /\ \A c \in Conns \ {d} : /\ replay'[c] = replay[c] /\ view'[c] = view[c] /\ excused'[c] = excused[c]
                                  /\ sendCh'[c] = sendCh[c]
    BY <1>0, <1>13 DEF Exit, pushVars, histVars, ViewTypes
  <2>2. \A c \in Conns \ {d} : \A e : Reached(c, e) => Reached(c, e)'
    BY <2>1, PushersRest
  <2>3. Here' \subseteq Here /\ Here' \subseteq Conns \ {d}
    BY <1>0, <2>1 DEF Members
  <2>4. ASSUME NEW c \in Here'
        PROVE  /\ replay'[c] = "done" => \A e \in appended \ excused'[c] : Reached(c, e)'
               /\ replay'[c] = "found" /\ view'[c] # cur /\ cur # 0 => \A e \in ToSet(kept[cur]) : Reached(c, e)'
    <3>1. c \in Here /\ c \in Conns \ {d}
      BY <2>3
    <3>2. /\ replay[c] = "done" => \A e \in appended \ excused[c] : Reached(c, e)
          /\ replay[c] = "found" /\ view[c] # cur /\ cur # 0 => \A e \in ToSet(kept[cur]) : Reached(c, e)
      BY <1>0, <3>1 DEF NothingMissed
    <3> QED BY <2>1, <2>2, <3>1, <3>2
  <2> QED BY <2>1, <2>4 DEF NothingMissed
<1>14. ASSUME NEW d \in Conns, ReplayLookup(d) PROVE NothingMissed'
  <2>1. /\ UNCHANGED <<pc, batch, targets, appended, cur, kept, room, live, cancelled, excused, sendCh>>
        /\ replay'[d] = "found" /\ view'[d] = cur
        /\ \A c \in Conns \ {d} : replay'[c] = replay[c] /\ view'[c] = view[c]
    BY <1>0, <1>14 DEF ReplayLookup, pushVars, histVars, connVars, ViewTypes
  <2>2. \A c, e : Reached(c, e) => Reached(c, e)'
    BY <2>1, PushersRest
  <2>3. Here' = Here /\ Here \subseteq Conns
    BY <1>0, <2>1 DEF Members
  <2>4. ASSUME NEW c \in Here'
        PROVE  /\ replay'[c] = "done" => \A e \in appended \ excused[c] : Reached(c, e)'
               /\ replay'[c] = "found" /\ view'[c] # cur /\ cur # 0 => \A e \in ToSet(kept[cur]) : Reached(c, e)'
    <3>1. CASE c = d
      BY <2>1, <3>1
    <3>2. CASE c # d
      <4>1. c \in Here /\ c \in Conns \ {d}
        BY <2>3, <3>2
      <4>2. /\ replay[c] = "done" => \A e \in appended \ excused[c] : Reached(c, e)
            /\ replay[c] = "found" /\ view[c] # cur /\ cur # 0 => \A e \in ToSet(kept[cur]) : Reached(c, e)
        BY <1>0, <4>1 DEF NothingMissed
      <4> QED BY <2>1, <2>2, <4>1, <4>2
    <3> QED BY <3>1, <3>2
  <2> QED BY <2>1, <2>4 DEF NothingMissed
<1>15. ASSUME NEW d \in Conns, ReplayFrom(d) PROVE NothingMissed'
  BY <1>15, ReplayReaches
<1> HIDE DEF Here
<1> QED BY <1>2, <1>3, <1>4, <1>5, <1>7, <1>8, <1>9, <1>11, <1>12, <1>13, <1>14, <1>15, StreamSteps DEF FlushStep

\* At the start nobody has joined, and all older danmu are broadcast.
LEMMA JoinStart ==
  ASSUME Init
  PROVE  JoinInv
<1>1. PICK n \in Older :
        LET old == [i \in 1..n |-> [msg |-> None, seq |-> i]]
        IN  appended = ToSet(old) /\ completed = ToSet(old)
  BY DEF Init
<1> DEFINE old == [i \in 1..n |-> [msg |-> None, seq |-> i]]
<1>2. ToSet(old) \subseteq Entry
  <2>1. n \in Nat /\ \A i \in 1..n : [msg |-> None, seq |-> i] \in Entry
    BY RoomAssumption DEF Entry
  <2> QED BY <2>1 DEF ToSet
<1>3. completed \subseteq appended /\ appended \subseteq Entry
  <2>1. appended = ToSet(old) /\ completed = ToSet(old)
    BY <1>1
  <2> HIDE DEF old
  <2> QED BY <1>2, <2>1
<1>4. ViewTypes
  BY <1>3 DEF Init, ViewTypes
<1>5. AskedFirst /\ NothingMissed
  BY DEF Init, AskedFirst, NothingMissed
<1>6. BroadcastIsKept
  BY DEF Init, BroadcastIsKept, OnTheWay
<1> QED BY <1>4, <1>5, <1>6 DEF JoinInv

\* A connection that has replayed has been offered all that was broadcast.
LEMMA NoGapFollows ==
  ASSUME JoinInv
  PROVE  NoReplayGap
<1> SUFFICES ASSUME NEW c \in (live \ cancelled) \cap Members, replay[c] = "done",
                    NEW e \in completed \ OnTheWay, e \notin excused[c]
             PROVE  e \in sendCh[c]
  BY DEF NoReplayGap
<1>1. Reached(c, e)
  BY DEF JoinInv, ViewTypes, NothingMissed
<1>2. ASSUME NEW w \in Pushers, WillSend(w, c, e) PROVE FALSE
  BY <1>2 DEF WillSend, OnTheWay
<1> QED BY <1>1, <1>2 DEF Reached

\* The ingest state is typed at the start.
LEMMA IngestTypesStart ==
  ASSUME Init
  PROVE  IngestTypes
BY DEF Init, IngestTypes

\* RingIsRecent, for any ring size, number of pushers and length of batches: through wrap-around,
\* expiry, reset and the reuse of its slice, a histRoom holds exactly the last HistMax entries.
THEOREM RingIsRecentHolds == Spec => []RingIsRecent
<1>1. Init => IngestTypes /\ RingInv
  BY IngestTypesStart, RingStart
<1>2. IngestTypes /\ RingInv /\ [Next]_vars => (IngestTypes /\ RingInv)'
  <2> SUFFICES ASSUME IngestTypes, RingInv, [Next]_vars PROVE (IngestTypes /\ RingInv)'
    OBVIOUS
  <2>1. IngestTypes'
    BY IngestTypesStep
  <2>2. BatchTypes' /\ NumberedInTurn'
    BY BatchStep DEF RingInv
  <2>3. HistTypes' /\ RingsSound' /\ RingIsRecent'
    BY HistStep
  <2> QED BY <2>1, <2>2, <2>3 DEF RingInv
<1>3. RingInv => RingIsRecent
  BY DEF RingInv
<1> QED BY <1>1, <1>2, <1>3, PTL DEF Spec

\* StreamUnbroken, for any number of viewers, connections, workers and danmu: however joins, replays,
\* flushes, kicks and closed rooms interleave, a viewer the room holds misses nothing it is owed.
THEOREM StreamUnbrokenHolds == Spec => []StreamUnbroken
<1> DEFINE I == IngestTypes /\ RingInv /\ ConnInv /\ NoDeafViewer /\ JoinInv
<1>1. Init => I
  BY IngestTypesStart, RingStart, ConnInit, JoinStart
<1>2. I /\ [Next]_vars => I'
  <2> SUFFICES ASSUME I, [Next]_vars PROVE I'
    OBVIOUS
  <2>1. IngestTypes' /\ ConnInv' /\ NoDeafViewer'
    BY IngestTypesStep, ConnInvStep, NoDeafViewerStep
  <2>2. BatchTypes' /\ NumberedInTurn' /\ HistTypes' /\ RingsSound' /\ RingIsRecent'
    BY BatchStep, HistStep DEF RingInv
  <2>3. ViewTypes' /\ BroadcastIsKept' /\ AskedFirst' /\ NothingMissed'
    BY ViewStep, AskedFirstStep, NothingMissedStep
  <2> QED BY <2>1, <2>2, <2>3 DEF RingInv, JoinInv
<1>3. I => StreamUnbroken
  BY NoGapFollows DEF RingInv, StreamUnbroken
<1> QED BY <1>1, <1>2, <1>3, PTL DEF Spec

=============================================================================
