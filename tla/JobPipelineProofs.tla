-------------------------- MODULE JobPipelineProofs --------------------------
(***************************************************************************)
(* Proofs about the broadcast pipeline: a comet broadcasts a record at     *)
(* most once and in log order, a running job loses nothing it has read,    *)
(* and an orderly stop pushes what was buffered; for any number of danmu,  *)
(* rooms, comets, crashes and signals and any capacity of the channel.     *)
(***************************************************************************)
EXTENDS JobPipeline, DataLemmas, TLAPS

-----------------------------------------------------------------------------
(* Sequences *)

\* Appending an element above all others keeps a sequence ascending.
LEMMA AppendAscending ==
  ASSUME NEW s \in Seq(Nat), NEW e \in Nat, Ascending(s), \A i \in Range(s) : i < e
  PROVE  Ascending(Append(s, e))
<1>1. Append(s, e) \in Seq(Nat) /\ Len(Append(s, e)) = Len(s) + 1
  BY AppendProperties
<1>2. \A i \in 1..Len(s) : Append(s, e)[i] = s[i]
  BY AppendProperties
<1>3. Append(s, e)[Len(s) + 1] = e
  BY AppendProperties
<1>4. DOMAIN s = 1..Len(s) /\ Len(s) \in Nat /\ DOMAIN Append(s, e) = 1..(Len(s) + 1)
  BY <1>1, LenProperties
<1>5. \A i \in 1..Len(s) : s[i] < e
  BY <1>4 DEF Range
<1> QED BY <1>2, <1>3, <1>4, <1>5 DEF Ascending

\* The tail of an ascending sequence is ascending and above the head.
LEMMA TailAscending ==
  ASSUME NEW s \in Seq(Nat), s # <<>>, Ascending(s)
  PROVE  Ascending(Tail(s)) /\ \A i \in Range(Tail(s)) : Head(s) < i
<1>1. Len(s) \in Nat \ {0} /\ DOMAIN s = 1..Len(s)
  BY EmptySeq, LenProperties
<1>2. /\ Tail(s) \in Seq(Nat) /\ Len(Tail(s)) = Len(s) - 1
      /\ \A i \in 1..Len(Tail(s)) : Tail(s)[i] = s[i + 1]
  BY HeadTailProperties
<1>3. Head(s) = s[1]
  BY <1>1
<1>4. DOMAIN Tail(s) = 1..(Len(s) - 1)
  BY <1>2, LenProperties
<1>5. Ascending(Tail(s))
  BY SMTT(30), <1>1, <1>2, <1>4 DEF Ascending
<1>6. \A i \in 1..(Len(s) - 1) : s[1] < s[i + 1]
  BY <1>1 DEF Ascending
<1>7. \A i \in Range(Tail(s)) : Head(s) < i
  BY <1>2, <1>3, <1>4, <1>6 DEF Range
<1> QED BY <1>5, <1>7

-----------------------------------------------------------------------------
(* Types *)

\* The initial state is well typed.
LEMMA PipelineTypesInit == Init => PipelineTypes
<1> SUFFICES ASSUME Init PROVE PipelineTypes
  OBVIOUS
<1> USE PipelineAssumption DEF Init, NoOffset, Empty, Returned, NoBatch
<1>1. Len(<<>>) = 0 /\ <<>> \in Seq(Msgs) /\ <<>> \in Seq(1..0)
  OBVIOUS
<1>2. /\ log \in Seq(Msgs) /\ msgCh \in Seq(1..Len(log)) /\ Len(msgCh) <= ChanCap
      /\ roomBatch \in [Rooms -> Seq(1..Len(log))] /\ arrived \in [Comets -> Seq(1..Len(log))]
  BY <1>1
<1>4. /\ todo \in SUBSET Msgs /\ room \in Rooms /\ waiting \in SUBSET Comets /\ pool \in SUBSET Comets
      /\ committed = NoOffset /\ hand = Empty /\ pos = 0 /\ Len(log) = 0 /\ pc = "select" /\ rpcs = {}
      /\ ctxDone \in BOOLEAN /\ draining \in BOOLEAN
  BY <1>1
<1>3. TypeOK
  <2> HIDE DEF Init
  <2> QED BY <1>2, <1>4 DEF TypeOK
<1> QED BY <1>1, <1>3 DEF PipelineTypes

\* Sequences of records stay sequences of records when the log grows.
LEMMA LogGrows ==
  ASSUME PipelineTypes, log' \in Seq(Msgs), Len(log) <= Len(log'),
         UNCHANGED <<readVars, loopVars, netVars, base, attempted>>, todo' \subseteq todo
  PROVE  PipelineTypes'
<1>1. log \in Seq(Msgs) /\ Len(log) \in Nat /\ Len(log') \in Nat
  BY DEF PipelineTypes, TypeOK
<1>2. 1..Len(log) \subseteq 1..Len(log')
  BY <1>1
<1>3. \A s \in Seq(1..Len(log)) : s \in Seq(1..Len(log'))
  BY <1>2, SeqMonotonic
<1>4. msgCh \in Seq(1..Len(log')) /\ roomBatch \in [Rooms -> Seq(1..Len(log'))]
      /\ arrived \in [Comets -> Seq(1..Len(log'))]
  BY <1>3 DEF PipelineTypes, TypeOK
<1>5. rpcs \subseteq [comet : Comets, ids : Seq(1..Len(log'))]
  BY <1>3 DEF PipelineTypes
<1>6. committed \in {NoOffset} \cup 1..Len(log') /\ pos \in 0..Len(log')
      /\ hand \in 1..Len(log') \cup {Empty, Returned} /\ attempted \subseteq 1..Len(log')
  BY <1>1, <1>2 DEF PipelineTypes, TypeOK
<1>7. TypeOK'
  BY <1>4, <1>5, <1>6 DEF PipelineTypes, TypeOK, readVars, loopVars, netVars
<1> QED BY <1>4, <1>5, <1>6, <1>7 DEF PipelineTypes, readVars, loopVars, netVars

\* No step spoils the types.
LEMMA PipelineTypesStep == PipelineTypes /\ [Next]_vars => PipelineTypes'
<1> SUFFICES ASSUME PipelineTypes, [Next]_vars PROVE PipelineTypes'
  OBVIOUS
<1> USE PipelineAssumption
<1>0. log \in Seq(Msgs) /\ Len(log) \in Nat
  BY DEF PipelineTypes, TypeOK
<1>1. ASSUME NEW m \in Msgs, Produce(m) PROVE PipelineTypes'
  <2>1. log' \in Seq(Msgs) /\ Len(log') = Len(log) + 1
    BY <1>0, <1>1 DEF Produce
  <2> QED BY <1>0, <1>1, <2>1, LogGrows DEF Produce, history
<1>2. ASSUME NEW m \in Msgs, ProduceRetried(m) PROVE PipelineTypes'
  <2>0. <<m, m>> \in Seq(Msgs) /\ Len(<<m, m>>) = 2
    OBVIOUS
  <2>1. log' \in Seq(Msgs) /\ Len(log') = Len(log) + 2
    BY <1>0, <1>2, <2>0, ConcatProperties DEF ProduceRetried
  <2> QED BY <1>0, <1>2, <2>1, LogGrows DEF ProduceRetried, history
<1>3. ASSUME NEW m \in Msgs, ProduceFails(m) PROVE PipelineTypes'
  BY <1>0, <1>3, LogGrows DEF ProduceFails, history
<1>4. CASE ReadMessage
  BY <1>0, <1>4 DEF ReadMessage, PipelineTypes, TypeOK, logicVars, loopVars, netVars, history
<1>5. CASE ReadCommitFails
  BY SMTT(30), <1>0, <1>5 DEF ReadCommitFails, PipelineTypes, TypeOK, logicVars, loopVars, netVars
<1>6. CASE SendMsgCh
  <2>1. msgCh \in Seq(1..Len(log)) /\ hand \in 1..Len(log)
    BY <1>6 DEF SendMsgCh, PipelineTypes, TypeOK, Empty, Returned
  <2>2. msgCh' \in Seq(1..Len(log)) /\ Len(msgCh') = Len(msgCh) + 1
    BY <1>6, <2>1, AppendProperties DEF SendMsgCh
  <2> QED BY SMTT(30), <1>0, <1>6, <2>1, <2>2 DEF SendMsgCh, PipelineTypes, TypeOK, logicVars, netVars, history
<1>7. CASE ReaderReturns
  BY <1>0, <1>7 DEF ReaderReturns, PipelineTypes, TypeOK, logicVars, loopVars, netVars
<1>8. CASE Ingest
  <2> DEFINE i == Head(msgCh)
             r == RoomOf[log[i]]
  <2>1. msgCh \in Seq(1..Len(log)) /\ msgCh # <<>>
    BY <1>8 DEF Ingest, PipelineTypes, TypeOK
  <2>2. i \in 1..Len(log) /\ Tail(msgCh) \in Seq(1..Len(log)) /\ Len(Tail(msgCh)) = Len(msgCh) - 1
    BY <2>1, HeadTail
  <2>3. r \in Rooms
    BY <1>0, <2>2
  <2>4. roomBatch \in [Rooms -> Seq(1..Len(log))]
    BY DEF PipelineTypes, TypeOK
  <2>5. Append(roomBatch[r], i) \in Seq(1..Len(log))
    BY <2>2, <2>3, <2>4, AppendProperties
  <2>6. roomBatch' = [roomBatch EXCEPT ![r] = Append(roomBatch[r], i)]
    BY <1>8 DEF Ingest
  <2>7. roomBatch' \in [Rooms -> Seq(1..Len(log))]
    BY <2>3, <2>4, <2>5, <2>6
  <2>8. /\ msgCh' \in Seq(1..Len(log)) /\ Len(msgCh') <= ChanCap
    BY <1>8, <2>1, <2>2, LenProperties DEF Ingest, PipelineTypes, TypeOK
  <2> HIDE DEF i, r
  <2> QED BY <1>0, <1>8, <2>7, <2>8
          DEF Ingest, PipelineTypes, TypeOK, logicVars, readVars, netVars, history
<1>9. CASE FlushWindow
  BY <1>0, <1>9 DEF FlushWindow, PipelineTypes, TypeOK, logicVars, readVars, netVars, history
<1>10. CASE SeeCtxDone
  BY <1>0, <1>10 DEF SeeCtxDone, PipelineTypes, TypeOK, logicVars, readVars, netVars
<1>11. CASE Drained
  BY <1>0, <1>11 DEF Drained, PipelineTypes, TypeOK, logicVars, readVars, netVars, history
<1>12. ASSUME NEW r \in Rooms, PushRoom(r) PROVE PipelineTypes'
  <2>1. roomBatch[r] \in Seq(1..Len(log)) /\ pool \subseteq Comets
    BY DEF PipelineTypes, TypeOK
  <2>2. Range(roomBatch[r]) \subseteq 1..Len(log)
    BY <2>1, RangeOfSeq
  <2>3. rpcs' \subseteq [comet : Comets, ids : Seq(1..Len(log))]
    BY <1>12, <2>1 DEF PushRoom, PipelineTypes
  <2>4. attempted' \subseteq 1..Len(log)
    BY <1>12, <2>2 DEF PushRoom, PipelineTypes
  <2> QED BY <1>0, <1>12, <2>1, <2>3, <2>4
          DEF PushRoom, PipelineTypes, TypeOK, logicVars, readVars, netVars
<1>13. ASSUME NEW x \in rpcs, CometPushRoom(x) PROVE PipelineTypes'
  <2>1. x.comet \in Comets /\ x.ids \in Seq(1..Len(log)) /\ arrived \in [Comets -> Seq(1..Len(log))]
    BY DEF PipelineTypes, TypeOK
  <2>2. arrived[x.comet] \o x.ids \in Seq(1..Len(log))
    BY <2>1, ConcatProperties
  <2>3. arrived' \in [Comets -> Seq(1..Len(log))]
    BY <1>13, <2>1, <2>2 DEF CometPushRoom
  <2> QED BY <1>0, <1>13, <2>1, <2>3
          DEF CometPushRoom, PipelineTypes, TypeOK, logicVars, readVars, history
<1>14. ASSUME NEW x \in rpcs, PushError(x) PROVE PipelineTypes'
  BY <1>0, <1>14 DEF PushError, PipelineTypes, TypeOK, logicVars, readVars, netVars, history
<1>15. ASSUME NEW k \in Comets, PushTimeout(k) PROVE PipelineTypes'
  BY <1>0, <1>15 DEF PushTimeout, PipelineTypes, TypeOK, logicVars, readVars, netVars
<1>16. CASE PushDone
  <2>1. <<>> \in Seq(1..Len(log))
    OBVIOUS
  <2>2. roomBatch' \in [Rooms -> Seq(1..Len(log))]
    BY <1>16, <2>1 DEF PushDone, PipelineTypes, TypeOK
  <2> QED BY <1>0, <1>16, <2>2 DEF PushDone, PipelineTypes, TypeOK, logicVars, readVars, netVars, history
<1>17. CASE FlushDone
  BY <1>0, <1>17 DEF FlushDone, PipelineTypes, TypeOK, logicVars, readVars, netVars, history
<1>18. ASSUME NEW S \in SUBSET Comets, Apply(S) PROVE PipelineTypes'
  BY <1>0, <1>18 DEF Apply, PipelineTypes, TypeOK, logicVars, readVars, loopVars, history
<1>19. CASE Signal
  BY <1>0, <1>19 DEF Signal, PipelineTypes, TypeOK, logicVars, readVars, netVars, history
<1>20. CASE Crash
  BY <1>0, <1>20 DEF Crash, PipelineTypes, TypeOK, logicVars, readVars, netVars
<1>21. CASE Restart
  <2>1. <<>> \in Seq(1..Len(log)) /\ Len(<<>>) = 0
    OBVIOUS
  <2>2. roomBatch' \in [Rooms -> Seq(1..Len(log))]
    BY <1>21, <2>1 DEF Restart, NoBatch
  <2>3. pos' \in 0..Len(log) /\ base' = pos'
    BY <1>0, <1>21 DEF Restart, PipelineTypes, TypeOK
  <2>4. /\ msgCh' = <<>> /\ log' = log /\ todo' = todo /\ committed' = committed /\ hand' = Empty
        /\ pc' = "select" /\ room' = room /\ waiting' = {} /\ ctxDone' = FALSE /\ draining' = FALSE
        /\ pool' = pool /\ rpcs' = rpcs /\ arrived' = arrived /\ attempted' = attempted
    BY <1>21 DEF Restart, logicVars, netVars
  <2>6. msgCh' \in Seq(1..Len(log)) /\ Len(msgCh') <= ChanCap
    BY <2>1, <2>4
  <2>5. TypeOK'
    BY <1>0, <2>2, <2>3, <2>4, <2>6 DEF PipelineTypes, TypeOK
  <2> QED BY <1>0, <2>3, <2>4, <2>5 DEF PipelineTypes
<1>22. CASE UNCHANGED vars
  BY <1>0, <1>22 DEF vars, PipelineTypes, TypeOK, logicVars, readVars, loopVars, netVars, history
<1> QED BY <1>1, <1>2, <1>3, <1>4, <1>5, <1>6, <1>7, <1>8, <1>9, <1>10, <1>11, <1>12, <1>13, <1>14,
           <1>15, <1>16, <1>17, <1>18, <1>19, <1>20, <1>21, <1>22 DEF Next, ReaderStep, LoopStep

\* Every variable of the pipeline keeps its type and the channel its capacity in every reachable
\* state (job/main.go 185-316, the main loop and its reader).
THEOREM PipelineTypeCorrect == Spec => []TypeOK
<1>1. PipelineTypes => TypeOK
  BY DEF PipelineTypes
<1> QED BY <1>1, PipelineTypesInit, PipelineTypesStep, PTL DEF Spec

-----------------------------------------------------------------------------
(* Records move along hand, msgCh and roomBatch *)

\* The steps that move a record or the reader.
LEMMA FlowSteps ==
  ASSUME [Next]_vars
  PROVE  \/ ReadMessage \/ ReadCommitFails \/ SendMsgCh \/ ReaderReturns \/ Ingest
         \/ (\E r \in Rooms : PushRoom(r)) \/ PushDone \/ Restart
         \/ UNCHANGED <<committed, pos, hand, msgCh, roomBatch, attempted>>
<1> USE DEF readVars, loopVars, history
<1>1. ASSUME NEW m \in Msgs, Produce(m) \/ ProduceRetried(m) \/ ProduceFails(m)
      PROVE  UNCHANGED <<committed, pos, hand, msgCh, roomBatch, attempted>>
  BY <1>1 DEF Produce, ProduceRetried, ProduceFails
<1>2. ASSUME FlushWindow \/ SeeCtxDone \/ Drained \/ FlushDone
      PROVE  UNCHANGED <<committed, pos, hand, msgCh, roomBatch, attempted>>
  BY <1>2 DEF FlushWindow, SeeCtxDone, Drained, FlushDone
<1>3. ASSUME NEW x \in rpcs, CometPushRoom(x) \/ PushError(x)
      PROVE  UNCHANGED <<committed, pos, hand, msgCh, roomBatch, attempted>>
  BY <1>3 DEF CometPushRoom, PushError
<1>4. ASSUME NEW k \in Comets, PushTimeout(k)
      PROVE  UNCHANGED <<committed, pos, hand, msgCh, roomBatch, attempted>>
  BY <1>4 DEF PushTimeout
<1>5. ASSUME NEW S \in SUBSET Comets, Apply(S)
      PROVE  UNCHANGED <<committed, pos, hand, msgCh, roomBatch, attempted>>
  BY <1>5 DEF Apply
<1>6. ASSUME Signal \/ Crash \/ UNCHANGED vars
      PROVE  UNCHANGED <<committed, pos, hand, msgCh, roomBatch, attempted>>
  BY <1>6 DEF Signal, Crash, vars
<1> HIDE DEF readVars, loopVars, history
<1> QED BY <1>1, <1>2, <1>3, <1>4, <1>5, <1>6 DEF Next, ReaderStep, LoopStep

\* What SendMsgCh does to the channel.
LEMMA SendMoves ==
  ASSUME PipelineTypes, SendMsgCh
  PROVE  hand \in 1..Len(log) /\ Range(msgCh') = Range(msgCh) \cup {hand}
<1>1. msgCh \in Seq(1..Len(log)) /\ hand \in 1..Len(log)
  BY SMTT(30) DEF SendMsgCh, PipelineTypes, TypeOK, Empty, Returned
<1> QED BY <1>1, AppendRange DEF SendMsgCh

\* Ingest moves the head of the channel to the batch of its room.
LEMMA IngestMoves ==
  ASSUME PipelineTypes, Ingest
  PROVE  \E i \in 1..Len(log), r \in Rooms :
           /\ i = Head(msgCh) /\ r = RoomOf[log[i]]
           /\ msgCh' = Tail(msgCh) /\ Range(msgCh) = Range(msgCh') \cup {i}
           /\ roomBatch'[r] = Append(roomBatch[r], i)
           /\ Range(roomBatch'[r]) = Range(roomBatch[r]) \cup {i}
           /\ \A q \in Rooms \ {r} : roomBatch'[q] = roomBatch[q]
           /\ Batched' = Batched \cup {i}
<1> DEFINE i == Head(msgCh)
           r == RoomOf[log[i]]
<1>1. msgCh \in Seq(1..Len(log)) /\ msgCh # <<>>
  BY DEF Ingest, PipelineTypes, TypeOK
<1>2. i \in 1..Len(log) /\ Range(msgCh) = Range(Tail(msgCh)) \cup {i}
  BY <1>1, HeadTail
<1>3. r \in Rooms
  BY <1>2, PipelineAssumption DEF PipelineTypes, TypeOK
<1>4. roomBatch \in [Rooms -> Seq(1..Len(log))]
  BY DEF PipelineTypes, TypeOK
<1>5. roomBatch' = [roomBatch EXCEPT ![r] = Append(roomBatch[r], i)] /\ msgCh' = Tail(msgCh)
  BY DEF Ingest
<1> HIDE DEF i, r
<1>6. roomBatch'[r] = Append(roomBatch[r], i) /\ \A q \in Rooms \ {r} : roomBatch'[q] = roomBatch[q]
  BY <1>3, <1>4, <1>5
<1>7. Range(roomBatch'[r]) = Range(roomBatch[r]) \cup {i}
  BY <1>2, <1>3, <1>4, <1>6, AppendRange
<1>8. \A q \in Rooms : Range(roomBatch'[q]) = IF q = r THEN Range(roomBatch[q]) \cup {i} ELSE Range(roomBatch[q])
  BY <1>6, <1>7
<1>9. Batched' = Batched \cup {i}
  BY <1>3, <1>8, Zenon DEF Batched
<1> QED BY <1>2, <1>3, <1>5, <1>6, <1>7, <1>9 DEF i, r

\* PushDone empties the batch that was pushed.
LEMMA PushDoneClears ==
  ASSUME PipelineTypes, PushDone
  PROVE  /\ room \in Rooms /\ roomBatch'[room] = <<>> /\ Range(roomBatch'[room]) = {}
         /\ \A q \in Rooms \ {room} : roomBatch'[q] = roomBatch[q]
         /\ Batched' \subseteq Batched /\ Batched \subseteq Batched' \cup Range(roomBatch[room])
<1>1. room \in Rooms /\ roomBatch \in [Rooms -> Seq(1..Len(log))]
  BY DEF PipelineTypes, TypeOK
<1>2. roomBatch' = [roomBatch EXCEPT ![room] = <<>>]
  BY DEF PushDone
<1>3. roomBatch'[room] = <<>> /\ \A q \in Rooms \ {room} : roomBatch'[q] = roomBatch[q]
  BY <1>1, <1>2
<1>4. Range(roomBatch'[room]) = {}
  BY <1>3 DEF Range
<1>5. \A q \in Rooms : Range(roomBatch'[q]) = IF q = room THEN {} ELSE Range(roomBatch[q])
  BY <1>3, <1>4
<1>6. Batched' \subseteq Batched
  BY <1>5 DEF Batched
<1>7. Batched \subseteq Batched' \cup Range(roomBatch[room])
  BY <1>5 DEF Batched
<1> QED BY <1>1, <1>3, <1>4, <1>6, <1>7

\* A new process has empty buffers.
LEMMA RestartEmpties ==
  ASSUME Restart
  PROVE  /\ msgCh' = <<>> /\ Range(msgCh') = {} /\ Batched' = {}
         /\ \A r \in Rooms : roomBatch'[r] = <<>> /\ Range(roomBatch'[r]) = {}
<1>1. msgCh' = <<>> /\ \A r \in Rooms : roomBatch'[r] = <<>>
  BY DEF Restart, NoBatch
<1>2. Range(<<>>) = {}
  BY DEF Range
<1> QED BY <1>1, <1>2 DEF Batched

\* The buffers hold records of the log.
LEMMA BufferTypes ==
  ASSUME PipelineTypes
  PROVE  /\ Range(msgCh) \subseteq 1..Len(log) /\ Batched \subseteq 1..Len(log)
         /\ attempted \subseteq 1..Len(log) /\ Len(log) \in Nat
         /\ pos \in Nat /\ hand \in Int /\ committed \in Int
<1>1. /\ msgCh \in Seq(1..Len(log)) /\ roomBatch \in [Rooms -> Seq(1..Len(log))]
      /\ log \in Seq(Msgs) /\ attempted \subseteq 1..Len(log)
  BY DEF PipelineTypes, TypeOK
<1>2. Len(log) \in Nat
  BY <1>1
<1>3. Range(msgCh) \subseteq 1..Len(log)
  BY <1>1, RangeOfSeq
<1>4. \A r \in Rooms : Range(roomBatch[r]) \subseteq 1..Len(log)
  BY <1>1, RangeOfSeq
<1>5. Batched \subseteq 1..Len(log)
  BY <1>4 DEF Batched
<1>6. pos \in Nat /\ hand \in Int /\ committed \in Int
  BY <1>2 DEF PipelineTypes, TypeOK, NoOffset, Empty, Returned
<1> QED BY <1>1, <1>2, <1>3, <1>5, <1>6

\* A batch holds batched records only.
LEMMA BatchBatched ==
  ASSUME NEW r \in Rooms
  PROVE  Range(roomBatch[r]) \subseteq Batched
  BY DEF Batched

\* Records are committed before they move on.
LEMMA CommittedFirstStep ==
  ASSUME PipelineTypes, CommittedFirst, [Next]_vars
  PROVE  CommittedFirst'
<1> USE BufferTypes
<1>1. CASE ReadMessage
  <2>1. Batched' = Batched
    BY <1>1 DEF ReadMessage, Batched, loopVars
  <2> QED BY <1>1, <2>1 DEF ReadMessage, CommittedFirst, loopVars, history, Empty
<1>2. CASE ReadCommitFails
  <2>1. Batched' = Batched
    BY <1>2 DEF ReadCommitFails, Batched, loopVars
  <2> QED BY <1>2, <2>1 DEF ReadCommitFails, CommittedFirst, loopVars, Empty
<1>3. CASE SendMsgCh
  <2>1. Batched' = Batched
    BY <1>3 DEF SendMsgCh, Batched
  <2> QED BY <1>3, <2>1, SendMoves DEF SendMsgCh, CommittedFirst, history, Empty, Returned
<1>4. CASE ReaderReturns
  <2>1. Batched' = Batched
    BY <1>4 DEF ReaderReturns, Batched, loopVars
  <2> QED BY <1>4, <2>1 DEF ReaderReturns, CommittedFirst, loopVars
<1>5. CASE Ingest
  <2>1. Range(msgCh') \cup Batched' \subseteq Range(msgCh) \cup Batched
    BY <1>5, IngestMoves
  <2> QED BY <1>5, <2>1 DEF Ingest, CommittedFirst, readVars, history
<1>6. ASSUME NEW r \in Rooms, PushRoom(r) PROVE CommittedFirst'
  <2>1. Batched' = Batched /\ attempted' \subseteq attempted \cup Batched
    BY <1>6, BatchBatched DEF PushRoom, Batched
  <2> QED BY <1>6, <2>1 DEF PushRoom, CommittedFirst, readVars
<1>7. CASE PushDone
  <2>1. Batched' \subseteq Batched
    BY <1>7, PushDoneClears
  <2> QED BY <1>7, <2>1 DEF PushDone, CommittedFirst, readVars, history
<1>8. CASE Restart
  <2>1. committed' <= pos' /\ hand' = Empty /\ committed' = committed /\ attempted' = attempted
    BY <1>8 DEF Restart, NoOffset
  <2> QED BY <1>8, <2>1, RestartEmpties DEF CommittedFirst
<1>9. CASE UNCHANGED <<committed, pos, hand, msgCh, roomBatch, attempted>>
  BY <1>9 DEF CommittedFirst, Batched
<1> QED BY <1>1, <1>2, <1>3, <1>4, <1>5, <1>6, <1>7, <1>8, <1>9, FlowSteps

\* Records stay in offset order along the path.
LEMMA PathInOrderStep ==
  ASSUME PipelineTypes, CommittedFirst, PathInOrder, [Next]_vars
  PROVE  PathInOrder'
<1> USE BufferTypes
<1>0. msgCh \in Seq(Nat)
  BY SeqMonotonic DEF PipelineTypes, TypeOK
<1>1. CASE ReadMessage
  <2>1. Batched' = Batched
    BY <1>1 DEF ReadMessage, Batched, loopVars
  <2> QED BY <1>1, <2>1 DEF ReadMessage, CommittedFirst, PathInOrder, loopVars, history
<1>2. CASE ReadCommitFails
  <2>1. Batched' = Batched
    BY <1>2 DEF ReadCommitFails, Batched, loopVars
  <2> QED BY <1>2, <2>1 DEF ReadCommitFails, PathInOrder, loopVars
<1>3. CASE SendMsgCh
  <2>1. Batched' = Batched /\ attempted' = attempted /\ hand' = Empty
    BY <1>3 DEF SendMsgCh, Batched, history
  <2>2. Range(msgCh') = Range(msgCh) \cup {hand} /\ hand \in 1..Len(log)
    BY <1>3, SendMoves
  <2>3. \A i \in Range(msgCh) \cup Batched \cup attempted : i < hand
    BY <2>2 DEF PathInOrder
  <2>4. Ascending(msgCh')
    BY <1>0, <1>3, <2>2, <2>3, AppendAscending DEF SendMsgCh, PathInOrder
  <2> QED BY <2>1, <2>2, <2>3, <2>4 DEF PathInOrder, Empty
<1>4. CASE ReaderReturns
  <2>1. Batched' = Batched
    BY <1>4 DEF ReaderReturns, Batched, loopVars
  <2> QED BY <1>4, <2>1 DEF ReaderReturns, PathInOrder, loopVars, Returned
<1>5. CASE Ingest
  <2>1. PICK i \in 1..Len(log) : /\ i = Head(msgCh) /\ msgCh' = Tail(msgCh)
                                 /\ Range(msgCh) = Range(msgCh') \cup {i}
                                 /\ Batched' = Batched \cup {i}
    BY <1>5, IngestMoves
  <2>2. Ascending(msgCh') /\ \A j \in Range(msgCh') : i < j
    BY <1>0, <1>5, <2>1, TailAscending DEF Ingest, PathInOrder
  <2>3. hand' = hand /\ attempted' = attempted
    BY <1>5 DEF Ingest, readVars, history
  <2> QED BY <2>1, <2>2, <2>3 DEF PathInOrder
<1>6. ASSUME NEW r \in Rooms, PushRoom(r) PROVE PathInOrder'
  <2>1. Batched' = Batched /\ attempted' \subseteq attempted \cup Batched
    BY <1>6, BatchBatched DEF PushRoom, Batched
  <2> QED BY <1>6, <2>1 DEF PushRoom, PathInOrder, readVars
<1>7. CASE PushDone
  <2>1. Batched' \subseteq Batched
    BY <1>7, PushDoneClears
  <2> QED BY <1>7, <2>1 DEF PushDone, PathInOrder, readVars, history
<1>8. CASE Restart
  <2>1. hand' = Empty
    BY <1>8 DEF Restart
  <2> QED BY <1>8, <2>1, RestartEmpties DEF PathInOrder, Ascending, Empty
<1>9. CASE UNCHANGED <<committed, pos, hand, msgCh, roomBatch, attempted>>
  BY <1>9 DEF PathInOrder, Batched
<1> QED BY <1>1, <1>2, <1>3, <1>4, <1>5, <1>6, <1>7, <1>8, <1>9, FlowSteps

-----------------------------------------------------------------------------
(* Batches *)

\* A log that grows keeps its records.
LEMMA LogKeeps ==
  ASSUME PipelineTypes, NEW m \in Msgs, Produce(m) \/ ProduceRetried(m) \/ ProduceFails(m)
  PROVE  \A i \in 1..Len(log) : log'[i] = log[i]
<1>1. log \in Seq(Msgs)
  BY DEF PipelineTypes, TypeOK
<1>2. CASE Produce(m)
  BY <1>1, <1>2, AppendProperties DEF Produce
<1>3. CASE ProduceRetried(m)
  <2>1. <<m, m>> \in Seq(Msgs)
    OBVIOUS
  <2>2. Len(log \o <<m, m>>) = Len(log) + Len(<<m, m>>)
        /\ \A i \in 1..Len(log) + Len(<<m, m>>) :
             (log \o <<m, m>>)[i] = IF i <= Len(log) THEN log[i] ELSE <<m, m>>[i - Len(log)]
    BY <1>1, <2>1, ConcatProperties
  <2>3. Len(log) \in Nat /\ Len(<<m, m>>) = 2
    BY <1>1
  <2> QED BY <1>3, <2>2, <2>3 DEF ProduceRetried
<1>4. CASE ProduceFails(m)
  BY <1>4 DEF ProduceFails
<1> QED BY <1>2, <1>3, <1>4

\* The steps that change what BatchInOrder is about.
LEMMA BatchSteps ==
  ASSUME [Next]_vars
  PROVE  \/ \E m \in Msgs : Produce(m) \/ ProduceRetried(m) \/ ProduceFails(m)
         \/ Ingest \/ FlushWindow \/ SeeCtxDone \/ Drained \/ FlushDone
         \/ (\E r \in Rooms : PushRoom(r)) \/ PushDone \/ Crash \/ Restart
         \/ UNCHANGED <<log, roomBatch, pc, room, attempted>>
<1> USE DEF logicVars, readVars, loopVars, history
<1>1. ASSUME ReadMessage \/ ReadCommitFails \/ SendMsgCh \/ ReaderReturns
      PROVE  UNCHANGED <<log, roomBatch, pc, room, attempted>>
  BY <1>1 DEF ReadMessage, ReadCommitFails, SendMsgCh, ReaderReturns
<1>3. ASSUME NEW x \in rpcs, CometPushRoom(x) \/ PushError(x)
      PROVE  UNCHANGED <<log, roomBatch, pc, room, attempted>>
  BY <1>3 DEF CometPushRoom, PushError
<1>4. ASSUME NEW k \in Comets, PushTimeout(k)
      PROVE  UNCHANGED <<log, roomBatch, pc, room, attempted>>
  BY <1>4 DEF PushTimeout
<1>5. ASSUME NEW S \in SUBSET Comets, Apply(S)
      PROVE  UNCHANGED <<log, roomBatch, pc, room, attempted>>
  BY <1>5 DEF Apply
<1>6. ASSUME Signal \/ UNCHANGED vars
      PROVE  UNCHANGED <<log, roomBatch, pc, room, attempted>>
  BY <1>6 DEF Signal, vars
<1> HIDE DEF logicVars, readVars, loopVars, history
<1> QED BY <1>1, <1>3, <1>4, <1>5, <1>6 DEF Next, ReaderStep, LoopStep

\* Each room's batch stays in order and above what was pushed of the room.
LEMMA BatchInOrderStep ==
  ASSUME PipelineTypes, PathInOrder, BatchInOrder, [Next]_vars
  PROVE  BatchInOrder'
<1> USE BufferTypes
<1>0. \A q \in Rooms : roomBatch[q] \in Seq(1..Len(log)) /\ Range(roomBatch[q]) \subseteq 1..Len(log)
  BY BatchBatched DEF PipelineTypes, TypeOK
<1>1. ASSUME NEW m \in Msgs, Produce(m) \/ ProduceRetried(m) \/ ProduceFails(m) PROVE BatchInOrder'
  <2>1. UNCHANGED <<roomBatch, pc, room, attempted>>
    BY <1>1 DEF Produce, ProduceRetried, ProduceFails, loopVars, history
  <2>2. \A i \in 1..Len(log) : log'[i] = log[i]
    BY <1>1, LogKeeps
  <2>3. \A i \in 1..Len(log) : RoomOf[log'[i]] = RoomOf[log[i]]
    BY <2>2
  <2>4. attempted \subseteq 1..Len(log)
    OBVIOUS
  <2> SUFFICES ASSUME NEW r \in Rooms
               PROVE  /\ Ascending(roomBatch[r])
                      /\ \A i \in Range(roomBatch[r]) : RoomOf[log'[i]] = r
                      /\ IF pc = "push" /\ room = r
                         THEN Range(roomBatch[r]) \subseteq attempted
                         ELSE Running => \A a \in attempted : RoomOf[log'[a]] = r =>
                                           \A b \in Range(roomBatch[r]) : a < b
    BY <2>1 DEF BatchInOrder, Running
  <2>5. Range(roomBatch[r]) \subseteq 1..Len(log)
    BY <1>0
  <2>6. \A i \in Range(roomBatch[r]) : RoomOf[log'[i]] = r
    BY <2>3, <2>5 DEF BatchInOrder
  <2> QED BY <2>3, <2>4, <2>6 DEF BatchInOrder
<1>2. CASE Ingest
  <2>1. PICK i \in 1..Len(log), r \in Rooms :
           /\ i = Head(msgCh) /\ r = RoomOf[log[i]]
           /\ msgCh' = Tail(msgCh) /\ Range(msgCh) = Range(msgCh') \cup {i}
           /\ roomBatch'[r] = Append(roomBatch[r], i)
           /\ Range(roomBatch'[r]) = Range(roomBatch[r]) \cup {i}
           /\ \A q \in Rooms \ {r} : roomBatch'[q] = roomBatch[q]
           /\ Batched' = Batched \cup {i}
    BY SMTT(30), <1>2, IngestMoves
  <2>2. pc' = pc /\ room' = room /\ attempted' = attempted /\ log' = log /\ pc # "push"
    BY <1>2 DEF Ingest, logicVars, history
  <2>3. \A j \in Range(roomBatch[r]) \cup attempted : j < i
    BY <2>1, BatchBatched DEF PathInOrder
  <2>4. roomBatch[r] \in Seq(Nat)
    BY <1>0, SeqMonotonic
  <2>5. Ascending(roomBatch'[r])
    BY SMTT(30), <2>1, <2>3, <2>4, AppendAscending DEF BatchInOrder
  <2> SUFFICES ASSUME NEW q \in Rooms
               PROVE  /\ Ascending(roomBatch'[q])
                      /\ \A j \in Range(roomBatch'[q]) : RoomOf[log[j]] = q
                      /\ Running => \A a \in attempted : RoomOf[log[a]] = q =>
                                     \A b \in Range(roomBatch'[q]) : a < b
    BY <2>2 DEF BatchInOrder, Running
  <2>6. CASE q = r
    BY ZenonT(30), <2>1, <2>2, <2>3, <2>5, <2>6 DEF BatchInOrder
  <2>7. CASE q # r
    BY <2>1, <2>2, <2>7 DEF BatchInOrder
  <2> QED BY <2>6, <2>7
<1>3. CASE FlushWindow \/ SeeCtxDone \/ Drained \/ FlushDone
  <2>1. UNCHANGED <<log, roomBatch, attempted>> /\ pc # "push" /\ pc' # "push" /\ Running
    BY <1>3 DEF FlushWindow, SeeCtxDone, Drained, FlushDone, logicVars, history, Running
  <2> QED BY <2>1 DEF BatchInOrder
<1>4. ASSUME NEW r \in Rooms, PushRoom(r) PROVE BatchInOrder'
  <2>1. UNCHANGED <<log, roomBatch>> /\ pc = "flush" /\ pc' = "push" /\ Running /\ room' = r
        /\ attempted' = attempted \cup Range(roomBatch[r])
    BY <1>4 DEF PushRoom, logicVars, Running
  <2>2. \A i \in Range(roomBatch[r]) : RoomOf[log[i]] = r
    BY DEF BatchInOrder
  <2> QED BY <2>1, <2>2 DEF BatchInOrder
<1>5. CASE PushDone
  <2>1. UNCHANGED <<log, room, attempted>> /\ pc = "push" /\ pc' = "flush" /\ Running
    BY <1>5 DEF PushDone, logicVars, history, Running
  <2>2. /\ room \in Rooms /\ roomBatch'[room] = <<>> /\ Range(roomBatch'[room]) = {}
        /\ \A q \in Rooms \ {room} : roomBatch'[q] = roomBatch[q]
    BY <1>5, PushDoneClears
  <2>3. Ascending(<<>>)
    BY DEF Ascending
  <2> QED BY <2>1, <2>2, <2>3 DEF BatchInOrder
<1>6. CASE Crash
  <2>1. UNCHANGED <<log, roomBatch, attempted>> /\ pc' = "down"
    BY <1>6 DEF Crash, logicVars
  <2> QED BY <2>1 DEF BatchInOrder, Running
<1>7. CASE Restart
  <2>1. pc' = "select"
    BY <1>7 DEF Restart
  <2>2. Ascending(<<>>)
    BY DEF Ascending
  <2> QED BY <1>7, <2>1, <2>2, RestartEmpties DEF BatchInOrder
<1>8. CASE UNCHANGED <<log, roomBatch, pc, room, attempted>>
  BY <1>8 DEF BatchInOrder, Running
<1> QED BY <1>1, <1>2, <1>3, <1>4, <1>5, <1>6, <1>7, <1>8, BatchSteps

-----------------------------------------------------------------------------
(* Calls *)

\* The steps that change calls or what has arrived.
LEMMA CallSteps ==
  ASSUME [Next]_vars
  PROVE  \/ \E r \in Rooms : PushRoom(r)
         \/ \E x \in rpcs : CometPushRoom(x) \/ PushError(x)
         \/ UNCHANGED <<rpcs, arrived, attempted>>
<1> USE DEF netVars, history
<1>1. ASSUME NEW m \in Msgs, Produce(m) \/ ProduceRetried(m) \/ ProduceFails(m)
      PROVE  UNCHANGED <<rpcs, arrived, attempted>>
  BY <1>1 DEF Produce, ProduceRetried, ProduceFails
<1>2. ASSUME ReadMessage \/ ReadCommitFails \/ SendMsgCh \/ ReaderReturns
      PROVE  UNCHANGED <<rpcs, arrived, attempted>>
  BY <1>2 DEF ReadMessage, ReadCommitFails, SendMsgCh, ReaderReturns
<1>3. ASSUME Ingest \/ FlushWindow \/ SeeCtxDone \/ Drained \/ PushDone \/ FlushDone
      PROVE  UNCHANGED <<rpcs, arrived, attempted>>
  BY <1>3 DEF Ingest, FlushWindow, SeeCtxDone, Drained, PushDone, FlushDone
<1>4. ASSUME NEW k \in Comets, PushTimeout(k)
      PROVE  UNCHANGED <<rpcs, arrived, attempted>>
  BY <1>4 DEF PushTimeout
<1>5. ASSUME NEW S \in SUBSET Comets, Apply(S)
      PROVE  UNCHANGED <<rpcs, arrived, attempted>>
  BY <1>5 DEF Apply
<1>6. ASSUME Signal \/ Crash \/ Restart \/ UNCHANGED vars
      PROVE  UNCHANGED <<rpcs, arrived, attempted>>
  BY <1>6 DEF Signal, Crash, Restart, vars
<1> HIDE DEF netVars, history
<1> QED BY <1>1, <1>2, <1>3, <1>4, <1>5, <1>6 DEF Next, ReaderStep, LoopStep

\* A record below or above every element of a set is not in it: the batch pushed next is new.
LEMMA BatchNew ==
  ASSUME PipelineTypes, BatchInOrder, NEW r \in Rooms, PushRoom(r)
  PROVE  Range(roomBatch[r]) \cap attempted = {}
<1>1. pc = "flush" /\ Running
  BY DEF PushRoom, Running
<1>2. Range(roomBatch[r]) \subseteq 1..Len(log)
  BY BatchBatched, BufferTypes
<1>3. \A b \in Range(roomBatch[r]) : b \notin attempted
  <2> SUFFICES ASSUME NEW b \in Range(roomBatch[r]), b \in attempted PROVE FALSE
    OBVIOUS
  <2>1. RoomOf[log[b]] = r
    BY DEF BatchInOrder
  <2>2. b < b
    BY <1>1, <2>1 DEF BatchInOrder
  <2> QED BY <1>2, <2>2
<1> QED BY <1>3

\* What a comet's execution of a call does to what has arrived.
LEMMA ArrivalMoves ==
  ASSUME PipelineTypes, NEW x \in rpcs, CometPushRoom(x)
  PROVE  /\ x.comet \in Comets /\ x.ids \in Seq(1..Len(log)) /\ arrived[x.comet] \in Seq(1..Len(log))
         /\ arrived'[x.comet] = arrived[x.comet] \o x.ids
         /\ Range(arrived'[x.comet]) = Range(arrived[x.comet]) \cup Range(x.ids)
         /\ \A k \in Comets \ {x.comet} : arrived'[k] = arrived[k]
<1>1. x.comet \in Comets /\ x.ids \in Seq(1..Len(log)) /\ arrived \in [Comets -> Seq(1..Len(log))]
  BY DEF PipelineTypes, TypeOK
<1>2. arrived'[x.comet] = arrived[x.comet] \o x.ids /\ \A k \in Comets \ {x.comet} : arrived'[k] = arrived[k]
  BY <1>1 DEF CometPushRoom
<1> QED BY <1>1, <1>2, ConcatRange

\* No record is in two calls to a comet, or in one and among what has arrived there.
LEMMA CallsOnceStep ==
  ASSUME PipelineTypes, BatchInOrder, CallsOnce, [Next]_vars
  PROVE  CallsOnce'
<1>1. ASSUME NEW r \in Rooms, PushRoom(r) PROVE CallsOnce'
  <2> DEFINE new == {[comet |-> k, ids |-> roomBatch[r]] : k \in pool}
  <2>1. rpcs' = rpcs \cup new /\ arrived' = arrived /\ attempted' = attempted \cup Range(roomBatch[r])
    BY <1>1 DEF PushRoom
  <2>2. Range(roomBatch[r]) \cap attempted = {}
    BY <1>1, BatchNew
  <2>3. Ascending(roomBatch[r])
    BY DEF BatchInOrder
  <2>4. \A x \in new : x.ids = roomBatch[r] /\ x.comet \in Comets
    BY DEF PipelineTypes, TypeOK
  <2>5. \A x, y \in new : x.comet = y.comet => x = y
    OBVIOUS
  <2>6. \A x \in rpcs : x.comet \in Comets
    BY DEF PipelineTypes
  <2> HIDE DEF new
  <2>7. \A x \in rpcs' : x \in new \/ x \in rpcs
    BY <2>1
  <2>8. \A x \in rpcs' : /\ Range(x.ids) \subseteq attempted' /\ Ascending(x.ids)
                         /\ Range(x.ids) \cap Range(arrived'[x.comet]) = {}
    BY <2>1, <2>2, <2>3, <2>4, <2>6, <2>7 DEF CallsOnce
  <2>9. ASSUME NEW x \in rpcs', NEW y \in rpcs', x # y, x.comet = y.comet
        PROVE  Range(x.ids) \cap Range(y.ids) = {}
    BY <2>2, <2>4, <2>5, <2>7, <2>9 DEF CallsOnce
  <2> QED BY <2>1, <2>8, <2>9 DEF CallsOnce
<1>2. ASSUME NEW x \in rpcs, CometPushRoom(x) PROVE CallsOnce'
  <2>1. rpcs' = rpcs \ {x} /\ attempted' = attempted
    BY <1>2 DEF CometPushRoom, history
  <2>2. /\ x.comet \in Comets
        /\ Range(arrived'[x.comet]) = Range(arrived[x.comet]) \cup Range(x.ids)
        /\ \A k \in Comets \ {x.comet} : arrived'[k] = arrived[k]
    BY <1>2, ArrivalMoves
  <2>3. \A y \in rpcs : y.comet \in Comets
    BY DEF PipelineTypes
  <2> QED BY <2>1, <2>2, <2>3 DEF CallsOnce
<1>3. ASSUME NEW x \in rpcs, PushError(x) PROVE CallsOnce'
  BY <1>3 DEF PushError, CallsOnce, history
<1>4. CASE UNCHANGED <<rpcs, arrived, attempted>>
  BY <1>4 DEF CallsOnce
<1> QED BY <1>1, <1>2, <1>3, <1>4, CallSteps

\* A call adds to a comet's broadcasts only records that it has not had.
LEMMA AtMostOnceStep ==
  ASSUME PipelineTypes, CallsOnce, AtMostOnce, [Next]_vars
  PROVE  AtMostOnce'
<1>1. ASSUME NEW x \in rpcs, CometPushRoom(x) PROVE AtMostOnce'
  <2> DEFINE k == x.comet
             s == arrived[k]
             t == x.ids
  <2>1. /\ k \in Comets /\ t \in Seq(1..Len(log)) /\ s \in Seq(1..Len(log))
        /\ arrived'[k] = s \o t
        /\ \A q \in Comets \ {k} : arrived'[q] = arrived[q]
    BY <1>1, ArrivalMoves
  <2>2. \A i, j \in DOMAIN s : s[i] = s[j] => i = j
    BY <2>1 DEF AtMostOnce
  <2>3. Range(t) \cap Range(s) = {} /\ Ascending(t)
    BY DEF CallsOnce
  <2>4. DOMAIN t = 1..Len(t) /\ Len(t) \in Nat /\ (\A i \in DOMAIN t : t[i] \in Nat) /\ Len(s) \in Nat
        /\ DOMAIN s = 1..Len(s)
    BY <2>1, LenProperties, ElementOfSeq, BufferTypes
  <2> HIDE DEF k, s, t
  <2>5. \A i, j \in DOMAIN t : t[i] = t[j] => i = j
    BY <2>3, <2>4 DEF Ascending
  <2>6. \A i \in DOMAIN s, j \in DOMAIN t : s[i] # t[j]
    BY <2>3 DEF Range
  <2>7. ASSUME NEW i \in DOMAIN (s \o t), NEW j \in DOMAIN (s \o t), (s \o t)[i] = (s \o t)[j]
        PROVE  i = j
    <3>1. DOMAIN (s \o t) \subseteq Nat
      BY <2>1, ConcatProperties, LenProperties
    <3>2. \/ i \in DOMAIN s /\ i <= Len(s) /\ (s \o t)[i] = s[i]
          \/ i > Len(s) /\ i - Len(s) \in DOMAIN t /\ (s \o t)[i] = t[i - Len(s)]
      BY <2>1, ConcatCases
    <3>3. \/ j \in DOMAIN s /\ j <= Len(s) /\ (s \o t)[j] = s[j]
          \/ j > Len(s) /\ j - Len(s) \in DOMAIN t /\ (s \o t)[j] = t[j - Len(s)]
      BY <2>1, ConcatCases
    <3>4. CASE i \in DOMAIN s /\ (s \o t)[i] = s[i] /\ j \in DOMAIN s /\ (s \o t)[j] = s[j]
      BY <2>2, <2>7, <3>4
    <3>5. CASE i - Len(s) \in DOMAIN t /\ (s \o t)[i] = t[i - Len(s)]
               /\ j - Len(s) \in DOMAIN t /\ (s \o t)[j] = t[j - Len(s)]
      <4>1. i - Len(s) = j - Len(s)
        BY <2>5, <2>7, <3>5
      <4> QED BY <2>4, <3>1, <4>1
    <3> QED BY <2>6, <2>7, <3>2, <3>3, <3>4, <3>5
  <2> QED BY <2>1, <2>7 DEF AtMostOnce
<1>2. ASSUME NEW r \in Rooms, PushRoom(r) PROVE AtMostOnce'
  BY <1>2 DEF PushRoom, AtMostOnce
<1>3. ASSUME NEW x \in rpcs, PushError(x) PROVE AtMostOnce'
  BY <1>3 DEF PushError, AtMostOnce
<1>4. CASE UNCHANGED <<rpcs, arrived, attempted>>
  BY <1>4 DEF AtMostOnce
<1> QED BY <1>1, <1>2, <1>3, <1>4, CallSteps

\* The named parts of OnceInv hold together.
LEMMA OnceInvStep == OnceInv /\ [Next]_vars => OnceInv'
  BY PipelineTypesStep, CommittedFirstStep, PathInOrderStep, BatchInOrderStep, CallsOnceStep,
     AtMostOnceStep DEF OnceInv

\* The initial state has nothing under way.
LEMMA OnceInvInit == Init => OnceInv
<1> SUFFICES ASSUME Init PROVE OnceInv
  OBVIOUS
<1>1. PipelineTypes
  BY PipelineTypesInit
<1>2. Range(<<>>) = {} /\ Ascending(<<>>)
  BY DEF Range, Ascending
<1>3. msgCh = <<>> /\ \A r \in Rooms : roomBatch[r] = <<>>
  BY DEF Init, NoBatch
<1>4. Batched = {}
  BY <1>2, <1>3 DEF Batched
<1>5. \A k \in Comets : arrived[k] = <<>>
  BY DEF Init
<1>6. CommittedFirst
  BY <1>2, <1>3, <1>4 DEF Init, CommittedFirst, NoOffset
<1>7. PathInOrder
  BY <1>2, <1>3, <1>4 DEF Init, PathInOrder
<1>8. BatchInOrder
  BY <1>2, <1>3 DEF Init, BatchInOrder
<1>9. CallsOnce
  BY <1>2, <1>5 DEF Init, CallsOnce
<1>10. AtMostOnce
  BY <1>5 DEF AtMostOnce
<1> QED BY <1>1, <1>6, <1>7, <1>8, <1>9, <1>10 DEF OnceInv

\* OnceInv holds in every reachable state.
LEMMA OnceInvHolds == Spec => []OnceInv
  BY OnceInvInit, OnceInvStep, PTL DEF Spec

\* What a running job has read stays accounted for.
LEMMA NothingVanishesStep ==
  ASSUME OnceInv, NothingVanishes, [Next]_vars
  PROVE  NothingVanishes'
<1> USE BufferTypes DEF OnceInv
<1>0. base \in Nat /\ base <= pos
  BY DEF PipelineTypes
<1>1. ASSUME NEW m \in Msgs, Produce(m) \/ ProduceRetried(m) \/ ProduceFails(m) PROVE NothingVanishes'
  BY <1>1 DEF Produce, ProduceRetried, ProduceFails, NothingVanishes, Batched, Running, readVars, loopVars, history
<1>2. CASE ReadMessage
  BY <1>0, <1>2 DEF ReadMessage, NothingVanishes, Batched, Running, Empty, loopVars, history
<1>3. CASE ReadCommitFails
  BY <1>0, <1>3 DEF ReadCommitFails, NothingVanishes, Batched, Running, loopVars
<1>4. CASE SendMsgCh
  <2>1. Range(msgCh') = Range(msgCh) \cup {hand}
    BY <1>4, SendMoves
  <2>2. Batched' = Batched
    BY <1>4 DEF SendMsgCh, Batched
  <2> QED BY <1>4, <2>1, <2>2 DEF SendMsgCh, NothingVanishes, Running, history
<1>5. CASE ReaderReturns
  BY <1>0, <1>5 DEF ReaderReturns, NothingVanishes, Batched, Running, loopVars
<1>6. CASE Ingest
  <2>1. Range(msgCh) \cup Batched \subseteq Range(msgCh') \cup Batched'
    BY <1>6, IngestMoves
  <2> QED BY <1>6, <2>1 DEF Ingest, NothingVanishes, Running, readVars, history
<1>7. CASE FlushWindow \/ SeeCtxDone \/ Drained \/ FlushDone
  BY <1>7 DEF FlushWindow, SeeCtxDone, Drained, FlushDone, NothingVanishes, Batched, Running, readVars, history
<1>8. ASSUME NEW r \in Rooms, PushRoom(r) PROVE NothingVanishes'
  BY <1>8 DEF PushRoom, NothingVanishes, Batched, Running, readVars
<1>9. CASE PushDone
  <2>1. Batched \subseteq Batched' \cup Range(roomBatch[room]) /\ room \in Rooms
    BY <1>9, PushDoneClears
  <2>2. Range(roomBatch[room]) \subseteq attempted
    BY <1>9, <2>1 DEF PushDone, BatchInOrder
  <2> QED BY <1>9, <2>1, <2>2 DEF PushDone, NothingVanishes, Running, readVars, history
<1>10. ASSUME NEW x \in rpcs, CometPushRoom(x) \/ PushError(x) PROVE NothingVanishes'
  BY <1>10 DEF CometPushRoom, PushError, NothingVanishes, Batched, Running, readVars, history
<1>11. ASSUME NEW k \in Comets, PushTimeout(k) PROVE NothingVanishes'
  BY <1>11 DEF PushTimeout, NothingVanishes, Batched, Running, readVars
<1>12. ASSUME NEW S \in SUBSET Comets, Apply(S) PROVE NothingVanishes'
  BY <1>12 DEF Apply, NothingVanishes, Batched, Running, readVars, loopVars, history
<1>13. CASE Signal
  BY <1>13 DEF Signal, NothingVanishes, Batched, Running, readVars, history
<1>14. CASE Crash
  BY <1>14 DEF Crash, NothingVanishes, Running
<1>15. CASE Restart
  <2>1. \E p \in Int : base' = p /\ pos' = p
    BY <1>15 DEF Restart
  <2>2. \A p \in Int : \A i \in (p + 1)..p : FALSE
    OBVIOUS
  <2> QED BY <2>1, <2>2, Zenon DEF NothingVanishes
<1>16. CASE UNCHANGED vars
  BY <1>16 DEF vars, NothingVanishes, Batched, Running, readVars, loopVars, history
<1> QED BY <1>1, <1>2, <1>3, <1>4, <1>5, <1>6, <1>7, <1>8, <1>9, <1>10, <1>11, <1>12, <1>13, <1>14,
           <1>15, <1>16 DEF Next, ReaderStep, LoopStep

\* A record is broadcast at most once on a comet, and a running job loses only what ReadMessage
\* failed to commit: for any number of danmu, comets, crashes, restarts and failed commits
\* (job/main.go 185-316).
THEOREM OnceOrDroppedHolds == Spec => []OnceOrDropped
<1>1. Init => NothingVanishes
  BY DEF Init, NothingVanishes
<1>2. OnceInv /\ NothingVanishes /\ [Next]_vars => NothingVanishes'
  BY NothingVanishesStep
<1>3. OnceInv /\ NothingVanishes => OnceOrDropped
  BY DEF OnceInv, OnceOrDropped
<1> QED BY <1>1, <1>2, <1>3, OnceInvHolds, PTL DEF Spec

\* The records owed at ctx.Done stay in sight until they are pushed.
LEMMA OwedKeptStep ==
  ASSUME OnceInv, OwedKept, [Next]_vars
  PROVE  OwedKept'
<1> USE DEF OnceInv
<1>1. ASSUME NEW m \in Msgs, Produce(m) \/ ProduceRetried(m) \/ ProduceFails(m) PROVE OwedKept'
  BY <1>1 DEF Produce, ProduceRetried, ProduceFails, OwedKept, Batched, loopVars, history
<1>2. CASE ReadMessage \/ ReadCommitFails \/ ReaderReturns
  BY <1>2 DEF ReadMessage, ReadCommitFails, ReaderReturns, OwedKept, Batched, loopVars, history
<1>4. CASE SendMsgCh
  <2>1. Range(msgCh') = Range(msgCh) \cup {hand}
    BY <1>4, SendMoves
  <2>2. Batched' = Batched
    BY <1>4 DEF SendMsgCh, Batched
  <2> QED BY <1>4, <2>1, <2>2 DEF SendMsgCh, OwedKept, history
<1>6. CASE Ingest
  <2>1. Range(msgCh) \cup Batched \subseteq Range(msgCh') \cup Batched'
    BY <1>6, IngestMoves
  <2> QED BY <1>6, <2>1 DEF Ingest, OwedKept, history
<1>7. CASE FlushWindow
  BY <1>7 DEF FlushWindow, OwedKept, history
<1>8. CASE SeeCtxDone
  BY <1>8 DEF SeeCtxDone, OwedKept, Batched
<1>9. CASE Drained
  <2>1. Range(msgCh) = {} /\ Batched' = Batched
    BY <1>9 DEF Drained, Range, Batched
  <2> QED BY <1>9, <2>1 DEF Drained, OwedKept, history
<1>10. CASE FlushDone
  <2>1. Batched = {}
    BY <1>10 DEF FlushDone, NoBatch, Batched, Range
  <2> QED BY <1>10, <2>1 DEF FlushDone, OwedKept, history
<1>11. ASSUME NEW r \in Rooms, PushRoom(r) PROVE OwedKept'
  BY <1>11 DEF PushRoom, OwedKept, Batched
<1>12. CASE PushDone
  <2>1. Batched \subseteq Batched' \cup Range(roomBatch[room]) /\ room \in Rooms
    BY <1>12, PushDoneClears
  <2>2. Range(roomBatch[room]) \subseteq attempted
    BY <1>12, <2>1 DEF PushDone, BatchInOrder
  <2> QED BY <1>12, <2>1, <2>2 DEF PushDone, OwedKept, history
<1>13. ASSUME NEW x \in rpcs, CometPushRoom(x) \/ PushError(x) PROVE OwedKept'
  <2>1. UNCHANGED <<pc, draining, msgCh, roomBatch, attempted, owed>>
    BY <1>13 DEF CometPushRoom, PushError, history
  <2> QED BY <2>1 DEF OwedKept, Batched
<1>14. ASSUME NEW k \in Comets, PushTimeout(k) PROVE OwedKept'
  BY <1>14 DEF PushTimeout, OwedKept, Batched
<1>15. ASSUME NEW S \in SUBSET Comets, Apply(S) PROVE OwedKept'
  BY <1>15 DEF Apply, OwedKept, Batched, loopVars, history
<1>16. CASE Signal \/ Crash \/ UNCHANGED vars
  BY <1>16 DEF Signal, Crash, vars, OwedKept, Batched, loopVars, history
<1>17. CASE Restart
  BY <1>17 DEF Restart, OwedKept
<1> QED BY <1>1, <1>2, <1>4, <1>6, <1>7, <1>8, <1>9, <1>10, <1>11, <1>12, <1>13, <1>14, <1>15, <1>16,
           <1>17 DEF Next, ReaderStep, LoopStep

\* When the main loop returns, every record it had buffered at ctx.Done has been pushed, for any
\* capacity of the channel and any interleaving with the reader (job/main.go 298-309).
THEOREM StopDrainsHolds == Spec => []StopDrains
<1>1. Init => OwedKept
  BY DEF Init, OwedKept
<1>2. OnceInv /\ OwedKept /\ [Next]_vars => OwedKept'
  BY OwedKeptStep
<1>3. OwedKept => StopDrains
  BY DEF OwedKept, StopDrains
<1> QED BY <1>1, <1>2, <1>3, OnceInvHolds, PTL DEF Spec

-----------------------------------------------------------------------------
(* The order of broadcasts on a comet *)

\* A comet that was never late has no call but the one it is waited for.
LEMMA CallsCurrentStep ==
  ASSUME OnceInv, CallsCurrent, [Next]_vars
  PROVE  CallsCurrent'
<1> USE DEF OnceInv
<1>0. \A x \in rpcs : x.comet \in Comets /\ Range(arrived[x.comet]) \subseteq 1..Len(log)
  BY BufferTypes DEF PipelineTypes, CallsOnce
<1>1. ASSUME NEW m \in Msgs, Produce(m) \/ ProduceRetried(m) \/ ProduceFails(m) PROVE CallsCurrent'
  <2>1. UNCHANGED <<rpcs, arrived, late, pc, waiting, room, roomBatch>>
    BY <1>1 DEF Produce, ProduceRetried, ProduceFails, loopVars, netVars, history
  <2>2. \A i \in 1..Len(log) : RoomOf[log'[i]] = RoomOf[log[i]]
    BY <1>1, LogKeeps
  <2> QED BY <1>0, <2>1, <2>2 DEF CallsCurrent, Current
<1>2. CASE ReadMessage \/ ReadCommitFails \/ ReaderReturns \/ SendMsgCh
  <2>1. UNCHANGED <<rpcs, arrived, late, log, pc, waiting, room, roomBatch>>
    BY <1>2 DEF ReadMessage, ReadCommitFails, ReaderReturns, SendMsgCh, logicVars, loopVars, netVars, history
  <2> QED BY <2>1 DEF CallsCurrent, Current
<1>3. CASE Ingest \/ FlushWindow \/ SeeCtxDone \/ Drained \/ FlushDone
  <2>1. UNCHANGED <<rpcs, late>> /\ pc # "push"
    BY <1>3 DEF Ingest, FlushWindow, SeeCtxDone, Drained, FlushDone, netVars, history
  <2> QED BY <2>1 DEF CallsCurrent, Current
<1>4. ASSUME NEW r \in Rooms, PushRoom(r) PROVE CallsCurrent'
  <2>1. /\ UNCHANGED <<late, arrived, log, roomBatch>> /\ pc = "flush" /\ pc' = "push" /\ room' = r
        /\ waiting' = pool /\ rpcs' = rpcs \cup {[comet |-> k, ids |-> roomBatch[r]] : k \in pool}
    BY <1>4 DEF PushRoom, logicVars
  <2>2. \A x \in rpcs : x.comet \in late
    BY <2>1 DEF CallsCurrent, Current
  <2>3. \A a \in attempted : RoomOf[log[a]] = r => \A b \in Range(roomBatch[r]) : a < b
    BY <2>1 DEF BatchInOrder, Running
  <2>4. \A k \in pool : Range(arrived[k]) \subseteq attempted
    BY DEF CallsOnce, PipelineTypes, TypeOK
  <2>5. ASSUME NEW x \in rpcs', x.comet \notin late
        PROVE  /\ x.comet \in pool /\ x.ids = roomBatch[r]
               /\ \A a \in Range(arrived[x.comet]) : RoomOf[log[a]] = r => \A b \in Range(x.ids) : a < b
    <3>1. x.comet \in pool /\ x.ids = roomBatch[r]
      BY <2>1, <2>2, <2>5
    <3> QED BY <2>3, <2>4, <3>1
  <2> QED BY <2>1, <2>5 DEF CallsCurrent, Current
<1>5. CASE PushDone
  <2>1. UNCHANGED <<rpcs, late>> /\ waiting = {}
    BY <1>5 DEF PushDone, netVars, history
  <2> QED BY <2>1 DEF CallsCurrent, Current
<1>6. ASSUME NEW x \in rpcs, CometPushRoom(x) \/ PushError(x) PROVE CallsCurrent'
  <2>1. /\ UNCHANGED <<late, log, pc, room, roomBatch>> /\ rpcs' = rpcs \ {x}
        /\ waiting \ {x.comet} \subseteq waiting'
    BY <1>6 DEF CometPushRoom, PushError, logicVars, history
  <2>2. \A y \in rpcs : y.comet # x.comet => arrived'[y.comet] = arrived[y.comet]
    <3>1. CASE CometPushRoom(x)
      BY <1>0, <3>1, ArrivalMoves
    <3>2. CASE PushError(x)
      BY <3>2 DEF PushError
    <3> QED BY <1>6, <3>1, <3>2
  <2>3. ASSUME NEW y \in rpcs', y.comet \notin late PROVE y.comet # x.comet
    <3>1. SUFFICES ASSUME y.comet = x.comet PROVE FALSE
      OBVIOUS
    <3>2. y.ids = x.ids
      BY <2>1, <2>3, <3>1 DEF CallsCurrent, Current
    <3>3. x = y
      BY <2>1, <3>1, <3>2 DEF PipelineTypes
    <3> QED BY <2>1, <3>3
  <2> QED BY <2>1, <2>2, <2>3 DEF CallsCurrent, Current
<1>7. ASSUME NEW k \in Comets, PushTimeout(k) PROVE CallsCurrent'
  <2>1. UNCHANGED <<rpcs, arrived, log, pc, room, roomBatch>> /\ waiting' = waiting \ {k}
        /\ late' = late \cup {k}
    BY <1>7 DEF PushTimeout, logicVars, netVars
  <2> QED BY <2>1 DEF CallsCurrent, Current
<1>8. CASE Crash
  BY <1>8 DEF Crash, netVars, CallsCurrent
<1>9. CASE Restart
  <2>1. UNCHANGED <<rpcs, late>> /\ pc # "push"
    BY <1>9 DEF Restart, Running, netVars
  <2> QED BY <2>1 DEF CallsCurrent, Current
<1>10. ASSUME NEW S \in SUBSET Comets, Apply(S) PROVE CallsCurrent'
  <2>1. UNCHANGED <<rpcs, arrived, late, log, pc, waiting, room, roomBatch>>
    BY <1>10 DEF Apply, logicVars, loopVars, history
  <2> QED BY <2>1 DEF CallsCurrent, Current
<1>11. CASE Signal \/ UNCHANGED vars
  <2>1. UNCHANGED <<rpcs, arrived, late, log, pc, waiting, room, roomBatch>>
    BY <1>11 DEF Signal, vars, logicVars, loopVars, netVars, history
  <2> QED BY <2>1 DEF CallsCurrent, Current
<1> QED BY <1>1, <1>2, <1>3, <1>4, <1>5, <1>6, <1>7, <1>8, <1>9, <1>10, <1>11 DEF Next, ReaderStep, LoopStep

\* The steps that change what PushInOrder is about.
LEMMA ArrivalSteps ==
  ASSUME [Next]_vars
  PROVE  /\ \/ \E x \in rpcs : CometPushRoom(x)
            \/ arrived' = arrived
         /\ late \subseteq late'
         /\ \/ \E m \in Msgs : Produce(m) \/ ProduceRetried(m) \/ ProduceFails(m)
            \/ log' = log
<1> USE DEF logicVars, netVars, history
<1>1. ASSUME NEW m \in Msgs, Produce(m) \/ ProduceRetried(m) \/ ProduceFails(m)
      PROVE  UNCHANGED <<arrived, late>>
  BY <1>1 DEF Produce, ProduceRetried, ProduceFails
<1>2. ASSUME ReadMessage \/ ReadCommitFails \/ SendMsgCh \/ ReaderReturns
      PROVE  UNCHANGED <<arrived, late, log>>
  BY <1>2 DEF ReadMessage, ReadCommitFails, SendMsgCh, ReaderReturns
<1>3. ASSUME Ingest \/ FlushWindow \/ SeeCtxDone \/ Drained \/ PushDone \/ FlushDone
      PROVE  UNCHANGED <<arrived, late, log>>
  BY <1>3 DEF Ingest, FlushWindow, SeeCtxDone, Drained, PushDone, FlushDone
<1>4. ASSUME NEW k \in Comets, PushTimeout(k)
      PROVE  UNCHANGED <<arrived, log>> /\ late \subseteq late'
  BY <1>4 DEF PushTimeout
<1>5. ASSUME NEW S \in SUBSET Comets, Apply(S)
      PROVE  UNCHANGED <<arrived, late, log>>
  BY <1>5 DEF Apply
<1>6. ASSUME Signal \/ Crash \/ Restart \/ UNCHANGED vars
      PROVE  UNCHANGED <<arrived, log>> /\ late \subseteq late'
  BY <1>6 DEF Signal, Crash, Restart, vars
<1>7. ASSUME NEW r \in Rooms, PushRoom(r) PROVE UNCHANGED <<arrived, late, log>>
  BY <1>7 DEF PushRoom
<1>8. ASSUME NEW x \in rpcs, PushError(x) PROVE UNCHANGED <<arrived, late, log>>
  BY <1>8 DEF PushError
<1>9. ASSUME NEW x \in rpcs, CometPushRoom(x) PROVE UNCHANGED <<late, log>>
  BY <1>9 DEF CometPushRoom
<1> HIDE DEF logicVars, netVars, history
<1> QED BY <1>1, <1>2, <1>3, <1>4, <1>5, <1>6, <1>7, <1>8, <1>9 DEF Next, ReaderStep, LoopStep

\* Broadcasts of a room on a comet that was never late stay in log order.
LEMMA PushInOrderStep ==
  ASSUME OnceInv, CallsCurrent, PushInOrder, [Next]_vars
  PROVE  PushInOrder'
<1> USE DEF OnceInv
<1>1. \A k \in Comets : \A i \in DOMAIN arrived[k] : arrived[k][i] \in 1..Len(log)
  BY BufferTypes DEF CallsOnce, Range
<1>2. \A i \in 1..Len(log) : RoomOf[log'[i]] = RoomOf[log[i]]
  BY ArrivalSteps, LogKeeps
<1>3. CASE arrived' = arrived
  BY <1>1, <1>2, <1>3, ArrivalSteps DEF PushInOrder
<1>4. ASSUME NEW x \in rpcs, CometPushRoom(x) PROVE PushInOrder'
  <2> DEFINE k == x.comet
             s == arrived[k]
             t == x.ids
  <2>1. /\ k \in Comets /\ t \in Seq(1..Len(log)) /\ s \in Seq(1..Len(log))
        /\ arrived'[k] = s \o t
        /\ \A q \in Comets \ {k} : arrived'[q] = arrived[q]
    BY <1>4, ArrivalMoves
  <2>2. log' = log /\ late' = late
    BY <1>4 DEF CometPushRoom, logicVars, history
  <2>3. ASSUME k \notin late,
               NEW i \in DOMAIN (s \o t), NEW j \in DOMAIN (s \o t), i < j,
               RoomOf[log[(s \o t)[i]]] = RoomOf[log[(s \o t)[j]]]
        PROVE  (s \o t)[i] < (s \o t)[j]
    <3>1. \A p, q \in DOMAIN s : p < q /\ RoomOf[log[s[p]]] = RoomOf[log[s[q]]] => s[p] < s[q]
      BY <2>1, <2>3 DEF PushInOrder
    <3>2. Current(x) /\ \A a \in Range(s) : RoomOf[log[a]] = room => \A b \in Range(t) : a < b
      BY <2>3 DEF CallsCurrent
    <3>3. room \in Rooms /\ t = roomBatch[room]
      BY <3>2 DEF Current, PipelineTypes, TypeOK
    <3>4. Ascending(t) /\ \A b \in Range(t) : RoomOf[log[b]] = room
      BY <3>3 DEF BatchInOrder, CallsOnce
    <3> HIDE DEF k, s, t
    <3>11. s \o t \in Seq(1..Len(log))
      BY <2>1, ConcatProperties
    <3>5. /\ Len(s) \in Nat /\ DOMAIN s = 1..Len(s) /\ DOMAIN t = 1..Len(t) /\ Len(t) \in Nat
          /\ DOMAIN (s \o t) \subseteq Nat
      BY <2>1, <3>11, LenProperties
    <3>6. \/ i \in DOMAIN s /\ i <= Len(s) /\ (s \o t)[i] = s[i]
          \/ i > Len(s) /\ i - Len(s) \in DOMAIN t /\ (s \o t)[i] = t[i - Len(s)]
      BY <2>1, ConcatCases
    <3>7. \/ j \in DOMAIN s /\ j <= Len(s) /\ (s \o t)[j] = s[j]
          \/ j > Len(s) /\ j - Len(s) \in DOMAIN t /\ (s \o t)[j] = t[j - Len(s)]
      BY <2>1, ConcatCases
    <3>8. CASE i \in DOMAIN s /\ (s \o t)[i] = s[i] /\ j \in DOMAIN s /\ (s \o t)[j] = s[j]
      BY <2>3, <3>1, <3>8
    <3>9. CASE /\ i \in DOMAIN s /\ (s \o t)[i] = s[i]
               /\ j - Len(s) \in DOMAIN t /\ (s \o t)[j] = t[j - Len(s)]
      <4>1. s[i] \in Range(s) /\ t[j - Len(s)] \in Range(t)
        BY <3>9 DEF Range
      <4> QED BY <2>3, <3>2, <3>4, <3>9, <4>1
    <3>10. CASE /\ i - Len(s) \in DOMAIN t /\ (s \o t)[i] = t[i - Len(s)]
                /\ j - Len(s) \in DOMAIN t /\ (s \o t)[j] = t[j - Len(s)]
      <4>1. i - Len(s) < j - Len(s)
        BY <2>3, <3>5
      <4> QED BY <3>4, <3>10, <4>1 DEF Ascending
    <3> QED BY SMTT(30), <2>3, <3>5, <3>6, <3>7, <3>8, <3>9, <3>10
  <2> HIDE DEF k, s, t
  <2> SUFFICES ASSUME NEW q \in Comets \ late, NEW i \in DOMAIN arrived'[q], NEW j \in DOMAIN arrived'[q],
                      i < j, RoomOf[log[arrived'[q][i]]] = RoomOf[log[arrived'[q][j]]]
               PROVE  arrived'[q][i] < arrived'[q][j]
    BY <2>2 DEF PushInOrder
  <2>4. CASE q = k
    BY <2>1, <2>3, <2>4
  <2>5. CASE q # k
    BY <2>1, <2>5 DEF PushInOrder
  <2> QED BY <2>4, <2>5
<1> QED BY <1>3, <1>4, ArrivalSteps

\* Within a room a comet broadcasts records in log order unless one of its calls outlived its caller,
\* for any number of danmu, rooms, comets and changes of the pool (job/main.go 113-146).
THEOREM PushInOrderHolds == Spec => []PushInOrder
<1>1. Init => CallsCurrent /\ PushInOrder
  BY DEF Init, CallsCurrent, PushInOrder
<1>2. OnceInv /\ CallsCurrent /\ [Next]_vars => CallsCurrent'
  BY CallsCurrentStep
<1>3. OnceInv /\ CallsCurrent /\ PushInOrder /\ [Next]_vars => PushInOrder'
  BY PushInOrderStep
<1> QED BY <1>1, <1>2, <1>3, OnceInvHolds, PTL DEF Spec
=============================================================================
