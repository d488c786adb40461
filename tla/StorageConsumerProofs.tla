------------------------ MODULE StorageConsumerProofs ------------------------
(***************************************************************************)
(* Proofs about the storage consumer: a committed offset passes only       *)
(* stored records and those a poison commit overtook, nothing fetched is   *)
(* dropped, and every duplicate row has a fault or a stop to explain it;   *)
(* for any partitions, log length, poison records, capacity, batch size    *)
(* and number of faults and stops.                                         *)
(***************************************************************************)
EXTENDS StorageConsumer, DataLemmas, FiniteSetTheorems, TLAPS

\* A record is a partition and an offset.
LEMMA RecordParts ==
  ASSUME NEW r \in Records
  PROVE  r[1] \in Partitions /\ r[2] \in 1..LogLen /\ r = <<r[1], r[2]>>
  BY DEF Records

\* The buffers hold records.
LEMMA BufferTypes ==
  ASSUME TypeOK
  PROVE  /\ Range(msgCh) \subseteq Records /\ Range(pending) \subseteq Records
         /\ hand # None => hand \in Records
         /\ LogLen \in Nat /\ faults \in Nat /\ stops \in Nat
         /\ \A p \in Partitions : committed[p] \in Nat /\ fetched[p] \in Nat /\ base[p] \in Nat
         /\ \A r \in Records : rows[r] \in Nat
  BY RangeOfSeq, BoundsAssumption DEF TypeOK

\* What CommitMessages commits in a partition: the greatest offset of its records.
LEMMA Committing ==
  ASSUME NEW s, Range(s) \subseteq Records, NEW p \in Partitions, Offsets(s, p) # {}
  PROVE  /\ Max(Offsets(s, p)) \in 1..LogLen /\ <<p, Max(Offsets(s, p))>> \in Range(s)
         /\ \A x \in Range(s) : x[1] = p => x[2] <= Max(Offsets(s, p))
<1> DEFINE S == Offsets(s, p)
<1>1. \A o \in S : o \in 1..LogLen /\ <<p, o>> \in Range(s)
  BY RecordParts DEF Offsets
<1>2. \A x \in Range(s) : x[1] = p => x[2] \in S
  BY DEF Offsets
<1> HIDE DEF S
<1>8. LogLen \in Nat
  BY BoundsAssumption
<1>9. ASSUME NEW o \in S PROVE o \in 0..LogLen
  <2>1. o \in 1..LogLen
    BY <1>1
  <2> QED BY <1>8, <2>1
<1>3. LogLen \in Nat /\ S \subseteq 0..LogLen
  BY <1>8, <1>9
<1>4. \E x \in S : \A y \in S : y <= x
  BY <1>3, GreatestNumber DEF S
<1>5. \E x \in S : \A y \in S : x >= y
  BY <1>3, <1>4
<1>6. Max(S) \in S /\ \A y \in S : Max(S) >= y
  BY <1>5 DEF Max
<1>7. \A x \in Range(s) : x[1] = p => x[2] <= Max(S)
  BY <1>1, <1>2, <1>3, <1>6
<1> QED BY <1>1, <1>6, <1>7 DEF S

\* CommitMessages leaves offsets where offsets can be.
LEMMA CommittingTypes ==
  ASSUME TypeOK, NEW s, Range(s) \subseteq Records, CommitMessages(s)
  PROVE  committed' \in [Partitions -> 0..LogLen]
<1>1. \A p \in Partitions : (IF Offsets(s, p) = {} THEN committed[p] ELSE Max(Offsets(s, p))) \in 0..LogLen
  <2> SUFFICES ASSUME NEW p \in Partitions
               PROVE  (IF Offsets(s, p) = {} THEN committed[p] ELSE Max(Offsets(s, p))) \in 0..LogLen
    OBVIOUS
  <2>1. CASE Offsets(s, p) = {}
    BY <2>1 DEF TypeOK
  <2>2. CASE Offsets(s, p) # {}
    <3>1. Max(Offsets(s, p)) \in 1..LogLen
      BY <2>2, Committing
    <3> QED BY <2>2, <3>1
  <2> QED BY <2>1, <2>2
<1> QED BY <1>1 DEF CommitMessages

\* How often a record is in the batch.
LEMMA CountPending ==
  ASSUME TypeOK, NEW r \in Records
  PROVE  LET n == Cardinality({i \in DOMAIN pending : pending[i] = r})
         IN  /\ n \in Nat
             /\ r \in Range(pending) => n > 0
             /\ r \notin Range(pending) => n = 0
             /\ InOrder(pending) => n <= 1
<1> DEFINE D == {i \in DOMAIN pending : pending[i] = r}
<1>1. pending \in Seq(Records) /\ DOMAIN pending = 1..Len(pending) /\ Len(pending) \in Nat
  BY LenProperties DEF TypeOK
<1>2. IsFiniteSet(1..Len(pending)) /\ D \subseteq 1..Len(pending)
  BY <1>1, FS_Interval
<1>3. IsFiniteSet(D)
  BY <1>2, FS_Subset
<1>4. Cardinality(D) \in Nat
  BY <1>3, FS_CardinalityType
<1>5. Cardinality(D) = 0 <=> D = {}
  BY <1>3, FS_EmptySet
<1>6. r \in Range(pending) <=> D # {}
  BY DEF Range
<1>7. InOrder(pending) => Cardinality(D) <= 1
  <2> SUFFICES ASSUME InOrder(pending), D # {} PROVE Cardinality(D) <= 1
    BY <1>4, <1>5
  <2>1. PICK j \in DOMAIN pending : pending[j] = r
    OBVIOUS
  <2>2. \A i \in D : i = j
    <3> SUFFICES ASSUME NEW i \in D, i # j PROVE FALSE
      OBVIOUS
    <3>1. i < j \/ j < i
      BY <1>1
    <3>2. r[2] < r[2]
      BY <2>1, <3>1 DEF InOrder
    <3> QED BY <3>2, RecordParts, BoundsAssumption
  <2>3. D = {j}
    BY <2>1, <2>2
  <2>4. Cardinality({j}) = 1
    BY FS_Singleton
  <2> QED BY <2>3, <2>4
<1> HIDE DEF D
<1>8. r \in Range(pending) => Cardinality(D) > 0
  BY <1>4, <1>5, <1>6
<1>9. r \notin Range(pending) => Cardinality(D) = 0
  BY <1>5, <1>6
<1> QED BY <1>4, <1>7, <1>8, <1>9 DEF D

\* What storing a batch does to the number of rows.
LEMMA AddingRows ==
  ASSUME TypeOK, AddRows
  PROVE  /\ rows' \in [Records -> Nat]
         /\ \A r \in Records : rows'[r] >= rows[r]
         /\ \A r \in Range(pending) : rows'[r] > 0
         /\ \A r \in Records \ Range(pending) : rows'[r] = rows[r]
         /\ InOrder(pending) => \A r \in Records : rows'[r] <= rows[r] + 1
<1> DEFINE n(r) == Cardinality({i \in DOMAIN pending : pending[i] = r})
<1>1. \A r \in Records : /\ n(r) \in Nat
                         /\ r \in Range(pending) => n(r) > 0
                         /\ r \notin Range(pending) => n(r) = 0
                         /\ InOrder(pending) => n(r) <= 1
  BY CountPending
<1>2. rows' = [r \in Records |-> rows[r] + n(r)]
  BY DEF AddRows
<1> HIDE DEF n
<1>3. \A r \in Records : rows'[r] = rows[r] + n(r) /\ rows[r] \in Nat
  BY <1>2, BufferTypes
<1>4. rows' \in [Records -> Nat]
  BY <1>1, <1>2, <1>3
<1> QED BY <1>1, <1>3, <1>4, BufferTypes

-----------------------------------------------------------------------------
(* Types *)

\* The initial state is well typed.
LEMMA ConsumerTypesInit == Init => TypeOK
<1> SUFFICES ASSUME Init PROVE TypeOK
  OBVIOUS
<1>1. <<>> \in Seq(Records) /\ Len(<<>>) = 0
  OBVIOUS
<1>2. /\ msgCh \in Seq(Records) /\ Len(msgCh) <= ChanCap /\ pending \in Seq(Records)
  BY <1>1, BoundsAssumption DEF Init
<1>3. rows \in [Records -> Nat] /\ committed \in [Partitions -> 0..LogLen] /\ committed = fetched
      /\ base = committed
  BY BoundsAssumption DEF Init
<1>4. /\ hand = None /\ bad = None /\ pc = "select" /\ fetching = TRUE /\ ctxDone = FALSE /\ last = FALSE
      /\ faults \in 0..MaxFaults /\ stops \in 0..MaxStops
  BY BoundsAssumption DEF Init
<1> QED BY <1>2, <1>3, <1>4 DEF TypeOK

\* No step spoils the types.
LEMMA ConsumerTypesStep ==
  ASSUME TypeOK, LoopState, [Next]_vars
  PROVE  TypeOK'
<1> USE BoundsAssumption
<1>1. ASSUME NEW p \in Partitions, FetchMessage(p) PROVE TypeOK'
  <2>1. fetched[p] \in Nat /\ fetched[p] + 1 \in 1..LogLen
    BY <1>1, BufferTypes DEF FetchMessage
  <2>2. hand' \in Records
    BY <1>1, <2>1 DEF FetchMessage, Records
  <2>3. fetched' \in [Partitions -> 0..LogLen]
    BY <1>1, <2>1 DEF FetchMessage, TypeOK
  <2> QED BY <1>1, <2>2, <2>3 DEF FetchMessage, TypeOK
<1>2. CASE SendMsgCh
  <2>1. msgCh' \in Seq(Records) /\ Len(msgCh') = Len(msgCh) + 1
    BY <1>2, AppendProperties, BufferTypes DEF SendMsgCh, TypeOK
  <2>2. Len(msgCh') <= ChanCap
    BY <1>2, <2>1 DEF SendMsgCh, TypeOK
  <2> QED BY <1>2, <2>1, <2>2 DEF SendMsgCh, TypeOK
<1>3. CASE FetchReturn
  BY <1>3 DEF FetchReturn, TypeOK
<1>4. CASE Receive
  <2>1. Head(msgCh) \in Records /\ Tail(msgCh) \in Seq(Records) /\ Len(Tail(msgCh)) = Len(msgCh) - 1
    BY <1>4, HeadTail DEF Receive, TypeOK
  <2>2. pending' \in Seq(Records)
    BY <1>4, <2>1, AppendProperties DEF Receive, TypeOK
  <2>3. msgCh' \in Seq(Records) /\ Len(msgCh') <= ChanCap
    BY <1>4, <2>1, LenProperties DEF Receive, TypeOK
  <2>4. pc' \in {"select", "flush"}
    BY <1>4 DEF Receive, AfterAppend
  <2> QED BY <1>4, <2>2, <2>3, <2>4 DEF Receive, TypeOK
<1>5. CASE ReceivePoison
  <2>1. Head(msgCh) \in Records /\ Tail(msgCh) \in Seq(Records) /\ Len(Tail(msgCh)) = Len(msgCh) - 1
    BY <1>5, HeadTail DEF ReceivePoison, TypeOK
  <2>3. msgCh' \in Seq(Records) /\ Len(msgCh') <= ChanCap
    BY <1>5, <2>1, LenProperties DEF ReceivePoison, TypeOK
  <2> QED BY <1>5, <2>1, <2>3 DEF ReceivePoison, TypeOK
<1>6. CASE CommitPoison
  <2>1. Range(<<bad>>) \subseteq Records
    BY <1>6 DEF CommitPoison, LoopState, Range
  <2>2. committed' \in [Partitions -> 0..LogLen]
    BY <1>6, <2>1, CommittingTypes DEF CommitPoison
  <2> QED BY <1>6, <2>2 DEF CommitPoison, TypeOK
<1>7. CASE CommitPoisonFails
  BY <1>7 DEF CommitPoisonFails, CommitMayFail, TypeOK
<1>8. CASE Tick
  BY <1>8 DEF Tick, TypeOK
<1>9. CASE SeeCtxDone
  BY <1>9 DEF SeeCtxDone, TypeOK
<1>10. CASE Insert
  <2>1. rows' \in [Records -> Nat]
    BY <1>10, AddingRows DEF Insert
  <2> QED BY <1>10, <2>1 DEF Insert, TypeOK
<1>11. CASE InsertFails
  BY <1>11 DEF InsertFails, AfterFlush, TypeOK
<1>12. CASE InsertAmbiguous
  <2>1. rows' \in [Records -> Nat]
    BY <1>12, AddingRows DEF InsertAmbiguous
  <2> QED BY <1>12, <2>1 DEF InsertAmbiguous, AfterFlush, TypeOK
<1>13. CASE CommitPending
  <2>1. committed' \in [Partitions -> 0..LogLen]
    BY <1>13, BufferTypes, CommittingTypes DEF CommitPending
  <2>2. pending' \in Seq(Records)
    BY <1>13 DEF CommitPending
  <2> QED BY <1>13, <2>1, <2>2 DEF CommitPending, AfterFlush, TypeOK
<1>14. CASE CommitPendingFails
  <2>1. pending' \in Seq(Records)
    BY <1>14 DEF CommitPendingFails
  <2> QED BY SMTT(30), <1>14, <2>1 DEF CommitPendingFails, CommitMayFail, AfterFlush, TypeOK
<1>15. CASE Signal
  BY <1>15 DEF Signal, TypeOK
<1>16. CASE Crash
  BY <1>16 DEF Crash, TypeOK
<1>17. CASE Restart
  <2>1. Len(<<>>) = 0 /\ <<>> \in Seq(Records)
    OBVIOUS
  <2>2. /\ msgCh' \in Seq(Records) /\ Len(msgCh') <= ChanCap /\ pending' \in Seq(Records)
    BY <1>17, <2>1 DEF Restart
  <2> QED BY <1>17, <2>2 DEF Restart, TypeOK
<1>18. CASE UNCHANGED vars
  BY <1>18 DEF vars, TypeOK
<1> QED BY <1>1, <1>2, <1>3, <1>4, <1>5, <1>6, <1>7, <1>8, <1>9, <1>10, <1>11, <1>12, <1>13, <1>14,
           <1>15, <1>16, <1>17, <1>18 DEF Next

-----------------------------------------------------------------------------
(* Records along the path *)

\* The steps that move a record.
LEMMA PathSteps ==
  ASSUME [Next]_vars
  PROVE  \/ (\E p \in Partitions : FetchMessage(p)) \/ SendMsgCh \/ FetchReturn
         \/ Receive \/ ReceivePoison \/ CommitPending \/ CommitPendingFails \/ Restart
         \/ UNCHANGED <<base, fetched, fetching, hand, msgCh, pending>>
  BY DEF Next, CommitPoison, CommitPoisonFails, Tick, SeeCtxDone, Insert, InsertFails, InsertAmbiguous,
         Signal, Crash, vars

\* Appending the newest record of its partition keeps a buffer in order.
LEMMA AppendInOrder ==
  ASSUME NEW s \in Seq(Records), NEW r \in Records, InOrder(s),
         \A x \in Range(s) : x[1] = r[1] => x[2] < r[2]
  PROVE  InOrder(Append(s, r))
<1>1. Append(s, r) \in Seq(Records) /\ Len(Append(s, r)) = Len(s) + 1
  BY AppendProperties
<1>2. \A i \in 1..Len(s) : Append(s, r)[i] = s[i]
  BY AppendProperties
<1>3. Append(s, r)[Len(s) + 1] = r
  BY AppendProperties
<1>4. DOMAIN s = 1..Len(s) /\ Len(s) \in Nat /\ DOMAIN Append(s, r) = 1..(Len(s) + 1)
  BY <1>1, LenProperties
<1>5. \A i \in 1..Len(s) : s[i] \in Range(s)
  BY <1>4 DEF Range
<1> SUFFICES ASSUME NEW i \in 1..(Len(s) + 1), NEW j \in 1..(Len(s) + 1), i < j,
                    Append(s, r)[i][1] = Append(s, r)[j][1]
             PROVE  Append(s, r)[i][2] < Append(s, r)[j][2]
  BY <1>4 DEF InOrder
<1>6. i \in 1..Len(s)
  BY <1>4
<1>7. CASE j = Len(s) + 1
  BY <1>2, <1>3, <1>5, <1>6, <1>7
<1>8. CASE j # Len(s) + 1
  <2>1. j \in 1..Len(s)
    BY <1>4, <1>8
  <2> QED BY <1>2, <1>4, <1>6, <2>1 DEF InOrder
<1> QED BY <1>7, <1>8

\* The tail of a buffer in order is in order, after the head.
LEMMA TailInOrder ==
  ASSUME NEW s \in Seq(Records), s # <<>>, InOrder(s)
  PROVE  InOrder(Tail(s)) /\ \A x \in Range(Tail(s)) : x[1] = Head(s)[1] => Head(s)[2] < x[2]
<1>1. Len(s) \in Nat \ {0} /\ DOMAIN s = 1..Len(s)
  BY EmptySeq, LenProperties
<1>2. /\ Tail(s) \in Seq(Records) /\ Len(Tail(s)) = Len(s) - 1
      /\ \A i \in 1..Len(Tail(s)) : Tail(s)[i] = s[i + 1]
  BY HeadTailProperties
<1>3. Head(s) = s[1]
  BY <1>1
<1>4. DOMAIN Tail(s) = 1..(Len(s) - 1)
  BY <1>2, LenProperties
<1>5. \A i \in 1..(Len(s) - 1) : i + 1 \in 1..Len(s) /\ Tail(s)[i] = s[i + 1]
  BY <1>1, <1>2
<1>6. InOrder(Tail(s))
  <2> SUFFICES ASSUME NEW i \in 1..(Len(s) - 1), NEW j \in 1..(Len(s) - 1), i < j,
                      Tail(s)[i][1] = Tail(s)[j][1]
               PROVE  Tail(s)[i][2] < Tail(s)[j][2]
    BY <1>4 DEF InOrder
  <2>1. i + 1 < j + 1
    OBVIOUS
  <2> QED BY <1>1, <1>5, <2>1 DEF InOrder
<1>7. \A i \in 1..(Len(s) - 1) : s[1][1] = s[i + 1][1] => s[1][2] < s[i + 1][2]
  BY <1>1 DEF InOrder
<1>8. \A x \in Range(Tail(s)) : x[1] = Head(s)[1] => Head(s)[2] < x[2]
  BY <1>3, <1>4, <1>5, <1>7 DEF Range
<1> QED BY <1>6, <1>8

\* Records move along in the order of their partition.
LEMMA PathInOrderStep ==
  ASSUME TypeOK, PathInOrder, [Next]_vars
  PROVE  PathInOrder'
<1> USE BufferTypes
<1>1. ASSUME NEW p \in Partitions, FetchMessage(p) PROVE PathInOrder'
  <2>1. /\ hand' = <<p, fetched[p] + 1>> /\ UNCHANGED <<msgCh, pending, base>>
        /\ fetched'[p] = fetched[p] + 1 /\ \A q \in Partitions \ {p} : fetched'[q] = fetched[q]
    BY <1>1 DEF FetchMessage, TypeOK
  <2>2. \A x \in Range(pending) \cup Range(msgCh) : x[1] \in Partitions /\ x[2] \in 1..LogLen
    BY RecordParts
  <2>3. hand'[1] = p /\ hand'[2] = fetched[p] + 1
    BY <2>1
  <2>4. \A q \in Partitions : fetched'[q] \in Nat /\ fetched[q] <= fetched'[q]
    BY <2>1
  <2> QED BY <2>1, <2>2, <2>3, <2>4 DEF PathInOrder
<1>2. CASE SendMsgCh
  <2>1. msgCh \in Seq(Records) /\ hand \in Records /\ hand # None
    BY <1>2 DEF SendMsgCh, TypeOK
  <2>2. Range(msgCh') = Range(msgCh) \cup {hand} /\ hand' = None /\ UNCHANGED <<pending, base, fetched>>
    BY <1>2, <2>1, AppendRange DEF SendMsgCh
  <2>3. InOrder(msgCh')
    BY <1>2, <2>1, AppendInOrder DEF SendMsgCh, PathInOrder
  <2>4. hand[1] \in Partitions /\ hand[2] = fetched[hand[1]] /\ hand[2] \in Nat
    BY <2>1, RecordParts DEF PathInOrder
  <2>5. base[hand[1]] < hand[2]
    BY <2>1 DEF PathInOrder
  <2> QED BY <2>1, <2>2, <2>3, <2>4, <2>5 DEF PathInOrder
<1>3. CASE FetchReturn
  BY <1>3 DEF FetchReturn, PathInOrder
<1>4. CASE Receive
  <2> DEFINE h == Head(msgCh)
  <2>1. msgCh \in Seq(Records) /\ msgCh # <<>> /\ pending \in Seq(Records)
    BY <1>4 DEF Receive, TypeOK
  <2>2. h \in Records /\ Range(msgCh) = Range(Tail(msgCh)) \cup {h}
    BY <2>1, HeadTail
  <2>3. msgCh' = Tail(msgCh) /\ pending' = Append(pending, h) /\ UNCHANGED <<hand, base, fetched>>
    BY <1>4 DEF Receive
  <2>4. InOrder(msgCh') /\ \A x \in Range(msgCh') : x[1] = h[1] => h[2] < x[2]
    BY <2>1, <2>3, TailInOrder DEF PathInOrder
  <2>5. \A x \in Range(pending) : x[1] = h[1] => x[2] < h[2]
    BY <2>2 DEF PathInOrder
  <2> HIDE DEF h
  <2>6. InOrder(pending') /\ Range(pending') = Range(pending) \cup {h}
    BY <2>1, <2>2, <2>3, <2>5, AppendInOrder, AppendRange DEF PathInOrder
  <2> QED BY <2>2, <2>3, <2>4, <2>5, <2>6 DEF PathInOrder
<1>5. CASE ReceivePoison
  <2>1. msgCh \in Seq(Records) /\ msgCh # <<>>
    BY <1>5 DEF ReceivePoison, TypeOK
  <2>2. Range(Tail(msgCh)) \subseteq Range(msgCh)
    BY <2>1, HeadTail
  <2>3. msgCh' = Tail(msgCh) /\ UNCHANGED <<pending, hand, base, fetched>>
    BY <1>5 DEF ReceivePoison
  <2>4. InOrder(msgCh')
    BY <2>1, <2>3, TailInOrder DEF PathInOrder
  <2> QED BY <2>2, <2>3, <2>4 DEF PathInOrder
<1>6. CASE CommitPending \/ CommitPendingFails
  <2>1. pending' = <<>> /\ UNCHANGED <<msgCh, hand, base, fetched>>
    BY <1>6 DEF CommitPending, CommitPendingFails
  <2>2. Range(<<>>) = {} /\ InOrder(<<>>)
    BY DEF Range, InOrder
  <2> QED BY <2>1, <2>2 DEF PathInOrder
<1>7. CASE Restart
  <2>1. pending' = <<>> /\ msgCh' = <<>> /\ hand' = None /\ base' = committed /\ fetched' = committed
    BY <1>7 DEF Restart
  <2>2. Range(<<>>) = {} /\ InOrder(<<>>)
    BY DEF Range, InOrder
  <2> QED BY <2>1, <2>2 DEF PathInOrder
<1>8. CASE UNCHANGED <<base, fetched, fetching, hand, msgCh, pending>>
  BY <1>8 DEF PathInOrder
<1> QED BY <1>1, <1>2, <1>3, <1>4, <1>5, <1>6, <1>7, <1>8, PathSteps

\* No step deletes rows.
LEMMA RowsGrow ==
  ASSUME TypeOK, [Next]_vars
  PROVE  \A r \in Records : rows'[r] >= rows[r]
<1>1. CASE Insert \/ InsertAmbiguous
  BY <1>1, AddingRows DEF Insert, InsertAmbiguous
<1>2. CASE rows' = rows
  BY <1>2, BufferTypes
<1>3. Insert \/ InsertAmbiguous \/ rows' = rows
  BY DEF Next, FetchMessage, SendMsgCh, FetchReturn, Receive, ReceivePoison, CommitPoison,
         CommitPoisonFails, Tick, SeeCtxDone, InsertFails, CommitPending, CommitPendingFails, Signal,
         Crash, Restart, vars
<1> QED BY <1>1, <1>2, <1>3

\* Everything fetched stays stored or held.
LEMMA FetchedKeptStep ==
  ASSUME TypeOK, PathInOrder, LoopState, FetchedKept, [Next]_vars
  PROVE  FetchedKept'
<1> USE BufferTypes
<1>0. \A p \in Partitions : \A o \in (base[p] + 1)..fetched[p] :
        <<p, o>> \in Records /\ (rows[<<p, o>>] > 0 => rows'[<<p, o>>] > 0)
  <2> SUFFICES ASSUME NEW p \in Partitions, NEW o \in (base[p] + 1)..fetched[p]
               PROVE  <<p, o>> \in Records /\ (rows[<<p, o>>] > 0 => rows'[<<p, o>>] > 0)
    OBVIOUS
  <2>1. fetched[p] <= LogLen /\ base[p] \in Nat
    BY DEF TypeOK
  <2>2. <<p, o>> \in Records
    BY <2>1 DEF Records
  <2>3. rows'[<<p, o>>] >= rows[<<p, o>>] /\ rows[<<p, o>>] \in Nat
    BY <2>2, RowsGrow
  <2>4. rows' = rows \/ AddRows
    BY DEF Next, FetchMessage, SendMsgCh, FetchReturn, Receive, ReceivePoison, CommitPoison,
           CommitPoisonFails, Tick, SeeCtxDone, InsertFails, CommitPending, CommitPendingFails, Signal,
           Crash, Restart, vars, Insert, InsertAmbiguous
  <2>5. rows'[<<p, o>>] \in Nat
    BY <2>2, <2>3, <2>4, AddingRows
  <2> QED BY <2>2, <2>3, <2>5
<1>1. ASSUME NEW p \in Partitions, FetchMessage(p) PROVE FetchedKept'
  <2>1. /\ hand' = <<p, fetched[p] + 1>> /\ UNCHANGED <<msgCh, pending, base, fetching, rows>> /\ fetching
        /\ fetched'[p] = fetched[p] + 1 /\ (\A q \in Partitions \ {p} : fetched'[q] = fetched[q])
        /\ hand = None
    BY <1>1 DEF FetchMessage, TypeOK
  <2> SUFFICES ASSUME NEW q \in Partitions, NEW o \in (base[q] + 1)..fetched'[q]
               PROVE  <<q, o>> \in Poison \/ rows[<<q, o>>] > 0 \/ InMemory(<<q, o>>)'
    BY <2>1 DEF FetchedKept
  <2>2. CASE o \in (base[q] + 1)..fetched[q]
    <3>1. <<q, o>> \in Poison \/ rows[<<q, o>>] > 0 \/ InMemory(<<q, o>>)
      BY <2>1, <2>2 DEF FetchedKept
    <3>2. <<q, o>> # None
      BY <1>0, <2>2, BoundsAssumption DEF Records
    <3> QED BY <2>1, <3>1, <3>2 DEF InMemory
  <2>3. CASE o \notin (base[q] + 1)..fetched[q]
    <3>1. q = p /\ o = fetched[p] + 1
      BY <2>1, <2>3
    <3> QED BY <2>1, <3>1 DEF InMemory
  <2> QED BY <2>2, <2>3
<1>2. CASE SendMsgCh
  <2>1. msgCh \in Seq(Records) /\ hand \in Records
    BY <1>2 DEF SendMsgCh, TypeOK
  <2>2. Range(msgCh') = Range(msgCh) \cup {hand} /\ UNCHANGED <<pending, base, fetched, fetching, rows>>
    BY <1>2, <2>1, AppendRange DEF SendMsgCh
  <2>3. \A r : InMemory(r) => InMemory(r)'
    BY <2>2 DEF InMemory
  <2> QED BY <2>2, <2>3 DEF FetchedKept
<1>3. CASE FetchReturn
  <2>1. UNCHANGED <<msgCh, pending, base, fetched, rows>> /\ ~fetching' /\ hand' = None
    BY <1>3 DEF FetchReturn
  <2>2. hand # None => hand[2] = fetched[hand[1]]
    BY DEF PathInOrder
  <2> SUFFICES ASSUME NEW q \in Partitions, NEW o \in (base[q] + 1)..fetched[q]
               PROVE  <<q, o>> \in Poison \/ rows[<<q, o>>] > 0 \/ InMemory(<<q, o>>)' \/ o = fetched[q]
    BY <2>1 DEF FetchedKept
  <2>3. CASE <<q, o>> = hand
    <3>1. <<q, o>> # None
      BY <1>0, BoundsAssumption DEF Records
    <3> QED BY <2>2, <2>3, <3>1
  <2>4. CASE <<q, o>> # hand
    BY <2>1, <2>4 DEF FetchedKept, InMemory
  <2> QED BY <2>3, <2>4
<1>4. CASE Receive
  <2>1. msgCh \in Seq(Records) /\ msgCh # <<>> /\ pending \in Seq(Records)
    BY <1>4 DEF Receive, TypeOK
  <2>2. Head(msgCh) \in Records /\ Range(msgCh) = Range(Tail(msgCh)) \cup {Head(msgCh)}
    BY <2>1, HeadTail
  <2>3. Range(Append(pending, Head(msgCh))) = Range(pending) \cup {Head(msgCh)}
    BY <2>1, <2>2, AppendRange
  <2>4. msgCh' = Tail(msgCh) /\ pending' = Append(pending, Head(msgCh))
        /\ UNCHANGED <<hand, base, fetched, fetching, rows>>
    BY <1>4 DEF Receive
  <2>5. \A r : InMemory(r) => InMemory(r)'
    BY <2>2, <2>3, <2>4 DEF InMemory
  <2> QED BY <2>4, <2>5 DEF FetchedKept
<1>5. CASE ReceivePoison
  <2>1. msgCh \in Seq(Records) /\ msgCh # <<>> /\ Head(msgCh) \in Poison
    BY <1>5 DEF ReceivePoison, TypeOK
  <2>2. Range(msgCh) = Range(Tail(msgCh)) \cup {Head(msgCh)}
    BY <2>1, HeadTail
  <2>3. msgCh' = Tail(msgCh) /\ UNCHANGED <<pending, hand, base, fetched, fetching, rows>>
    BY <1>5 DEF ReceivePoison
  <2>4. \A r : InMemory(r) => InMemory(r)' \/ r \in Poison
    BY <2>1, <2>2, <2>3 DEF InMemory
  <2> QED BY <2>3, <2>4 DEF FetchedKept
<1>6. CASE CommitPending \/ CommitPendingFails
  <2>1. pc = "commit" /\ UNCHANGED <<msgCh, hand, base, fetched, fetching, rows>>
    BY <1>6 DEF CommitPending, CommitPendingFails
  <2>2. \A r \in Records : InMemory(r) => InMemory(r)' \/ rows[r] > 0
    BY <2>1 DEF InMemory, LoopState
  <2> QED BY <1>0, <2>1, <2>2 DEF FetchedKept
<1>7. CASE Restart
  <2>1. \A p \in Partitions : \E c \in Int : base'[p] = c /\ fetched'[p] = c
    BY <1>7 DEF Restart
  <2>2. \A c \in Int : \A i \in (c + 1)..c : FALSE
    OBVIOUS
  <2> QED BY <2>1, <2>2, Zenon DEF FetchedKept
<1>8. CASE UNCHANGED <<base, fetched, fetching, hand, msgCh, pending>>
  <2>1. \A r : InMemory(r)' <=> InMemory(r)
    BY <1>8 DEF InMemory
  <2> QED BY <1>0, <1>8, <2>1 DEF FetchedKept
<1> QED BY <1>1, <1>2, <1>3, <1>4, <1>5, <1>6, <1>7, <1>8, PathSteps

\* The loop's locals say where it is.
LEMMA LoopStateStep ==
  ASSUME TypeOK, LoopState, [Next]_vars
  PROVE  LoopState'
<1> USE DEF LoopState, Running
<1>1. ASSUME NEW p \in Partitions, FetchMessage(p) PROVE LoopState'
  BY <1>1 DEF FetchMessage
<1>2. CASE SendMsgCh \/ FetchReturn
  BY <1>2 DEF SendMsgCh, FetchReturn
<1>3. CASE Receive
  BY <1>3 DEF Receive, AfterAppend
<1>4. CASE ReceivePoison
  <2>1. Head(msgCh) \in Records
    BY <1>4, HeadTail DEF ReceivePoison, TypeOK
  <2> QED BY <1>4, <2>1 DEF ReceivePoison
<1>5. CASE CommitPoison \/ CommitPoisonFails \/ Tick
  BY <1>5 DEF CommitPoison, CommitPoisonFails, Tick
<1>6. CASE SeeCtxDone
  BY <1>6 DEF SeeCtxDone
<1>7. CASE Insert
  <2>1. \A x \in Range(pending) : rows'[x] > 0
    BY <1>7, AddingRows DEF Insert
  <2> QED BY <1>7, <2>1 DEF Insert
<1>8. CASE InsertFails \/ InsertAmbiguous \/ CommitPending \/ CommitPendingFails
  BY <1>8 DEF InsertFails, InsertAmbiguous, CommitPending, CommitPendingFails, AfterFlush
<1>9. CASE Signal \/ Crash
  BY <1>9 DEF Signal, Crash
<1>10. CASE Restart
  BY <1>10 DEF Restart
<1>11. CASE UNCHANGED vars
  BY <1>11 DEF vars
<1> QED BY <1>1, <1>2, <1>3, <1>4, <1>5, <1>6, <1>7, <1>8, <1>9, <1>10, <1>11 DEF Next

\* A stored record stays stored.
LEMMA StaysStored ==
  ASSUME TypeOK, TypeOK', [Next]_vars, NEW r \in Records, rows[r] > 0
  PROVE  rows'[r] > 0
<1>1. rows[r] \in Nat /\ rows'[r] \in Nat
  BY DEF TypeOK
<1>2. rows'[r] >= rows[r]
  BY RowsGrow
<1> QED BY <1>1, <1>2

\* What the process found committed stays sound.
LEMMA BaseSoundStep ==
  ASSUME TypeOK, TypeOK', BaseSound, CommittedUnlessOvertaken, [Next]_vars
  PROVE  BaseSound'
<1>0. \A p \in Partitions, o \in 1..LogLen : <<p, o>> \in Records
  BY DEF Records
<1>1. CASE Restart
  BY <1>1 DEF Restart, BaseSound, CommittedUnlessOvertaken, Overtaken
<1>2. CASE base' = base
  BY <1>0, <1>2, StaysStored DEF BaseSound
<1>3. Restart \/ base' = base
  BY DEF Next, FetchMessage, SendMsgCh, FetchReturn, Receive, ReceivePoison, CommitPoison,
         CommitPoisonFails, Tick, SeeCtxDone, InsertFails, CommitPending, CommitPendingFails, Signal,
         Crash, vars, Insert, InsertAmbiguous
<1> QED BY <1>1, <1>2, <1>3

\* A commit passes only stored records and those a poison commit overtook.
LEMMA CommittedStep ==
  ASSUME ConsumerInv, TypeOK', [Next]_vars
  PROVE  CommittedUnlessOvertaken'
<1> USE BufferTypes DEF ConsumerInv
<1>0. \A p \in Partitions, o \in 1..LogLen : <<p, o>> \in Records
  BY DEF Records
<1>1. CASE CommitPoison
  <2>1. bad \in Records /\ bad \in Poison /\ CommitMessages(<<bad>>) /\ rows' = rows
    BY <1>1 DEF CommitPoison, LoopState
  <2>2. bad[1] \in Partitions /\ bad[2] \in 1..LogLen /\ bad = <<bad[1], bad[2]>>
    BY <2>1, RecordParts
  <2>3. Range(<<bad>>) = {bad}
    BY DEF Range
  <2> SUFFICES ASSUME NEW p \in Partitions, NEW o \in 1..LogLen, o <= committed'[p], <<p, o>> \notin Poison
               PROVE  rows[<<p, o>>] > 0 \/ \E q \in (o + 1)..committed'[p] : <<p, q>> \in Poison
    BY <2>1 DEF CommittedUnlessOvertaken, Overtaken
  <2>4. CASE p = bad[1]
    <3>1. bad[2] \in Offsets(<<bad>>, p)
      BY <2>3, <2>4 DEF Offsets
    <3>2. <<p, Max(Offsets(<<bad>>, p))>> \in {bad}
      BY <2>1, <2>3, <3>1, Committing
    <3>3. Max(Offsets(<<bad>>, p)) = bad[2]
      BY <2>2, <3>2
    <3>4. committed'[p] = bad[2]
      BY <2>1, <3>1, <3>3 DEF CommitMessages
    <3>5. o # bad[2] /\ <<p, bad[2]>> \in Poison
      BY <2>1, <2>2, <2>4
    <3>6. bad[2] \in (o + 1)..committed'[p]
      BY <2>2, <3>4, <3>5
    <3> QED BY <3>5, <3>6
  <2>5. CASE p # bad[1]
    <3>1. Offsets(<<bad>>, p) = {}
      BY <2>3, <2>5 DEF Offsets
    <3>2. committed'[p] = committed[p]
      BY <2>1, <3>1 DEF CommitMessages
    <3> QED BY <3>2 DEF CommittedUnlessOvertaken, Overtaken
  <2> QED BY <2>4, <2>5
<1>2. CASE CommitPending
  <2>1. CommitMessages(pending) /\ rows' = rows /\ pc = "commit"
    BY <1>2 DEF CommitPending
  <2> SUFFICES ASSUME NEW p \in Partitions, NEW o \in 1..LogLen, o <= committed'[p], <<p, o>> \notin Poison
               PROVE  rows[<<p, o>>] > 0 \/ \E q \in (o + 1)..committed'[p] : <<p, q>> \in Poison
    BY <2>1 DEF CommittedUnlessOvertaken, Overtaken
  <2>2. CASE Offsets(pending, p) = {}
    <3>1. committed'[p] = committed[p]
      BY <2>1, <2>2 DEF CommitMessages
    <3> QED BY <3>1 DEF CommittedUnlessOvertaken, Overtaken
  <2>3. CASE Offsets(pending, p) # {}
    <3> DEFINE m == Max(Offsets(pending, p))
    <3>1. m \in 1..LogLen /\ <<p, m>> \in Range(pending) /\ committed'[p] = m
      BY <2>1, <2>3, Committing DEF CommitMessages
    <3> HIDE DEF m
    <3>2. base[p] < m /\ m <= fetched[p]
      BY <3>1 DEF PathInOrder
    <3>3. CASE o <= base[p]
      <4>1. rows[<<p, o>>] > 0 \/ \E q \in (o + 1)..base[p] : <<p, q>> \in Poison
        BY <3>3 DEF BaseSound
      <4>2. \A q \in (o + 1)..base[p] : q \in (o + 1)..m
        BY <3>1, <3>2
      <4> QED BY <3>1, <4>1, <4>2
    <3>4. CASE ~(o <= base[p])
      <4>1. o \in (base[p] + 1)..fetched[p]
        BY <3>1, <3>2, <3>4
      <4>2. <<p, o>> \notin Range(msgCh)
        <5> SUFFICES ASSUME <<p, o>> \in Range(msgCh) PROVE FALSE
          OBVIOUS
        <5>1. m < o
          BY <3>1 DEF PathInOrder
        <5> QED BY <3>1, <5>1
      <4>3. <<p, o>> # hand
        <5> SUFFICES ASSUME <<p, o>> = hand PROVE FALSE
          OBVIOUS
        <5>1. hand # None /\ hand[1] = p /\ hand[2] = o
          BY <1>0, BoundsAssumption DEF Records
        <5>2. m < o
          BY <3>1, <5>1 DEF PathInOrder
        <5> QED BY <3>1, <5>2
      <4>4. \A x \in Range(pending) : rows[x] > 0
        BY <2>1 DEF LoopState
      <4>5. CASE o = fetched[p]
        BY <3>1, <3>2, <4>4, <4>5
      <4>6. CASE o # fetched[p]
        BY <4>1, <4>2, <4>3, <4>4, <4>6 DEF FetchedKept, InMemory
      <4> QED BY <4>5, <4>6
    <3> QED BY <3>3, <3>4
  <2> QED BY <2>2, <2>3
<1>3. CASE committed' = committed
  BY <1>0, <1>3, StaysStored DEF CommittedUnlessOvertaken, Overtaken
<1>4. CommitPoison \/ CommitPending \/ committed' = committed
  BY DEF Next, FetchMessage, SendMsgCh, FetchReturn, Receive, ReceivePoison, Restart,
         CommitPoisonFails, Tick, SeeCtxDone, InsertFails, CommitPendingFails, Signal,
         Crash, vars, Insert, InsertAmbiguous
<1> QED BY <1>1, <1>2, <1>3, <1>4

\* The initial state has fetched, committed and stored nothing.
LEMMA ConsumerInvInit == Init => ConsumerInv
<1> SUFFICES ASSUME Init PROVE ConsumerInv
  OBVIOUS
<1>1. TypeOK
  BY ConsumerTypesInit
<1>2. Range(<<>>) = {} /\ InOrder(<<>>)
  BY DEF Range, InOrder
<1>3. \A p \in Partitions : committed[p] = 0 /\ fetched[p] = 0 /\ base[p] = 0
  BY DEF Init
<1>4. msgCh = <<>> /\ pending = <<>> /\ hand = None
  BY DEF Init
<1>5. PathInOrder
  BY <1>2, <1>3, <1>4 DEF PathInOrder
<1>6. FetchedKept
  BY <1>3 DEF FetchedKept
<1>7. BaseSound /\ CommittedUnlessOvertaken
  BY <1>3 DEF BaseSound, CommittedUnlessOvertaken
<1>8. LoopState
  BY DEF Init, LoopState, Running
<1> QED BY <1>1, <1>5, <1>6, <1>7, <1>8 DEF ConsumerInv

\* ConsumerInv is inductive.
LEMMA ConsumerInvStep == ConsumerInv /\ [Next]_vars => ConsumerInv'
<1> SUFFICES ASSUME ConsumerInv, [Next]_vars PROVE ConsumerInv'
  OBVIOUS
<1>1. TypeOK'
  BY ConsumerTypesStep DEF ConsumerInv
<1>2. CommittedUnlessOvertaken'
  BY <1>1, CommittedStep
<1>3. BaseSound'
  BY <1>1, BaseSoundStep DEF ConsumerInv
<1> QED BY <1>1, <1>2, <1>3, PathInOrderStep, FetchedKeptStep, LoopStateStep DEF ConsumerInv

\* ConsumerInv holds in every reachable state.
LEMMA ConsumerInvHolds == Spec => []ConsumerInv
  BY ConsumerInvInit, ConsumerInvStep, PTL DEF Spec

\* Every variable of the consumer keeps its type and the channel its capacity, in every reachable
\* state (monolith/consumer/main.go 92-160).
THEOREM ConsumerTypeCorrect == Spec => []TypeOK
<1>1. ConsumerInv => TypeOK
  BY DEF ConsumerInv
<1> QED BY <1>1, ConsumerInvHolds, PTL

\* Through crashes, failed and ambiguous inserts, failed commits and orderly stops, a committed offset
\* passes only stored records and those that the commit of a later poison record overtook; for any
\* partitions, logs, poison records and buffer sizes (monolith/consumer/main.go 77-160).
THEOREM CommittedUnlessOvertakenHolds == Spec => []CommittedUnlessOvertaken
<1>1. ConsumerInv => CommittedUnlessOvertaken
  BY DEF ConsumerInv
<1> QED BY <1>1, ConsumerInvHolds, PTL

-----------------------------------------------------------------------------
(* Rows *)

\* No record is at two places of the path.
LEMMA PendingGone ==
  ASSUME TypeOK, PathInOrder, NEW r \in Range(pending)
  PROVE  ~(r[2] > fetched[r[1]]) /\ r # hand /\ r \notin Range(msgCh)
<1>1. r[1] \in Partitions /\ r[2] \in 1..LogLen /\ r \in Records /\ fetched[r[1]] \in Nat
  BY BufferTypes, RecordParts
<1>2. r[2] <= fetched[r[1]]
  BY DEF PathInOrder
<1>3. r # hand
  <2> SUFFICES ASSUME r = hand PROVE FALSE
    OBVIOUS
  <2>1. hand # None
    BY <1>1, BoundsAssumption DEF Records
  <2>2. r[2] < r[2]
    BY <2>1 DEF PathInOrder
  <2> QED BY <1>1, <2>2, BufferTypes
<1>4. r \notin Range(msgCh)
  <2> SUFFICES ASSUME r \in Range(msgCh) PROVE FALSE
    OBVIOUS
  <2>1. r[2] < r[2]
    BY DEF PathInOrder
  <2> QED BY <1>1, <2>1, BufferTypes
<1> QED BY <1>1, <1>2, <1>3, <1>4, BufferTypes

\* Each row is paid for by the first delivery, a fault or a stop.
LEMMA RowsPaidStep ==
  ASSUME ConsumerInv, RowsPaid, TypeOK', [Next]_vars
  PROVE  RowsPaid'
<1> USE DEF ConsumerInv
<1> DEFINE c == IF ctxDone THEN 1 ELSE 0
           d(r) == IF pc = "down" \/ (pc # "stopped" /\ Due(r)) THEN 1 ELSE 0
<1>0. faults \in Nat /\ stops \in Nat /\ faults' \in Nat /\ stops' \in Nat
      /\ \A r \in Records : rows[r] \in Nat /\ rows'[r] \in Nat
  BY BoundsAssumption DEF TypeOK
<1>1. ASSUME NEW r \in Records PROVE rows[r] + c + d(r) <= 1 + faults + stops
  BY DEF RowsPaid
<1>2. ASSUME UNCHANGED <<ctxDone, rows>>, faults <= faults', stops <= stops', pc # "down", pc # "stopped",
             pc' # "down", \A r \in Records : Due(r)' => Due(r)
      PROVE  RowsPaid'
  <2> SUFFICES ASSUME NEW r \in Records
               PROVE  rows[r] + c + d(r)' <= 1 + faults' + stops'
    BY <1>2 DEF RowsPaid
  <2>1. d(r)' <= d(r) /\ d(r)' \in {0, 1} /\ d(r) \in {0, 1} /\ c \in {0, 1}
    BY <1>2
  <2>2. rows[r] + c + d(r) <= 1 + faults + stops
    BY <1>1
  <2> HIDE DEF c, d
  <2> QED BY <1>0, <1>2, <2>1, <2>2
<1>3. ASSUME NEW p \in Partitions, FetchMessage(p) PROVE RowsPaid'
  <2>1. /\ hand' = <<p, fetched[p] + 1>> /\ UNCHANGED <<msgCh, pending, pc, ctxDone, rows, faults, stops>>
        /\ fetched'[p] = fetched[p] + 1 /\ (\A q \in Partitions \ {p} : fetched'[q] = fetched[q])
        /\ pc # "down" /\ pc # "stopped"
    BY <1>3 DEF FetchMessage, Running, TypeOK
  <2>2. ASSUME NEW r \in Records, Due(r)' PROVE Due(r)
    <3>1. r[1] \in Partitions /\ r[2] \in 1..LogLen /\ fetched[r[1]] \in Nat /\ LogLen \in Nat
      BY RecordParts, BufferTypes
    <3>2. CASE r[2] > fetched'[r[1]]
      BY <2>1, <3>1, <3>2 DEF Due
    <3>3. CASE r = hand'
      BY <2>1, <3>1, <3>3 DEF Due
    <3> QED BY <2>1, <2>2, <3>2, <3>3 DEF Due
  <2> QED BY <1>0, <1>2, <2>1, <2>2
<1>4. CASE SendMsgCh
  <2>1. /\ Range(msgCh') = Range(msgCh) \cup {hand} /\ hand' = None /\ pc # "down" /\ pc # "stopped"
        /\ UNCHANGED <<pending, fetched, pc, ctxDone, rows, faults, stops>>
    BY <1>4, AppendRange, BufferTypes DEF SendMsgCh, Running, TypeOK
  <2>2. \A r \in Records : r # None
    BY BoundsAssumption DEF Records
  <2>3. \A r \in Records : Due(r)' => Due(r)
    BY <2>1, <2>2 DEF Due
  <2> QED BY <1>0, <1>2, <2>1, <2>3
<1>5. CASE FetchReturn
  <2>1. hand' = None /\ UNCHANGED <<msgCh, pending, fetched, pc, ctxDone, rows, faults, stops>>
        /\ pc # "down" /\ pc # "stopped"
    BY <1>5 DEF FetchReturn, Running
  <2>2. \A r \in Records : r # None
    BY BoundsAssumption DEF Records
  <2>3. \A r \in Records : Due(r)' => Due(r)
    BY <2>1, <2>2 DEF Due
  <2> QED BY <1>0, <1>2, <2>1, <2>3
<1>6. CASE Receive
  <2>1. msgCh \in Seq(Records) /\ msgCh # <<>> /\ pending \in Seq(Records)
    BY <1>6 DEF Receive, TypeOK
  <2>2. Head(msgCh) \in Records /\ Range(msgCh) = Range(Tail(msgCh)) \cup {Head(msgCh)}
    BY <2>1, HeadTail
  <2>3. Range(Append(pending, Head(msgCh))) = Range(pending) \cup {Head(msgCh)}
    BY <2>1, <2>2, AppendRange
  <2>4. /\ Range(msgCh') \subseteq Range(msgCh) /\ Range(pending') \subseteq Range(pending) \cup Range(msgCh)
        /\ UNCHANGED <<hand, fetched, ctxDone, rows, faults, stops>> /\ pc = "select" /\ pc' # "down"
    BY <1>6, <2>2, <2>3 DEF Receive, AfterAppend
  <2>5. \A r \in Records : Due(r)' => Due(r)
    BY <2>4 DEF Due
  <2> QED BY <1>0, <1>2, <2>4, <2>5
<1>7. CASE ReceivePoison
  <2>1. Range(Tail(msgCh)) \subseteq Range(msgCh)
    BY <1>7, HeadTail DEF ReceivePoison, TypeOK
  <2>2. /\ Range(msgCh') \subseteq Range(msgCh) /\ pc = "select" /\ pc' = "poison"
        /\ UNCHANGED <<pending, hand, fetched, ctxDone, rows, faults, stops>>
    BY <1>7, <2>1 DEF ReceivePoison
  <2>3. \A r \in Records : Due(r)' => Due(r)
    BY <2>2 DEF Due
  <2> QED BY <1>0, <1>2, <2>2, <2>3
<1>8. CASE CommitPoison \/ CommitPoisonFails \/ Tick \/ SeeCtxDone \/ InsertFails
  <2>1. /\ UNCHANGED <<msgCh, pending, hand, fetched, ctxDone, rows, stops>> /\ faults <= faults'
        /\ pc \in {"poison", "select", "flush"} /\ pc' # "down"
    BY <1>0, <1>8 DEF CommitPoison, CommitPoisonFails, CommitMayFail, Tick, SeeCtxDone, InsertFails, AfterFlush
  <2>2. \A r \in Records : Due(r)' => Due(r)
    BY <2>1 DEF Due
  <2> QED BY <1>0, <1>2, <2>1, <2>2
<1>9. CASE CommitPending \/ CommitPendingFails
  <2>1. /\ UNCHANGED <<msgCh, hand, fetched, ctxDone, rows, stops>> /\ faults <= faults'
        /\ pc = "commit" /\ pc' # "down" /\ pending' = <<>>
    BY <1>0, <1>9 DEF CommitPending, CommitPendingFails, CommitMayFail, AfterFlush
  <2>2. Range(<<>>) = {}
    BY DEF Range
  <2>3. \A r \in Records : Due(r)' => Due(r)
    BY <2>1, <2>2 DEF Due
  <2> QED BY <1>0, <1>2, <2>1, <2>3
<1>10. CASE Insert \/ InsertAmbiguous
  <2>1. /\ UNCHANGED <<msgCh, pending, hand, fetched, ctxDone, stops>> /\ pc = "flush" /\ pc' # "down"
        /\ \/ pc' = "commit" /\ faults' = faults
           \/ faults' = faults + 1
    BY <1>10 DEF Insert, InsertAmbiguous, AfterFlush
  <2>2. AddRows /\ InOrder(pending)
    BY <1>10 DEF Insert, InsertAmbiguous, PathInOrder
  <2>3. ASSUME NEW r \in Records PROVE rows'[r] + c + d(r)' <= 1 + faults' + stops
    <3>0. rows[r] + c + d(r) <= 1 + faults + stops
      BY <1>1
    <3>1. c \in {0, 1} /\ d(r) \in {0, 1} /\ d(r)' \in {0, 1}
      OBVIOUS
    <3>2. CASE r \in Range(pending)
      <4>1. d(r) = 1 /\ rows'[r] <= rows[r] + 1
        BY <2>1, <2>2, <3>2, AddingRows DEF Due
      <4>2. pc' = "commit" => d(r)' = 0
        BY <2>1, <3>2, PendingGone DEF Due
      <4> HIDE DEF c, d
      <4> QED BY <1>0, <2>1, <3>0, <3>1, <4>1, <4>2
    <3>3. CASE r \notin Range(pending)
      <4>1. rows'[r] = rows[r]
        BY <2>2, <3>3, AddingRows
      <4>2. d(r)' <= d(r)
        BY <2>1, <3>3 DEF Due
      <4> HIDE DEF c, d
      <4> QED BY <1>0, <2>1, <3>0, <3>1, <4>1, <4>2
    <3> QED BY <3>2, <3>3
  <2> QED BY <2>1, <2>3 DEF RowsPaid
<1>11. CASE Signal
  <2>1. UNCHANGED <<msgCh, pending, hand, fetched, pc, rows, faults>> /\ ~ctxDone /\ ctxDone'
        /\ stops' = stops + 1
    BY <1>11 DEF Signal
  <2>2. \A r \in Records : Due(r)' <=> Due(r)
    BY <2>1 DEF Due
  <2>3. ASSUME NEW r \in Records PROVE rows[r] + 1 + d(r)' <= 1 + faults + (stops + 1)
    <3>1. d(r)' = d(r) /\ d(r) \in {0, 1} /\ c = 0
      BY <2>1, <2>2
    <3>2. rows[r] + c + d(r) <= 1 + faults + stops
      BY <1>1
    <3> HIDE DEF c, d
    <3> QED BY <1>0, <3>1, <3>2
  <2> QED BY <2>1, <2>3 DEF RowsPaid
<1>12. CASE Crash
  <2>1. UNCHANGED <<ctxDone, rows, stops>> /\ faults' = faults + 1
    BY <1>12 DEF Crash
  <2>2. ASSUME NEW r \in Records PROVE rows[r] + c + d(r)' <= 1 + (faults + 1) + stops
    <3>1. d(r)' \in {0, 1} /\ d(r) \in {0, 1} /\ c \in {0, 1}
      OBVIOUS
    <3>2. rows[r] + c + d(r) <= 1 + faults + stops
      BY <1>1
    <3> HIDE DEF c, d
    <3> QED BY <1>0, <3>1, <3>2
  <2> QED BY <2>1, <2>2 DEF RowsPaid
<1>13. CASE Restart
  <2>1. UNCHANGED <<rows, faults, stops>> /\ ~ctxDone' /\ pc \in {"stopped", "down"}
    BY <1>13 DEF Restart, Running
  <2>2. ASSUME NEW r \in Records PROVE rows[r] + 0 + d(r)' <= 1 + faults + stops
    <3>1. d(r)' \in {0, 1} /\ d(r) \in {0, 1} /\ c \in {0, 1}
      OBVIOUS
    <3>2. c = 1 \/ d(r) = 1
      BY <2>1 DEF LoopState
    <3>3. rows[r] + c + d(r) <= 1 + faults + stops
      BY <1>1
    <3> HIDE DEF c, d
    <3> QED BY <1>0, <3>1, <3>2, <3>3
  <2> QED BY <2>1, <2>2 DEF RowsPaid
<1>14. CASE UNCHANGED vars
  BY <1>14 DEF vars, RowsPaid, Due
<1> QED BY <1>3, <1>4, <1>5, <1>6, <1>7, <1>8, <1>9, <1>10, <1>11, <1>12, <1>13, <1>14 DEF Next

\* A fetched record is stored or still held while the process runs, and a row too many has a crash, an
\* ambiguous insert or a stop to explain it; for any partitions, logs, buffer sizes and number of
\* faults (monolith/consumer/main.go 92-160).
THEOREM RowsExplainedHolds == Spec => []RowsExplained
<1>1. Init => RowsPaid
  <2> SUFFICES ASSUME Init PROVE RowsPaid
    OBVIOUS
  <2>1. ctxDone = FALSE /\ faults = 0 /\ stops = 0 /\ \A r \in Records : rows[r] = 0
    BY DEF Init
  <2> QED BY <2>1 DEF RowsPaid
<1>2. ConsumerInv /\ ConsumerInv' /\ RowsPaid /\ [Next]_vars => RowsPaid'
  BY RowsPaidStep DEF ConsumerInv
<1>3. ConsumerInv /\ RowsPaid => RowsExplained
  <2> SUFFICES ASSUME ConsumerInv, RowsPaid PROVE RowsExplained
    OBVIOUS
  <2>1. NothingDropped
    BY DEF ConsumerInv, LoopState, FetchedKept, NothingDropped
  <2>2. ASSUME NEW r \in Records PROVE rows[r] <= 1 + faults + stops
    <3>1. rows[r] \in Nat /\ faults \in Nat /\ stops \in Nat
      BY BufferTypes DEF ConsumerInv
    <3>2. rows[r] + (IF ctxDone THEN 1 ELSE 0)
          + (IF pc = "down" \/ (pc # "stopped" /\ Due(r)) THEN 1 ELSE 0) <= 1 + faults + stops
      BY DEF RowsPaid
    <3> QED BY <3>1, <3>2
  <2> QED BY <2>1, <2>2 DEF RowsExplained, DuplicatesExplained
<1> QED BY <1>1, <1>2, <1>3, ConsumerInvHolds, PTL DEF Spec
=============================================================================
