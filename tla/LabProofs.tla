------------------------------ MODULE LabProofs ------------------------------
(***************************************************************************)
(* What measures the system, for any number of messages, nodes, instances, *)
(* connections and experiments: the joined traces, the collector's         *)
(* snapshot, the load generator's counters and the analysis of the runs.   *)
(***************************************************************************)
EXTENDS Collector, TraceStore, Analysis, LoadTest, DataLemmas, FiniteSetTheorems, TLAPS

----------------------------------------------------------------------------
(* Traces: what a pass fetched is joined.                                  *)

\* A sequence without repetitions loses its head or gets a new element.
LEMMA DistinctAppend ==
  ASSUME NEW S, NEW s \in Seq(S), NEW e \in S, e \notin Range(s),
         \A i, j \in DOMAIN s : s[i] = s[j] => i = j
  PROVE  \A i, j \in DOMAIN Append(s, e) : Append(s, e)[i] = Append(s, e)[j] => i = j
<1>1. /\ DOMAIN s = 1..Len(s) /\ DOMAIN Append(s, e) = 1..(Len(s) + 1) /\ Len(s) \in Nat
      /\ \A i \in DOMAIN s : Append(s, e)[i] = s[i] /\ Append(s, e)[Len(s) + 1] = e
  BY AppendPlaces
<1>2. \A i \in DOMAIN s : s[i] # e
  BY DEF Range
<1>3. \A i \in DOMAIN Append(s, e) : i \in DOMAIN s \/ i = Len(s) + 1
  BY <1>1
<1>4. Append(s, e)[Len(s) + 1] = e
  BY AppendPlaces
<1> QED BY <1>1, <1>2, <1>3, <1>4

\* Without its head a sequence of distinct elements lacks just that one.
LEMMA DistinctTail ==
  ASSUME NEW S, NEW s \in Seq(S), s # <<>>, \A i, j \in DOMAIN s : s[i] = s[j] => i = j
  PROVE  /\ \A i, j \in DOMAIN Tail(s) : Tail(s)[i] = Tail(s)[j] => i = j
         /\ Range(Tail(s)) = Range(s) \ {Head(s)} /\ Head(s) \in Range(s)
<1>1. /\ Head(s) \in S /\ Tail(s) \in Seq(S)
      /\ Len(s) \in Nat \ {0} /\ DOMAIN s = 1..Len(s) /\ DOMAIN Tail(s) = 1..(Len(s) - 1)
      /\ Head(s) = s[1]
      /\ \A i \in DOMAIN Tail(s) : Tail(s)[i] = s[i + 1] /\ i + 1 \in DOMAIN s
  BY TailPlaces
<1>2. \A i, j \in DOMAIN Tail(s) : Tail(s)[i] = Tail(s)[j] => i = j
  <2> SUFFICES ASSUME NEW i \in DOMAIN Tail(s), NEW j \in DOMAIN Tail(s), Tail(s)[i] = Tail(s)[j] PROVE i = j
    OBVIOUS
  <2>1. i + 1 = j + 1
    BY <1>1
  <2> QED BY <1>1, <2>1
<1>3. Head(s) \notin Range(Tail(s))
  <2> SUFFICES ASSUME NEW i \in DOMAIN Tail(s), Tail(s)[i] = Head(s) PROVE FALSE
    BY DEF Range
  <2>1. i + 1 = 1 /\ i \in 1..(Len(s) - 1)
    BY <1>1
  <2> QED BY <2>1, <1>1
<1>4. Range(s) = Range(Tail(s)) \cup {Head(s)}
  BY HeadTail
<1> QED BY <1>2, <1>3, <1>4

\* Messages are positive numbers, and a list of them is not the mark of an unfetched one.
LEMMA MessagesFacts == 0 \notin Messages /\ Messages \subseteq Nat /\ NotFetched \notin Seq(Messages) /\ <<>> \in Seq(Messages)
<1>1. 0 \notin Messages /\ Messages \subseteq Nat
  BY TraceAssumption DEF Messages
<1>2. NotFetched \notin Seq(Messages)
  <2>1. NotFetched[1] = 0 /\ 1 \in 1..Len(NotFetched)
    BY DEF NotFetched
  <2> QED BY <1>1, <2>1, ElementOfSeq
<1> QED BY <1>1, <1>2

\* The empty sequence has no elements.
LEMMA EmptyElements == Range(<<>>) = {} /\ DOMAIN <<>> = {}
<1>1. Range(<<>>) = {}
  BY EmptyToSet, ToSetIsRange
<1>2. <<>> \in Seq({}) /\ Len(<<>>) = 0
  OBVIOUS
<1>3. DOMAIN <<>> = 1..0
  BY <1>2, LenProperties
<1> QED BY <1>1, <1>3

\* traceStore.add: the message is listed, its span seen and joined, and the evicted one forgotten.
LEMMA AddSpanKeeps ==
  ASSUME TraceInv, NEW n \in TraceNodes, AddSpan(n)
  PROVE  TraceInv'
<1> DEFINE m == Head(adding[n])
           new == seenSpans[m] = {}
           full == new /\ Len(traceOrder) = TraceMaxKept
           out == IF full THEN Head(traceOrder) ELSE 0
           listed == ~new => \E i \in DOMAIN traceOrder : traceOrder[i] = m
           Joined(f) == IF n \in seenSpans[m] \/ ~listed THEN f ELSE [f EXCEPT ![m] = @ \cup {n}]
           kept == IF full THEN Tail(traceOrder) ELSE traceOrder
           seen == Evict(out, seenSpans)
<1>1. /\ adding[n] # <<>> /\ adding[n] # NotFetched
      /\ traceOrder' = (IF new THEN Append(kept, m) ELSE traceOrder)
      /\ seenSpans' = [seen EXCEPT ![m] = @ \cup {n}]
      /\ traceSpans' = Joined(IF full THEN [traceSpans EXCEPT ![out] = {}] ELSE traceSpans)
      /\ evicted' = (evicted \/ full)
      /\ adding' = [adding EXCEPT ![n] = Tail(adding[n])]
      /\ UNCHANGED <<ring, windows>>
  BY DEF AddSpan
<1>2. /\ adding[n] \in Seq(Messages) /\ m \in Messages /\ Tail(adding[n]) \in Seq(Messages)
      /\ Range(adding[n]) = Range(Tail(adding[n])) \cup {m}
  <2>1. adding[n] \in Seq(Messages)
    BY <1>1 DEF TraceInv, TraceTypes
  <2> QED BY <1>1, <2>1, HeadTail
<1>3. /\ traceOrder \in Seq(Messages) /\ seenSpans \in [Messages -> SUBSET TraceNodes] /\ traceSpans = seenSpans
      /\ \A i, j \in DOMAIN traceOrder : traceOrder[i] = traceOrder[j] => i = j
      /\ \A k \in Messages : seenSpans[k] # {} <=> k \in Range(traceOrder)
      /\ adding \in [TraceNodes -> Seq(Messages) \cup {NotFetched}] /\ evicted \in BOOLEAN
  BY DEF TraceInv, TraceTypes, StoreSound
<1>4. listed
  <2>1. ~new => m \in Range(traceOrder)
    BY <1>2, <1>3
  <2> QED BY <2>1 DEF Range
<1>5. full => traceOrder # <<>>
  BY TraceAssumption
<1> HIDE DEF m
<1>6. /\ kept \in Seq(Messages) /\ seen \in [Messages -> SUBSET TraceNodes]
      /\ \A i, j \in DOMAIN kept : kept[i] = kept[j] => i = j
      /\ \A k \in Messages : seen[k] # {} <=> k \in Range(kept)
      /\ seen[m] = seenSpans[m]
      /\ ~full => seen = seenSpans
      /\ (IF full THEN [traceSpans EXCEPT ![out] = {}] ELSE traceSpans) = seen
  <2>1. CASE full
    <3> DEFINE h == Head(traceOrder)
    <3>1. /\ Tail(traceOrder) \in Seq(Messages) /\ h \in Messages
          /\ \A i, j \in DOMAIN Tail(traceOrder) : Tail(traceOrder)[i] = Tail(traceOrder)[j] => i = j
          /\ Range(Tail(traceOrder)) = Range(traceOrder) \ {h} /\ h \in Range(traceOrder)
      BY <1>3, <1>5, <2>1, DistinctTail, HeadTail
    <3>2. out = h /\ out # 0 /\ kept = Tail(traceOrder)
      BY <2>1, <3>1, MessagesFacts
    <3> HIDE DEF h
    <3>3. seen = [seenSpans EXCEPT ![h] = {}]
      BY <3>2 DEF Evict
    <3>4. m # h
      BY <1>2, <1>3, <2>1, <3>1
    <3> HIDE DEF out, kept, seen
    <3>5. \A k \in Messages : seen[k] = IF k = h THEN {} ELSE seenSpans[k]
      BY <1>3, <3>1, <3>3
    <3>6. \A k \in Messages : seen[k] # {} <=> k \in Range(kept)
      BY <1>3, <3>1, <3>2, <3>5
    <3>7. (IF full THEN [traceSpans EXCEPT ![out] = {}] ELSE traceSpans) = seen
      BY <1>3, <2>1, <3>2, <3>3
    <3> QED BY <1>2, <1>3, <2>1, <3>1, <3>2, <3>3, <3>4, <3>5, <3>6, <3>7
  <2>2. CASE ~full
    <3>1. out = 0 /\ kept = traceOrder
      BY <2>2
    <3>2. seen = seenSpans
      BY <3>1 DEF Evict
    <3> QED BY <1>3, <2>2, <3>1, <3>2
  <2> QED BY <2>1, <2>2
<1>7. /\ ~new => kept = traceOrder /\ ~full
      /\ n \in seenSpans[m] => ~new
  OBVIOUS
<1>8. traceSpans' = IF n \in seen[m] THEN seen ELSE [seen EXCEPT ![m] = @ \cup {n}]
  <2> DEFINE f == IF full THEN [traceSpans EXCEPT ![out] = {}] ELSE traceSpans
  <2>1. traceSpans' = Joined(f) /\ f = seen
    BY <1>1, <1>6
  <2>2. Joined(f) = IF n \in seenSpans[m] THEN f ELSE [f EXCEPT ![m] = @ \cup {n}]
    BY <1>4
  <2> HIDE DEF f, seen, listed, Joined
  <2> QED BY <1>6, <2>1, <2>2
<1> HIDE DEF kept, seen, listed
<1>9. /\ seenSpans' \in [Messages -> SUBSET TraceNodes]
      /\ \A k \in Messages : seenSpans'[k] = IF k = m THEN seen[m] \cup {n} ELSE seen[k]
  BY <1>1, <1>2, <1>6
<1>10. traceSpans' = seenSpans'
  <2>1. CASE n \in seen[m]
    <3>1. \A k \in Messages : seenSpans'[k] = seen[k]
      BY <1>9, <2>1
    <3>2. seenSpans' = seen
      BY <1>6, <1>9, <3>1
    <3> QED BY <1>8, <2>1, <3>2
  <2>2. CASE n \notin seen[m]
    BY <1>1, <1>8, <2>2
  <2> QED BY <2>1, <2>2
<1>11. ASSUME new
      PROVE  /\ traceOrder' \in Seq(Messages) /\ \A i, j \in DOMAIN traceOrder' : traceOrder'[i] = traceOrder'[j] => i = j
             /\ \A k \in Messages : seenSpans'[k] # {} <=> k \in Range(traceOrder')
  <2>1. m \notin Range(kept)
    BY <1>2, <1>6, <1>11
  <2>2. /\ traceOrder' = Append(kept, m) /\ traceOrder' \in Seq(Messages) /\ Range(traceOrder') = Range(kept) \cup {m}
        /\ \A i, j \in DOMAIN traceOrder' : traceOrder'[i] = traceOrder'[j] => i = j
    BY <1>1, <1>2, <1>6, <1>11, <2>1, AppendRange, DistinctAppend
  <2>3. \A k \in Messages : seenSpans'[k] # {} <=> k \in Range(traceOrder')
    BY <1>6, <1>9, <2>2
  <2> QED BY <1>11, <2>2, <2>3
<1>12. ASSUME ~new
      PROVE  /\ traceOrder' \in Seq(Messages) /\ \A i, j \in DOMAIN traceOrder' : traceOrder'[i] = traceOrder'[j] => i = j
             /\ \A k \in Messages : seenSpans'[k] # {} <=> k \in Range(traceOrder')
  <2>1. traceOrder' = traceOrder /\ kept = traceOrder /\ seen[m] # {}
    BY <1>1, <1>6, <1>7, <1>12
  <2>2. \A k \in Messages : seenSpans'[k] # {} <=> k \in Range(traceOrder')
    BY <1>6, <1>9, <2>1
  <2> QED BY <1>3, <2>1, <2>2
<1>13. StoreSound'
  BY <1>10, <1>11, <1>12 DEF StoreSound
<1>14. adding' \in [TraceNodes -> Seq(Messages) \cup {NotFetched}] /\ \A k \in TraceNodes : adding'[k] = IF k = n THEN Tail(adding[n]) ELSE adding[k]
  BY <1>1, <1>2, <1>3
<1>15. TraceTypes'
  BY <1>1, <1>3, <1>9, <1>11, <1>12, <1>14 DEF TraceTypes, TraceInv
<1>16. PassSound'
  <2> SUFFICES ASSUME ~evicted', NEW k \in TraceNodes
               PROVE  /\ adding'[k] = NotFetched => windows'[k] = {}
                      /\ adding'[k] # NotFetched => \A j \in windows'[k] : j \in Range(adding'[k]) \/ k \in seenSpans'[j]
    BY DEF PassSound
  <2>1. ~evicted /\ ~full
    BY <1>1, <1>3
  <2>2. /\ adding[k] = NotFetched => windows[k] = {}
        /\ adding[k] # NotFetched => \A j \in windows[k] : j \in Range(adding[k]) \/ k \in seenSpans[j]
    BY <2>1 DEF TraceInv, PassSound
  <2>3. \A j \in Messages : seenSpans[j] \subseteq seenSpans'[j]
    BY <1>6, <1>9, <2>1
  <2>4. windows'[k] = windows[k] /\ windows[k] \subseteq Messages
    BY <1>1 DEF TraceInv, TraceTypes
  <2>5. CASE k # n
    BY <1>14, <2>2, <2>3, <2>4, <2>5
  <2>6. CASE k = n
    <3>1. adding'[k] = Tail(adding[n]) /\ adding'[k] # NotFetched
      BY <1>2, <1>14, <2>6, MessagesFacts
    <3>2. n \in seenSpans'[m]
      BY <1>2, <1>9
    <3>3. ASSUME NEW j \in windows[n] PROVE j \in Range(Tail(adding[n])) \/ n \in seenSpans'[j]
      BY <1>1, <1>2, <2>2, <2>3, <2>4, <2>6, <3>2
    <3> QED BY <2>4, <2>6, <3>1, <3>3
  <2> QED BY <2>5, <2>6
<1> QED BY <1>13, <1>15, <1>16 DEF TraceInv


\* Every step keeps the invariant of the traces.
LEMMA TraceStep ==
  ASSUME TraceInv, [TraceNext]_traceVars
  PROVE  TraceInv'
<1>0. TraceTypes /\ StoreSound /\ PassSound
  BY DEF TraceInv
<1>1. ASSUME NEW n \in TraceNodes, RecordSpan(n) PROVE TraceInv'
  <2> DEFINE k == ringDropped[n] + Len(ring[n]) + 1
             full == Len(ring[n]) >= RingSize
             old == IF full THEN Tail(ring[n]) ELSE ring[n]
  <2>1. /\ k \in Messages /\ ring' = [ring EXCEPT ![n] = Append(old, k)]
        /\ UNCHANGED <<traceOrder, seenSpans, traceSpans, adding, windows, evicted>>
    BY <1>1 DEF RecordSpan
  <2>2. ring[n] \in Seq(Messages)
    BY <1>0 DEF TraceTypes
  <2>3. full => ring[n] # <<>>
    BY TraceAssumption
  <2>4. old \in Seq(Messages)
    BY <2>2, <2>3, HeadTail
  <2> HIDE DEF old, k
  <2>5. Append(old, k) \in Seq(Messages)
    BY <2>1, <2>4, AppendRange
  <2>6. ring' \in [TraceNodes -> Seq(Messages)]
    BY <1>0, <2>1, <2>5 DEF TraceTypes
  <2> QED BY <1>0, <2>1, <2>6 DEF TraceInv, TraceTypes, StoreSound, PassSound
<1>2. ASSUME NEW n \in TraceNodes, FetchTraces(n) PROVE TraceInv'
  <2> DEFINE r == Recent(n)
  <2>1. /\ adding[n] = NotFetched /\ adding' = [adding EXCEPT ![n] = r] /\ windows' = [windows EXCEPT ![n] = Range(r)]
        /\ UNCHANGED <<ring, traceOrder, seenSpans, traceSpans, evicted>>
    BY <1>2 DEF FetchTraces
  <2>2. r \in Seq(Messages)
    <3>1. ring[n] \in Seq(Messages) /\ Len(ring[n]) \in Nat
      BY <1>0 DEF TraceTypes
    <3> DEFINE a == IF Len(ring[n]) > FetchLimit THEN Len(ring[n]) - FetchLimit + 1 ELSE 1
    <3>2. a \in 1..(Len(ring[n]) + 1)
      BY <3>1, TraceAssumption
    <3>3. r = SubSeq(ring[n], a, Len(ring[n]))
      BY DEF Recent
    <3> HIDE DEF a
    <3> QED BY <3>1, <3>2, <3>3, SubSeqProperties
  <2> HIDE DEF r
  <2>3. Range(r) \subseteq Messages /\ r # NotFetched
    BY <2>2, MessagesFacts, RangeOfSeq
  <2>4. /\ adding' \in [TraceNodes -> Seq(Messages) \cup {NotFetched}] /\ windows' \in [TraceNodes -> SUBSET Messages]
        /\ adding'[n] = r /\ windows'[n] = Range(r)
        /\ \A b \in TraceNodes : b # n => adding'[b] = adding[b] /\ windows'[b] = windows[b]
    BY <1>0, <2>1, <2>2, <2>3 DEF TraceTypes
  <2>5. PassSound'
    BY <1>0, <2>1, <2>3, <2>4 DEF PassSound
  <2> QED BY <1>0, <2>1, <2>4, <2>5 DEF TraceInv, TraceTypes, StoreSound
<1>3. ASSUME NEW n \in TraceNodes, FetchFails(n) PROVE TraceInv'
  <2>1. /\ adding[n] = NotFetched /\ adding' = [adding EXCEPT ![n] = <<>>]
        /\ UNCHANGED <<ring, traceOrder, seenSpans, traceSpans, windows, evicted>>
    BY <1>3 DEF FetchFails
  <2>2. /\ adding' \in [TraceNodes -> Seq(Messages) \cup {NotFetched}] /\ adding'[n] = <<>>
        /\ \A b \in TraceNodes : b # n => adding'[b] = adding[b]
    BY <1>0, <2>1 DEF TraceTypes
  <2>3. PassSound'
    BY <1>0, <2>1, <2>2 DEF PassSound
  <2> QED BY <1>0, <2>1, <2>2, <2>3 DEF TraceInv, TraceTypes, StoreSound
<1>4. CASE TraceOnce
  <2>1. /\ adding' = [n \in TraceNodes |-> NotFetched] /\ windows' = [n \in TraceNodes |-> {}] /\ evicted' = FALSE
        /\ UNCHANGED <<ring, traceOrder, seenSpans, traceSpans>>
    BY <1>4 DEF TraceOnce
  <2> QED BY <1>0, <2>1 DEF TraceInv, TraceTypes, StoreSound, PassSound
<1>5. CASE UNCHANGED traceVars
  BY <1>0, <1>5 DEF traceVars, TraceInv, TraceTypes, StoreSound, PassSound
<1> QED BY <1>1, <1>2, <1>3, <1>4, <1>5, AddSpanKeeps DEF TraceNext

\* The traces begin empty.
LEMMA TraceStart == TraceInit => TraceInv
<1> SUFFICES ASSUME TraceInit PROVE TraceInv
  OBVIOUS
<1>1. TraceTypes
  <2>1. /\ ring \in [TraceNodes -> Seq(Messages)] /\ adding \in [TraceNodes -> Seq(Messages) \cup {NotFetched}]
        /\ traceOrder \in Seq(Messages)
    BY MessagesFacts DEF TraceInit
  <2>2. seenSpans \in [Messages -> SUBSET TraceNodes] /\ windows \in [TraceNodes -> SUBSET Messages] /\ evicted = FALSE
    BY DEF TraceInit
  <2> QED BY <2>1, <2>2 DEF TraceTypes
<1>2. Range(traceOrder) = {} /\ DOMAIN traceOrder = {}
  BY EmptyElements DEF TraceInit
<1>3. StoreSound
  BY <1>2 DEF TraceInit, StoreSound
<1>4. PassSound
  BY DEF TraceInit, PassSound
<1> QED BY <1>1, <1>3, <1>4 DEF TraceInv

\* A pass that evicted nothing leaves every message it met listed with every hop that was fetched, for
\* any number of nodes and messages, any buffer, window and store size, and whatever earlier passes
\* evicted (core/trace.go Record, ops/trace.go traceOnce and traceStore.add).
THEOREM HopsJoinedHolds == TraceInit /\ [][TraceNext]_traceVars => []HopsJoined
<1>1. TraceInv => HopsJoined
  <2> SUFFICES ASSUME TraceInv, PassOver, ~evicted, NEW n \in TraceNodes, NEW m \in windows[n]
               PROVE  m \in Range(traceOrder) /\ n \in traceSpans[m]
    BY DEF HopsJoined
  <2>1. adding[n] = <<>> /\ adding[n] # NotFetched /\ m \in Messages
    BY MessagesFacts DEF PassOver, TraceInv, TraceTypes
  <2>2. Range(adding[n]) = {}
    BY <2>1, EmptyElements
  <2>3. n \in seenSpans[m]
    BY <2>1, <2>2 DEF TraceInv, PassSound
  <2> QED BY <2>1, <2>3 DEF TraceInv, StoreSound
<1> QED BY <1>1, TraceStart, TraceStep, PTL

----------------------------------------------------------------------------
(* The collector: what the console shows is what happened.                 *)

\* Who believed the snapshot prev and reads the events up to cur believes cur.
LEMMA BelieveDiff ==
  ASSUME NEW old, NEW prev, NEW cur_,
         old.etcd = prev.etcd, old.health = prev.health, DOMAIN old.insts = DOMAIN prev.insts,
         \A i \in DOMAIN prev.insts : /\ prev.insts[i].healthy \in BOOLEAN
                                      /\ old.insts[i] = "listed" \/ prev.insts[i].healthy = (old.insts[i] = "healthy"),
         \A i \in DOMAIN cur_.insts : cur_.insts[i].healthy \in BOOLEAN
  PROVE  LET t == Believe(old, DiffEvents(prev, cur_))
         IN /\ t.etcd = cur_.etcd /\ t.health = cur_.health /\ DOMAIN t.insts = DOMAIN cur_.insts
            /\ \A i \in DOMAIN cur_.insts : t.insts[i] = "listed" \/ cur_.insts[i].healthy = (t.insts[i] = "healthy")
<1> DEFINE was == DOMAIN prev.insts
           now == DOMAIN cur_.insts
           Ev(kind, i) == [kind |-> kind, on |-> i]
           down == {j \in now \cap was : prev.insts[j].healthy /\ ~cur_.insts[j].healthy}
           up == {j \in now \cap was : ~prev.insts[j].healthy /\ cur_.insts[j].healthy}
           etcds == IF prev.etcd # cur_.etcd THEN {cur_.etcd} ELSE {}
           healths == IF prev.health # cur_.health THEN {cur_.health} ELSE {}
           evs == DiffEvents(prev, cur_)
           About(kinds) == {e.on : e \in {d \in evs : d.kind \in kinds}}
<1>1. \A d : d \in evs <=> \/ \E i \in now \ was : d = Ev("registered", i)
                           \/ \E i \in down : d = Ev("unavailable", i)
                           \/ \E i \in up : d = Ev("recovered", i)
                           \/ \E i \in was \ now : d = Ev("disappeared", i)
                           \/ \E i \in etcds : d = Ev("etcd", i)
                           \/ \E i \in healths : d = Ev("health", i)
  BY DEF DiffEvents
<1> HIDE DEF evs, down, up, etcds, healths
<1>2. /\ About({"registered"}) = now \ was /\ About({"unavailable"}) = down /\ About({"recovered"}) = up
      /\ About({"disappeared"}) = was \ now /\ About({"etcd"}) = etcds /\ About({"health"}) = healths
  <2>0. ASSUME NEW k, NEW S, \A x \in S : Ev(k, x) \in evs, \A d \in evs : d.kind = k => d.on \in S
        PROVE  About({k}) = S
    <3>1. ASSUME NEW x \in S PROVE x \in About({k})
      <4>1. Ev(k, x) \in {d \in evs : d.kind \in {k}} /\ Ev(k, x).on = x
        BY <2>0
      <4> HIDE DEF Ev
      <4> QED BY <4>1
    <3>2. ASSUME NEW x \in About({k}) PROVE x \in S
      <4>1. PICK e \in {d \in evs : d.kind \in {k}} : x = e.on
        OBVIOUS
      <4> QED BY <2>0, <4>1
    <3> HIDE DEF About
    <3> QED BY <3>1, <3>2
  <2>1. About({"registered"}) = now \ was
    <3> DEFINE S == now \ was
    <3>1. \A x \in S : Ev("registered", x) \in evs
      BY <1>1
    <3>2. \A d \in evs : d.kind = "registered" => d.on \in S
      BY <1>1
    <3> HIDE DEF S, About
    <3>3. About({"registered"}) = S
      BY <2>0, <3>1, <3>2
    <3> QED BY <3>3 DEF S
  <2>2. About({"unavailable"}) = down
    <3> DEFINE S == down
    <3>1. \A x \in S : Ev("unavailable", x) \in evs
      BY <1>1
    <3>2. \A d \in evs : d.kind = "unavailable" => d.on \in S
      BY <1>1
    <3> HIDE DEF S, About
    <3>3. About({"unavailable"}) = S
      BY <2>0, <3>1, <3>2
    <3> QED BY <3>3 DEF S
  <2>3. About({"recovered"}) = up
    <3> DEFINE S == up
    <3>1. \A x \in S : Ev("recovered", x) \in evs
      BY <1>1
    <3>2. \A d \in evs : d.kind = "recovered" => d.on \in S
      BY <1>1
    <3> HIDE DEF S, About
    <3>3. About({"recovered"}) = S
      BY <2>0, <3>1, <3>2
    <3> QED BY <3>3 DEF S
  <2>4. About({"disappeared"}) = was \ now
    <3> DEFINE S == was \ now
    <3>1. \A x \in S : Ev("disappeared", x) \in evs
      BY <1>1
    <3>2. \A d \in evs : d.kind = "disappeared" => d.on \in S
      BY <1>1
    <3> HIDE DEF S, About
    <3>3. About({"disappeared"}) = S
      BY <2>0, <3>1, <3>2
    <3> QED BY <3>3 DEF S
  <2>5. About({"etcd"}) = etcds
    <3> DEFINE S == etcds
    <3>1. \A x \in S : Ev("etcd", x) \in evs
      BY <1>1
    <3>2. \A d \in evs : d.kind = "etcd" => d.on \in S
      BY <1>1
    <3> HIDE DEF S, About
    <3>3. About({"etcd"}) = S
      BY <2>0, <3>1, <3>2
    <3> QED BY <3>3 DEF S
  <2>6. About({"health"}) = healths
    <3> DEFINE S == healths
    <3>1. \A x \in S : Ev("health", x) \in evs
      BY <1>1
    <3>2. \A d \in evs : d.kind = "health" => d.on \in S
      BY <1>1
    <3> HIDE DEF S, About
    <3>3. About({"health"}) = S
      BY <2>0, <3>1, <3>2
    <3> QED BY <3>3 DEF S
  <2> QED BY <2>1, <2>2, <2>3, <2>4, <2>5, <2>6
<1> DEFINE listed_ == (was \cup About({"registered"})) \ About({"disappeared"})
           Latest(kind, w) == IF About({kind}) = {} THEN w ELSE CHOOSE v \in About({kind}) : TRUE
           t == Believe(old, evs)
<1>3. t = [etcd |-> Latest("etcd", old.etcd), health |-> Latest("health", old.health),
           insts |-> [i \in listed_ |->
                   CASE i \in About({"registered"})  -> "listed"
                     [] i \in About({"recovered"})   -> "healthy"
                     [] i \in About({"unavailable"}) -> "sick"
                     [] OTHER                        -> old.insts[i]]]
  BY DEF Believe
<1> HIDE DEF About
<1>4. listed_ = now
  BY <1>2
<1>5. Latest("etcd", old.etcd) = cur_.etcd /\ Latest("health", old.health) = cur_.health
  BY <1>2 DEF etcds, healths
<1> HIDE DEF listed_, Latest
<1>6. /\ t.etcd = cur_.etcd /\ t.health = cur_.health
      /\ t.insts = [i \in now |-> CASE i \in now \ was -> "listed" [] i \in up -> "healthy" [] i \in down -> "sick"
                                    [] OTHER -> old.insts[i]]
  BY <1>2, <1>3, <1>4, <1>5
<1> HIDE DEF t
<1>7. ASSUME NEW i \in now PROVE t.insts[i] = "listed" \/ cur_.insts[i].healthy = (t.insts[i] = "healthy")
  <2>1. CASE i \in now \ was
    <3>1. i \notin up /\ i \notin down
      BY <2>1 DEF up, down
    <3> QED BY <1>6, <2>1, <3>1
  <2>2. CASE i \in up
    <3>1. i \in was /\ i \notin down /\ cur_.insts[i].healthy = TRUE
      BY <2>2 DEF up, down
    <3> QED BY <1>6, <2>2, <3>1
  <2>3. CASE i \in down
    <3>1. i \in was /\ i \notin up /\ cur_.insts[i].healthy = FALSE
      BY <2>3 DEF up, down
    <3> QED BY <1>6, <2>3, <3>1
  <2>4. CASE i \in was /\ i \notin up /\ i \notin down
    <3>1. t.insts[i] = old.insts[i]
      BY <1>6, <2>4
    <3>2. cur_.insts[i].healthy = prev.insts[i].healthy
      BY <2>4 DEF up, down
    <3> QED BY <2>4, <3>1, <3>2
  <2> QED BY <2>1, <2>2, <2>3, <2>4
<1>8. DOMAIN t.insts = now
  BY <1>6
<1> QED BY <1>6, <1>7, <1>8 DEF t, evs


\* A probe with a sound rate keeps the poll sound.
LEMMA FoundFacts ==
  ASSUME CollectorInv, poll.pc = "probe", NEW i \in poll.todo, NEW inst, Found(i, inst),
         inst.healthy \in BOOLEAN, RateSound(inst.rate), RateSound(inst.cometRate)
  PROVE  /\ poll' \in [pc : {"idle", "probe"}, etcd : BOOLEAN, todo : SUBSET Insts, insts : {poll'.insts}]
         /\ poll'.pc = "probe" /\ poll'.etcd = poll.etcd
         /\ DOMAIN poll'.insts \cup poll'.todo = DOMAIN poll.insts \cup poll.todo
         /\ InstsSound(poll'.insts)
<1> DEFINE f == [j \in DOMAIN poll.insts \cup {i} |-> IF j = i THEN inst ELSE poll.insts[j]]
<1>1. poll \in [pc : {"idle", "probe"}, etcd : BOOLEAN, todo : SUBSET Insts, insts : {poll.insts}] /\ InstsSound(poll.insts)
  BY DEF CollectorInv, CollectorTypes
<1>2. DOMAIN f = DOMAIN poll.insts \cup {i} /\ \A j \in DOMAIN f : f[j] = IF j = i THEN inst ELSE poll.insts[j]
  OBVIOUS
<1>3. poll' = [poll EXCEPT !.todo = poll.todo \ {i}, !.insts = f]
  BY DEF Found
<1> HIDE DEF f
<1>4. poll' = [pc |-> poll.pc, etcd |-> poll.etcd, todo |-> poll.todo \ {i}, insts |-> f]
  BY <1>1, <1>3
<1>5. InstsSound(f)
  BY <1>1, <1>2 DEF InstsSound
<1> QED BY <1>1, <1>2, <1>4, <1>5

\* A rate is the growth between two samples: never more than was counted.
LEMMA DeltaSound ==
  ASSUME CollectorInv, NEW i \in Insts, NEW s \in Samples, SampleSound(s, i), NEW b \in BOOLEAN
  PROVE  /\ Sample(i, b) \in Samples /\ SampleSound(Sample(i, b), i) /\ RateSound(Delta(s, Sample(i, b)))
<1> DEFINE c == Sample(i, b)
<1>1. count[i] \in Nat /\ grown[i] \in Nat
  BY DEF CollectorInv, CollectorTypes
<1>2. /\ c \in [v : Nat, grown : Nat, blank : BOOLEAN] /\ c.grown = grown[i] /\ c.v <= count[i] /\ c.blank = b
      /\ ~b => c.v = count[i]
  BY <1>1 DEF Sample
<1> HIDE DEF c
<1>3. SampleSound(c, i) /\ c \in Samples
  BY <1>1, <1>2 DEF SampleSound, Samples
<1>4. RateSound(Delta(s, c))
  <2>1. CASE s = NoSample \/ c.v < s.v
    BY <2>1 DEF Delta, RateSound
  <2>2. CASE ~(s = NoSample \/ c.v < s.v)
    <3>1. s \in [v : Nat, grown : Nat, blank : BOOLEAN]
      BY <2>2 DEF Samples
    <3>2. s.v \in Nat /\ s.grown \in Nat /\ (s.blank \/ count[i] - s.v <= grown[i] - s.grown)
      BY <2>2, <3>1 DEF SampleSound
    <3>3. Delta(s, c) = [delta |-> c.v - s.v, real |-> c.grown - s.grown, blank |-> s.blank]
      BY <2>2 DEF Delta
    <3>4. s.blank \/ (0 <= c.v - s.v /\ c.v - s.v <= c.grown - s.grown)
      BY <1>1, <1>2, <2>2, <3>2
    <3> QED BY <3>3, <3>4 DEF RateSound
  <2> QED BY <2>1, <2>2
<1> QED BY <1>3, <1>4 DEF c

\* What happens outside the collector keeps its invariant.
LEMMA WorldKeeps ==
  ASSUME CollectorInv,
         TopicNext \/ \E i \in Insts : Count(i) \/ ProcessRestart(i) \/ Register(i) \/ Answer(i)
  PROVE  CollectorInv'
<1>0. /\ CollectorTypes /\ PollSound /\ EventsTell /\ InstsSound(poll.insts) /\ InstsSound(snap.insts)
      /\ \A i \in Insts : SampleSound(prevStats[i], i) /\ SampleSound(prevCounts[i], i)
      /\ kafkaJob.pc = "fetch" => kafkaJob.latest - committed <= kafkaJob.listed
      /\ kafka.lag # NoLag => kafka.lag <= kafka.listed
  BY DEF CollectorInv
<1>1. UNCHANGED <<pollVars, kafkaVars>>
  BY DEF TopicNext, Produce, Commit, Count, ProcessRestart, Register, Answer, WorldMay
<1>2. UNCHANGED <<poll, lastService, prevStats, prevCounts, snap, told, kafka, kafkaJob>>
  BY <1>1 DEF pollVars, kafkaVars
<1>3. /\ registered' \subseteq Insts /\ logEnd' \in Int /\ committed' \in Int /\ committed <= committed'
  <2>1. CASE TopicNext
    BY <1>0, <2>1 DEF TopicNext, Produce, Commit, CollectorTypes
  <2>2. CASE ~TopicNext
    BY <1>0, <2>2 DEF Count, ProcessRestart, Register, Answer, CollectorTypes
  <2> QED BY <2>1, <2>2
<1>4. /\ count' \in [Insts -> Nat] /\ grown' \in [Insts -> Nat]
      /\ \A i \in Insts : \/ count'[i] = count[i] /\ grown'[i] = grown[i]
                          \/ count'[i] = count[i] + 1 /\ grown'[i] = grown[i] + 1
                          \/ count'[i] = 0 /\ grown'[i] = grown[i]
  <2>1. ASSUME NEW i \in Insts, Count(i)
        PROVE  /\ count' \in [Insts -> Nat] /\ grown' \in [Insts -> Nat]
               /\ \A j \in Insts : \/ count'[j] = count[j] /\ grown'[j] = grown[j]
                                   \/ count'[j] = count[j] + 1 /\ grown'[j] = grown[j] + 1
    <3>1. count' = [count EXCEPT ![i] = @ + 1] /\ grown' = [grown EXCEPT ![i] = @ + 1]
      BY <2>1 DEF Count
    <3> QED BY <1>0, <3>1 DEF CollectorTypes
  <2>2. ASSUME NEW i \in Insts, ProcessRestart(i)
        PROVE  /\ count' \in [Insts -> Nat] /\ grown' = grown
               /\ \A j \in Insts : count'[j] = count[j] \/ count'[j] = 0
    BY <1>0, <2>2 DEF ProcessRestart, CollectorTypes
  <2>3. ASSUME NEW i \in Insts, Register(i) \/ Answer(i) PROVE UNCHANGED <<count, grown>>
    BY <2>3 DEF Register, Answer
  <2>4. CASE TopicNext
    BY <1>0, <2>4 DEF TopicNext, Produce, Commit, CollectorTypes
  <2> QED BY <1>0, <2>1, <2>2, <2>3, <2>4 DEF CollectorTypes
<1>5. ASSUME NEW i \in Insts, NEW s \in Samples, SampleSound(s, i) PROVE SampleSound(s, i)'
  <2> SUFFICES ASSUME s # NoSample PROVE s.grown <= grown'[i] /\ (s.blank \/ count'[i] - s.v <= grown'[i] - s.grown)
    BY DEF SampleSound
  <2>1. s.v \in Nat /\ s.grown \in Nat /\ s.grown <= grown[i] /\ (s.blank \/ count[i] - s.v <= grown[i] - s.grown)
    BY <1>5 DEF SampleSound, Samples
  <2>2. count[i] \in Nat /\ grown[i] \in Nat /\ count'[i] \in Nat /\ grown'[i] \in Nat
    BY <1>0, <1>4 DEF CollectorTypes
  <2>3. CASE count'[i] = 0 /\ grown'[i] = grown[i]
    BY <2>1, <2>2, <2>3
  <2>4. CASE count'[i] = count[i] + 1 /\ grown'[i] = grown[i] + 1
    BY <2>1, <2>2, <2>4
  <2>5. CASE count'[i] = count[i] /\ grown'[i] = grown[i]
    BY <2>1, <2>5
  <2> QED BY <1>4, <2>3, <2>4, <2>5
<1>6. \A i \in Insts : prevStats[i] \in Samples /\ prevCounts[i] \in Samples
  BY <1>0 DEF CollectorTypes
<1>7. \A i \in Insts : SampleSound(prevStats[i], i)' /\ SampleSound(prevCounts[i], i)'
  <2> TAKE i \in Insts
  <2>1. SampleSound(prevStats[i], i) /\ SampleSound(prevCounts[i], i) /\ prevStats[i] \in Samples /\ prevCounts[i] \in Samples
    BY <1>0, <1>6
  <2>2. \A s \in Samples : SampleSound(s, i) => SampleSound(s, i)'
    BY <1>5
  <2> QED BY <1>2, <2>1, <2>2 DEF SampleSound
<1>8. kafkaJob.pc = "fetch" => kafkaJob.latest - committed' <= kafkaJob.listed
  BY <1>0, <1>3 DEF CollectorTypes
<1>9. CollectorTypes'
  BY <1>0, <1>2, <1>3, <1>4 DEF CollectorTypes
<1>10. PollSound' /\ EventsTell' /\ InstsSound(poll'.insts) /\ InstsSound(snap'.insts)
  BY <1>0, <1>2 DEF PollSound, EventsTell
<1> QED BY <1>0, <1>2, <1>7, <1>8, <1>9, <1>10 DEF CollectorInv, InstsSound


\* A probe, answered or not, keeps the invariant.
LEMMA ProbeKeeps ==
  ASSUME CollectorInv, NEW i \in Insts, ProbeFails(i) \/ ProbeWithoutStats(i) \/ ProbeInstance(i)
  PROVE  CollectorInv'
<1>0. /\ CollectorTypes /\ PollSound /\ EventsTell /\ InstsSound(poll.insts) /\ InstsSound(snap.insts)
      /\ \A j \in Insts : SampleSound(prevStats[j], j) /\ SampleSound(prevCounts[j], j)
      /\ kafkaJob.pc = "fetch" => kafkaJob.latest - committed <= kafkaJob.listed
      /\ kafka.lag # NoLag => kafka.lag <= kafka.listed
  BY DEF CollectorInv
<1>1. poll.pc = "probe" /\ i \in poll.todo /\ UNCHANGED <<worldVars, kafkaVars, lastService, snap, told>>
  BY DEF ProbeFails, ProbeWithoutStats, ProbeInstance
<1>2. UNCHANGED <<registered, count, grown, logEnd, committed, kafka, kafkaJob, lastService, snap, told>>
  BY <1>1 DEF worldVars, kafkaVars
<1>3. ASSUME NEW inst, Found(i, inst), inst.healthy \in BOOLEAN, RateSound(inst.rate), RateSound(inst.cometRate),
             prevStats' \in [Insts -> Samples], prevCounts' \in [Insts -> Samples],
             \A j \in Insts : SampleSound(prevStats'[j], j) /\ SampleSound(prevCounts'[j], j)
      PROVE  CollectorInv'
  <2>1. /\ poll' \in [pc : {"idle", "probe"}, etcd : BOOLEAN, todo : SUBSET Insts, insts : {poll'.insts}]
        /\ poll'.pc = "probe" /\ poll'.etcd = poll.etcd
        /\ DOMAIN poll'.insts \cup poll'.todo = DOMAIN poll.insts \cup poll.todo
        /\ InstsSound(poll'.insts)
    BY <1>1, <1>3, FoundFacts
  <2>2. CollectorTypes'
    BY <1>0, <1>2, <1>3, <2>1 DEF CollectorTypes
  <2>3. PollSound'
    BY <1>0, <1>1, <1>2, <2>1 DEF PollSound
  <2>4. EventsTell'
    BY <1>0, <1>2 DEF EventsTell
  <2>5. \A j \in Insts : SampleSound(prevStats[j], j)' /\ SampleSound(prevCounts[j], j)'
    BY <1>2, <1>3 DEF SampleSound
  <2> QED BY <1>0, <1>2, <2>1, <2>2, <2>3, <2>4, <2>5 DEF CollectorInv, InstsSound
<1>4. /\ prevStats \in [Insts -> Samples] /\ prevCounts \in [Insts -> Samples]
      /\ prevStats[i] \in Samples /\ prevCounts[i] \in Samples /\ SampleSound(prevStats[i], i) /\ SampleSound(prevCounts[i], i)
  BY <1>0 DEF CollectorTypes
<1>5. ASSUME NEW h \in BOOLEAN, Found(i, [healthy |-> h, rate |-> NoRate, cometRate |-> NoRate]), UNCHANGED <<prevStats, prevCounts>>
      PROVE  CollectorInv'
  <2> DEFINE inst == [healthy |-> h, rate |-> NoRate, cometRate |-> NoRate]
  <2>1. inst.healthy \in BOOLEAN /\ RateSound(inst.rate) /\ RateSound(inst.cometRate) /\ Found(i, inst)
    BY <1>5 DEF RateSound
  <2> HIDE DEF inst
  <2> QED BY <1>0, <1>3, <1>4, <1>5, <2>1
<1>6. CASE ProbeFails(i)
  BY <1>5, <1>6 DEF ProbeFails
<1>7. CASE ProbeWithoutStats(i)
  BY <1>5, <1>7 DEF ProbeWithoutStats
<1>8. CASE ProbeInstance(i)
  <2>1. PICK page \in {"none", "read", "empty", "failed"} :
          /\ prevCounts' = IF page \in {"none", "failed"} THEN prevCounts
                           ELSE [prevCounts EXCEPT ![i] = Sample(i, page = "empty")]
          /\ Found(i, [healthy |-> TRUE, rate |-> Delta(prevStats[i], Sample(i, FALSE)),
                       cometRate |-> IF page \in {"none", "failed"} THEN NoRate
                                     ELSE Delta(prevCounts[i], Sample(i, page = "empty"))])
    BY <1>8 DEF ProbeInstance
  <2>2. prevStats' = [prevStats EXCEPT ![i] = Sample(i, FALSE)]
    BY <1>8 DEF ProbeInstance
  <2> DEFINE s == Sample(i, FALSE)
             b == (page = "empty")
             c == Sample(i, b)
             r == Delta(prevStats[i], s)
             q == IF page \in {"none", "failed"} THEN NoRate ELSE Delta(prevCounts[i], c)
             inst == [healthy |-> TRUE, rate |-> r, cometRate |-> q]
  <2>3. s \in Samples /\ SampleSound(s, i) /\ RateSound(r)
    BY <1>4, DeltaSound
  <2>4. c \in Samples /\ SampleSound(c, i) /\ RateSound(Delta(prevCounts[i], c))
    <3>1. b \in BOOLEAN
      OBVIOUS
    <3> HIDE DEF b
    <3> QED BY <1>4, <3>1, DeltaSound
  <2>5. RateSound(q)
    BY <2>4 DEF RateSound
  <2>6. Found(i, inst)
    BY <2>1
  <2>7. prevStats' = [prevStats EXCEPT ![i] = s] /\ (prevCounts' = prevCounts \/ prevCounts' = [prevCounts EXCEPT ![i] = c])
    BY <2>1, <2>2
  <2> HIDE DEF s, b, c, r, q
  <2>8. inst.healthy \in BOOLEAN /\ RateSound(inst.rate) /\ RateSound(inst.cometRate)
    BY <2>3, <2>5
  <2> HIDE DEF inst
  <2>9. prevStats' \in [Insts -> Samples] /\ prevCounts' \in [Insts -> Samples]
    BY <1>4, <2>3, <2>4, <2>7
  <2>10. \A j \in Insts : SampleSound(prevStats'[j], j) /\ SampleSound(prevCounts'[j], j)
    <3>1. \A j \in Insts : prevStats'[j] = IF j = i THEN s ELSE prevStats[j]
      BY <1>4, <2>7
    <3>2. \A j \in Insts : prevCounts'[j] = prevCounts[j] \/ (j = i /\ prevCounts'[j] = c)
      BY <1>4, <2>7
    <3> QED BY <1>0, <2>3, <2>4, <3>1, <3>2
  <2> QED BY <1>3, <2>6, <2>8, <2>9, <2>10
<1> QED BY <1>6, <1>7, <1>8

\* The beginning and the end of a poll keep the invariant; without etcd the instances stay.
LEMMA PollKeeps ==
  ASSUME CollectorInv, PollList \/ PollPublish
  PROVE  CollectorInv' /\ (snap' # snap /\ ~snap'.etcd => DOMAIN snap'.insts = DOMAIN snap.insts)
<1>0. /\ CollectorTypes /\ PollSound /\ EventsTell /\ InstsSound(poll.insts) /\ InstsSound(snap.insts)
      /\ \A j \in Insts : SampleSound(prevStats[j], j) /\ SampleSound(prevCounts[j], j)
      /\ kafkaJob.pc = "fetch" => kafkaJob.latest - committed <= kafkaJob.listed
      /\ kafka.lag # NoLag => kafka.lag <= kafka.listed
  BY DEF CollectorInv
<1>1. UNCHANGED <<registered, count, grown, logEnd, committed, kafka, kafkaJob>>
  BY DEF PollList, PollPublish, Publish, worldVars, kafkaVars
<1>2. InstsSound(<<>>) /\ DOMAIN <<>> = {}
  BY EmptyElements DEF InstsSound
<1>3. CASE PollList
  <2>1. PICK up \in BOOLEAN :
          /\ lastService' = IF up THEN registered ELSE lastService
          /\ poll' = [pc |-> "probe", etcd |-> up, todo |-> lastService', insts |-> <<>>]
    BY <1>3 DEF PollList
  <2>2. poll.pc = "idle" /\ UNCHANGED <<prevStats, prevCounts, snap, told>>
    BY <1>3 DEF PollList
  <2> DEFINE none == <<>>
  <2>3. poll' = [pc |-> "probe", etcd |-> up, todo |-> lastService', insts |-> none] /\ InstsSound(none) /\ DOMAIN none = {}
    BY <1>2, <2>1
  <2> HIDE DEF none
  <2>4. lastService' \subseteq Insts
    BY <1>0, <2>1 DEF CollectorTypes
  <2>5. poll'.pc = "probe" /\ poll'.etcd = up /\ poll'.todo = lastService' /\ poll'.insts = none
    BY <2>3
  <2>6. poll' \in [pc : {"idle", "probe"}, etcd : BOOLEAN, todo : SUBSET Insts, insts : {poll'.insts}]
    BY <2>3, <2>4
  <2>7. CollectorTypes'
    BY <1>0, <1>1, <2>2, <2>4, <2>6 DEF CollectorTypes
  <2>8. PollSound'
    BY <1>0, <2>1, <2>2, <2>3, <2>5 DEF PollSound
  <2>9. EventsTell' /\ \A j \in Insts : SampleSound(prevStats[j], j)' /\ SampleSound(prevCounts[j], j)'
    BY <1>0, <1>1, <2>2 DEF EventsTell, SampleSound
  <2>10. InstsSound(poll'.insts) /\ InstsSound(snap'.insts)
    BY <1>0, <2>2, <2>3, <2>5
  <2> QED BY <1>0, <1>1, <2>2, <2>7, <2>8, <2>9, <2>10 DEF CollectorInv, InstsSound
<1>4. CASE PollPublish
  <2> DEFINE h == EvalHealth(poll.etcd, poll.insts)
             s == [etcd |-> poll.etcd, health |-> h, insts |-> poll.insts]
             evs == IF snap = NoSnap THEN {} ELSE DiffEvents(snap, s)
  <2>1. poll.pc = "probe" /\ poll.todo = {} /\ Publish(s, evs)
    BY <1>4 DEF PollPublish
  <2> HIDE DEF h
  <2>2. s.etcd = poll.etcd /\ s.insts = poll.insts /\ s.health = h /\ (snap # NoSnap => evs = DiffEvents(snap, s))
    OBVIOUS
  <2>3. s = [etcd |-> s.etcd, health |-> s.health, insts |-> s.insts]
    OBVIOUS
  <2> HIDE DEF s, evs
  <2>4. /\ snap' = s /\ poll' = IdlePoll /\ UNCHANGED lastService
        /\ told' = IF snap = NoSnap
                   THEN [s EXCEPT !.insts = [i \in DOMAIN s.insts |-> IF s.insts[i].healthy THEN "healthy" ELSE "sick"]]
                   ELSE Believe(told, evs)
        /\ prevStats' = [i \in Insts |-> IF i \in DOMAIN s.insts THEN prevStats[i] ELSE NoSample]
        /\ prevCounts' = [i \in Insts |-> IF i \in DOMAIN s.insts THEN prevCounts[i] ELSE NoSample]
    BY <2>1, <2>3 DEF Publish
  <2>5. DOMAIN s.insts = lastService /\ (~s.etcd => lastService = DOMAIN snap.insts) /\ InstsSound(s.insts)
    BY <1>0, <2>1, <2>2 DEF PollSound
  <2>6. EventsTell'
    <3>1. CASE snap = NoSnap
      <4> DEFINE f == [i \in DOMAIN s.insts |-> IF s.insts[i].healthy THEN "healthy" ELSE "sick"]
      <4>1. told' = [etcd |-> s.etcd, health |-> s.health, insts |-> f]
        BY <2>3, <2>4, <3>1
      <4>2. DOMAIN f = DOMAIN s.insts /\ \A i \in DOMAIN s.insts : f[i] = IF s.insts[i].healthy THEN "healthy" ELSE "sick"
        OBVIOUS
      <4> HIDE DEF f
      <4>3. told'.etcd = s.etcd /\ told'.health = s.health /\ told'.insts = f
        BY <4>1
      <4>4. \A i \in DOMAIN s.insts : s.insts[i].healthy = (f[i] = "healthy")
        BY <2>5, <4>2 DEF InstsSound
      <4> QED BY <2>4, <4>2, <4>3, <4>4 DEF EventsTell
    <3>2. CASE snap # NoSnap
      <4>1. told' = Believe(told, DiffEvents(snap, s))
        BY <2>2, <2>4, <3>2
      <4>2. LET t == Believe(told, DiffEvents(snap, s))
            IN /\ t.etcd = s.etcd /\ t.health = s.health /\ DOMAIN t.insts = DOMAIN s.insts
               /\ \A i \in DOMAIN s.insts : t.insts[i] = "listed" \/ s.insts[i].healthy = (t.insts[i] = "healthy")
        BY <1>0, <2>5, BelieveDiff DEF EventsTell, InstsSound
      <4>3. /\ told'.etcd = s.etcd /\ told'.health = s.health /\ DOMAIN told'.insts = DOMAIN s.insts
            /\ \A i \in DOMAIN s.insts : told'.insts[i] = "listed" \/ s.insts[i].healthy = (told'.insts[i] = "healthy")
        BY <4>1, <4>2
      <4> QED BY <2>4, <4>3 DEF EventsTell
    <3> QED BY <3>1, <3>2
  <2>7. prevStats' \in [Insts -> Samples] /\ prevCounts' \in [Insts -> Samples]
    BY <1>0, <2>4 DEF CollectorTypes, Samples
  <2>8. \A j \in Insts : SampleSound(prevStats[j], j)' /\ SampleSound(prevCounts[j], j)'
    <3>1. \A j \in Insts : /\ prevStats'[j] = prevStats[j] \/ prevStats'[j] = NoSample
                           /\ prevCounts'[j] = prevCounts[j] \/ prevCounts'[j] = NoSample
      BY <2>4
    <3> QED BY <1>0, <1>1, <3>1 DEF SampleSound
  <2>9. poll' = [pc |-> "idle", etcd |-> FALSE, todo |-> {}, insts |-> poll'.insts] /\ poll'.insts = <<>>
    BY <2>4 DEF IdlePoll
  <2>10. poll' \in [pc : {"idle", "probe"}, etcd : BOOLEAN, todo : SUBSET Insts, insts : {poll'.insts}] /\ poll'.pc = "idle"
    <3> DEFINE f == poll'.insts
    <3>1. poll' = [pc |-> "idle", etcd |-> FALSE, todo |-> {}, insts |-> f]
      BY <2>9
    <3> HIDE DEF f
    <3>2. poll' \in [pc : {"idle", "probe"}, etcd : BOOLEAN, todo : SUBSET Insts, insts : {f}] /\ poll'.pc = "idle"
      BY <3>1
    <3> QED BY <3>2 DEF f
  <2>11. CollectorTypes'
    BY <1>0, <1>1, <2>4, <2>7, <2>10 DEF CollectorTypes
  <2>12. PollSound'
    BY <2>4, <2>5, <2>10 DEF PollSound
  <2>13. InstsSound(poll'.insts) /\ InstsSound(snap'.insts)
    BY <1>2, <2>4, <2>5, <2>9
  <2>14. ~snap'.etcd => DOMAIN snap'.insts = DOMAIN snap.insts
    BY <2>4, <2>5
  <2> QED BY <1>0, <1>1, <2>6, <2>8, <2>11, <2>12, <2>13, <2>14 DEF CollectorInv, InstsSound
<1> QED BY <1>3, <1>4

\* The Kafka loop keeps the invariant and the snapshot.
LEMMA KafkaKeeps ==
  ASSUME CollectorInv, KafkaNext
  PROVE  CollectorInv' /\ UNCHANGED snap
<1>0. /\ CollectorTypes /\ PollSound /\ EventsTell /\ InstsSound(poll.insts) /\ InstsSound(snap.insts)
      /\ \A j \in Insts : SampleSound(prevStats[j], j) /\ SampleSound(prevCounts[j], j)
      /\ kafkaJob.pc = "fetch" => kafkaJob.latest - committed <= kafkaJob.listed
      /\ kafka.lag # NoLag => kafka.lag <= kafka.listed
  BY DEF CollectorInv
<1>1. UNCHANGED <<worldVars, pollVars>>
  BY DEF KafkaNext, KafkaListOffsets, KafkaFetchCommitted, KafkaFails
<1>2. UNCHANGED <<registered, count, grown, logEnd, committed, poll, lastService, prevStats, prevCounts, snap, told>>
  BY <1>1 DEF worldVars, pollVars
<1>3. logEnd \in Int /\ committed \in Int /\ kafkaJob \in [pc : {"idle", "fetch"}, latest : Int, listed : Int]
  BY <1>0 DEF CollectorTypes
<1>4. /\ kafkaJob' \in [pc : {"idle", "fetch"}, latest : Int, listed : Int]
      /\ kafkaJob'.pc = "fetch" => kafkaJob'.latest - committed <= kafkaJob'.listed
      /\ kafka'.lag # NoLag => kafka'.lag <= kafka'.listed
  <2>1. CASE KafkaListOffsets
    BY <1>0, <1>3, <2>1 DEF KafkaListOffsets
  <2>2. CASE KafkaFetchCommitted
    <3>1. kafkaJob' = [kafkaJob EXCEPT !.pc = "idle"] /\ kafkaJob.pc = "fetch"
      BY <2>2 DEF KafkaFetchCommitted
    <3>2. PICK ok \in BOOLEAN :
            kafka' = [up |-> TRUE, listed |-> kafkaJob.listed,
                      lag |-> IF ~ok \/ committed < 0 THEN NoLag ELSE kafkaJob.latest - committed]
      BY <2>2 DEF KafkaFetchCommitted
    <3>3. kafka'.listed = kafkaJob.listed /\ (kafka'.lag = NoLag \/ kafka'.lag = kafkaJob.latest - committed)
      BY <3>2
    <3> QED BY <1>0, <1>3, <3>1, <3>3
  <2>3. CASE KafkaFails
    BY <1>0, <1>3, <2>3 DEF KafkaFails
  <2> QED BY <2>1, <2>2, <2>3 DEF KafkaNext
<1>5. CollectorTypes'
  BY <1>0, <1>2, <1>4 DEF CollectorTypes
<1>6. PollSound' /\ EventsTell' /\ \A j \in Insts : SampleSound(prevStats[j], j)' /\ SampleSound(prevCounts[j], j)'
  BY <1>0, <1>2 DEF PollSound, EventsTell, SampleSound
<1>7. InstsSound(poll'.insts) /\ InstsSound(snap'.insts)
  BY <1>0, <1>2
<1> QED BY <1>2, <1>4, <1>5, <1>6, <1>7 DEF CollectorInv, InstsSound

\* Every step keeps the invariant; without etcd the instances stay.
LEMMA CollectorStep ==
  ASSUME CollectorInv, [CollectorNext]_collectorVars
  PROVE  CollectorInv' /\ (snap' # snap /\ ~snap'.etcd => DOMAIN snap'.insts = DOMAIN snap.insts)
<1>1. CASE UNCHANGED collectorVars
  <2>1. UNCHANGED <<registered, count, grown, logEnd, committed, poll, lastService, prevStats, prevCounts, snap, told,
                    kafka, kafkaJob>>
    BY <1>1 DEF collectorVars, worldVars, pollVars, kafkaVars
  <2> QED BY <2>1 DEF CollectorInv, CollectorTypes, PollSound, EventsTell, SampleSound, InstsSound
<1>2. CASE PollList \/ PollPublish
  BY <1>2, PollKeeps
<1>3. CASE KafkaNext
  BY <1>3, KafkaKeeps
<1>4. CASE TopicNext \/ \E i \in Insts : Count(i) \/ ProcessRestart(i) \/ Register(i) \/ Answer(i)
  <2>1. UNCHANGED snap
    BY <1>4 DEF TopicNext, Produce, Commit, Count, ProcessRestart, Register, Answer, WorldMay, pollVars
  <2> QED BY <1>4, <2>1, WorldKeeps
<1>5. CASE \E i \in Insts : ProbeFails(i) \/ ProbeWithoutStats(i) \/ ProbeInstance(i)
  <2>1. UNCHANGED snap
    BY <1>5 DEF ProbeFails, ProbeWithoutStats, ProbeInstance
  <2> QED BY <1>5, <2>1, ProbeKeeps
<1> QED BY <1>1, <1>2, <1>3, <1>4, <1>5 DEF CollectorNext, PollNext

\* The collector begins with an empty snapshot.
LEMMA CollectorStart ==
  ASSUME CollectorInit
  PROVE  CollectorInv
<1> DEFINE none == <<>>
<1>1. DOMAIN none = {}
  BY EmptyElements
<1>2. poll = [pc |-> "idle", etcd |-> FALSE, todo |-> {}, insts |-> none] /\ snap = [etcd |-> FALSE, health |-> "none", insts |-> none]
  BY DEF CollectorInit, IdlePoll, NoSnap
<1>3. told = snap /\ lastService = {}
  BY DEF CollectorInit
<1> HIDE DEF none
<1>4. poll.insts = none /\ poll.pc = "idle" /\ snap.insts = none
  BY <1>2
<1>5. poll \in [pc : {"idle", "probe"}, etcd : BOOLEAN, todo : SUBSET Insts, insts : {poll.insts}]
  BY <1>2, <1>4
<1>6. /\ count = [i \in Insts |-> 0] /\ grown = count
      /\ prevStats = [i \in Insts |-> NoSample] /\ prevCounts = prevStats
      /\ registered = Insts /\ logEnd = 0 /\ committed = -1
      /\ kafkaJob = [pc |-> "idle", latest |-> 0, listed |-> 0] /\ kafka.lag = NoLag
  BY DEF CollectorInit
<1>7. CollectorTypes
  BY <1>3, <1>5, <1>6 DEF CollectorTypes, Samples
<1>8. PollSound /\ EventsTell /\ InstsSound(poll.insts) /\ InstsSound(snap.insts)
  BY <1>1, <1>3, <1>4 DEF PollSound, EventsTell, InstsSound
<1>9. \A i \in Insts : SampleSound(prevStats[i], i) /\ SampleSound(prevCounts[i], i)
  BY <1>6 DEF SampleSound
<1>10. kafkaJob.pc # "fetch"
  BY <1>6
<1> QED BY <1>6, <1>7, <1>8, <1>9, <1>10 DEF CollectorInv

\* What the console shows was counted: no rate exceeds what the instance counted between its two
\* samples (statRates, cometRates, prunePrev), no lag what it was when the offsets were listed
\* (kafkaOnce), and the events lead from the first snapshot to the current one (diffEvents).
THEOREM ConsoleTruthfulHolds == CollectorInit /\ [][CollectorNext]_collectorVars => []ConsoleTruthful
<1>1. CollectorInv => ConsoleTruthful
  <2> SUFFICES ASSUME CollectorInv PROVE ConsoleTruthful
    OBVIOUS
  <2>1. InstsSound(snap.insts) /\ EventsTell /\ (kafka.lag # NoLag => kafka.lag <= kafka.listed)
    BY DEF CollectorInv
  <2>2. NothingInvented
    BY <2>1 DEF NothingInvented, InstsSound, RateSound
  <2> QED BY <2>1, <2>2 DEF ConsoleTruthful
<1> QED BY <1>1, CollectorStart, CollectorStep, PTL

\* A snapshot taken while etcd does not answer shows the instances of the snapshot before
\* (pollOnce probes lastService).
THEOREM OutageKeepsHolds == CollectorInit /\ [][CollectorNext]_collectorVars => OutageKeepsInstances
<1> DEFINE Kept == snap' # snap /\ ~snap'.etcd => DOMAIN snap'.insts = DOMAIN snap.insts
<1>1. CollectorInv /\ [CollectorNext]_collectorVars => [Kept]_collectorVars
  BY CollectorStep
<1>2. OutageKeepsInstances <=> [][Kept]_collectorVars
  BY PTL DEF OutageKeepsInstances
<1> QED BY <1>1, <1>2, CollectorStart, CollectorStep, PTL

----------------------------------------------------------------------------
(* LoadTest                                                                *)

\* A hole lies between two members and is none itself.
LEMMA HolesMean ==
  ASSUME NEW n \in Nat, NEW W, W \subseteq 1..n, NEW x
  PROVE  x \in Holes(W) <=> x \notin W /\ \E a \in W, b \in W : x \in a..b
<1>1. x \in Holes(W) <=> x \notin W /\ (\E b \in W : x \in 1..b) /\ \E a \in W : a < x
  BY DEF Holes
<1>2. ASSUME NEW a \in W, NEW b \in W, x \in a..b, x \notin W PROVE x \in 1..b /\ a < x
  BY <1>2
<1>3. ASSUME NEW a \in W, NEW b \in W, x \in 1..b, a < x PROVE x \in a..b
  BY <1>3
<1> QED BY <1>1, <1>2, <1>3

\* What a set of the room's messages and its holes count.
LEMMA HolesFacts ==
  ASSUME NEW n \in Nat, NEW W, W \subseteq 1..n
  PROVE  /\ IsFiniteSet(W) /\ Cardinality(W) \in Nat
         /\ Holes(W) \subseteq 1..n /\ IsFiniteSet(Holes(W)) /\ Cardinality(Holes(W)) \in Nat
<1>1. IsFiniteSet(1..n)
  BY FS_Interval
<1>2. Holes(W) \subseteq 1..n
  BY DEF Holes
<1> HIDE DEF Holes
<1>3. \A S : S \subseteq 1..n => IsFiniteSet(S) /\ Cardinality(S) \in Nat
  BY <1>1, FS_Subset, FS_CardinalityType
<1> QED BY <1>2, <1>3

\* Of the first n messages of the room, s is later than all of W.
Later(n, W, s) == W \subseteq 1..n /\ s \in 1..n /\ \A x \in W : x < s

\* onSeqs on one message that is later than all that the tracker has seen.
LEMMA OnSeqCounts ==
  ASSUME NEW n \in Nat, NEW W, NEW s, Later(n, W, s), NEW t \in Trackers, Counts(t, W)
  PROVE  /\ OnSeq(t, s) \in Trackers
         /\ OnSeq(t, s).epoch = t.epoch /\ Counts(OnSeq(t, s), W \cup {s})
<1> W \subseteq 1..n /\ s \in 1..n /\ \A x \in W : x < s
  BY DEF Later
<1>0. s \notin W /\ s \in Nat /\ t.epoch \in Nat /\ t.last \in Nat /\ t.obs \in Nat /\ t.miss \in Nat
  BY DEF Trackers
<1>1. /\ IsFiniteSet(W) /\ Cardinality(W) \in Nat
      /\ Holes(W) \subseteq 1..n /\ IsFiniteSet(Holes(W)) /\ Cardinality(Holes(W)) \in Nat
  BY HolesFacts
<1>h. \A x : x \in Holes(W) <=> x \notin W /\ \E a \in W, b \in W : x \in a..b
  BY HolesMean
<1>g. \A x : x \in Holes(W \cup {s}) <=> x \notin W \cup {s} /\ \E a \in W \cup {s}, b \in W \cup {s} : x \in a..b
  <2> DEFINE V == W \cup {s}
  <2>1. V \subseteq 1..n
    OBVIOUS
  <2> HIDE DEF V
  <2>2. \A x : x \in Holes(V) <=> x \notin V /\ \E a \in V, b \in V : x \in a..b
    BY <2>1, HolesMean
  <2> QED BY <2>2 DEF V
<1>2. Cardinality(W \cup {s}) = Cardinality(W) + 1
  BY <1>0, <1>1, FS_AddElement
<1>3. t.obs = Cardinality(W) /\ t.miss = Cardinality(Holes(W))
  BY DEF Counts
<1>4. CASE W = {}
  <2>1. t.last = 0
    BY <1>4 DEF Counts
  <2>2. Holes(W) = {} /\ Holes(W \cup {s}) = {}
    <3>1. W \cup {s} = {s} /\ \A x : x \in s..s <=> x = s
      BY <1>4
    <3>2. \A x : x \notin Holes(W) /\ x \notin Holes(W \cup {s})
      BY <1>4, <3>1, <1>h, <1>g
    <3> QED BY <3>2
  <2>3. OnSeq(t, s) = [t EXCEPT !.obs = @ + 1, !.last = s]
    BY <2>1 DEF OnSeq
  <2>4. OnSeq(t, s).obs = t.obs + 1 /\ OnSeq(t, s).miss = t.miss /\ OnSeq(t, s).last = s
    BY <2>3
  <2>5. s \in W \cup {s} /\ \A x \in W \cup {s} : x <= s
    BY <1>4
  <2>6. W \cup {s} # {}
    BY <2>5
  <2>7. Counts(OnSeq(t, s), W \cup {s})
    BY <1>2, <1>3, <2>2, <2>4, <2>5, <2>6 DEF Counts
  <2>8. OnSeq(t, s).epoch = t.epoch /\ OnSeq(t, s) \in Trackers
    <3> DEFINE o == t.obs + 1
    <3>1. o \in Nat /\ OnSeq(t, s) = [t EXCEPT !.obs = o, !.last = s]
      BY <1>0, <2>3
    <3> HIDE DEF o
    <3> QED BY <1>0, <3>1 DEF Trackers
  <2> QED BY <2>7, <2>8
<1>5. CASE W # {}
  <2>1. t.last \in W /\ \A x \in W : x <= t.last
    BY <1>5 DEF Counts
  <2>2. t.last \in 1..n /\ t.last < s
    BY <2>1
  <2> DEFINE gap == (t.last + 1)..(s - 1)
  <2>3. Holes(W \cup {s}) = Holes(W) \cup gap
    <3>1. ASSUME NEW x \in Holes(W \cup {s}) PROVE x \in Holes(W) \cup gap
      <4>1. PICK a \in W \cup {s}, b \in W \cup {s} : x \in a..b
        BY <3>1, <1>h, <1>g
      <4>2. x \notin W /\ x # s
        BY <3>1, <1>h, <1>g
      <4>3. a \in Int /\ b \in Int /\ a <= x /\ x <= b /\ x \in Int
        BY <4>1
      <4>4. CASE x > t.last
        <5>1. x < s
          BY <4>2, <4>3, <2>1, <2>2
        <5> QED BY <4>3, <4>4, <5>1, <2>2
      <4>5. CASE x < t.last
        <5>1. a \in W
          BY <4>3, <4>5, <2>2, <4>1
        <5>2. x \in a..t.last
          BY <4>3, <4>5, <2>2
        <5> QED BY <4>2, <5>1, <5>2, <2>1, <1>h, <1>g
      <4> QED BY <4>2, <4>3, <4>4, <4>5, <2>1, <2>2
    <3>2. ASSUME NEW x \in Holes(W) PROVE x \in Holes(W \cup {s})
      <4>1. PICK a \in W, b \in W : x \in a..b
        BY <3>2, <1>h, <1>g
      <4>2. x \notin W /\ x # s
        <5>1. x <= b /\ b < s
          BY <4>1
        <5> QED BY <3>2, <5>1, <4>1, <1>h, <1>g
      <4> QED BY <4>1, <4>2, <1>h, <1>g
    <3>3. ASSUME NEW x \in gap PROVE x \in Holes(W \cup {s})
      <4>1. x \in t.last..s /\ x \notin W /\ x # s
        BY <2>1, <2>2
      <4>2. t.last \in W \cup {s} /\ s \in W \cup {s}
        BY <2>1
      <4> QED BY <4>1, <4>2, <1>h, <1>g
    <3> QED BY <3>1, <3>2, <3>3
  <2>4. Holes(W) \cap gap = {}
    <3>1. \A x \in Holes(W) : \E b \in W : x <= b
      <4> TAKE x \in Holes(W)
      <4>1. PICK a \in W, b \in W : x \in a..b
        BY <1>h
      <4> QED BY <4>1
    <3> QED BY <2>1, <2>2, <3>1
  <2>5. IsFiniteSet(gap) /\ Cardinality(gap) = s - t.last - 1
    <3>1. t.last + 1 \in Int /\ s - 1 \in Int
      BY <1>0
    <3>2. IsFiniteSet(gap) /\ Cardinality(gap) = IF t.last + 1 > s - 1 THEN 0 ELSE (s - 1) - (t.last + 1) + 1
      BY <3>1, FS_Interval
    <3> QED BY <3>2, <2>2
  <2> HIDE DEF gap
  <2>6. Cardinality(Holes(W \cup {s})) = t.miss + s - t.last - 1
    <3>1. Cardinality(Holes(W) \cup gap) = Cardinality(Holes(W)) + Cardinality(gap) - Cardinality({})
      BY <1>1, <2>4, <2>5, FS_Union
    <3>2. Cardinality({}) = 0
      BY FS_EmptySet
    <3>3. \A x \in Nat : x + (s - t.last - 1) - 0 = x + s - t.last - 1
      BY <1>0
    <3>4. Cardinality(Holes(W \cup {s})) = t.miss + (s - t.last - 1) - 0
      BY <1>3, <2>3, <2>5, <3>1, <3>2
    <3> QED BY <1>0, <3>3, <3>4
  <2>7. OnSeq(t, s) = [t EXCEPT !.obs = @ + 1, !.miss = @ + s - t.last - 1, !.last = s]
    BY <2>2 DEF OnSeq
  <2>8. OnSeq(t, s).obs = t.obs + 1 /\ OnSeq(t, s).miss = t.miss + s - t.last - 1 /\ OnSeq(t, s).last = s
    BY <2>7
  <2>9. s \in W \cup {s} /\ (\A x \in W \cup {s} : x <= s) /\ W \cup {s} # {}
    OBVIOUS
  <2>10. Counts(OnSeq(t, s), W \cup {s})
    BY <1>2, <1>3, <2>6, <2>8, <2>9 DEF Counts
  <2>11. t.miss + s - t.last - 1 \in Nat
    BY <1>0, <2>2
  <2>12. OnSeq(t, s).epoch = t.epoch /\ OnSeq(t, s) \in Trackers
    <3> DEFINE m == t.miss + s - t.last - 1
               o == t.obs + 1
    <3>1. o \in Nat /\ m \in Nat
      BY <1>0, <2>11
    <3>2. OnSeq(t, s) = [t EXCEPT !.obs = o, !.miss = m, !.last = s]
      BY <2>7
    <3> HIDE DEF o, m
    <3> QED BY <1>0, <3>1, <3>2 DEF Trackers
  <2> QED BY <2>10, <2>12
<1> QED BY <1>4, <1>5

\* s and those of W are among the first n messages of the room.
Among(n, W, s) == W \subseteq 1..n /\ s \in 1..n

\* onSeqs on any message: it counts if it is ahead of all that counted before.
OneTurned(t, s, W, u) ==
  /\ u \in Trackers /\ u.epoch = t.epoch /\ t.last <= u.last /\ s <= u.last
  /\ (\A x \in W : x < s) => Counts(u, W \cup {s})
  /\ ~(\A x \in W : x < s) => Counts(u, W)
LEMMA OnSeqTurn ==
  ASSUME NEW n \in Nat, NEW W, NEW s, Among(n, W, s), NEW t \in Trackers, Counts(t, W)
  PROVE  OneTurned(t, s, W, OnSeq(t, s))
<1> W \subseteq 1..n /\ s \in 1..n
  BY DEF Among
<1>0. t.last \in Nat /\ s \in Nat
  BY DEF Trackers
<1>1. CASE \A x \in W : x < s
  <2>1. /\ OnSeq(t, s) \in Trackers
        /\ OnSeq(t, s).epoch = t.epoch /\ Counts(OnSeq(t, s), W \cup {s})
    BY <1>1, OnSeqCounts DEF Later
  <2> DEFINE u == OnSeq(t, s)
  <2>2. u.last \in W \cup {s} /\ \A x \in W \cup {s} : x <= u.last
    <3> HIDE DEF u
    <3>1. Counts(u, W \cup {s}) /\ W \cup {s} # {}
      BY <2>1 DEF u
    <3> QED BY <3>1 DEF Counts
  <2>3. t.last <= u.last
    <3>1. CASE W = {}
      BY <1>0, <2>2, <3>1 DEF Counts
    <3>2. CASE W # {}
      BY <2>2, <3>2 DEF Counts
    <3> QED BY <3>1, <3>2
  <2> QED BY <1>1, <2>1, <2>2, <2>3 DEF OneTurned
<1>2. CASE ~(\A x \in W : x < s)
  <2>1. PICK x \in W : ~(x < s)
    BY <1>2
  <2>2. t.last \in 1..n /\ x <= t.last
    BY <2>1 DEF Counts
  <2>3. OnSeq(t, s) = t /\ s <= t.last
    BY <2>1, <2>2 DEF OnSeq
  <2> QED BY <1>0, <1>2, <2>3 DEF OneTurned
<1> QED BY <1>1, <1>2

\* What a tracker still counts in epoch ep, and what it counts after a frame.
Keeps(t, ep, W) == IF ep = t.epoch THEN Counts(t, W) ELSE W = {}
Turned(W, q) ==
  W \cup {q[i] : i \in {k \in DOMAIN q : /\ \A x \in W : x < q[k]
                                      /\ \A j \in DOMAIN q : j < k => q[j] < q[k]}}
FrameOf(n, W, seqs) ==
  W \subseteq 1..n /\ seqs \in Seq(Nat) /\ \A i \in DOMAIN seqs : seqs[i] \in 1..n

\* onSeqs on a frame.
FrameTurned(t, ep, q, W, u) ==
  /\ u \in Trackers /\ u.epoch = ep /\ Counts(u, Turned(W, q))
  /\ \A i \in DOMAIN q : q[i] <= u.last
  /\ ep = t.epoch => t.last <= u.last
LEMMA OnSeqsCounts ==
  ASSUME NEW n \in Nat, NEW W, NEW ep \in Nat, NEW t \in Trackers, Keeps(t, ep, W),
         NEW seqs, FrameOf(n, W, seqs)
  PROVE  FrameTurned(t, ep, seqs, W, OnSeqs(t, ep, seqs))
<1> /\ W \subseteq 1..n /\ (IF ep = t.epoch THEN Counts(t, W) ELSE W = {})
    /\ seqs \in Seq(Nat) /\ \A i \in DOMAIN seqs : seqs[i] \in 1..n
  BY DEF Keeps, FrameOf
<1> DEFINE L == Len(seqs)
           start == IF ep = t.epoch THEN t ELSE [NoTracker EXCEPT !.epoch = ep]
           At0(g, k) == g[k] = IF k = 0 THEN start ELSE OnSeq(g[k - 1], seqs[k])
           IsF(g) == g = [k \in 0..L |-> IF k = 0 THEN start ELSE OnSeq(g[k - 1], seqs[k])]
           S == {m \in Nat : \E g : \A k \in 0..m : At0(g, k)}
           after == CHOOSE g : IsF(g)
<1>1. OnSeqs(t, ep, seqs) = after[L]
  BY DEF OnSeqs
<1>2. L \in Nat /\ DOMAIN seqs = 1..L
  BY LenProperties
<1>3. start \in Trackers /\ start.epoch = ep /\ Counts(start, W) /\ (ep = t.epoch => start.last = t.last)
  <2>1. CASE ep = t.epoch
    BY <2>1
  <2>2. CASE ep # t.epoch
    <3>1. start = [epoch |-> ep, last |-> 0, obs |-> 0, miss |-> 0] /\ W = {}
      BY <2>2 DEF NoTracker
    <3>2. Holes(W) = {}
      BY <3>1 DEF Holes
    <3> HIDE DEF start
    <3>3. Cardinality(W) = 0 /\ Cardinality(Holes(W)) = 0
      BY <3>1, <3>2, FS_EmptySet
    <3> QED BY <3>1, <3>3 DEF Counts, Trackers
  <2> QED BY <2>1, <2>2
<1> HIDE DEF start, L
<1>4. 0 \in S
  <2> DEFINE g == [k \in {0} |-> start]
  <2>1. \A k \in 0..0 : At0(g, k)
    OBVIOUS
  <2> QED BY <2>1
<1>5. ASSUME NEW m \in Nat, m \in S PROVE m + 1 \in S
  <2>1. PICK g : \A k \in 0..m : At0(g, k)
    BY <1>5
  <2> DEFINE h == [k \in 0..(m + 1) |-> IF k = m + 1 THEN OnSeq(g[m], seqs[m + 1]) ELSE g[k]]
  <2>2. h[m + 1] = OnSeq(g[m], seqs[m + 1]) /\ \A k \in 0..m : h[k] = g[k]
    OBVIOUS
  <2> HIDE DEF h
  <2>3. ASSUME NEW k \in 0..(m + 1) PROVE At0(h, k)
    <3>1. CASE k = m + 1
      <4>0. m \in 0..m /\ k # 0 /\ k - 1 = m
        BY <3>1
      <4>1. k # 0 /\ k - 1 = m /\ h[m] = g[m]
        BY <2>2, <4>0
      <4> QED BY <2>2, <3>1, <4>1
    <3>2. CASE k \in 1..m
      <4>1. k # 0 /\ k \in 0..m /\ k - 1 \in 0..m
        BY <3>2
      <4>2. h[k] = g[k] /\ h[k - 1] = g[k - 1] /\ At0(g, k)
        BY <2>1, <2>2, <4>1
      <4> QED BY <4>1, <4>2
    <3>3. CASE k = 0
      <4>1. h[0] = g[0] /\ At0(g, 0)
        BY <2>1, <2>2
      <4> QED BY <3>3, <4>1
    <3> QED BY <3>1, <3>2, <3>3
  <2> QED BY <2>3
<1>6. PICK g : \A k \in 0..L : At0(g, k)
  <2>1. Nat \subseteq S
    BY <1>4, <1>5, AllNumbers
  <2> QED BY <1>2, <2>1
<1>7. IsF(after)
  <2> DEFINE h == [k \in 0..L |-> g[k]]
  <2>1. \A k \in 0..L : h[k] = IF k = 0 THEN start ELSE OnSeq(h[k - 1], seqs[k])
    <3> TAKE k \in 0..L
    <3>1. k # 0 => k - 1 \in 0..L
      BY <1>2
    <3> QED BY <1>6, <3>1
  <2>2. IsF(h)
    <3>1. h = [k \in 0..L |-> h[k]]
      OBVIOUS
    <3> HIDE DEF h
    <3> QED BY <2>1, <3>1
  <2> QED BY <2>2
<1> HIDE DEF after
<1> DEFINE Ahead(m) == (\A x \in W : x < seqs[m]) /\ \A j \in 1..L : j < m => seqs[j] < seqs[m]
           Seen(k) == W \cup {seqs[i] : i \in {m \in 1..k : Ahead(m)}}
           Right(k) == /\ after[k] \in Trackers /\ after[k].epoch = ep /\ Counts(after[k], Seen(k))
                       /\ start.last <= after[k].last /\ \A j \in 1..k : seqs[j] <= after[k].last
           R == {k \in Nat : k <= L => Right(k)}
<1>8. 0 \in R
  <2>1. after[0] = start /\ Seen(0) = W /\ 1..0 = {} /\ start.last <= start.last
    BY <1>2, <1>3, <1>7 DEF Trackers
  <2> HIDE DEF Seen
  <2> QED BY <1>3, <2>1
<1>9. ASSUME NEW k \in Nat, k \in R PROVE k + 1 \in R
  <2>1. SUFFICES ASSUME k + 1 <= L PROVE Right(k + 1)
    OBVIOUS
  <2>2. Right(k)
    BY <1>2, <1>9, <2>1
  <2>3. after[k + 1] = OnSeq(after[k], seqs[k + 1])
    <3>1. k + 1 \in 0..L /\ k + 1 # 0 /\ (k + 1) - 1 = k
      BY <1>2, <2>1
    <3> QED BY <1>7, <3>1
  <2>4. /\ k + 1 \in DOMAIN seqs /\ seqs[k + 1] \in 1..n
        /\ \A j \in 1..k : j \in 1..L /\ j < k + 1 /\ seqs[j] \in 1..n
        /\ \A j \in 1..L : j < k + 1 => j \in 1..k
    <3>1. k + 1 \in 1..L /\ \A j \in 1..k : j \in 1..L /\ j < k + 1
      BY <1>2, <2>1
    <3>2. \A j \in 1..L : j < k + 1 => j \in 1..k
      OBVIOUS
    <3>3. \A j \in 1..L : j \in DOMAIN seqs /\ seqs[j] \in 1..n
      BY <1>2
    <3> QED BY <3>1, <3>2, <3>3
  <2>5. Seen(k) \subseteq 1..n
    BY <2>4
  <2>6. (\A x \in Seen(k) : x < seqs[k + 1]) <=> Ahead(k + 1)
    <3>1. ASSUME \A x \in Seen(k) : x < seqs[k + 1] PROVE Ahead(k + 1)
      <4>1. ASSUME NEW j \in 1..k PROVE seqs[j] < seqs[k + 1]
        <5>1. seqs[j] <= after[k].last /\ after[k].last \in Nat /\ seqs[j] \in 1..n
          BY <2>2, <2>4 DEF Trackers
        <5>2. after[k].last \in Seen(k)
          <6> HIDE DEF Seen
          <6>1. Counts(after[k], Seen(k)) /\ after[k].last # 0
            BY <2>2, <5>1
          <6> QED BY <6>1 DEF Counts
        <5>3. after[k].last < seqs[k + 1]
          BY <3>1, <5>2
        <5> QED BY <2>4, <5>1, <5>3
      <4> QED BY <2>4, <3>1, <4>1
    <3>2. ASSUME Ahead(k + 1), NEW x \in Seen(k) PROVE x < seqs[k + 1]
      BY <2>4, <3>2
    <3> QED BY <3>1, <3>2
  <2>7. Seen(k + 1) = IF Ahead(k + 1) THEN Seen(k) \cup {seqs[k + 1]} ELSE Seen(k)
    <3>1. {m \in 1..(k + 1) : Ahead(m)}
            = IF Ahead(k + 1) THEN {m \in 1..k : Ahead(m)} \cup {k + 1} ELSE {m \in 1..k : Ahead(m)}
      <4> HIDE DEF Ahead
      <4>1. 1..(k + 1) = 1..k \cup {k + 1}
        OBVIOUS
      <4> QED BY <4>1
    <3> HIDE DEF Ahead
    <3> QED BY <3>1
  <2> DEFINE q == after[k]
             s == seqs[k + 1]
             V == Seen(k)
             u == OnSeq(q, s)
             yes == Ahead(k + 1)
             last0 == start.last
             V1 == Seen(k + 1)
  <2>8. /\ V \subseteq 1..n /\ s \in 1..n /\ q \in Trackers /\ Counts(q, V) /\ q.epoch = ep
        /\ last0 <= q.last /\ last0 \in Nat
        /\ (\A x \in V : x < s) = yes /\ V1 = (IF yes THEN V \cup {s} ELSE V)
    <3>1. (\A x \in V : x < s) = yes
      BY <2>6
    <3> HIDE DEF Seen, Ahead
    <3> QED BY <1>3, <2>2, <2>4, <2>5, <2>7, <3>1 DEF Trackers
  <2>9. \A j \in 1..k : seqs[j] <= q.last /\ seqs[j] \in 1..n
    BY <2>2, <2>4
  <2> HIDE DEF q, V, yes, last0, Seen, Ahead, V1
  <2>10. /\ u \in Trackers /\ u.epoch = q.epoch /\ q.last <= u.last /\ s <= u.last
         /\ yes => Counts(u, V \cup {s})
         /\ ~yes => Counts(u, V)
    <3> HIDE DEF s
    <3>1. n \in Nat /\ Among(n, V, s) /\ q \in Trackers /\ Counts(q, V)
      BY <2>8 DEF Among
    <3>2. OneTurned(q, s, V, u)
      BY ONLY <3>1, OnSeqTurn
    <3> HIDE DEF u
    <3> QED BY <2>8, <3>2 DEF OneTurned
  <2>11. u.last \in Nat /\ q.last \in Nat
    BY <2>8, <2>10 DEF Trackers
  <2>12. last0 <= u.last /\ \A j \in 1..(k + 1) : seqs[j] <= u.last
    <3>1. \A j \in 1..k : seqs[j] <= u.last
      BY <2>9, <2>10, <2>11
    <3>2. seqs[k + 1] <= u.last
      BY <2>10
    <3>3. \A j \in 1..(k + 1) : j \in 1..k \/ j = k + 1
      OBVIOUS
    <3>4. last0 <= u.last
      BY <2>8, <2>10, <2>11
    <3> QED BY <3>1, <3>2, <3>3, <3>4
  <2>13. Counts(u, V1)
    BY <2>8, <2>10
  <2>14. after[k + 1] = u
    BY <2>3 DEF q
  <2> HIDE DEF u
  <2> QED BY <2>8, <2>10, <2>12, <2>13, <2>14 DEF last0, V1
<1>10. Nat \subseteq R
  BY <1>8, <1>9, AllNumbers
<1>11. Right(L)
  <2> HIDE DEF R
  <2>1. L \in R /\ L <= L
    BY <1>2, <1>10
  <2> USE DEF R
  <2> HIDE DEF Right
  <2> QED BY <2>1
<1>12. Seen(L) = Turned(W, seqs)
  BY <1>2 DEF Turned
<1> HIDE DEF Seen
<1> QED BY <1>1, <1>2, <1>3, <1>11, <1>12 DEF FrameTurned

\* What a connection has is counted on its own: replacing it changes the sum by the difference.
LEMMA PairsChange ==
  ASSUME NEW n \in Nat, NEW f \in [Conns -> SUBSET (1..n)], NEW c \in Conns, NEW S, S \subseteq 1..n
  PROVE  /\ Cardinality(PairsOf([f EXCEPT ![c] = S]))
               = Cardinality(PairsOf(f)) - Cardinality(f[c]) + Cardinality(S)
         /\ Cardinality(PairsOf(f)) \in Nat /\ Cardinality(f[c]) \in Nat /\ Cardinality(S) \in Nat
<1> DEFINE rest == UNION {{d} \X f[d] : d \in Conns \ {c}}
<1>1. IsFiniteSet(1..n) /\ IsFiniteSet(Conns)
  BY FS_Interval, LoadAssumption
<1>2. IsFiniteSet(Conns \X (1..n))
  BY <1>1, FS_Product
<1>3. rest \subseteq Conns \X (1..n)
  OBVIOUS
<1>4. PairsOf(f) = rest \cup ({c} \X f[c])
  BY DEF PairsOf
<1>5. PairsOf([f EXCEPT ![c] = S]) = rest \cup ({c} \X S)
  <2> DEFINE h == [f EXCEPT ![c] = S]
  <2>1. h[c] = S /\ \A d \in Conns \ {c} : h[d] = f[d]
    OBVIOUS
  <2> HIDE DEF h
  <2>2. PairsOf(h) = rest \cup ({c} \X S)
    BY <2>1 DEF PairsOf
  <2> QED BY <2>2 DEF h
<1>6. ASSUME NEW U, U \subseteq 1..n
      PROVE  /\ Cardinality(rest \cup ({c} \X U)) = Cardinality(rest) + Cardinality(U)
             /\ Cardinality(U) \in Nat /\ Cardinality(rest) \in Nat
  <2>1. IsFiniteSet(U) /\ IsFiniteSet(rest)
    BY <1>1, <1>2, <1>3, <1>6, FS_Subset
  <2>2. rest \cap ({c} \X U) = {}
    OBVIOUS
  <2> HIDE DEF rest
  <2>3. IsFiniteSet({c} \X U) /\ Cardinality({c} \X U) = 1 * Cardinality(U)
    <3>1. IsFiniteSet({c}) /\ Cardinality({c}) = 1
      BY FS_Singleton
    <3> QED BY <2>1, <3>1, FS_Product
  <2>4. Cardinality(rest \cup ({c} \X U)) = Cardinality(rest) + Cardinality({c} \X U) - Cardinality({})
    BY <2>1, <2>2, <2>3, FS_Union
  <2>5. Cardinality(U) \in Nat /\ Cardinality(rest) \in Nat /\ Cardinality({}) = 0
    BY <2>1, FS_CardinalityType, FS_EmptySet
  <2> QED BY <2>3, <2>4, <2>5
<1> HIDE DEF rest
<1>7. f[c] \subseteq 1..n
  OBVIOUS
<1>8. /\ Cardinality(PairsOf(f)) = Cardinality(rest) + Cardinality(f[c])
      /\ Cardinality(f[c]) \in Nat /\ Cardinality(rest) \in Nat
  BY <1>4, <1>6, <1>7
<1>9. /\ Cardinality(PairsOf([f EXCEPT ![c] = S])) = Cardinality(rest) + Cardinality(S)
      /\ Cardinality(S) \in Nat
  BY <1>5, <1>6
<1> QED BY <1>8, <1>9

\* A frame with the epoch it was tracked in.
Stamped(ep, q) == [i \in DOMAIN q |-> <<ep, q[i]>>]
Past(n, t, ep, h) ==
  t.epoch <= ep /\ h \in Seq(Nat \X Nat) /\ Follows(t, h) /\ \A i \in DOMAIN h : h[i][2] \in 1..n
TurnIn(t, ep, h) == IF ep = t.epoch THEN InTurn(h) ELSE {}

\* What counts of a connection when its reader has tracked a frame in epoch ep, and the whole history.
HistoryTurned(h, ep, q, W, g) ==
  /\ InTurn(g) = Turned(W, q) /\ g \in Seq(Nat \X Nat)
  /\ \A i \in DOMAIN g : (i \in DOMAIN h /\ g[i] = h[i]) \/ \E k \in DOMAIN q : g[i] = <<ep, q[k]>>
  /\ \E i \in DOMAIN g : g[i][1] = ep
LEMMA TurnAfter ==
  ASSUME NEW n \in Nat, NEW t \in Trackers, NEW ep \in Nat, NEW h, Past(n, t, ep, h),
         NEW q \in Seq(Nat), q # <<>>
  PROVE  HistoryTurned(h, ep, q, TurnIn(t, ep, h), h \o Stamped(ep, q))
<1> t.epoch <= ep /\ h \in Seq(Nat \X Nat) /\ Follows(t, h) /\ \A i \in DOMAIN h : h[i][2] \in 1..n
  BY DEF Past
<1> DEFINE L == Len(h)
           K == Len(q)
           st == Stamped(ep, q)
           g == h \o st
           W == TurnIn(t, ep, h)
<1>1. L \in Nat /\ K \in Nat \ {0} /\ DOMAIN h = 1..L /\ DOMAIN q = 1..K /\ \A k \in 1..K : q[k] \in Nat
  BY LenProperties, EmptySeq, ElementOfSeq
<1>2. st \in Seq(Nat \X Nat) /\ Len(st) = K /\ \A k \in 1..K : st[k] = <<ep, q[k]>>
  <2>1. st = [k \in 1..K |-> <<ep, q[k]>>]
    BY <1>1 DEF Stamped
  <2>2. \A k \in 1..K : <<ep, q[k]>> \in Nat \X Nat
    BY <1>1
  <2>3. st \in Seq(Nat \X Nat)
    <3> HIDE DEF K
    <3> QED BY <1>1, <2>1, <2>2
  <2>4. Len(st) = K
    <3> HIDE DEF K
    <3> QED BY <1>1, <2>1
  <2> QED BY <2>1, <2>3, <2>4
<1> HIDE DEF st
<1>3. /\ g \in Seq(Nat \X Nat) /\ DOMAIN g = 1..(L + K)
      /\ \A i \in 1..L : g[i] = h[i]
      /\ \A k \in 1..K : g[L + k] = <<ep, q[k]>>
  <2> DEFINE Pairs == Nat \X Nat
  <2>6. h \in Seq(Pairs) /\ st \in Seq(Pairs) /\ Len(h) = L /\ Len(st) = K
    BY <1>2
  <2>7. /\ h \o st \in Seq(Pairs) /\ Len(h \o st) = Len(h) + Len(st)
        /\ \A i \in 1..Len(h) + Len(st) : (h \o st)[i] = IF i <= Len(h) THEN h[i] ELSE st[i - Len(h)]
    <3> HIDE DEF Pairs, g, L, K
    <3> QED BY <2>6, ConcatProperties
  <2>1. g \in Seq(Nat \X Nat) /\ Len(g) = L + K
    BY <2>6, <2>7
  <2>2. \A i \in 1..(L + K) : g[i] = IF i <= L THEN h[i] ELSE st[i - L]
    <3> HIDE DEF Pairs, L, K
    <3> QED BY <2>6, <2>7
  <2>3. DOMAIN g = 1..(L + K)
    BY <2>1, LenProperties
  <2> HIDE DEF g, L, K
  <2>4. \A i \in 1..L : g[i] = h[i]
    BY <1>1, <2>2
  <2>5. \A k \in 1..K : g[L + k] = <<ep, q[k]>>
    <3> TAKE k \in 1..K
    <3>1. L + k \in 1..(L + K) /\ ~(L + k <= L) /\ (L + k) - L = k
      BY <1>1
    <3> QED BY <1>2, <2>2, <3>1
  <2> QED BY <2>1, <2>3, <2>4, <2>5
<1> HIDE DEF g, L, K
<1>4. \A i \in 1..L : h[i][1] \in Nat /\ h[i][1] <= t.epoch /\ h[i][1] <= ep /\ h[i][2] \in 1..n
  <2> TAKE i \in 1..L
  <2>1. h[i] \in Nat \X Nat
    BY <1>1, ElementOfSeq
  <2>2. h[i][1] \in Nat /\ h[i][1] <= t.epoch /\ h[i][2] \in 1..n
    BY <1>1, <2>1 DEF Follows
  <2>3. t.epoch \in Nat
    BY DEF Trackers
  <2> QED BY <2>2, <2>3
<1>5. \A i \in 1..(L + K) : i \in 1..L \/ \E k \in 1..K : i = L + k
  <2> TAKE i \in 1..(L + K)
  <2>1. CASE i > L
    <3>1. i - L \in 1..K /\ i = L + (i - L)
      BY <1>1, <2>1
    <3> QED BY <3>1
  <2> QED BY <1>1, <2>1
<1> DEFINE A == {i \in 1..L : h[i][1] = ep}
           B == {L + k : k \in 1..K}
<1>6. \A k \in 1..K : L + k \in 1..(L + K) /\ L + k \notin 1..L /\ \A i \in 1..L : i \in 1..(L + K) /\ i < L + k /\ ~(L + k < i)
  BY <1>1
<1>7. LastPart(g) = A \cup B
  <2>1. ASSUME NEW i \in LastPart(g) PROVE i \in A \cup B
    <3>1. i \in 1..(L + K) /\ \A j \in 1..(L + K) : g[j][1] <= g[i][1]
      BY <1>3 DEF LastPart
    <3>2. L + 1 \in 1..(L + K) /\ g[L + 1][1] = ep
      <4>1. 1 \in 1..K
        BY <1>1
      <4> QED BY <1>3, <1>6, <4>1
    <3>3. CASE i \in 1..L
      <4>1. ep <= h[i][1] /\ h[i][1] <= ep /\ h[i][1] \in Nat
        BY <1>3, <1>4, <3>1, <3>2, <3>3
      <4> QED BY <3>3, <4>1
    <3> QED BY <1>5, <3>1, <3>3
  <2>2. ASSUME NEW i \in A \cup B PROVE i \in LastPart(g)
    <3>1. i \in 1..(L + K) /\ g[i][1] = ep
      <4>1. CASE i \in A
        BY <1>1, <1>3, <4>1
      <4>2. CASE i \in B
        <5>1. PICK k \in 1..K : i = L + k
          BY <4>2
        <5>2. i \in 1..(L + K) /\ g[i] = <<ep, q[k]>>
          BY <1>3, <1>6, <5>1
        <5> QED BY <5>2
      <4> QED BY <4>1, <4>2
    <3>2. \A j \in 1..(L + K) : g[j][1] <= ep
      <4> TAKE j \in 1..(L + K)
      <4>1. CASE j \in 1..L
        BY <1>3, <1>4, <4>1
      <4>2. CASE \E k \in 1..K : j = L + k
        BY <1>3, <4>2
      <4> QED BY <1>5, <4>1, <4>2
    <3> QED BY <1>3, <3>1, <3>2 DEF LastPart
  <2> QED BY <2>1, <2>2
<1>8. W = {h[i][2] : i \in {k \in A : \A j \in A : j < k => h[j][2] < h[k][2]}}
  <2>1. CASE ep = t.epoch
    <3>1. LastPart(h) = A
      <4>1. ASSUME NEW i \in LastPart(h) PROVE i \in A
        <5>1. i \in 1..L /\ \A j \in 1..L : h[j][1] <= h[i][1]
          BY <1>1 DEF LastPart
        <5>2. h # <<>>
          BY <1>1, <5>1, EmptySeq
        <5>3. PICK j \in 1..L : h[j][1] = ep
          BY <1>1, <2>1, <5>2 DEF Follows
        <5>4. h[i][1] \in Nat /\ h[i][1] <= ep
          BY <1>4, <5>1
        <5>5. ep <= h[i][1]
          BY <5>1, <5>3
        <5>6. \A a \in Nat : a <= ep /\ ep <= a => a = ep
          OBVIOUS
        <5>7. h[i][1] = ep
          <6> HIDE DEF A
          <6> QED BY <5>4, <5>5, <5>6, Zenon
        <5> QED BY <5>1, <5>7
      <4>2. ASSUME NEW i \in A PROVE i \in LastPart(h)
        BY <1>1, <1>4 DEF LastPart
      <4> QED BY <4>1, <4>2
    <3> HIDE DEF A
    <3> QED BY <2>1, <3>1 DEF InTurn, TurnIn
  <2>2. CASE ep # t.epoch
    <3>1. t.epoch \in Nat /\ t.epoch < ep
      BY <2>2 DEF Trackers
    <3>2. \A i \in 1..L : h[i][1] \in Nat /\ h[i][1] <= t.epoch
      BY <1>4
    <3>3. \A i \in 1..L : h[i][1] # ep
      <4>1. \A a \in Nat : a <= t.epoch => a # ep
        BY <3>1
      <4> QED BY <3>2, <4>1, Zenon
    <3>4. A = {}
      BY <3>3
    <3> HIDE DEF A
    <3> QED BY <2>2, <3>4 DEF TurnIn
  <2> QED BY <2>1, <2>2
<1>9. ASSUME NEW s \in Nat PROVE (\A j \in A : h[j][2] < s) <=> \A x \in W : x < s
  <2>1. ASSUME \A j \in A : h[j][2] < s, NEW x \in W PROVE x < s
    BY <1>8, <2>1
  <2>2. ASSUME \A x \in W : x < s, NEW j \in A PROVE h[j][2] < s
    <3>1. h[j][1] = ep /\ h[j][2] \in 1..n /\ h[j][1] <= t.epoch /\ j \in DOMAIN h
      BY <1>1, <1>4
    <3>2. ep = t.epoch /\ t.last \in Nat
      BY <3>1 DEF Trackers
    <3>3. h[j][2] <= t.last
      BY <3>1, <3>2 DEF Follows
    <3>4. W = InTurn(h) /\ Counts(t, W)
      BY <3>2 DEF Follows, TurnIn
    <3> HIDE DEF W
    <3>5. t.last \in W
      BY <3>1, <3>2, <3>3, <3>4 DEF Counts
    <3>6. t.last < s
      BY <2>2, <3>5
    <3> QED BY <3>1, <3>2, <3>3, <3>6
  <2> QED BY <2>1, <2>2
<1> HIDE DEF W
<1> DEFINE first(i) == \A j \in A \cup B : j < i => g[j][2] < g[i][2]
           ahead(k) == (\A x \in W : x < q[k]) /\ \A j \in 1..K : j < k => q[j] < q[k]
<1>10. \A i \in A : first(i) <=> \A j \in A : j < i => h[j][2] < h[i][2]
  BY <1>3, <1>6
<1>11. \A k \in 1..K : first(L + k) <=> ahead(k)
  <2> TAKE k \in 1..K
  <2>1. first(L + k) <=> (\A j \in A : h[j][2] < q[k]) /\ \A j \in 1..K : j < k => q[j] < q[k]
    <3>1. \A j \in A : j < L + k /\ g[j][2] = h[j][2]
      BY <1>3, <1>6
    <3>2. \A j \in 1..K : (L + j < L + k <=> j < k) /\ g[L + j][2] = q[j]
      <4> TAKE j \in 1..K
      <4>1. g[L + j] = <<ep, q[j]>>
        BY <1>3
      <4>2. L + j < L + k <=> j < k
        BY <1>1
      <4> QED BY <4>1, <4>2
    <3> HIDE DEF A
    <3> QED BY <3>1, <3>2
  <2>2. q[k] \in Nat
    BY <1>1
  <2> HIDE DEF A
  <2> QED BY <1>9, <2>1, <2>2
<1>12. InTurn(g) = Turned(W, q)
  <2>1. InTurn(g) = {g[i][2] : i \in {j \in A \cup B : first(j)}}
    <3> HIDE DEF A, B
    <3> QED BY <1>7 DEF InTurn
  <2>2. {g[i][2] : i \in {j \in A : first(j)}} = W
    <3>1. {j \in A : first(j)} = {k \in A : \A j \in A : j < k => h[j][2] < h[k][2]}
      <4> HIDE DEF first, A
      <4> QED BY <1>10
    <3>2. \A i \in A : g[i] = h[i]
      BY <1>3
    <3> HIDE DEF first, A
    <3> QED BY <1>8, <3>1, <3>2
  <2>3. {g[i][2] : i \in {j \in B : first(j)}} = {q[k] : k \in {m \in 1..K : ahead(m)}}
    <3>1. \A k \in 1..K : g[L + k][2] = q[k]
      <4> TAKE k \in 1..K
      <4>1. g[L + k] = <<ep, q[k]>>
        BY <1>3
      <4> QED BY <4>1
    <3> HIDE DEF first, ahead
    <3>2. ASSUME NEW i \in B, first(i) PROVE \E k \in {m \in 1..K : ahead(m)} : g[i][2] = q[k]
      <4>1. PICK k \in 1..K : i = L + k
        OBVIOUS
      <4>2. ahead(k) /\ g[i][2] = q[k]
        BY <1>11, <3>1, <3>2, <4>1
      <4> QED BY <4>2
    <3>3. ASSUME NEW k \in 1..K, ahead(k) PROVE L + k \in B /\ first(L + k) /\ g[L + k][2] = q[k]
      BY <1>11, <3>1, <3>3
    <3> HIDE DEF B
    <3> DEFINE M == {m \in 1..K : ahead(m)}
               V == {g[i][2] : i \in {j \in B : first(j)}}
    <3>4. ASSUME NEW x \in V PROVE x \in {q[k] : k \in M}
      <4>1. PICK i \in B : first(i) /\ x = g[i][2]
        OBVIOUS
      <4>2. PICK k \in M : g[i][2] = q[k]
        BY <3>2, <4>1
      <4> HIDE DEF M
      <4> QED BY <4>1, <4>2
    <3>5. ASSUME NEW k \in M PROVE q[k] \in V
      BY <3>3
    <3> HIDE DEF M, V
    <3>6. V = {q[k] : k \in M}
      BY <3>4, <3>5
    <3> QED BY <3>6 DEF M, V
  <2>4. Turned(W, q) = W \cup {q[k] : k \in {m \in 1..K : ahead(m)}}
    BY <1>1 DEF Turned
  <2> HIDE DEF first, ahead, A, B
  <2> QED BY <2>1, <2>2, <2>3, <2>4
<1>13. \A i \in DOMAIN g : \/ i \in DOMAIN h /\ g[i] = h[i]
                           \/ \E k \in DOMAIN q : g[i] = <<ep, q[k]>>
  <2> TAKE i \in DOMAIN g
  <2>1. CASE i \in 1..L
    BY <1>1, <1>3, <2>1
  <2>2. CASE \E k \in 1..K : i = L + k
    <3>1. PICK k \in 1..K : i = L + k
      BY <2>2
    <3> QED BY <1>1, <1>3, <3>1
  <2> QED BY <1>3, <1>5, <2>1, <2>2
<1>14. \E i \in DOMAIN g : g[i][1] = ep
  <2>1. 1 \in 1..K
    BY <1>1
  <2>2. L + 1 \in DOMAIN g /\ g[L + 1] = <<ep, q[1]>>
    BY <1>3, <1>6, <2>1
  <2> QED BY <2>2
<1>15. HistoryTurned(h, ep, q, W, g)
  BY <1>3, <1>12, <1>13, <1>14 DEF HistoryTurned
<1> QED BY <1>15 DEF g, st, W

\* Facts of the invariant by connection.
LEMMA LoadFacts ==
  ASSUME LoadInv, NEW c \in Conns
  PROVE  /\ roomSeq \in Nat /\ epoch \in Nat /\ tracker[c] \in Trackers
         /\ wire[c] \subseteq Nat \X {"own", "peer"} /\ frame[c] \in Seq(Nat)
         /\ handled[c] \in Seq(Nat \X Nat)
         /\ Counted(c) \subseteq 1..roomSeq /\ Holes(Counted(c)) \subseteq 1..roomSeq
<1>1. /\ roomSeq \in Nat /\ epoch \in Nat /\ tracker[c] \in Trackers
      /\ wire[c] \subseteq Nat \X {"own", "peer"} /\ frame[c] \in Seq(Nat)
      /\ handled[c] \in Seq(Nat \X Nat)
  BY DEF LoadInv, LoadTypes
<1>2. \A i \in DOMAIN handled[c] : handled[c][i][2] \in 1..roomSeq
  BY DEF LoadInv, OfTheRoom
<1>3. Counted(c) \subseteq 1..roomSeq
  BY <1>2 DEF Counted, InTurn, LastPart
<1> QED BY <1>1, <1>3, HolesFacts

\* Steps that track nothing and count nothing; messages may be lost.
LEMMA LoadIdle ==
  ASSUME LoadInv, UNCHANGED <<roomSeq, frame, tracker, prevs, totals, handled>>,
         wire' \in [Conns -> SUBSET (Nat \X {"own", "peer"})], \A c \in Conns : wire'[c] \subseteq wire[c],
         epoch' \in Nat, epoch <= epoch',
         rdr' \in [Conns -> {"off", "read", "track", "missing", "gone"}],
         snd' \in [Conns -> {"new", "waiting", "sending", "joining", "done"}],
         \A c \in Conns : snd'[c] = "new" => rdr'[c] = "off",
         \A c \in Conns : rdr'[c] # rdr[c] => {rdr[c], rdr'[c]} \cap {"track", "missing"} = {}
  PROVE  LoadInv'
<1>1. LoadTypes'
  BY DEF LoadInv, LoadTypes
<1>2. ASSUME NEW c \in Conns
      PROVE  /\ OfTheRoom(roomSeq, handled[c], frame[c], wire[c], rdr[c] = "track")'
             /\ Follows(tracker[c], handled[c])' /\ (tracker[c].epoch <= epoch)'
             /\ (prevs[c].obs = tracker[c].obs)' /\ (snd[c] = "new" => rdr[c] = "off")'
  <2>1. (rdr'[c] = "track") = (rdr[c] = "track")
    OBVIOUS
  <2>2. OfTheRoom(roomSeq, handled[c], frame[c], wire[c], rdr[c] = "track")'
    BY <2>1 DEF LoadInv, OfTheRoom
  <2>3. tracker[c].epoch <= epoch'
    <3>1. tracker[c].epoch \in Nat /\ epoch \in Nat /\ tracker[c].epoch <= epoch
      BY LoadFacts DEF LoadInv, Trackers
    <3> QED BY <3>1
  <2> QED BY <2>2, <2>3 DEF LoadInv
<1>3. (totals.obs = Cardinality(PairsOf([c \in Conns |-> Counted(c)])))'
  BY DEF LoadInv, Counted
<1>4. PICK H \in [Conns -> SUBSET (1..roomSeq)] : MissingReported(H)
  BY DEF LoadInv
<1>5. MissingReported(H)'
  BY <1>4 DEF MissingReported, Counted
<1> QED BY <1>1, <1>2, <1>3, <1>4, <1>5 DEF LoadInv

\* A message is handed out.
LEMMA HandOutKeeps ==
  ASSUME LoadInv, NEW m \in Nat, NEW by \in {"own", "peer"}, NEW Got, HandOut(<<m, by>>, Got),
         roomSeq' \in Nat, roomSeq <= roomSeq', m \in 1..roomSeq',
         UNCHANGED <<snd, rdr, frame, tracker, prevs, epoch, handled>>,
         totals' \in [sent : Nat, recv : Nat, obs : Int, miss : Int],
         totals'.obs = totals.obs, totals'.miss = totals.miss
  PROVE  LoadInv'
<1>1. roomSeq \in Nat /\ 1..roomSeq \subseteq 1..roomSeq'
  BY DEF LoadInv, LoadTypes
<1>2. \A c \in Conns : wire'[c] = wire[c] \/ wire'[c] = wire[c] \cup {<<m, by>>}
  BY DEF HandOut
<1>3. LoadTypes'
  <2>1. wire' \in [Conns -> SUBSET (Nat \X {"own", "peer"})]
    <3>1. \A c \in Conns : wire'[c] \subseteq Nat \X {"own", "peer"}
      BY <1>2, LoadFacts
    <3>2. wire' = [c \in Conns |-> wire'[c]]
      BY DEF HandOut
    <3> QED BY <3>1, <3>2
  <2> QED BY <2>1 DEF LoadInv, LoadTypes
<1>4. ASSUME NEW c \in Conns
      PROVE  OfTheRoom(roomSeq', handled[c], frame[c], wire'[c], rdr[c] = "track")
  <2>1. OfTheRoom(roomSeq, handled[c], frame[c], wire[c], rdr[c] = "track")
    BY DEF LoadInv
  <2>2. \A x \in wire'[c] : x[1] \in 1..roomSeq'
    BY <1>1, <1>2, <2>1 DEF OfTheRoom
  <2> QED BY <1>1, <2>1, <2>2 DEF OfTheRoom
<1>5. (totals.obs = Cardinality(PairsOf([c \in Conns |-> Counted(c)])))'
  BY DEF LoadInv, Counted
<1>6. PICK H \in [Conns -> SUBSET (1..roomSeq)] : MissingReported(H)
  BY DEF LoadInv
<1>7. MissingReported(H)'
  BY <1>6 DEF MissingReported, Counted
<1>8. H \in [Conns -> SUBSET (1..roomSeq')]
  <2>1. 1..roomSeq \subseteq 1..roomSeq'
    BY <1>1
  <2> QED BY <1>6, <2>1
<1>9. \A c \in Conns : /\ OfTheRoom(roomSeq, handled[c], frame[c], wire[c], rdr[c] = "track")'
                       /\ Follows(tracker[c], handled[c])' /\ (tracker[c].epoch <= epoch)'
                       /\ (prevs[c].obs = tracker[c].obs)' /\ (snd[c] = "new" => rdr[c] = "off")'
  BY <1>4 DEF LoadInv
<1> QED BY <1>3, <1>5, <1>7, <1>8, <1>9 DEF LoadInv

\* A reader takes some of the messages on their way to it as a frame.
LEMMA ReadFrameKeeps ==
  ASSUME LoadInv, NEW c \in Conns, ReadFrame(c)
  PROVE  LoadInv'
<1>0. PICK m \in 1..MaxFrame : \E q \in [1..m -> wire[c]] :
             /\ frame' = [frame EXCEPT ![c] = [i \in 1..m |-> q[i][1]]]
             /\ wire' = [wire EXCEPT ![c] = @ \ {q[i] : i \in 1..m}]
             /\ totals' = [totals EXCEPT !.recv = @ + m]
  BY DEF ReadFrame
<1>1. PICK q \in [1..m -> wire[c]] :
             /\ frame' = [frame EXCEPT ![c] = [i \in 1..m |-> q[i][1]]]
             /\ wire' = [wire EXCEPT ![c] = @ \ {q[i] : i \in 1..m}]
             /\ totals' = [totals EXCEPT !.recv = @ + m]
  BY <1>0
<1>2. /\ rdr[c] = "read" /\ rdr' = [rdr EXCEPT ![c] = "track"]
      /\ UNCHANGED <<snd, tracker, prevs, epoch, roomSeq, handled>>
  BY DEF ReadFrame, serverVars
<1> DEFINE n == roomSeq
           w == wire[c]
           h == handled[c]
           f == [i \in 1..m |-> q[i][1]]
           v == w \ {q[i] : i \in 1..m}
<1>3. n \in Nat /\ w \subseteq Nat \X {"own", "peer"} /\ OfTheRoom(n, h, frame[c], w, FALSE) /\ m \in Nat \ {0}
  <2>1. OfTheRoom(n, h, frame[c], w, rdr[c] = "track") /\ (rdr[c] = "track") = FALSE
    BY <1>2 DEF LoadInv
  <2>2. n \in Nat /\ w \subseteq Nat \X {"own", "peer"}
    BY LoadFacts
  <2>3. m \in Nat \ {0}
    OBVIOUS
  <2> QED BY <2>1, <2>2, <2>3
<1>4. \A i \in 1..m : q[i] \in w /\ q[i][1] \in 1..n /\ q[i][1] \in Nat
  BY <1>3 DEF OfTheRoom
<1>5. f \in Seq(Nat) /\ f # <<>> /\ \A i \in DOMAIN f : f[i] \in 1..n
  <2>1. f \in Seq(Nat) /\ Len(f) = m
    BY <1>3, <1>4
  <2>2. DOMAIN f = 1..m /\ \A i \in 1..m : f[i] = q[i][1]
    OBVIOUS
  <2> HIDE DEF f
  <2>3. f # <<>>
    BY <1>3, <2>1, EmptySeq
  <2> QED BY <1>4, <2>1, <2>2, <2>3
<1>6. v \subseteq w
  OBVIOUS
<1> HIDE DEF f, v
<1>7. OfTheRoom(n, h, f, v, TRUE)
  BY <1>3, <1>5, <1>6 DEF OfTheRoom
<1>8. LoadTypes'
  <2>1. m \in Nat
    BY <1>3
  <2>2. totals' \in [sent : Nat, recv : Nat, obs : Int, miss : Int]
    <3> DEFINE x == totals.recv + m
    <3>1. totals \in [sent : Nat, recv : Nat, obs : Int, miss : Int]
      BY DEF LoadInv, LoadTypes
    <3>2. totals' = [totals EXCEPT !.recv = x] /\ x \in Nat
      BY <1>1, <2>1, <3>1
    <3> HIDE DEF x
    <3> QED BY <3>1, <3>2
  <2>3. frame' \in [Conns -> Seq(Nat)] /\ wire' \in [Conns -> SUBSET (Nat \X {"own", "peer"})]
    <3>1. LoadTypes /\ frame' = [frame EXCEPT ![c] = f] /\ wire' = [wire EXCEPT ![c] = v]
      BY <1>1 DEF LoadInv, f, v
    <3> QED BY <1>3, <1>5, <1>6, <3>1 DEF LoadTypes
  <2> QED BY <1>2, <2>2, <2>3 DEF LoadInv, LoadTypes
<1>9. ASSUME NEW d \in Conns
      PROVE  OfTheRoom(roomSeq, handled[d], frame[d], wire[d], rdr[d] = "track")'
  <2>1. CASE d = c
    <3>1. frame'[c] = f /\ wire'[c] = v /\ rdr'[c] = "track"
      BY <1>1, <1>2 DEF LoadInv, LoadTypes, f, v
    <3>2. (rdr'[d] = "track") = TRUE /\ roomSeq' = n /\ handled'[d] = h
      BY <1>2, <2>1, <3>1
    <3> QED BY <1>7, <2>1, <3>1, <3>2
  <2>2. CASE d # c
    <3>1. frame'[d] = frame[d] /\ wire'[d] = wire[d] /\ rdr'[d] = rdr[d]
      BY <1>1, <1>2, <2>2 DEF LoadInv, LoadTypes
    <3> QED BY <1>2, <3>1 DEF LoadInv
  <2> QED BY <2>1, <2>2
<1>10. totals'.obs = totals.obs /\ totals'.miss = totals.miss
  BY <1>1 DEF LoadInv, LoadTypes
<1>11. PICK H \in [Conns -> SUBSET (1..roomSeq)] : MissingReported(H)
  BY DEF LoadInv
<1>12. MissingReported(H)'
  <2>1. \A d \in Conns : rdr'[d] # "missing" => rdr[d] # "missing"
    BY <1>2 DEF LoadInv, LoadTypes
  <2> QED BY <1>2, <1>10, <1>11, <2>1 DEF MissingReported, Counted
<1>13. (totals.obs = Cardinality(PairsOf([d \in Conns |-> Counted(d)])))'
  BY <1>2, <1>10 DEF LoadInv, Counted
<1>14. \A d \in Conns : /\ Follows(tracker[d], handled[d])' /\ (tracker[d].epoch <= epoch)'
                        /\ (prevs[d].obs = tracker[d].obs)' /\ (snd[d] = "new" => rdr[d] = "off")'
  <2>1. \A d \in Conns : rdr'[d] # rdr[d] => d = c
    BY <1>2 DEF LoadInv, LoadTypes
  <2>2. \A d \in Conns : snd'[d] = "new" => rdr'[d] = "off"
    BY <1>2, <2>1 DEF LoadInv
  <2> QED BY <1>2, <2>2 DEF LoadInv
<1> QED BY <1>2, <1>8, <1>9, <1>11, <1>12, <1>13, <1>14 DEF LoadInv

\* A reader reports the holes of its window.
LEMMA TrackMissingKeeps ==
  ASSUME LoadInv, NEW c \in Conns, TrackMissing(c)
  PROVE  LoadInv'
<1>1. /\ rdr[c] = "missing" /\ rdr' = [rdr EXCEPT ![c] = "read"] /\ frame' = [frame EXCEPT ![c] = <<>>]
      /\ totals' = [totals EXCEPT !.miss = @ + tracker[c].miss - prevs[c].miss]
      /\ prevs' = [prevs EXCEPT ![c].miss = tracker[c].miss]
      /\ UNCHANGED <<snd, wire, tracker, epoch, roomSeq, handled>>
  BY DEF TrackMissing, serverVars
<1>2. tracker[c].miss \in Nat /\ tracker[c].miss = Cardinality(Holes(Counted(c)))
  BY LoadFacts DEF LoadInv, Follows, Counts, Counted, Trackers
<1>3. prevs[c].miss \in Nat /\ totals.miss \in Int
  BY DEF LoadInv, LoadTypes
<1>4. totals'.obs = totals.obs /\ totals'.miss = totals.miss + tracker[c].miss - prevs[c].miss
  BY <1>1 DEF LoadInv, LoadTypes
<1>5. /\ prevs' \in [Conns -> [obs : Nat, miss : Nat]] /\ prevs'[c].miss = tracker[c].miss
      /\ prevs'[c].obs = prevs[c].obs /\ \A d \in Conns \ {c} : prevs'[d] = prevs[d]
  <2>1. prevs \in [Conns -> [obs : Nat, miss : Nat]]
    BY DEF LoadInv, LoadTypes
  <2> QED BY <1>1, <1>2, <2>1
<1>6. LoadTypes'
  <2>1. totals.miss + tracker[c].miss - prevs[c].miss \in Int
    BY <1>2, <1>3
  <2>2. totals' \in [sent : Nat, recv : Nat, obs : Int, miss : Int]
    <3> DEFINE x == totals.miss + tracker[c].miss - prevs[c].miss
    <3>1. totals' = [totals EXCEPT !.miss = x] /\ x \in Int
      BY <1>1, <2>1
    <3> HIDE DEF x
    <3> QED BY <3>1 DEF LoadInv, LoadTypes
  <2>3. LoadTypes /\ <<>> \in Seq(Nat)
    BY DEF LoadInv
  <2>4. rdr' \in [Conns -> {"off", "read", "track", "missing", "gone"}] /\ frame' \in [Conns -> Seq(Nat)]
    BY <1>1, <2>3 DEF LoadTypes
  <2> QED BY <1>1, <1>5, <2>2, <2>3, <2>4 DEF LoadTypes
<1>7. \A d \in Conns : OfTheRoom(roomSeq, handled[d], frame[d], wire[d], rdr[d] = "track")'
  <2> TAKE d \in Conns
  <2>1. CASE d = c
    <3>1. frame'[c] = <<>> /\ (rdr'[c] = "track") = FALSE
      BY <1>1 DEF LoadInv, LoadTypes
    <3>2. OfTheRoom(roomSeq, handled[c], frame[c], wire[c], rdr[c] = "track")
      BY DEF LoadInv
    <3>3. OfTheRoom(roomSeq, handled[c], <<>>, wire[c], FALSE)
      BY <3>2 DEF OfTheRoom
    <3> QED BY <1>1, <2>1, <3>1, <3>3
  <2>2. CASE d # c
    <3>1. frame'[d] = frame[d] /\ rdr'[d] = rdr[d]
      BY <1>1, <2>2 DEF LoadInv, LoadTypes
    <3> QED BY <1>1, <3>1 DEF LoadInv
  <2> QED BY <2>1, <2>2
<1>8. PICK H \in [Conns -> SUBSET (1..roomSeq)] : MissingReported(H)
  BY DEF LoadInv
<1>g. PICK G : G = [H EXCEPT ![c] = Holes(Counted(c))]
  OBVIOUS
<1>9. roomSeq \in Nat /\ Holes(Counted(c)) \subseteq 1..roomSeq
  BY LoadFacts
<1>10. G \in [Conns -> SUBSET (1..roomSeq)] /\ G[c] = Holes(Counted(c)) /\ \A d \in Conns \ {c} : G[d] = H[d]
  BY <1>8, <1>9, <1>g
<1>11. /\ Cardinality(PairsOf(G)) = Cardinality(PairsOf(H)) - Cardinality(H[c]) + Cardinality(Holes(Counted(c)))
       /\ Cardinality(PairsOf(H)) \in Nat /\ Cardinality(H[c]) \in Nat
  BY <1>8, <1>9, <1>g, PairsChange
<1>12. MissingReported(G)'
  <2>1. totals.miss = Cardinality(PairsOf(H)) /\ Cardinality(H[c]) = prevs[c].miss
    BY <1>8 DEF MissingReported
  <2>2. totals'.miss = Cardinality(PairsOf(G))
    BY <1>2, <1>4, <1>11, <2>1
  <2>3. ASSUME NEW d \in Conns
        PROVE  Cardinality(G[d]) = prevs'[d].miss /\ (rdr'[d] # "missing" => G[d] = Holes(Counted(d)))
    <3>1. CASE d = c
      BY <1>2, <1>5, <1>10, <3>1
    <3>2. CASE d # c
      <4>1. rdr'[d] = rdr[d] /\ prevs'[d] = prevs[d] /\ G[d] = H[d]
        BY <1>1, <1>5, <1>10, <3>2 DEF LoadInv, LoadTypes
      <4> QED BY <1>8, <4>1 DEF MissingReported
    <3> QED BY <3>1, <3>2
  <2> QED BY <1>1, <2>2, <2>3 DEF MissingReported, Counted
<1>13. (totals.obs = Cardinality(PairsOf([d \in Conns |-> Counted(d)])))'
  BY <1>1, <1>4 DEF LoadInv, Counted
<1>14. \A d \in Conns : /\ Follows(tracker[d], handled[d])' /\ (tracker[d].epoch <= epoch)'
                        /\ (prevs[d].obs = tracker[d].obs)' /\ (snd[d] = "new" => rdr[d] = "off")'
  <2>1. \A d \in Conns : rdr'[d] # rdr[d] => d = c
    BY <1>1 DEF LoadInv, LoadTypes
  <2>2. \A d \in Conns : snd'[d] = "new" => rdr'[d] = "off"
    BY <1>1, <2>1 DEF LoadInv
  <2> QED BY <1>1, <1>5, <2>2 DEF LoadInv
<1> QED BY <1>1, <1>6, <1>7, <1>10, <1>12, <1>13, <1>14 DEF LoadInv

\* A reader moves its tracker by a frame and reports what it observed.
LEMMA TrackKeeps ==
  ASSUME LoadInv, NEW c \in Conns, Track(c)
  PROVE  LoadInv'
<1>1. /\ rdr[c] = "track" /\ rdr' = [rdr EXCEPT ![c] = "missing"]
      /\ tracker' = [tracker EXCEPT ![c] = OnSeqs(@, epoch, frame[c])]
      /\ totals' = [totals EXCEPT !.obs = @ + tracker'[c].obs - prevs[c].obs]
      /\ prevs' = [prevs EXCEPT ![c].obs = tracker'[c].obs]
      /\ handled' = [handled EXCEPT ![c] = @ \o [i \in DOMAIN frame[c] |-> <<epoch, frame[c][i]>>]]
      /\ UNCHANGED <<snd, wire, frame, epoch, roomSeq>>
  BY DEF Track, serverVars
<1> DEFINE n == roomSeq
           ep == epoch
           f == frame[c]
           h == handled[c]
           t == tracker[c]
           W == TurnIn(t, ep, h)
           g == h \o Stamped(ep, f)
           u == OnSeqs(t, ep, f)
<1>2. /\ n \in Nat /\ ep \in Nat /\ t \in Trackers /\ f \in Seq(Nat) /\ h \in Seq(Nat \X Nat)
      /\ InTurn(h) \subseteq 1..n /\ Follows(t, h) /\ t.epoch <= ep /\ prevs[c].obs = t.obs
  BY LoadFacts DEF LoadInv, Counted
<1>3. OfTheRoom(n, h, f, wire[c], TRUE)
  <2>1. OfTheRoom(n, h, f, wire[c], rdr[c] = "track") /\ (rdr[c] = "track") = TRUE
    BY <1>1 DEF LoadInv
  <2> QED BY <2>1
<1>4. h \o [i \in DOMAIN f |-> <<ep, f[i]>>] = g
  BY DEF Stamped
<1>5. tracker'[c] = u /\ handled'[c] = g
  BY <1>1, <1>4 DEF LoadInv, LoadTypes
<1>6. f # <<>> /\ (\A i \in DOMAIN f : f[i] \in 1..n) /\ \A i \in DOMAIN h : h[i][2] \in 1..n
  BY <1>3 DEF OfTheRoom
<1>7. W \subseteq 1..n /\ Keeps(t, ep, W)
  BY <1>2 DEF Follows, Keeps, TurnIn
<1>8. Past(n, t, ep, h) /\ FrameOf(n, W, f)
  BY <1>2, <1>6, <1>7 DEF Past, FrameOf
<1> HIDE DEF f, h, t, ep, n, W, g
<1>9. /\ InTurn(g) = Turned(W, f) /\ g \in Seq(Nat \X Nat)
      /\ \A i \in DOMAIN g : (i \in DOMAIN h /\ g[i] = h[i]) \/ \E k \in DOMAIN f : g[i] = <<ep, f[k]>>
      /\ \E i \in DOMAIN g : g[i][1] = ep
  <2>1. n \in Nat /\ t \in Trackers /\ ep \in Nat /\ Past(n, t, ep, h) /\ f \in Seq(Nat) /\ f # <<>>
    BY <1>2, <1>6, <1>8
  <2>2. HistoryTurned(h, ep, f, TurnIn(t, ep, h), h \o Stamped(ep, f))
    BY ONLY <2>1, TurnAfter
  <2> QED BY <2>2 DEF g, W, HistoryTurned
<1>10. /\ u \in Trackers /\ u.epoch = ep /\ Counts(u, InTurn(g))
       /\ \A i \in DOMAIN f : f[i] <= u.last
       /\ ep = t.epoch => t.last <= u.last
  <2>1. n \in Nat /\ ep \in Nat /\ t \in Trackers /\ Keeps(t, ep, W) /\ FrameOf(n, W, f)
    BY <1>2, <1>7, <1>8
  <2>2. FrameTurned(t, ep, f, W, u)
    BY ONLY <2>1, OnSeqsCounts
  <2> QED BY <1>9, <2>2 DEF FrameTurned
<1>11. InTurn(g) \subseteq 1..n
  BY <1>6, <1>7, <1>9 DEF Turned
<1> HIDE DEF u
<1>12. Follows(u, g)
  <2>1. ASSUME NEW i \in DOMAIN g PROVE g[i][1] <= ep /\ (g[i][1] = ep => g[i][2] <= u.last)
    <3>1. CASE i \in DOMAIN h /\ g[i] = h[i]
      <4>1. h[i] \in Nat \X Nat
        BY <1>2, <3>1, LenProperties, ElementOfSeq
      <4>2. h[i][1] <= t.epoch /\ (h[i][1] = t.epoch => h[i][2] <= t.last)
        BY <1>2, <3>1 DEF Follows
      <4>3. t.epoch \in Nat /\ t.last \in Nat /\ u.last \in Nat /\ ep \in Nat /\ t.epoch <= ep
        BY <1>2, <1>10 DEF Trackers
      <4>4. h[i][1] \in Nat /\ h[i][2] \in Nat
        BY <4>1
      <4>5. h[i][1] <= ep /\ (h[i][1] = ep => h[i][2] <= u.last)
        BY <1>10, <4>2, <4>3, <4>4
      <4> QED BY <3>1, <4>5
    <3>2. CASE \E k \in DOMAIN f : g[i] = <<ep, f[k]>>
      BY <1>2, <1>10, <3>2
    <3> QED BY <1>9, <3>1, <3>2
  <2> QED BY <1>9, <1>10, <2>1 DEF Follows
<1>13. OfTheRoom(n, g, f, wire[c], FALSE)
  <2>1. ASSUME NEW i \in DOMAIN g PROVE g[i][2] \in 1..n
    <3>1. CASE i \in DOMAIN h /\ g[i] = h[i]
      BY <1>6, <3>1
    <3>2. CASE \E k \in DOMAIN f : g[i] = <<ep, f[k]>>
      BY <1>6, <3>2
    <3> QED BY <1>9, <3>1, <3>2
  <2> QED BY <1>3, <2>1 DEF OfTheRoom
<1> USE DEF f, h, t, ep, n
<1>14. u.obs \in Nat /\ t.obs \in Nat /\ t.obs = Cardinality(Counted(c)) /\ u.obs = Cardinality(InTurn(g))
  BY <1>2, <1>10 DEF Trackers, Follows, Counts, Counted
<1>15. totals'.obs = totals.obs + u.obs - t.obs /\ totals'.miss = totals.miss /\ totals.obs \in Int
  BY <1>1, <1>2, <1>5 DEF LoadInv, LoadTypes
<1>16. /\ prevs' \in [Conns -> [obs : Nat, miss : Nat]] /\ prevs'[c].obs = u.obs
       /\ prevs'[c].miss = prevs[c].miss /\ \A d \in Conns \ {c} : prevs'[d] = prevs[d]
  <2>1. prevs' = [prevs EXCEPT ![c].obs = u.obs] /\ prevs \in [Conns -> [obs : Nat, miss : Nat]]
    BY <1>1, <1>5 DEF LoadInv, LoadTypes
  <2> QED BY <1>14, <2>1
<1>17. /\ \A d \in Conns \ {c} : tracker'[d] = tracker[d] /\ handled'[d] = handled[d] /\ rdr'[d] = rdr[d]
       /\ rdr'[c] = "missing"
  BY <1>1 DEF LoadInv, LoadTypes
<1>18. LoadTypes'
  <2>1. totals' \in [sent : Nat, recv : Nat, obs : Int, miss : Int]
    <3> DEFINE x == totals.obs + u.obs - t.obs
    <3>1. x \in Int
      BY <1>14, <1>15
    <3>2. totals' = [totals EXCEPT !.obs = x] /\ totals \in [sent : Nat, recv : Nat, obs : Int, miss : Int]
      BY <1>1, <1>2, <1>5 DEF LoadInv, LoadTypes
    <3> HIDE DEF x
    <3> QED BY <3>1, <3>2
  <2>2. LoadTypes
    BY DEF LoadInv
  <2>3. rdr' \in [Conns -> {"off", "read", "track", "missing", "gone"}]
    BY <1>1, <2>2 DEF LoadTypes
  <2>4. tracker' \in [Conns -> Trackers]
    BY <1>1, <1>10, <2>2 DEF LoadTypes, u
  <2>5. handled' \in [Conns -> Seq(Nat \X Nat)]
    <3>1. g \in Seq(Nat \X Nat)
      BY <1>9
    <3>2. handled' = [handled EXCEPT ![c] = g]
      BY <1>1, <1>4
    <3> QED BY <2>2, <3>1, <3>2 DEF LoadTypes
  <2> QED BY <1>1, <1>16, <2>1, <2>2, <2>3, <2>4, <2>5 DEF LoadTypes
<1>19. ASSUME NEW d \in Conns
       PROVE  /\ OfTheRoom(roomSeq, handled[d], frame[d], wire[d], rdr[d] = "track")'
              /\ Follows(tracker[d], handled[d])' /\ (tracker[d].epoch <= epoch)'
              /\ (prevs[d].obs = tracker[d].obs)' /\ (snd[d] = "new" => rdr[d] = "off")'
  <2>1. CASE d = c
    <3>1. (rdr'[c] = "track") = FALSE
      BY <1>17
    <3>2. u.epoch <= ep
      BY <1>2, <1>10
    <3>3. snd'[c] # "new"
      BY <1>1 DEF LoadInv
    <3> QED BY <1>1, <1>5, <1>12, <1>13, <1>16, <2>1, <3>1, <3>2, <3>3
  <2>2. CASE d # c
    BY <1>1, <1>16, <1>17, <2>2 DEF LoadInv
  <2> QED BY <2>1, <2>2
<1>20. (totals.obs = Cardinality(PairsOf([d \in Conns |-> Counted(d)])))'
  <2>1. PICK A : A = [d \in Conns |-> Counted(d)]
    OBVIOUS
  <2>2. A \in [Conns -> SUBSET (1..n)] /\ A[c] = Counted(c)
    BY <2>1, LoadFacts
  <2>3. [d \in Conns |-> Counted(d)'] = [A EXCEPT ![c] = InTurn(g)]
    BY <1>5, <1>17, <2>1 DEF Counted
  <2> HIDE DEF n
  <2>4. /\ Cardinality(PairsOf([A EXCEPT ![c] = InTurn(g)]))
             = Cardinality(PairsOf(A)) - Cardinality(A[c]) + Cardinality(InTurn(g))
        /\ Cardinality(PairsOf(A)) \in Nat
    BY <1>2, <1>11, <2>2, PairsChange
  <2>5. totals.obs = Cardinality(PairsOf(A))
    BY <2>1 DEF LoadInv
  <2>6. totals'.obs = Cardinality(PairsOf([A EXCEPT ![c] = InTurn(g)]))
    BY <1>14, <1>15, <2>2, <2>4, <2>5
  <2> QED BY <2>3, <2>6
<1>21. PICK H \in [Conns -> SUBSET (1..roomSeq)] : MissingReported(H)
  BY DEF LoadInv
<1>22. MissingReported(H)'
  <2>1. totals'.miss = Cardinality(PairsOf(H))
    BY <1>15, <1>21 DEF MissingReported
  <2>2. ASSUME NEW d \in Conns
        PROVE  Cardinality(H[d]) = prevs'[d].miss /\ (rdr'[d] # "missing" => H[d] = Holes(Counted(d)'))
    <3>1. CASE d = c
      BY <1>16, <1>17, <1>21, <3>1 DEF MissingReported
    <3>2. CASE d # c
      BY <1>16, <1>17, <1>21, <3>2 DEF MissingReported, Counted
    <3> QED BY <3>1, <3>2
  <2> QED BY <2>1, <2>2 DEF MissingReported
<1> QED BY <1>1, <1>18, <1>19, <1>20, <1>21, <1>22 DEF LoadInv

\* The invariant of the delivery accounting is kept by every step.
LEMMA LoadStep ==
  ASSUME LoadInv, [LoadNext]_loadVars
  PROVE  LoadInv'
<1>1. /\ epoch \in Nat /\ epoch <= epoch /\ rdr \in [Conns -> {"off", "read", "track", "missing", "gone"}]
      /\ snd \in [Conns -> {"new", "waiting", "sending", "joining", "done"}]
      /\ \A c \in Conns : snd[c] = "new" => rdr[c] = "off"
      /\ wire \in [Conns -> SUBSET (Nat \X {"own", "peer"})]
      /\ roomSeq \in Nat /\ totals \in [sent : Nat, recv : Nat, obs : Int, miss : Int]
  BY DEF LoadInv, LoadTypes
<1>2. CASE LoadTick \/ Cancel \/ UNCHANGED loadVars
  <2>1. UNCHANGED <<roomSeq, wire, frame, tracker, prevs, totals, handled, epoch, snd, rdr>>
    BY <1>2 DEF LoadTick, Cancel, loadVars, ioVars, countVars, serverVars
  <2> QED BY <1>1, <2>1, LoadIdle
<1>3. CASE ResetMeasurement
  <2>1. /\ UNCHANGED <<roomSeq, wire, frame, tracker, prevs, totals, handled, snd, rdr>>
        /\ epoch' = epoch \/ epoch' = epoch + 1
    BY <1>3 DEF ResetMeasurement, ioVars, serverVars
  <2>2. epoch' \in Nat /\ epoch <= epoch'
    BY <1>1, <2>1
  <2> QED BY <1>1, <2>1, <2>2, LoadIdle
<1>b. ASSUME NEW Got, Broadcast(Got)
      PROVE  /\ roomSeq + 1 \in Nat /\ HandOut(<<roomSeq + 1, "own">>, Got)
             /\ roomSeq' \in Nat /\ roomSeq <= roomSeq' /\ roomSeq + 1 \in 1..roomSeq'
  BY <1>1, <1>b DEF Broadcast
<1>4. CASE OtherSends \/ PeerDelivers
  <2>1. UNCHANGED <<snd, rdr, frame, tracker, prevs, epoch, handled, totals>>
    BY <1>4 DEF OtherSends, PeerDelivers, countVars
  <2>2. CASE OtherSends
    <3>1. PICK Got : Broadcast(Got)
      BY <2>2 DEF OtherSends
    <3> QED BY <1>1, <1>b, <2>1, <3>1, HandOutKeeps
  <2>3. CASE PeerDelivers
    <3>1. PICK m \in 1..MaxSeq, Got \in SUBSET Reachable : HandOut(<<m, "peer">>, Got) /\ roomSeq' = Max({roomSeq, m})
      BY <2>3 DEF PeerDelivers
    <3>2. m \in Nat /\ m # 0
      OBVIOUS
    <3>3. roomSeq' \in {roomSeq, m} /\ roomSeq <= roomSeq' /\ m <= roomSeq'
      <4>1. roomSeq + m \in Nat /\ {roomSeq, m} \subseteq 0..(roomSeq + m) /\ {roomSeq, m} # {}
        BY <1>1, <3>2
      <4> QED BY <3>1, <4>1, MaxOf
    <3>4. roomSeq' \in Nat /\ m \in 1..roomSeq'
      BY <1>1, <3>2, <3>3
    <3> QED BY <1>1, <2>1, <3>1, <3>2, <3>3, <3>4, HandOutKeeps
  <2> QED BY <1>4, <2>2, <2>3
<1>5. ASSUME NEW c \in Conns, SendMessage(c) PROVE LoadInv'
  <2>1. PICK Got : Broadcast(Got)
    BY <1>5 DEF SendMessage
  <2>2. UNCHANGED <<snd, rdr, frame, tracker, prevs, epoch, handled>> /\ totals' = [totals EXCEPT !.sent = @ + 1]
    BY <1>5 DEF SendMessage
  <2>3. totals \in [sent : Nat, recv : Nat, obs : Int, miss : Int]
    BY DEF LoadInv, LoadTypes
  <2>4. /\ totals' \in [sent : Nat, recv : Nat, obs : Int, miss : Int]
        /\ totals'.obs = totals.obs /\ totals'.miss = totals.miss
    <3> DEFINE x == totals.sent + 1
    <3>1. x \in Nat /\ totals' = [totals EXCEPT !.sent = x]
      BY <2>2, <2>3
    <3> HIDE DEF x
    <3> QED BY <2>3, <3>1
  <2> QED BY <1>b, <2>1, <2>2, <2>4, HandOutKeeps
<1>6. ASSUME NEW c \in Conns,
             (\E ok \in BOOLEAN : Dial(c, ok)) \/ AwaitMeasureStart(c) \/ EndSending(c) \/ ReadError(c)
      PROVE  LoadInv'
  <2>1. UNCHANGED <<roomSeq, frame, tracker, prevs, totals, handled, epoch>>
    BY <1>6 DEF Dial, AwaitMeasureStart, EndSending, ReadError, countVars, serverVars
  <2>2. /\ wire' = wire \/ wire' = [wire EXCEPT ![c] = {}]
        /\ wire' \in [Conns -> SUBSET (Nat \X {"own", "peer"})] /\ \A d \in Conns : wire'[d] \subseteq wire[d]
    <3>1. wire' = wire \/ wire' = [wire EXCEPT ![c] = {}]
      BY <1>6 DEF Dial, AwaitMeasureStart, EndSending, ReadError
    <3> QED BY <1>1, <3>1
  <2>3. CASE \E ok \in BOOLEAN : Dial(c, ok)
    <3>1. PICK ok \in BOOLEAN : /\ snd' = [snd EXCEPT ![c] = IF ok THEN "waiting" ELSE "done"]
                                /\ rdr' = [rdr EXCEPT ![c] = IF ok THEN "read" ELSE "gone"]
      BY <2>3 DEF Dial
    <3>2. rdr[c] = "off"
      BY <1>1, <2>3 DEF Dial
    <3> QED BY <1>1, <2>1, <2>2, <3>1, <3>2, LoadIdle
  <2>4. CASE AwaitMeasureStart(c) \/ EndSending(c)
    <3>1. UNCHANGED rdr /\ \E l \in {"joining", "done", "sending"} : snd' = [snd EXCEPT ![c] = l]
      BY <2>4 DEF AwaitMeasureStart, EndSending
    <3> QED BY <1>1, <2>1, <2>2, <3>1, LoadIdle
  <2>5. CASE ReadError(c)
    <3>1. rdr[c] = "read" /\ rdr' = [rdr EXCEPT ![c] = "gone"] /\ UNCHANGED snd
      BY <2>5 DEF ReadError
    <3> QED BY <1>1, <2>1, <2>2, <3>1, LoadIdle
  <2> QED BY <1>6, <2>3, <2>4, <2>5
<1> QED BY <1>2, <1>3, <1>4, <1>5, <1>6, ReadFrameKeeps, TrackKeeps, TrackMissingKeeps DEF LoadNext

\* Nothing has been sent or counted at the start.
LEMMA LoadStart == LoadInit => LoadInv
<1> SUFFICES ASSUME LoadInit PROVE LoadInv
  OBVIOUS
<1> DEFINE none == [c \in Conns |-> {}]
<1>1. /\ snd = [c \in Conns |-> "new"] /\ rdr = [c \in Conns |-> "off"] /\ wire = none
      /\ frame = [c \in Conns |-> <<>>] /\ tracker = [c \in Conns |-> NoTracker]
      /\ prevs = [c \in Conns |-> [obs |-> 0, miss |-> 0]]
      /\ totals = [sent |-> 0, recv |-> 0, obs |-> 0, miss |-> 0]
      /\ epoch = 0 /\ roomSeq = 0 /\ handled = [c \in Conns |-> <<>>]
  BY DEF LoadInit
<1>2. <<>> \in Seq(Nat) /\ <<>> \in Seq(Nat \X Nat) /\ DOMAIN <<>> = {}
  BY EmptyElements
<1>3. NoTracker \in Trackers /\ NoTracker.epoch = 0 /\ NoTracker.obs = 0 /\ NoTracker.miss = 0 /\ NoTracker.last = 0
  BY DEF NoTracker, Trackers
<1>4. LoadTypes
  BY <1>1, <1>2, <1>3 DEF LoadTypes
<1>5. InTurn(<<>>) = {} /\ Holes({}) = {}
  BY <1>2 DEF InTurn, LastPart, Holes
<1>6. Cardinality({}) = 0
  BY FS_EmptySet
<1>7. PairsOf(none) = {}
  BY DEF PairsOf
<1>8. \A c \in Conns : /\ OfTheRoom(roomSeq, handled[c], frame[c], wire[c], rdr[c] = "track")
                       /\ Follows(tracker[c], handled[c]) /\ tracker[c].epoch <= epoch
                       /\ prevs[c].obs = tracker[c].obs /\ (snd[c] = "new" => rdr[c] = "off")
  <2> TAKE c \in Conns
  <2>1. OfTheRoom(0, <<>>, <<>>, {}, FALSE)
    BY <1>2 DEF OfTheRoom
  <2>2. Follows(NoTracker, <<>>)
    BY <1>2, <1>3, <1>5, <1>6 DEF Follows, Counts
  <2>3. /\ handled[c] = <<>> /\ frame[c] = <<>> /\ wire[c] = {} /\ rdr[c] = "off" /\ tracker[c] = NoTracker
        /\ prevs[c].obs = 0 /\ (rdr[c] = "track") = FALSE
    BY <1>1
  <2>4. OfTheRoom(roomSeq, handled[c], frame[c], wire[c], rdr[c] = "track")
    BY <1>1, <2>1, <2>3, Zenon
  <2>5. tracker[c].epoch = 0 /\ epoch = 0 /\ tracker[c].obs = 0
    BY <1>1, <1>3, <2>3
  <2> QED BY <2>2, <2>3, <2>4, <2>5
<1>9. \A c \in Conns : Counted(c) = {}
  BY <1>1, <1>5 DEF Counted
<1>10. totals.obs = Cardinality(PairsOf([c \in Conns |-> Counted(c)]))
  <2>1. [c \in Conns |-> Counted(c)] = none
    BY <1>9
  <2> HIDE DEF none
  <2> QED BY <1>1, <1>6, <1>7, <2>1
<1>11. MissingReported(none) /\ none \in [Conns -> SUBSET (1..roomSeq)]
  <2>1. \A c \in Conns : Cardinality(none[c]) = prevs[c].miss /\ none[c] = Holes(Counted(c))
    BY <1>1, <1>5, <1>6, <1>9
  <2> QED BY <1>1, <1>6, <1>7, <2>1 DEF MissingReported
<1> HIDE DEF none
<1> QED BY <1>4, <1>8, <1>10, <1>11 DEF LoadInv

\* The delivery accounting is exact whenever no reader is inside a frame (main.go, onSeqs and
\* runClient): for any number of connections, any traffic, loss and order of arrival, numbers given twice,
\* and a reset of the window at any moment.
THEOREM DeliveryAccountedHolds == LoadInit /\ [][LoadNext]_loadVars => []DeliveryAccounted
<1>1. LoadInv => DeliveryAccounted
  <2> SUFFICES ASSUME LoadInv, \A c \in Conns : rdr[c] \notin {"track", "missing"}
               PROVE  /\ totals.obs = Cardinality(PairsOf([c \in Conns |-> Counted(c)]))
                      /\ totals.miss = Cardinality(PairsOf([c \in Conns |-> Holes(Counted(c))]))
    BY DEF DeliveryAccounted
  <2>1. PICK H \in [Conns -> SUBSET (1..roomSeq)] : MissingReported(H)
    BY DEF LoadInv
  <2>2. H = [c \in Conns |-> Holes(Counted(c))]
    BY <2>1 DEF MissingReported
  <2> QED BY <2>1, <2>2 DEF LoadInv, MissingReported
<1> QED BY <1>1, LoadStart, LoadStep, PTL

----------------------------------------------------------------------------
(* Analysis: statistics of measured values                                 *)

\* Measured values: numbers at some of the positions 1..n.
Series(v, n) == v \in [DOMAIN v -> Nat] /\ DOMAIN v \subseteq 1..n

\* The sum of measured values is a number.
LEMMA SumIsNumber ==
  ASSUME NEW n \in Nat, NEW v, Series(v, n), DOMAIN v # {}
  PROVE  SumOf(v) \in Nat
<1> DEFINE L == Max(DOMAIN v)
           at(i) == IF i \in DOMAIN v THEN v[i] ELSE 0
           At0(g, k) == g[k] = IF k = 0 THEN 0 ELSE g[k - 1] + at(k)
           IsF(g) == g = [k \in 0..L |-> IF k = 0 THEN 0 ELSE g[k - 1] + at(k)]
           S == {m \in Nat : \E g : \A k \in 0..m : At0(g, k)}
           total == CHOOSE g : IsF(g)
<1>1. SumOf(v) = total[L]
  BY DEF SumOf
<1>2. L \in Nat
  <2>1. DOMAIN v \subseteq 0..n
    BY DEF Series
  <2>2. Max(DOMAIN v) \in DOMAIN v
    BY <2>1, MaxOf
  <2> QED BY <2>1, <2>2
<1>3. \A i : at(i) \in Nat
  BY DEF Series
<1> HIDE DEF L, at
<1>4. 0 \in S
  <2> DEFINE g == [k \in {0} |-> 0]
  <2>1. \A k \in 0..0 : At0(g, k)
    OBVIOUS
  <2> QED BY <2>1
<1>5. ASSUME NEW m \in Nat, m \in S PROVE m + 1 \in S
  <2>1. PICK g : \A k \in 0..m : At0(g, k)
    BY <1>5
  <2> DEFINE h == [k \in 0..(m + 1) |-> IF k = m + 1 THEN g[m] + at(m + 1) ELSE g[k]]
  <2>2. h[m + 1] = g[m] + at(m + 1) /\ \A k \in 0..m : h[k] = g[k]
    OBVIOUS
  <2> HIDE DEF h
  <2>3. ASSUME NEW k \in 0..(m + 1) PROVE At0(h, k)
    <3>1. CASE k = m + 1
      <4>0. m \in 0..m /\ k # 0 /\ k - 1 = m
        BY <3>1
      <4> QED BY <2>2, <3>1, <4>0
    <3>2. CASE k \in 1..m
      <4>1. k # 0 /\ k \in 0..m /\ k - 1 \in 0..m
        BY <3>2
      <4>2. h[k] = g[k] /\ h[k - 1] = g[k - 1] /\ At0(g, k)
        BY <2>1, <2>2, <4>1
      <4> QED BY <4>1, <4>2
    <3>3. CASE k = 0
      <4>1. h[0] = g[0] /\ At0(g, 0)
        BY <2>1, <2>2
      <4> QED BY <3>3, <4>1
    <3> QED BY <3>1, <3>2, <3>3
  <2> QED BY <2>3
<1>6. PICK g : \A k \in 0..L : At0(g, k)
  <2>1. Nat \subseteq S
    BY <1>4, <1>5, AllNumbers
  <2> QED BY <1>2, <2>1
<1>7. IsF(total)
  <2> DEFINE h == [k \in 0..L |-> g[k]]
  <2>1. \A k \in 0..L : h[k] = IF k = 0 THEN 0 ELSE h[k - 1] + at(k)
    <3> TAKE k \in 0..L
    <3>1. k # 0 => k - 1 \in 0..L
      BY <1>2
    <3> QED BY <1>6, <3>1
  <2>2. IsF(h)
    <3>1. h = [k \in 0..L |-> h[k]]
      OBVIOUS
    <3> HIDE DEF h
    <3> QED BY <2>1, <3>1
  <2> QED BY <2>2
<1> HIDE DEF total
<1> DEFINE R == {k \in Nat : k <= L => total[k] \in Nat}
<1>8. 0 \in R
  BY <1>2, <1>7
<1>9. ASSUME NEW k \in Nat, k \in R PROVE k + 1 \in R
  <2>1. SUFFICES ASSUME k + 1 <= L PROVE total[k + 1] \in Nat
    OBVIOUS
  <2>2. k + 1 \in 0..L /\ k + 1 # 0 /\ (k + 1) - 1 = k
    BY <1>2, <2>1
  <2>3. total[k + 1] = total[k] + at(k + 1)
    BY <1>7, <2>2
  <2>4. total[k] \in Nat
    BY <1>2, <1>9, <2>1
  <2> QED BY <1>3, <2>3, <2>4
<1>10. Nat \subseteq R
  BY <1>8, <1>9, AllNumbers
<1> QED BY <1>1, <1>2, <1>10

\* Measured values have a greatest one.
LEMMA GreatestValue ==
  ASSUME NEW n \in Nat, NEW v, Series(v, n), DOMAIN v # {}
  PROVE  \E i \in DOMAIN v : \A j \in DOMAIN v : v[j] <= v[i]
<1> DEFINE S == {m \in Nat : \E b \in Nat : \A j \in DOMAIN v : j <= m => v[j] <= b}
<1>1. \A j \in DOMAIN v : v[j] \in Nat /\ j \in Nat /\ j >= 1 /\ j <= n
  BY DEF Series
<1>2. 0 \in S
  BY <1>1
<1>3. ASSUME NEW m \in Nat, m \in S PROVE m + 1 \in S
  <2>1. PICK b \in Nat : \A j \in DOMAIN v : j <= m => v[j] <= b
    BY <1>3
  <2>2. CASE m + 1 \in DOMAIN v
    <3> DEFINE c == IF v[m + 1] <= b THEN b ELSE v[m + 1]
    <3>1. c \in Nat /\ b <= c /\ v[m + 1] <= c
      BY <1>1, <2>2
    <3> HIDE DEF c
    <3>2. ASSUME NEW j \in DOMAIN v, j <= m + 1 PROVE v[j] <= c
      <4>1. j = m + 1 \/ j <= m
        BY <1>1, <3>2
      <4> QED BY <1>1, <2>1, <3>1, <4>1
    <3> QED BY <3>1, <3>2
  <2>3. CASE m + 1 \notin DOMAIN v
    <3>1. ASSUME NEW j \in DOMAIN v, j <= m + 1 PROVE v[j] <= b
      <4>1. j <= m
        BY <1>1, <2>3, <3>1
      <4> QED BY <2>1, <4>1
    <3> QED BY <3>1
  <2> QED BY <2>2, <2>3
<1>4. n \in S
  BY <1>2, <1>3, AllNumbers
<1>5. PICK b \in Nat : \A j \in DOMAIN v : v[j] <= b
  BY <1>1, <1>4
<1> DEFINE T == {v[j] : j \in DOMAIN v}
<1>6. T \subseteq 0..b /\ T # {}
  BY <1>1, <1>5
<1>7. PICK x \in T : \A y \in T : y <= x
  BY <1>6, GreatestNumber
<1> QED BY <1>7

\* The k-th smallest of at least k values is one of them.
LEMMA NthIsValue ==
  ASSUME NEW n \in Nat, NEW v, Series(v, n), NEW k \in Nat, 1 <= k, k <= SampleCount(v)
  PROVE  NthSmallest(v, k) \in Nat
<1> DEFINE T == {x \in {v[i] : i \in DOMAIN v} : Cardinality({i \in DOMAIN v : v[i] <= x}) >= k}
<1>1. DOMAIN v # {}
  BY FS_EmptySet DEF SampleCount
<1>2. PICK i \in DOMAIN v : \A j \in DOMAIN v : v[j] <= v[i]
  BY <1>1, GreatestValue
<1>3. {j \in DOMAIN v : v[j] <= v[i]} = DOMAIN v
  BY <1>2
<1>4. v[i] \in T
  BY <1>3 DEF SampleCount
<1>5. T \subseteq Nat
  BY DEF Series
<1>6. NthSmallest(v, k) = Min(T)
  BY DEF NthSmallest
<1> HIDE DEF T
<1>7. Min(T) \in T
  BY <1>4, <1>5, MinOf
<1> QED BY <1>5, <1>6, <1>7

\* How many values there are.
LEMMA SeriesCount ==
  ASSUME NEW n \in Nat, NEW v, Series(v, n)
  PROVE  SampleCount(v) \in Nat /\ (SampleCount(v) = 0 <=> DOMAIN v = {})
<1>1. IsFiniteSet(1..n)
  BY FS_Interval
<1>2. DOMAIN v \in SUBSET (1..n)
  BY DEF Series
<1>3. IsFiniteSet(DOMAIN v)
  BY <1>1, <1>2, FS_Subset
<1> QED BY <1>3, FS_CardinalityType, FS_EmptySet DEF SampleCount

\* Mean and median of measured values are numbers, and missing only when there are no values.
LEMMA MedianIsNumber ==
  ASSUME NEW n \in Nat, NEW v, Series(v, n)
  PROVE  IF SampleCount(v) = 0 THEN MedianOf(v) = NA /\ MeanOf(v) = NA
         ELSE MedianOf(v) \in Nat /\ MeanOf(v) \in Nat
<1> DEFINE c == SampleCount(v)
           half == c \div 2
<1>1. c \in Nat /\ (c = 0 <=> DOMAIN v = {})
  BY SeriesCount
<1>2. CASE c = 0
  BY <1>1, <1>2 DEF MedianOf, MeanOf
<1>3. CASE c # 0
  <2>1. DOMAIN v # {}
    BY <1>1, <1>3
  <2>2. /\ half \in Nat
        /\ c % 2 = 1 => half + 1 <= c
        /\ c % 2 # 1 => 1 <= half /\ half + 1 <= c
    <3> HIDE DEF c
    <3> QED BY <1>1, <1>3
  <2> HIDE DEF half
  <2>3. MedianOf(v) \in Nat
    <3>1. CASE c % 2 = 1
      <4>1. MedianOf(v) = NthSmallest(v, half + 1)
        BY <2>1, <3>1 DEF MedianOf, half
      <4>2. half + 1 \in Nat /\ 1 <= half + 1 /\ half + 1 <= SampleCount(v)
        BY <2>2, <3>1
      <4>3. NthSmallest(v, half + 1) \in Nat
        BY <4>2, NthIsValue
      <4> QED BY <4>1, <4>3
    <3>2. CASE c % 2 # 1
      <4>1. MedianOf(v) = (NthSmallest(v, half) + NthSmallest(v, half + 1)) \div 2
        BY <2>1, <3>2 DEF MedianOf, half
      <4>2. half + 1 \in Nat /\ 1 <= half + 1 /\ half + 1 <= SampleCount(v)
            /\ 1 <= half /\ half <= SampleCount(v)
        BY <1>1, <2>2, <3>2
      <4>3. NthSmallest(v, half + 1) \in Nat /\ NthSmallest(v, half) \in Nat
        BY <2>2, <4>2, NthIsValue
      <4> QED BY <4>1, <4>3
    <3> QED BY <3>1, <3>2
  <2>4. MeanOf(v) \in Nat
    <3>1. SumOf(v) \in Nat /\ MeanOf(v) = SumOf(v) \div c
      BY <2>1, SumIsNumber DEF MeanOf
    <3> HIDE DEF c
    <3> QED BY <1>1, <1>3, <3>1
  <2> QED BY <1>3, <2>3, <2>4
<1> QED BY <1>2, <1>3

\* What NthSmallest stands for: k values do not exceed it, and fewer than k are smaller.
LEMMA NthMeans ==
  ASSUME NEW n \in Nat, NEW v, Series(v, n), NEW k \in Nat, 1 <= k, k <= SampleCount(v),
         NEW x, x = NthSmallest(v, k)
  PROVE  /\ x \in Nat
         /\ Cardinality({i \in DOMAIN v : v[i] <= x}) >= k
         /\ Cardinality({i \in DOMAIN v : v[i] < x}) < k
<1> DEFINE T == {y \in {v[i] : i \in DOMAIN v} : Cardinality({i \in DOMAIN v : v[i] <= y}) >= k}
           L == {i \in DOMAIN v : v[i] < x}
           w == [i \in L |-> v[i]]
<1>1. x \in Nat
  BY NthIsValue
<1>2. x \in T /\ \A y \in T : x <= y
  <2>1. DOMAIN v # {}
    BY FS_EmptySet DEF SampleCount
  <2>2. PICK i \in DOMAIN v : \A j \in DOMAIN v : v[j] <= v[i]
    BY <2>1, GreatestValue
  <2>3. {j \in DOMAIN v : v[j] <= v[i]} = DOMAIN v
    BY <2>2
  <2>4. v[i] \in T
    BY <2>3 DEF SampleCount
  <2>5. T \subseteq Nat
    BY DEF Series
  <2>6. x = Min(T)
    BY DEF NthSmallest
  <2> HIDE DEF T
  <2>7. \E y \in T : \A z \in T : y <= z
    BY <2>4, <2>5, LeastNumber
  <2> QED BY <2>6, <2>7 DEF Min
<1>3. Cardinality({i \in DOMAIN v : v[i] <= x}) >= k
  BY <1>2
<1>4. IsFiniteSet(L) /\ Cardinality(L) \in Nat
  <2>1. IsFiniteSet(1..n) /\ L \in SUBSET (1..n)
    BY FS_Interval DEF Series
  <2> HIDE DEF L
  <2> QED BY <2>1, FS_Subset, FS_CardinalityType
<1>5. ASSUME Cardinality(L) >= k PROVE FALSE
  <2>1. L # {}
    <3> HIDE DEF L
    <3> QED BY <1>5, FS_EmptySet
  <2>2. Series(w, n) /\ DOMAIN w = L
    BY DEF Series
  <2>3. PICK i \in L : \A j \in L : v[j] <= v[i]
    <3>1. \E i \in DOMAIN w : \A j \in DOMAIN w : w[j] <= w[i]
      BY <2>1, <2>2, GreatestValue
    <3> QED BY <3>1
  <2>4. i \in DOMAIN v /\ v[i] < x /\ \A j \in DOMAIN v : v[j] \in Nat
    BY DEF Series
  <2>5. {j \in DOMAIN v : v[j] <= v[i]} = L
    <3>1. \A j \in DOMAIN v : v[j] <= v[i] <=> v[j] < x
      BY <1>1, <2>3, <2>4
    <3> QED BY <3>1
  <2>6. v[i] \in T
    BY <1>5, <2>4, <2>5
  <2>7. x <= v[i]
    BY <1>2, <2>6
  <2> QED BY <1>1, <2>4, <2>7
<1>6. Cardinality(L) < k
  BY <1>4, <1>5
<1> QED BY <1>1, <1>3, <1>6

\* How many values do not exceed x, are smaller, are not smaller.
UpTo(v, x) == Cardinality({i \in DOMAIN v : v[i] <= x})
Under(v, x) == Cardinality({i \in DOMAIN v : v[i] < x})
From(v, x) == Cardinality({i \in DOMAIN v : v[i] >= x})

\* A number between the values around the middle splits them: c values, at least half of them not
\* above lo, fewer than half + 1 of them below hi.
LEMMA SplitBy ==
  ASSUME NEW n \in Nat, NEW v, Series(v, n), NEW half \in Nat, NEW top \in Nat,
         NEW lo \in Nat, NEW mid \in Nat, NEW hi \in Nat, lo <= mid, mid <= hi,
         UpTo(v, lo) >= half, Under(v, hi) < top
  PROVE  /\ UpTo(v, mid) \in Nat /\ UpTo(v, mid) >= half
         /\ From(v, mid) \in Nat /\ From(v, mid) > SampleCount(v) - top
<1> DEFINE A == {i \in DOMAIN v : v[i] <= lo}
           B == {i \in DOMAIN v : v[i] <= mid}
           C == {i \in DOMAIN v : v[i] < hi}
           D == {i \in DOMAIN v : v[i] >= mid}
           V == DOMAIN v
<1>1. IsFiniteSet(V)
  <2>1. IsFiniteSet(1..n)
    BY FS_Interval
  <2>2. V \in SUBSET (1..n)
    BY DEF Series
  <2> QED BY <2>1, <2>2, FS_Subset
<1>2. A \in SUBSET B /\ B \in SUBSET V /\ C \in SUBSET V /\ D \in SUBSET V /\ V \in SUBSET (C \cup D)
  <2>1. \A i \in V : v[i] \in Nat
    BY DEF Series
  <2>2. \A i \in V : (v[i] <= lo => v[i] <= mid) /\ (v[i] < hi \/ v[i] >= mid)
    BY <2>1
  <2> QED BY <2>2
<1> HIDE DEF A, B, C, D, V
<1>3. /\ IsFiniteSet(B) /\ IsFiniteSet(C) /\ IsFiniteSet(D)
      /\ Cardinality(V) \in Nat /\ Cardinality(B) \in Nat /\ Cardinality(C) \in Nat /\ Cardinality(D) \in Nat
  BY <1>1, <1>2, FS_Subset, FS_CardinalityType
<1>4. Cardinality(A) <= Cardinality(B) /\ Cardinality(A) \in Nat
  BY <1>2, <1>3, FS_Subset, FS_CardinalityType
<1>5. Cardinality(V) <= Cardinality(C) + Cardinality(D)
  <2>1. IsFiniteSet(C \cup D) /\ IsFiniteSet(C \cap D)
        /\ Cardinality(C \cup D) = Cardinality(C) + Cardinality(D) - Cardinality(C \cap D)
    <3>1. C \cap D \in SUBSET C
      OBVIOUS
    <3> QED BY <1>3, <3>1, FS_Union, FS_Subset
  <2>2. Cardinality(C \cap D) \in Nat /\ Cardinality(C \cup D) \in Nat
    BY <2>1, FS_CardinalityType
  <2>3. Cardinality(V) <= Cardinality(C \cup D)
    BY <1>2, <2>1, FS_Subset
  <2> QED BY <1>3, <2>1, <2>2, <2>3
<1>6. Cardinality(A) >= half /\ Cardinality(C) < top
  BY DEF A, C, UpTo, Under
<1>7. Cardinality(B) >= half /\ Cardinality(D) > Cardinality(V) - top
  BY <1>3, <1>4, <1>5, <1>6
<1> QED BY <1>3, <1>7 DEF B, D, V, SampleCount, UpTo, From

\* The median (stat.go, Median) splits what was measured: at least half of the values do not exceed
\* it and at least half are not below it, for any number of values and whatever they are.
THEOREM MedianSplits ==
  ASSUME NEW n \in Nat, NEW v, Series(v, n), DOMAIN v # {}
  PROVE  /\ 2 * Cardinality({i \in DOMAIN v : v[i] <= MedianOf(v)}) >= SampleCount(v)
         /\ 2 * Cardinality({i \in DOMAIN v : v[i] >= MedianOf(v)}) >= SampleCount(v)
<1> DEFINE c == SampleCount(v)
           half == c \div 2
           b == NthSmallest(v, half + 1)
           m == MedianOf(v)
           le == UpTo(v, m)
           ge == From(v, m)
<1>1. c \in Nat /\ c # 0
  BY SeriesCount
<1>2. /\ half \in Nat /\ half + 1 <= c
      /\ c % 2 = 1 => 2 * half + 1 = c
      /\ c % 2 # 1 => 2 * half = c /\ 1 <= half
  <2> HIDE DEF c
  <2> QED BY <1>1
<1>3. /\ b \in Nat
      /\ UpTo(v, b) >= half + 1 /\ Under(v, b) < half + 1
  <2> HIDE DEF half
  <2>1. half + 1 \in Nat /\ 1 <= half + 1 /\ half + 1 <= SampleCount(v)
    BY <1>2
  <2> QED BY <2>1, NthMeans DEF UpTo, Under
<1>4. CASE c % 2 = 1
  <2>1. m = b
    BY <1>4 DEF MedianOf
  <2> HIDE DEF c, half, b, m
  <2>2. le \in Nat /\ le >= half + 1 /\ ge \in Nat /\ ge > SampleCount(v) - (half + 1)
    <3>1. half + 1 \in Nat /\ m \in Nat /\ m <= m
          /\ UpTo(v, m) >= half + 1 /\ Under(v, m) < half + 1
      BY <1>2, <1>3, <2>1
    <3> QED BY <3>1, SplitBy
  <2> HIDE DEF le, ge
  <2>3. 2 * le >= c /\ 2 * ge >= c
    BY <1>1, <1>2, <1>4, <2>2 DEF c
  <2> QED BY <2>3 DEF le, ge, c, m, UpTo, From
<1>5. CASE c % 2 # 1
  <2> DEFINE a == NthSmallest(v, half)
  <2>1. m = (a + b) \div 2
    BY <1>5 DEF MedianOf
  <2> HIDE DEF c, half, b, m
  <2>2. /\ a \in Nat
        /\ UpTo(v, a) >= half /\ Under(v, a) < half
    <3>1. half \in Nat /\ 1 <= half /\ half <= SampleCount(v)
      BY <1>1, <1>2, <1>5 DEF c
    <3> QED BY <3>1, NthMeans DEF UpTo, Under
  <2> HIDE DEF a
  <2>3. a <= b
    <3>1. SUFFICES ASSUME b < a PROVE FALSE
      BY <1>3, <2>2
    <3> DEFINE P == {i \in DOMAIN v : v[i] <= b}
               Q == {i \in DOMAIN v : v[i] < a}
    <3>2. P \in SUBSET Q
      <4>1. \A i \in DOMAIN v : v[i] \in Nat
        BY DEF Series
      <4> QED BY <1>3, <2>2, <3>1, <4>1
    <3>3. IsFiniteSet(Q)
      <4>1. IsFiniteSet(1..n)
        BY FS_Interval
      <4>2. Q \in SUBSET (1..n)
        BY DEF Series
      <4> HIDE DEF Q
      <4> QED BY <4>1, <4>2, FS_Subset
    <3>4. Cardinality(P) >= half + 1 /\ Cardinality(Q) < half
      BY <1>3, <2>2 DEF UpTo, Under
    <3> HIDE DEF P, Q
    <3>5. Cardinality(P) <= Cardinality(Q) /\ Cardinality(P) \in Nat /\ Cardinality(Q) \in Nat
      BY <3>2, <3>3, FS_Subset, FS_CardinalityType
    <3> QED BY <1>2, <3>4, <3>5
  <2>4. m \in Nat /\ a <= m /\ m <= b
    BY <1>3, <2>1, <2>2, <2>3
  <2>5. le \in Nat /\ le >= half /\ ge \in Nat /\ ge > SampleCount(v) - (half + 1)
    <3>1. half + 1 \in Nat
      BY <1>2
    <3> QED BY <1>2, <1>3, <2>2, <2>4, <3>1, SplitBy
  <2> HIDE DEF le, ge
  <2>6. 2 * le >= c /\ 2 * ge >= c
    BY <1>1, <1>2, <1>5, <2>5 DEF c
  <2> QED BY <2>6 DEF le, ge, c, m, UpTo, From
<1> QED BY <1>4, <1>5

\* The larger of two factors gives the larger product.
LEMMA ProductOrder ==
  ASSUME NEW a \in Nat, NEW b \in Nat, NEW c \in Nat, a <= b
  PROVE  a * c <= b * c
<1>1. PICK d \in Nat : b = a + d
  BY b - a \in Nat /\ b = a + (b - a)
<1>2. b * c = a * c + d * c
  BY <1>1
<1>3. a * c \in Nat /\ d * c \in Nat
  BY ProductIsCount
<1> QED BY <1>2, <1>3

\* The truncation of int64ptrOf keeps the order.
LEMMA TruncationOrder ==
  ASSUME NEW x \in Nat, NEW y \in Nat
  PROVE  /\ Int64PtrOf(x) \in Nat
         /\ x <= y => Int64PtrOf(x) <= Int64PtrOf(y)
<1> DEFINE a == x \div Scale
           b == y \div Scale
<1>0. Scale \in Nat \ {0} /\ NA \notin Int
  BY AnalysisAssumption
<1>1. /\ a \in Nat /\ x = Scale * a + (x % Scale) /\ x % Scale \in 0..(Scale - 1)
      /\ b \in Nat /\ y = Scale * b + (y % Scale) /\ y % Scale \in 0..(Scale - 1)
  <2>1. a \in Int /\ b \in Int
    BY <1>0
  <2>2. /\ x = Scale * a + (x % Scale) /\ x % Scale \in 0..(Scale - 1)
        /\ y = Scale * b + (y % Scale) /\ y % Scale \in 0..(Scale - 1)
    BY <1>0, ModSmall
  <2>3. a \in Nat /\ b \in Nat
    BY <1>0
  <2> QED BY <2>2, <2>3
<1>2. Int64PtrOf(x) = a * Scale /\ Int64PtrOf(y) = b * Scale
  BY <1>0 DEF Int64PtrOf
<1> HIDE DEF a, b
<1>3. a * Scale \in Nat /\ b * Scale \in Nat
  BY <1>0, <1>1, ProductIsCount
<1>4. ASSUME x <= y PROVE a * Scale <= b * Scale
  <2>1. a <= b
    <3>1. SUFFICES ASSUME b + 1 <= a PROVE FALSE
      BY <1>1
    <3>2. (b + 1) * Scale <= a * Scale
      BY <1>0, <1>1, <3>1, ProductOrder
    <3>3. (b + 1) * Scale = b * Scale + Scale /\ Scale * a = a * Scale /\ Scale * b = b * Scale
      BY <1>0, <1>1
    <3> QED BY <1>0, <1>1, <1>3, <1>4, <3>2, <3>3
  <2> QED BY <1>0, <1>1, <2>1, ProductOrder
<1> QED BY <1>2, <1>3, <1>4

\* What the successful runs measured.
LEMMA MeasuredSeries ==
  ASSUME NEW runs \in Seq(Repetitions), NEW k \in AggregateKeys
  PROVE  Series(Measured(runs, k), Len(runs))
<1>1. Len(runs) \in Nat /\ DOMAIN runs = 1..Len(runs) /\ \A i \in DOMAIN runs : runs[i] \in Repetitions
  BY LenProperties, ElementOfSeq
<1> DEFINE D == {j \in SuccessfulRuns(runs) : runs[j].m[k] # NA}
<1>2. D \subseteq DOMAIN runs /\ Measured(runs, k) = [i \in D |-> Scale * runs[i].m[k]]
  BY DEF Measured, SuccessfulRuns
<1>3. ASSUME NEW i \in D PROVE Scale * runs[i].m[k] \in Nat
  <2>1. runs[i].m[k] \in Nat
    BY <1>1, <1>2 DEF Repetitions
  <2>2. Scale \in Nat
    BY AnalysisAssumption
  <2> QED BY <2>1, <2>2, ProductIsCount
<1> HIDE DEF D
<1> QED BY <1>1, <1>2, <1>3 DEF Series

\* The summary of a metric: both averages are there as soon as one run measured it.
LEMMA AggregateValuesFacts ==
  ASSUME NEW n \in Nat, NEW v, Series(v, n)
  PROVE  /\ AggregateValues(v) \in [samples : Nat, mean : Values, median : Values, highCV : BOOLEAN]
         /\ IF AggregateValues(v).samples = 0
            THEN AggregateValues(v).median = NA /\ AggregateValues(v).mean = NA
            ELSE AggregateValues(v).median \in Nat /\ AggregateValues(v).mean \in Nat
<1>1. SampleCount(v) \in Nat
  BY SeriesCount
<1>2. IF SampleCount(v) = 0 THEN MedianOf(v) = NA /\ MeanOf(v) = NA
      ELSE MedianOf(v) \in Nat /\ MeanOf(v) \in Nat
  BY MedianIsNumber
<1>3. CVAtLeast(v, 30) \in BOOLEAN
  BY DEF CVAtLeast
<1>4. MedianOf(v) \in Values /\ MeanOf(v) \in Values
  BY <1>2 DEF Values
<1> QED BY <1>1, <1>2, <1>3, <1>4 DEF AggregateValues

\* The aggregate of the runs and the result that represents them.
LEMMA SummaryFacts ==
  ASSUME NEW runs \in Seq(Repetitions), SuccessfulRuns(runs) # {},
         NEW agg, agg = BuildExperimentAggregate(runs),
         NEW res, res = RepresentativeResult(agg, runs)
  PROVE  /\ agg \in Aggregates /\ res \in Results
         /\ \A k \in AggregateKeys :
              IF agg.metrics[k].samples = 0 THEN agg.metrics[k].median = NA /\ agg.metrics[k].mean = NA
              ELSE agg.metrics[k].median \in Nat /\ agg.metrics[k].mean \in Nat
         /\ \A k \in {"p90", "p99", "conns"} : res[k] = Int64PtrOf(agg.metrics[k].median)
         /\ \A k \in {"rate", "dlv"} : res[k] = agg.metrics[k].mean
<1> DEFINE M == [k \in AggregateKeys |-> AggregateValues(Measured(runs, k))]
           St == StabilityOf(Measured(runs, "p90"))
           ok == SuccessfulRuns(runs)
<1>1. Len(runs) \in Nat /\ DOMAIN runs = 1..Len(runs) /\ \A i \in DOMAIN runs : runs[i] \in Repetitions
  BY LenProperties, ElementOfSeq
<1>2. agg = [reps |-> Cardinality(ok), metrics |-> M, stability |-> St]
  BY DEF BuildExperimentAggregate
<1>3. ok \subseteq 1..Len(runs) /\ ok # {}
  BY <1>1 DEF SuccessfulRuns
<1>4. Cardinality(ok) \in Nat
  <2>1. IsFiniteSet(1..Len(runs))
    BY <1>1, FS_Interval
  <2>2. IsFiniteSet(ok)
    BY <1>3, <2>1, FS_Subset
  <2> QED BY <2>2, FS_CardinalityType
<1>5. \A k \in AggregateKeys :
        /\ M[k] \in [samples : Nat, mean : Values, median : Values, highCV : BOOLEAN]
        /\ IF M[k].samples = 0 THEN M[k].median = NA /\ M[k].mean = NA
           ELSE M[k].median \in Nat /\ M[k].mean \in Nat
  <2> TAKE k \in AggregateKeys
  <2>1. Series(Measured(runs, k), Len(runs))
    BY MeasuredSeries
  <2>2. M[k] = AggregateValues(Measured(runs, k))
    OBVIOUS
  <2> HIDE DEF M
  <2> QED BY <1>1, <2>1, <2>2, AggregateValuesFacts
<1>6. St \in {"n/a", "variable", "moderate", "stable"}
  BY Zenon DEF StabilityOf
<1>7. M \in [AggregateKeys -> [samples : Nat, mean : Values, median : Values, highCV : BOOLEAN]]
  <2>1. M = [k \in AggregateKeys |-> M[k]]
    OBVIOUS
  <2> HIDE DEF M
  <2> QED BY <1>5, <2>1
<1>8. runs[Max(ok)].kafka \in BOOLEAN
  <2>1. ok \subseteq 0..Len(runs)
    BY <1>1, <1>3
  <2>2. Max(ok) \in ok
    BY <1>1, <1>3, <2>1, MaxOf
  <2> QED BY <1>1, <1>3, <2>2 DEF Repetitions
<1>9. res = [p90 |-> Int64PtrOf(agg.metrics["p90"].median), p99 |-> Int64PtrOf(agg.metrics["p99"].median),
             rate |-> agg.metrics["rate"].mean, conns |-> Int64PtrOf(agg.metrics["conns"].median),
             dlv |-> agg.metrics["dlv"].mean, kafka |-> runs[Max(ok)].kafka]
  BY DEF RepresentativeResult
<1> HIDE DEF M, St, ok
<1>10. agg \in Aggregates
  BY <1>2, <1>4, <1>6, <1>7 DEF Aggregates
<1>11. agg.metrics = M
  BY <1>2
<1>12. \A k \in AggregateKeys : Int64PtrOf(agg.metrics[k].median) \in Values /\ agg.metrics[k].mean \in Values
  <2> TAKE k \in AggregateKeys
  <2>1. CASE M[k].samples = 0
    BY <1>5, <1>11, <2>1 DEF Int64PtrOf, Values
  <2>2. CASE M[k].samples # 0
    <3>1. M[k].median \in Nat /\ M[k].mean \in Nat
      BY <1>5, <2>2
    <3>2. Int64PtrOf(M[k].median) \in Nat
      BY <3>1, TruncationOrder
    <3> QED BY <1>11, <3>1, <3>2 DEF Values
  <2> QED BY <2>1, <2>2
<1>13. {"p90", "p99", "conns", "rate", "dlv"} \subseteq AggregateKeys
  BY DEF AggregateKeys
<1>14. res \in Results
  BY <1>8, <1>9, <1>12, <1>13 DEF Results
<1>15. /\ \A k \in {"p90", "p99", "conns"} : res[k] = Int64PtrOf(agg.metrics[k].median)
       /\ \A k \in {"rate", "dlv"} : res[k] = agg.metrics[k].mean
  BY <1>9
<1> QED BY <1>5, <1>10, <1>11, <1>14, <1>15

----------------------------------------------------------------------------
(* Analysis: every compared experiment is the summary of its runs          *)

\* A record of the store.
LEMMA LabRecords ==
  ASSUME LabInv
  PROVE  /\ lab \in Seq(Experiments) /\ Len(lab) \in Nat /\ DOMAIN lab = 1..Len(lab)
         /\ \A i \in DOMAIN lab : lab[i] \in Experiments
         /\ \A i \in DOMAIN lab : lab[i].status \in {"completed", "partial"} => Summarised(lab[i])
<1>1. lab \in Seq(Experiments)
  BY DEF LabInv
<1>2. \A i \in DOMAIN lab : lab[i].status \in {"completed", "partial"} => Summarised(lab[i])
  BY DEF LabInv, Compared
<1> QED BY <1>1, <1>2, LenProperties, ElementOfSeq

\* An experiment of the store is replaced by one that is summarised when it can be compared.
LEMMA LabReplaced ==
  ASSUME LabInv, NEW i \in DOMAIN lab, NEW e \in Experiments, lab' = [lab EXCEPT ![i] = e],
         e.status \in {"completed", "partial"} => Summarised(e)
  PROVE  LabInv'
<1>1. /\ lab \in Seq(Experiments) /\ Len(lab) \in Nat /\ DOMAIN lab = 1..Len(lab)
      /\ \A j \in DOMAIN lab : lab[j] \in Experiments
      /\ \A j \in DOMAIN lab : lab[j].status \in {"completed", "partial"} => Summarised(lab[j])
  BY LabRecords
<1>2. lab' \in [1..Len(lab) -> Experiments]
  BY <1>1
<1>3. lab' \in Seq(Experiments)
  BY <1>1, <1>2, FunctionIsSeq
<1>4. \A j \in DOMAIN lab' : lab'[j] = IF j = i THEN e ELSE lab[j]
  OBVIOUS
<1>5. \A j \in DOMAIN lab' : lab'[j].status \in {"completed", "partial"} => Summarised(lab'[j])
  BY <1>1, <1>4
<1> QED BY <1>3, <1>5 DEF LabInv, Compared

\* A new experiment has no result.
LEMMA CreateKeeps ==
  ASSUME LabInv, NEW k \in ExpKinds, CreateExperiment(k)
  PROVE  LabInv'
<1> DEFINE e == [spec |-> k.spec, preset |-> k.preset, arch |-> k.arch, regime |-> k.regime, label |-> k.label,
                 status |-> "created", runs |-> <<>>, agg |-> NoAggregate, result |-> NoResult]
<1>1. lab' = Append(lab, e)
  BY DEF CreateExperiment
<1>2. e \in Experiments
  <2>1. k \in Requests
    BY AnalysisAssumption
  <2>2. NoResult \in Results
    BY DEF NoResult, Results, Values
  <2>3. <<>> \in Seq(Repetitions)
    OBVIOUS
  <2> QED BY <2>1, <2>2, <2>3 DEF Requests, Experiments
<1>3. e.status = "created"
  OBVIOUS
<1> HIDE DEF e
<1>4. /\ lab \in Seq(Experiments)
      /\ \A j \in DOMAIN lab : lab[j].status \in {"completed", "partial"} => Summarised(lab[j])
  BY LabRecords
<1>5. /\ DOMAIN lab = 1..Len(lab) /\ DOMAIN lab' = 1..(Len(lab) + 1) /\ Len(lab) \in Nat
      /\ \A j \in DOMAIN lab : lab'[j] = lab[j]
      /\ lab'[Len(lab) + 1] = e /\ lab' \in Seq(Experiments)
  BY <1>1, <1>2, <1>4, AppendPlaces
<1>6. ASSUME NEW j \in DOMAIN lab', lab'[j].status \in {"completed", "partial"} PROVE Summarised(lab'[j])
  <2>1. j \in DOMAIN lab \/ j = Len(lab) + 1
    BY <1>5
  <2> QED BY <1>3, <1>4, <1>5, <1>6, <2>1
<1> QED BY <1>5, <1>6 DEF LabInv, Compared

\* A started experiment cannot be compared.
LEMMA StartKeeps ==
  ASSUME LabInv, NEW i \in DOMAIN lab, StartExperiment(i)
  PROVE  LabInv'
<1>1. lab[i] \in Experiments
  BY LabRecords
<1>2. \/ lab' = [lab EXCEPT ![i] = [lab[i] EXCEPT !.status = "running", !.runs = <<>>, !.agg = NoAggregate]]
      \/ lab' = [lab EXCEPT ![i] = [lab[i] EXCEPT !.status = "running"]]
  BY DEF StartExperiment
<1>3. CASE lab' = [lab EXCEPT ![i] = [lab[i] EXCEPT !.status = "running", !.runs = <<>>, !.agg = NoAggregate]]
  <2> DEFINE e == [lab[i] EXCEPT !.status = "running", !.runs = <<>>, !.agg = NoAggregate]
  <2>1. e \in Experiments /\ e.status = "running"
    <3>1. <<>> \in Seq(Repetitions)
      OBVIOUS
    <3> QED BY <1>1, <3>1 DEF Experiments
  <2>2. lab' = [lab EXCEPT ![i] = e]
    BY <1>3
  <2> HIDE DEF e
  <2> QED BY <2>1, <2>2, LabReplaced
<1>4. CASE lab' = [lab EXCEPT ![i] = [lab[i] EXCEPT !.status = "running"]]
  <2> DEFINE e == [lab[i] EXCEPT !.status = "running"]
  <2>1. e \in Experiments /\ e.status = "running"
    BY <1>1 DEF Experiments
  <2>2. lab' = [lab EXCEPT ![i] = e]
    BY <1>4
  <2> HIDE DEF e
  <2> QED BY <2>1, <2>2, LabReplaced
<1> QED BY <1>2, <1>3, <1>4

\* What finalizeExperiment stores.
Finalized(old, ends) ==
  [k \in 1..Max({Len(old), Len(ends)}) |->
     IF k \in DOMAIN old /\ (old[k].st = "completed" \/ k > Len(ends)) THEN old[k] ELSE ends[k]]

\* The runs of a finished session are repetitions.
LEMMA FinalizedRuns ==
  ASSUME NEW old \in Seq(Repetitions), NEW ends \in Seq(Repetitions)
  PROVE  Finalized(old, ends) \in Seq(Repetitions)
<1> DEFINE n == Max({Len(old), Len(ends)})
           v(k) == IF k \in DOMAIN old /\ (old[k].st = "completed" \/ k > Len(ends)) THEN old[k] ELSE ends[k]
<1>1. /\ Len(old) \in Nat /\ DOMAIN old = 1..Len(old) /\ \A k \in DOMAIN old : old[k] \in Repetitions
      /\ Len(ends) \in Nat /\ DOMAIN ends = 1..Len(ends) /\ \A k \in DOMAIN ends : ends[k] \in Repetitions
  BY LenProperties, ElementOfSeq
<1>2. n \in {Len(old), Len(ends)}
  <2>1. PICK m \in Nat : Len(old) <= m /\ Len(ends) <= m
    BY <1>1, Len(old) + Len(ends) \in Nat
  <2>2. {Len(old), Len(ends)} \subseteq 0..m /\ {Len(old), Len(ends)} # {}
    BY <1>1, <2>1
  <2> QED BY <2>2, MaxOf
<1>3. n \in Nat
  BY <1>1, <1>2
<1>4. ASSUME NEW k \in 1..n PROVE v(k) \in Repetitions
  <2>1. CASE k \in DOMAIN old /\ (old[k].st = "completed" \/ k > Len(ends))
    BY <1>1, <2>1
  <2>2. CASE k \notin DOMAIN old
    <3>1. k \in 1..Len(ends)
      BY <1>1, <1>2, <1>3, <2>2
    <3> QED BY <1>1, <2>2, <3>1
  <2>3. CASE ~(k > Len(ends))
    <3>1. k \in 1..Len(ends)
      BY <1>1, <1>3, <2>3
    <3>2. old[k] \in Repetitions \/ k \notin DOMAIN old
      BY <1>1
    <3> QED BY <1>1, <3>1, <3>2
  <2> QED BY <2>1, <2>2, <2>3
<1>5. Finalized(old, ends) = [k \in 1..n |-> v(k)]
  BY DEF Finalized
<1> HIDE DEF n, v
<1> QED BY <1>3, <1>4, <1>5, FunctionIsSeq

\* finalizeExperiment stores the summary of the runs it derives the status from.
LEMMA FinalizeKeeps ==
  ASSUME LabInv, NEW i \in DOMAIN lab, NEW ends \in RunEnds, FinalizeExperiment(i, ends)
  PROVE  /\ LabInv' /\ lab[i].status = "running"
         /\ \E e \in Experiments : /\ lab' = [lab EXCEPT ![i] = e] /\ e.regime = lab[i].regime
                                   /\ e.status \in {"stopped", "completed", "partial", "failed"}
<1> DEFINE runs == Finalized(lab[i].runs, ends)
           agg == BuildExperimentAggregate(runs)
           none == SuccessfulRuns(runs) = {}
           e == [lab[i] EXCEPT !.status = DeriveExperimentStatus(runs), !.runs = runs,
                   !.agg = IF none THEN lab[i].agg ELSE agg,
                   !.result = IF none THEN NoResult ELSE RepresentativeResult(agg, runs)]
<1>1. lab[i].status = "running" /\ lab' = [lab EXCEPT ![i] = e]
  BY DEF FinalizeExperiment, Finalized
<1>2. lab[i] \in Experiments
  BY LabRecords
<1>3. runs \in Seq(Repetitions)
  <2>1. lab[i].runs \in Seq(Repetitions)
    BY <1>2 DEF Experiments
  <2>2. ends \in Seq(Repetitions)
    BY AnalysisAssumption
  <2> QED BY <2>1, <2>2, FinalizedRuns
<1> HIDE DEF runs
<1>4. DeriveExperimentStatus(runs) \in {"stopped", "completed", "partial", "failed"}
  BY DEF DeriveExperimentStatus
<1>5. DeriveExperimentStatus(runs) \in {"completed", "partial"} => ~none
  BY DEF DeriveExperimentStatus, SuccessfulRuns
<1>6. ~none => agg \in Aggregates /\ RepresentativeResult(agg, runs) \in Results
  BY <1>3, SummaryFacts
<1>7. NoResult \in Results
  BY DEF NoResult, Results, Values
<1>8. lab[i].agg \in Aggregates \cup {NoAggregate}
  BY <1>2 DEF Experiments
<1>9. PICK st, a, r : /\ st = DeriveExperimentStatus(runs)
                      /\ a = (IF none THEN lab[i].agg ELSE agg)
                      /\ r = (IF none THEN NoResult ELSE RepresentativeResult(agg, runs))
  OBVIOUS
<1>10. e = [lab[i] EXCEPT !.status = st, !.runs = runs, !.agg = a, !.result = r]
  BY <1>9
<1>11. a \in Aggregates \cup {NoAggregate} /\ r \in Results
  BY <1>6, <1>7, <1>8, <1>9
<1>12. ~none => a = BuildExperimentAggregate(runs) /\ r = RepresentativeResult(a, runs)
  BY <1>9
<1> HIDE DEF e, agg
<1>13. /\ e \in Experiments /\ e.status = st /\ e.runs = runs /\ e.agg = a /\ e.result = r
       /\ e.regime = lab[i].regime
  BY <1>2, <1>3, <1>4, <1>9, <1>10, <1>11 DEF Experiments
<1>14. e.status \in {"completed", "partial"} => Summarised(e)
  BY <1>5, <1>9, <1>12, <1>13 DEF Summarised
<1>15. LabInv'
  BY <1>1, <1>13, <1>14, LabReplaced
<1> QED BY <1>1, <1>4, <1>9, <1>13, <1>15

\* The invariant is kept.
LEMMA LabStep ==
  ASSUME LabInv, [AnalysisNext]_labVars
  PROVE  LabInv'
<1>1. CASE \E k \in ExpKinds : CreateExperiment(k)
  BY <1>1, CreateKeeps
<1>2. CASE \E i \in DOMAIN lab : StartExperiment(i)
  BY <1>2, StartKeeps
<1>3. CASE \E i \in DOMAIN lab, ends \in RunEnds : FinalizeExperiment(i, ends)
  BY <1>3, FinalizeKeeps
<1>4. CASE UNCHANGED labVars
  BY <1>4 DEF labVars, LabInv, Compared
<1> QED BY <1>1, <1>2, <1>3, <1>4 DEF AnalysisNext

\* It holds of the empty store.
LEMMA LabStart == AnalysisInit => LabInv
<1> SUFFICES ASSUME AnalysisInit PROVE LabInv
  OBVIOUS
<1>1. lab = <<>>
  BY DEF AnalysisInit
<1>2. lab \in Seq(Experiments) /\ DOMAIN lab = {}
  BY <1>1
<1> QED BY <1>2 DEF LabInv, Compared

----------------------------------------------------------------------------
(* Analysis: comparisons                                                   *)

\* What a summarised experiment has for the comparison.
Measures(e) ==
  /\ e.agg \in Aggregates /\ e.result \in Results
  /\ \A k \in AggregateKeys :
       IF e.agg.metrics[k].samples = 0 THEN e.agg.metrics[k].median = NA /\ e.agg.metrics[k].mean = NA
       ELSE e.agg.metrics[k].median \in Nat /\ e.agg.metrics[k].mean \in Nat
  /\ \A k \in {"p90", "p99", "conns"} : e.result[k] = Int64PtrOf(e.agg.metrics[k].median)
  /\ \A k \in {"rate", "dlv"} : e.result[k] = e.agg.metrics[k].mean

\* The table of the compared metrics.
LEMMA MetricsTable ==
  /\ DOMAIN CompareMetrics = 1..5
  /\ CompareMetrics[1] = [key |-> "conns", group |-> "scale", dir |-> 1, floor |-> Scale]
  /\ CompareMetrics[2] = [key |-> "p90", group |-> "latency", dir |-> -1, floor |-> LatencyFloor * Scale]
  /\ CompareMetrics[3] = [key |-> "p99", group |-> "latency", dir |-> -1, floor |-> LatencyFloor * Scale]
  /\ CompareMetrics[4] = [key |-> "rate", group |-> "throughput", dir |-> 1, floor |-> Scale]
  /\ CompareMetrics[5] = [key |-> "dlv", group |-> "reliability", dir |-> 1, floor |-> 1]
<1> DEFINE f == LatencyFloor * Scale
<1> HIDE DEF f
<1> QED BY DEF CompareMetrics, f

\* A row and its values.
LEMMA MetricsRows ==
  ASSUME NEW c \in DOMAIN CompareMetrics, NEW e, Measures(e)
  PROVE  /\ CompareMetrics[c].dir \in {-1, 1}
         /\ CompareMetrics[c].floor \in Nat \ {0}
         /\ CompareMetrics[c].key \in {"conns", "p90", "p99", "rate", "dlv"}
         /\ e.result[CompareMetrics[c].key] \in Values
<1>1. c \in 1..5
  BY MetricsTable
<1>2. LatencyFloor * Scale \in Nat \ {0} /\ Scale \in Nat \ {0}
  <2>1. LatencyFloor \in Nat \ {0} /\ Scale \in Nat \ {0}
    BY AnalysisAssumption
  <2>2. 1 * Scale <= LatencyFloor * Scale
    BY <2>1, ProductOrder
  <2>3. LatencyFloor * Scale \in Nat
    BY <2>1, ProductIsCount
  <2> QED BY <2>1, <2>2, <2>3
<1>3. e.result \in Results
  BY DEF Measures
<1>4. \A k \in {"conns", "p90", "p99", "rate", "dlv"} : e.result[k] \in Values
  BY <1>3 DEF Results
<1>5. PICK f : f = LatencyFloor * Scale
  OBVIOUS
<1>6. /\ CompareMetrics[c].dir \in {-1, 1} /\ CompareMetrics[c].floor \in {Scale, f, 1}
      /\ CompareMetrics[c].key \in {"conns", "p90", "p99", "rate", "dlv"}
  <2>1. CASE c = 1
    BY <2>1, MetricsTable
  <2>2. CASE c = 2
    BY <1>5, <2>2, MetricsTable
  <2>3. CASE c = 3
    BY <1>5, <2>3, MetricsTable
  <2>4. CASE c = 4
    BY <2>4, MetricsTable
  <2>5. CASE c = 5
    BY <2>5, MetricsTable
  <2> QED BY <1>1, <2>1, <2>2, <2>3, <2>4, <2>5
<1> QED BY <1>2, <1>4, <1>5, <1>6

\* The direction in which each metric of the conclusion improves.
LEMMA Directions ==
  /\ CompareMetricsDirection("p90") = -1 /\ CompareMetricsDirection("p99") = -1
  /\ CompareMetricsDirection("rate") = 1 /\ CompareMetricsDirection("dlv") = 1
  /\ CompareMetricsDirection("cpu") = 0
<1> DEFINE At(k) == {i \in DOMAIN CompareMetrics : CompareMetrics[i].key = k}
<1>1. /\ \A i \in DOMAIN CompareMetrics : i \in {1, 2, 3, 4, 5}
      /\ CompareMetrics[1].key = "conns" /\ CompareMetrics[2].key = "p90"
      /\ CompareMetrics[3].key = "p99" /\ CompareMetrics[4].key = "rate"
      /\ CompareMetrics[5].key = "dlv" /\ {1, 2, 3, 4, 5} \subseteq DOMAIN CompareMetrics
  BY MetricsTable
<1>2. At("p90") = {2} /\ At("p99") = {3} /\ At("rate") = {4} /\ At("dlv") = {5} /\ At("cpu") = {}
  BY <1>1
<1>3. \A i \in Nat : Min({i}) = i
  <2> TAKE i \in Nat
  <2>1. Min({i}) \in {i}
    BY MinOf
  <2> QED BY <2>1
<1>4. \A k : CompareMetricsDirection(k) = IF At(k) = {} THEN 0 ELSE CompareMetrics[Min(At(k))].dir
  BY DEF CompareMetricsDirection
<1> HIDE DEF At
<1>5. CompareMetricsDirection("cpu") = 0
  BY <1>2, <1>4
<1>6. /\ CompareMetricsDirection("p90") = CompareMetrics[2].dir
      /\ CompareMetricsDirection("p99") = CompareMetrics[3].dir
      /\ CompareMetricsDirection("rate") = CompareMetrics[4].dir
      /\ CompareMetricsDirection("dlv") = CompareMetrics[5].dir
  BY <1>2, <1>3, <1>4
<1> QED BY <1>5, <1>6, MetricsTable

\* Turning the sides round turns the verdict round.
LEMMA VerdictMirror ==
  ASSUME NEW x \in Int, NEW y \in Int, NEW dir \in {-1, 0, 1}
  PROVE  /\ VerdictOf(x - y, dir) = Mirrored(VerdictOf(y - x, dir))
         /\ VerdictOf(x - y, dir) = "better" <=> VerdictOf(y - x, dir) = "worse"
<1>1. CASE dir = -1
  <2>1. (x - y) * dir = y - x /\ (y - x) * dir = x - y
    BY <1>1
  <2> QED BY <2>1 DEF VerdictOf, Mirrored
<1>2. CASE dir = 0
  <2>1. (x - y) * dir = 0 /\ (y - x) * dir = 0
    BY <1>2
  <2> QED BY <2>1 DEF VerdictOf, Mirrored
<1>3. CASE dir = 1
  <2>1. (x - y) * dir = x - y /\ (y - x) * dir = y - x
    BY <1>3
  <2> QED BY <2>1 DEF VerdictOf, Mirrored
<1> QED BY <1>1, <1>2, <1>3

\* Every row turns round with the sides.
LEMMA RowMirror ==
  ASSUME NEW a, Measures(a), NEW b, Measures(b), NEW c \in DOMAIN CompareMetrics
  PROVE  RowVerdict(b, a, CompareMetrics[c]) = Mirrored(RowVerdict(a, b, CompareMetrics[c]))
<1> DEFINE x == a.result[CompareMetrics[c].key]
           y == b.result[CompareMetrics[c].key]
           d == CompareMetrics[c].dir
<1>1. x \in Values /\ y \in Values /\ d \in {-1, 0, 1}
  BY MetricsRows
<1>2. /\ RowVerdict(a, b, CompareMetrics[c]) = IF NA \in {x, y} THEN "" ELSE VerdictOf(y - x, d)
      /\ RowVerdict(b, a, CompareMetrics[c]) = IF NA \in {y, x} THEN "" ELSE VerdictOf(x - y, d)
  BY DEF RowVerdict
<1> HIDE DEF x, y, d
<1>3. CASE NA \in {x, y}
  BY <1>2, <1>3 DEF Mirrored
<1>4. CASE NA \notin {x, y}
  <2>1. x \in Int /\ y \in Int
    BY <1>1, <1>4 DEF Values
  <2>2. VerdictOf(x - y, d) = Mirrored(VerdictOf(y - x, d))
    BY <1>1, <2>1, VerdictMirror
  <2> QED BY <1>2, <1>4, <2>2
<1> QED BY <1>3, <1>4

\* The parts of applyAggregateComparison.
KeysOf(left, right) ==
  {k \in {"p99", "p90", "rate", "dlv", "cpu"} :
     left.agg.metrics[k].samples > 0 /\ right.agg.metrics[k].samples > 0}
NoisyOf(left, right) ==
  {k \in KeysOf(left, right) : left.agg.metrics[k].highCV \/ right.agg.metrics[k].highCV}
MoveOf(left, right, k) ==
  VerdictOf(right.agg.metrics[k].median - left.agg.metrics[k].median, CompareMetricsDirection(k))
MovedOf(left, right) == {MoveOf(left, right, k) : k \in KeysOf(left, right) \ NoisyOf(left, right)}

\* The conclusion from its parts.
LEMMA ConclusionParts ==
  ASSUME NEW left, NEW right
  PROVE  ApplyAggregateComparison(left, right) =
           IF left.spec # right.spec THEN "not_comparable"
           ELSE IF NoisyOf(left, right) # {} THEN "high_variance"
           ELSE IF {"better", "worse"} \subseteq MovedOf(left, right) THEN "mixed"
           ELSE IF "better" \in MovedOf(left, right) THEN "better"
           ELSE IF "worse" \in MovedOf(left, right) THEN "worse" ELSE "no_clear_difference"
  BY Zenon DEF ApplyAggregateComparison, MovedOf, MoveOf, NoisyOf, KeysOf

\* The metrics of the conclusion.
LEMMA KeyFacts ==
  ASSUME NEW a, Measures(a), NEW b, Measures(b), NEW k \in KeysOf(a, b)
  PROVE  /\ a.agg.metrics[k].median \in Nat /\ b.agg.metrics[k].median \in Nat
         /\ CompareMetricsDirection(k) \in {-1, 0, 1}
<1>1. k \in AggregateKeys /\ k \in {"p99", "p90", "rate", "dlv", "cpu"}
  BY DEF KeysOf, AggregateKeys
<1>2. a.agg.metrics[k].samples # 0 /\ b.agg.metrics[k].samples # 0
  BY DEF KeysOf
<1>3. CompareMetricsDirection(k) \in {-1, 0, 1}
  BY <1>1, Directions
<1> QED BY <1>1, <1>2, <1>3 DEF Measures

\* The conclusion turns round with the sides.
LEMMA ConclusionMirror ==
  ASSUME NEW a, Measures(a), NEW b, Measures(b)
  PROVE  ApplyAggregateComparison(b, a) = Mirrored(ApplyAggregateComparison(a, b))
<1>1. KeysOf(b, a) = KeysOf(a, b)
  BY DEF KeysOf
<1>2. NoisyOf(b, a) = NoisyOf(a, b)
  BY <1>1, Zenon DEF NoisyOf
<1>3. \A k \in KeysOf(a, b) : /\ MoveOf(b, a, k) = "better" <=> MoveOf(a, b, k) = "worse"
                              /\ MoveOf(a, b, k) = "better" <=> MoveOf(b, a, k) = "worse"
  <2> TAKE k \in KeysOf(a, b)
  <2>1. /\ a.agg.metrics[k].median \in Int /\ b.agg.metrics[k].median \in Int
        /\ CompareMetricsDirection(k) \in {-1, 0, 1}
    BY KeyFacts
  <2> QED BY <2>1, VerdictMirror DEF MoveOf
<1>4. /\ "better" \in MovedOf(b, a) <=> "worse" \in MovedOf(a, b)
      /\ "worse" \in MovedOf(b, a) <=> "better" \in MovedOf(a, b)
  BY <1>1, <1>2, <1>3 DEF MovedOf
<1>5. CASE a.spec # b.spec
  BY <1>5, ConclusionParts DEF Mirrored
<1>6. CASE a.spec = b.spec /\ NoisyOf(a, b) # {}
  BY <1>2, <1>6, ConclusionParts DEF Mirrored
<1>7. CASE a.spec = b.spec /\ NoisyOf(a, b) = {}
  <2>1. /\ ApplyAggregateComparison(a, b) =
             IF {"better", "worse"} \subseteq MovedOf(a, b) THEN "mixed"
             ELSE IF "better" \in MovedOf(a, b) THEN "better"
             ELSE IF "worse" \in MovedOf(a, b) THEN "worse" ELSE "no_clear_difference"
        /\ ApplyAggregateComparison(b, a) =
             IF {"better", "worse"} \subseteq MovedOf(b, a) THEN "mixed"
             ELSE IF "better" \in MovedOf(b, a) THEN "better"
             ELSE IF "worse" \in MovedOf(b, a) THEN "worse" ELSE "no_clear_difference"
    BY <1>2, <1>7, ConclusionParts
  <2>2. CASE "better" \in MovedOf(a, b) /\ "worse" \in MovedOf(a, b)
    BY <1>4, <2>1, <2>2 DEF Mirrored
  <2>3. CASE "better" \in MovedOf(a, b) /\ "worse" \notin MovedOf(a, b)
    BY <1>4, <2>1, <2>3 DEF Mirrored
  <2>4. CASE "better" \notin MovedOf(a, b) /\ "worse" \in MovedOf(a, b)
    BY <1>4, <2>1, <2>4 DEF Mirrored
  <2>5. CASE "better" \notin MovedOf(a, b) /\ "worse" \notin MovedOf(a, b)
    BY <1>4, <2>1, <2>5 DEF Mirrored
  <2> QED BY <2>2, <2>3, <2>4, <2>5
<1> QED BY <1>5, <1>6, <1>7

\* After a likely improvement the rows of the two percentiles are not worse.
LEMMA ImprovementRows ==
  ASSUME NEW a, Measures(a), NEW b, Measures(b), ApplyAggregateComparison(a, b) = "better",
         NEW c \in {2, 3}
  PROVE  RowVerdict(a, b, CompareMetrics[c]) # "worse"
<1> DEFINE k == CompareMetrics[c].key
           p == a.agg.metrics[k].median
           q == b.agg.metrics[k].median
           x == a.result[k]
           y == b.result[k]
<1>1. k \in {"p90", "p99"} /\ CompareMetrics[c].dir = -1 /\ CompareMetricsDirection(k) = -1
  BY MetricsTable, Directions
<1>2. RowVerdict(a, b, CompareMetrics[c]) = IF NA \in {x, y} THEN "" ELSE VerdictOf(y - x, -1)
  BY <1>1 DEF RowVerdict
<1>3. NoisyOf(a, b) = {} /\ "worse" \notin MovedOf(a, b)
  BY ConclusionParts
<1> HIDE DEF k
<1>4. x = Int64PtrOf(p) /\ y = Int64PtrOf(q) /\ k \in AggregateKeys
  BY <1>1 DEF Measures, AggregateKeys
<1>5. a.agg.metrics[k].samples \in Nat /\ b.agg.metrics[k].samples \in Nat
  BY <1>4 DEF Measures, Aggregates
<1>6. CASE k \in KeysOf(a, b)
  <2>1. p \in Nat /\ q \in Nat
    BY <1>6, KeyFacts
  <2>2. MoveOf(a, b, k) \in MovedOf(a, b)
    BY <1>3, <1>6 DEF MovedOf
  <2>3. VerdictOf(q - p, -1) # "worse"
    BY <1>1, <1>3, <2>2 DEF MoveOf
  <2> HIDE DEF p, q, x, y
  <2>4. q <= p
    BY <2>1, <2>3 DEF VerdictOf
  <2>5. x \in Nat /\ y \in Nat /\ y <= x
    BY <1>4, <2>1, <2>4, TruncationOrder
  <2>6. VerdictOf(y - x, -1) # "worse"
    BY <2>5 DEF VerdictOf
  <2> QED BY <1>2, <2>6
<1>7. CASE k \notin KeysOf(a, b)
  <2>1. a.agg.metrics[k].samples = 0 \/ b.agg.metrics[k].samples = 0
    BY <1>1, <1>5, <1>7 DEF KeysOf
  <2>2. p = NA \/ q = NA
    BY <1>4, <2>1 DEF Measures
  <2>3. x = NA \/ y = NA
    BY <1>4, <2>2 DEF Int64PtrOf
  <2> QED BY <1>2, <2>3
<1> QED BY <1>6, <1>7

\* A notable row moved.
LEMMA NotableMoves ==
  ASSUME NEW a, Measures(a), NEW b, Measures(b), NEW c \in DOMAIN CompareMetrics,
         Notable(a, b, CompareMetrics[c])
  PROVE  RowVerdict(a, b, CompareMetrics[c]) # "same"
<1> DEFINE x == a.result[CompareMetrics[c].key]
           y == b.result[CompareMetrics[c].key]
           d == CompareMetrics[c].dir
           f == CompareMetrics[c].floor
<1>1. x \in Values /\ y \in Values /\ d \in {-1, 1} /\ f \in Nat \ {0}
  BY MetricsRows
<1>2. NA \notin {x, y} /\ AbsF(y - x) >= f
  BY DEF Notable
<1>3. RowVerdict(a, b, CompareMetrics[c]) = VerdictOf(y - x, d)
  BY <1>2 DEF RowVerdict
<1> HIDE DEF x, y, d, f
<1>4. x \in Int /\ y \in Int
  BY <1>1, <1>2 DEF Values
<1>5. y - x # 0
  BY <1>1, <1>2, <1>4 DEF AbsF
<1>6. CASE d = 1
  BY <1>3, <1>4, <1>5, <1>6 DEF VerdictOf
<1>7. CASE d = -1
  BY <1>3, <1>4, <1>5, <1>7 DEF VerdictOf
<1> QED BY <1>1, <1>6, <1>7

\* The measure of how notable a row is is a fraction.
LEMMA NotabilityNumbers ==
  ASSUME NEW a, Measures(a), NEW b, Measures(b), NEW i \in DOMAIN CompareMetrics,
         Notable(a, b, CompareMetrics[i])
  PROVE  /\ Notability(a, b, CompareMetrics[i])[1] \in Int
         /\ Notability(a, b, CompareMetrics[i])[2] \in Int
<1> DEFINE x == a.result[CompareMetrics[i].key]
           y == b.result[CompareMetrics[i].key]
<1>1. x \in Values /\ y \in Values
  BY MetricsRows
<1>2. NA \notin {x, y}
  BY DEF Notable
<1>3. Notability(a, b, CompareMetrics[i]) = IF x # 0 THEN <<100 * AbsF(y - x), x>> ELSE <<AbsF(y - x), Scale>>
  BY DEF Notability
<1> HIDE DEF x, y
<1>4. Scale \in Int
  BY AnalysisAssumption
<1>5. x \in Int /\ y \in Int
  BY <1>1, <1>2 DEF Values
<1>6. AbsF(y - x) \in Int
  BY <1>5 DEF AbsF
<1>7. 100 * AbsF(y - x) \in Int
  BY <1>6
<1> QED BY <1>3, <1>4, <1>5, <1>6, <1>7

\* The net verdict of a group is that of one of its rows, which moved.
LEMMA NetIsRow ==
  ASSUME NEW a, Measures(a), NEW b, Measures(b), NEW g \in {"latency", "throughput", "scale", "reliability"},
         NetVerdict(a, b, g) # "no_notable"
  PROVE  \E c \in DOMAIN CompareMetrics :
           /\ CompareMetrics[c].group = g
           /\ NetVerdict(a, b, g) = RowVerdict(a, b, CompareMetrics[c])
           /\ RowVerdict(a, b, CompareMetrics[c]) # "same"
<1> DEFINE ks == {i \in DOMAIN CompareMetrics :
                    CompareMetrics[i].group = g /\ Notable(a, b, CompareMetrics[i])}
           n(i) == Notability(a, b, CompareMetrics[i])
           Above(i, j) == n(i)[1] * n(j)[2] > n(j)[1] * n(i)[2]
           best == {i \in ks : \A j \in ks : ~Above(j, i) /\ (j < i => Above(i, j))}
<1>1. ks # {} /\ NetVerdict(a, b, g) = RowVerdict(a, b, CompareMetrics[CHOOSE i \in best : TRUE])
  BY DEF NetVerdict
<1>2. \A i \in ks : /\ i \in DOMAIN CompareMetrics /\ CompareMetrics[i].group = g
                    /\ Notable(a, b, CompareMetrics[i])
  OBVIOUS
<1> HIDE DEF ks
<1>3. \A i \in ks : n(i)[1] \in Int /\ n(i)[2] \in Int
  BY <1>2, NotabilityNumbers
<1>4. \A i, j \in ks : (~Above(i, j) \/ ~Above(j, i)) /\ ~Above(i, i)
  <2> TAKE i, j \in ks
  <2>1. n(i)[1] \in Int /\ n(i)[2] \in Int /\ n(j)[1] \in Int /\ n(j)[2] \in Int
    BY <1>3
  <2> HIDE DEF n
  <2>2. PICK p, q, r : p = n(i)[1] * n(j)[2] /\ q = n(j)[1] * n(i)[2] /\ r = n(i)[1] * n(i)[2]
    OBVIOUS
  <2>3. p \in Int /\ q \in Int /\ r \in Int
    BY <2>1, <2>2
  <2>4. ~(p > q /\ q > p) /\ ~(r > r)
    BY <2>3
  <2> QED BY <2>2, <2>4
<1> HIDE DEF Above
<1>5. \A i \in ks : i \in 1..5
  BY <1>2, MetricsTable
<1>6. /\ CompareMetrics[1].group = "scale" /\ CompareMetrics[2].group = "latency"
      /\ CompareMetrics[3].group = "latency" /\ CompareMetrics[4].group = "throughput"
      /\ CompareMetrics[5].group = "reliability"
  BY MetricsTable
<1>7. \A i, j \in ks : i = j \/ (i \in {2, 3} /\ j \in {2, 3})
  BY <1>2, <1>5, <1>6
<1>8. \E i \in ks : \A j \in ks : ~Above(j, i) /\ (j < i => Above(i, j))
  <2>1. PICK i \in ks : TRUE
    BY <1>1
  <2>2. CASE 2 \in ks /\ 3 \in ks
    <3>1. \A j \in ks : j \in {2, 3}
      BY <1>7, <2>2
    <3>2. CASE Above(3, 2)
      <4>1. \A j \in ks : ~Above(j, 3) /\ (j < 3 => Above(3, j))
        BY <1>4, <2>2, <3>1, <3>2
      <4> QED BY <2>2, <4>1
    <3>3. CASE ~Above(3, 2)
      <4>1. \A j \in ks : ~Above(j, 2) /\ (j < 2 => Above(2, j))
        BY <1>4, <2>2, <3>1, <3>3
      <4> QED BY <2>2, <4>1
    <3> QED BY <3>2, <3>3
  <2>3. CASE ~(2 \in ks /\ 3 \in ks)
    <3>1. \A j \in ks : j = i
      BY <1>7, <2>3
    <3>2. ~Above(i, i) /\ ~(i < i)
      BY <1>4, <1>5
    <3> QED BY <3>1, <3>2
  <2> QED BY <2>2, <2>3
<1>9. best # {}
  BY <1>8
<1>10. PICK c \in best : c = CHOOSE i \in best : TRUE
  BY <1>9
<1>11. c \in ks
  BY <1>10
<1>12. RowVerdict(a, b, CompareMetrics[c]) # "same"
  BY <1>2, <1>11, NotableMoves
<1> HIDE DEF best
<1> QED BY <1>1, <1>2, <1>10, <1>11, <1>12

\* Summarised experiments have what the lemmas ask for, and the compared ones are summarised.
LEMMA SummarisedMeasures ==
  ASSUME NEW e \in Experiments, Summarised(e)
  PROVE  Measures(e)
<1>1. e.runs \in Seq(Repetitions)
  BY DEF Experiments
<1>2. PICK runs, agg, res : runs = e.runs /\ agg = e.agg /\ res = e.result
  OBVIOUS
<1>3. /\ runs \in Seq(Repetitions) /\ SuccessfulRuns(runs) # {}
      /\ agg = BuildExperimentAggregate(runs) /\ res = RepresentativeResult(agg, runs)
  BY <1>1, <1>2 DEF Summarised
<1>4. /\ agg \in Aggregates /\ res \in Results
      /\ \A k \in AggregateKeys :
           IF agg.metrics[k].samples = 0 THEN agg.metrics[k].median = NA /\ agg.metrics[k].mean = NA
           ELSE agg.metrics[k].median \in Nat /\ agg.metrics[k].mean \in Nat
      /\ \A k \in {"p90", "p99", "conns"} : res[k] = Int64PtrOf(agg.metrics[k].median)
      /\ \A k \in {"rate", "dlv"} : res[k] = agg.metrics[k].mean
  BY <1>3, SummaryFacts
<1> QED BY <1>2, <1>4 DEF Measures

LEMMA ComparedMeasures ==
  ASSUME LabInv, NEW i \in Compared
  PROVE  Measures(lab[i])
<1>1. lab[i] \in Experiments /\ Summarised(lab[i])
  BY LabRecords DEF Compared
<1> QED BY <1>1, SummarisedMeasures

\* Comparisons do not depend on which experiment is called A, and their two parts agree (compare.go,
\* CompareExperiments and applyAggregateComparison): for any store of experiments with any number of
\* repetitions and any results.
THEOREM CompareSoundHolds == AnalysisInit /\ [][AnalysisNext]_labVars => []CompareSound
<1>1. LabInv => CompareSound
  <2> SUFFICES ASSUME LabInv, NEW i \in Compared, NEW j \in Compared
               PROVE  LET a == lab[i]
                          b == lab[j]
                          conclusion == ApplyAggregateComparison(a, b)
                          row(c) == RowVerdict(a, b, CompareMetrics[c])
                      IN /\ ApplyAggregateComparison(b, a) = Mirrored(conclusion)
                         /\ \A c \in DOMAIN CompareMetrics :
                              /\ RowVerdict(b, a, CompareMetrics[c]) = Mirrored(row(c))
                              /\ conclusion = "better" /\ CompareMetrics[c].key \in {"p90", "p99"} => row(c) # "worse"
                         /\ \A g \in {"latency", "throughput", "scale", "reliability"} :
                              \/ NetVerdict(a, b, g) = "no_notable"
                              \/ \E c \in DOMAIN CompareMetrics :
                                   CompareMetrics[c].group = g /\ NetVerdict(a, b, g) = row(c) /\ row(c) # "same"
    BY DEF CompareSound
  <2>1. PICK a, b : a = lab[i] /\ b = lab[j]
    OBVIOUS
  <2>2. Measures(a) /\ Measures(b)
    BY <2>1, ComparedMeasures
  <2>3. ApplyAggregateComparison(b, a) = Mirrored(ApplyAggregateComparison(a, b))
    BY <2>2, ConclusionMirror
  <2>4. \A c \in DOMAIN CompareMetrics :
          RowVerdict(b, a, CompareMetrics[c]) = Mirrored(RowVerdict(a, b, CompareMetrics[c]))
    BY <2>2, RowMirror
  <2>5. ASSUME NEW c \in DOMAIN CompareMetrics, ApplyAggregateComparison(a, b) = "better",
               CompareMetrics[c].key \in {"p90", "p99"}
        PROVE  RowVerdict(a, b, CompareMetrics[c]) # "worse"
    <3>1. c \in {2, 3}
      BY <2>5, MetricsTable
    <3> QED BY <2>2, <2>5, <3>1, ImprovementRows
  <2>6. \A g \in {"latency", "throughput", "scale", "reliability"} :
          \/ NetVerdict(a, b, g) = "no_notable"
          \/ \E c \in DOMAIN CompareMetrics :
               /\ CompareMetrics[c].group = g
               /\ NetVerdict(a, b, g) = RowVerdict(a, b, CompareMetrics[c])
               /\ RowVerdict(a, b, CompareMetrics[c]) # "same"
    BY <2>2, NetIsRow
  <2> QED BY <2>1, <2>3, <2>4, <2>5, <2>6
<1> QED BY <1>1, LabStart, LabStep, PTL

----------------------------------------------------------------------------
(* Analysis: claims                                                        *)

\* What the lemmas ask of a listing of a store with n experiments, and of two that follow each
\* other.
Fits(es, n) ==
  /\ n \in Nat /\ DOMAIN es \subseteq 1..n
  /\ \A i \in DOMAIN es : es[i].agg.reps \in Nat /\ RowOf(es[i]).thr \in Nat
Agree(es, new) == \A i \in DOMAIN es \cap DOMAIN new : new[i] = es[i]

\* Ranks are numbers, and the lowest is that of a claim without support.
LEMMA Ranks ==
  /\ \A st : ClaimRank(st) \in Nat
  /\ ClaimRank("VERIFIED") = 2 /\ ClaimRank("PARTIALLY_VERIFIED") = 1
  /\ ClaimRank("CODE_VERIFIED") = 0 /\ ClaimRank("TARGET") = 0 /\ ClaimRank("UNKNOWN") = 0
  /\ \A st : ClaimRank(st) <= 2
  BY DEF ClaimRank

\* A status falls only from one with a rank, and not to a better one.
LEMMA FallMeans ==
  /\ \A st : ~Falls(st, st) /\ ~Falls("VERIFIED", st)
  /\ \A st : ~Falls(st, "CODE_VERIFIED") /\ ~Falls(st, "TARGET") /\ ~Falls(st, "UNKNOWN")
  /\ ~Falls("PARTIALLY_VERIFIED", "PARTIALLY_VERIFIED")
<1>1. \A st : ClaimRank(st) \in Nat /\ ClaimRank(st) <= 2
  BY Ranks
<1> QED BY <1>1, Ranks DEF Falls

\* A claim with a rule of its own keeps its status while something that held it up is listed.
LEMMA SeedsHold ==
  ASSUME NEW es, NEW new, Agree(es, new)
  PROVE  SeedsStand(es, new, DOMAIN es \ DOMAIN new)
<1> SUFFICES ASSUME NEW s \in ClaimSeeds, Falls(Eval(s, new), Eval(s, es)),
                    NEW i \in Considered(s, es), Eval(s, es) = "VERIFIED" => Supports(s, es[i]),
                    i \in DOMAIN new
             PROVE  FALSE
  BY DEF SeedsStand, Considered
<1> DEFINE rel == Considered(s, es)
           all == Considered(s, new)
<1>1. i \in rel /\ i \in all /\ new[i] = es[i]
  BY DEF Considered, Agree
<1>2. /\ Eval(s, es) = IF \E j \in rel : Supports(s, es[j]) THEN "VERIFIED"
                       ELSE IF s.mode = "code" THEN "CODE_VERIFIED"
                       ELSE IF s.mode # "goal" /\ rel # {} THEN "PARTIALLY_VERIFIED" ELSE "TARGET"
      /\ Eval(s, new) = IF \E j \in all : Supports(s, new[j]) THEN "VERIFIED"
                        ELSE IF s.mode = "code" THEN "CODE_VERIFIED"
                        ELSE IF s.mode # "goal" /\ all # {} THEN "PARTIALLY_VERIFIED" ELSE "TARGET"
  BY DEF Eval
<1> HIDE DEF rel, all
<1>3. CASE Eval(s, es) = "VERIFIED"
  <2>1. Supports(s, new[i])
    BY <1>1, <1>3
  <2>2. Eval(s, new) = "VERIFIED"
    BY <1>1, <1>2, <2>1
  <2> QED BY <2>2, FallMeans
<1>4. CASE Eval(s, es) = "PARTIALLY_VERIFIED"
  <2>1. s.mode # "code" /\ s.mode # "goal"
    BY <1>2, <1>4
  <2>2. Eval(s, new) \in {"VERIFIED", "PARTIALLY_VERIFIED"}
    BY <1>1, <1>2, <2>1
  <2> QED BY <1>4, <2>2, FallMeans
<1>5. CASE Eval(s, es) \in {"CODE_VERIFIED", "TARGET"}
  BY <1>5, FallMeans
<1> QED BY <1>2, <1>3, <1>4, <1>5

\* The experiments deriveRepeatability chooses among, and what it says of the newest.
MostOf(es) ==
  {i \in DOMAIN es : es[i].agg.reps >= 2 /\ \A j \in DOMAIN es : es[j].agg.reps <= es[i].agg.reps}
RepeatStatus(e) ==
  IF e.agg.stability \in {"stable", "moderate"} THEN "VERIFIED" ELSE "PARTIALLY_VERIFIED"

LEMMA RepeatabilityParts ==
  ASSUME NEW es
  PROVE  DeriveRepeatability(es) =
           IF MostOf(es) = {} THEN [status |-> "UNKNOWN", exp |-> NA]
           ELSE [status |-> RepeatStatus(es[Max(MostOf(es))]), exp |-> Max(MostOf(es))]
  BY Zenon DEF DeriveRepeatability, MostOf, RepeatStatus

\* Repeatability stands while its experiment is listed and none with as many repetitions comes.
LEMMA RepeatabilityHolds ==
  ASSUME NEW n, NEW es, NEW new, Fits(es, n), Fits(new, n), Agree(es, new)
  PROVE  RepeatabilityStands(es, new, DOMAIN es \ DOMAIN new, DOMAIN new \ DOMAIN es)
<1> SUFFICES ASSUME Falls(DeriveRepeatability(new).status, DeriveRepeatability(es).status),
                    DeriveRepeatability(es).exp \notin DOMAIN es \ DOMAIN new,
                    \A i \in DOMAIN new \ DOMAIN es :
                      ~(new[i].agg.reps >= es[DeriveRepeatability(es).exp].agg.reps)
             PROVE  FALSE
  BY DEF RepeatabilityStands
<1>1. MostOf(es) # {}
  <2> SUFFICES ASSUME MostOf(es) = {} PROVE FALSE
    OBVIOUS
  <2>1. DeriveRepeatability(es).status = "UNKNOWN"
    BY RepeatabilityParts
  <2> QED BY <2>1, FallMeans
<1> DEFINE m == Max(MostOf(es))
<1>2. /\ DeriveRepeatability(es).exp = m
      /\ DeriveRepeatability(es).status = RepeatStatus(es[m])
  BY <1>1, RepeatabilityParts
<1>3. m \in MostOf(es) /\ \A j \in MostOf(es) : j <= m
  <2>1. MostOf(es) \subseteq 0..n /\ n \in Nat
    BY DEF MostOf, Fits
  <2> QED BY <1>1, <2>1, MaxOf
<1> HIDE DEF m
<1>4. /\ m \in DOMAIN es /\ es[m].agg.reps >= 2
      /\ \A j \in DOMAIN es : es[j].agg.reps <= es[m].agg.reps
  BY <1>3 DEF MostOf
<1>5. m \in DOMAIN new /\ new[m] = es[m]
  BY <1>2, <1>4 DEF Agree
<1>6. /\ \A j \in DOMAIN new : new[j].agg.reps \in Nat
      /\ \A j \in DOMAIN es : es[j].agg.reps \in Nat
  BY DEF Fits
<1>7. \A j \in DOMAIN new : j \notin DOMAIN es => new[j].agg.reps < es[m].agg.reps
  BY <1>2, <1>4, <1>6
<1>8. \A j \in DOMAIN new : j \in DOMAIN es => new[j] = es[j] /\ new[j].agg.reps <= es[m].agg.reps
  BY <1>4 DEF Agree
<1>9. m \in MostOf(new)
  <2>1. \A j \in DOMAIN new : new[j].agg.reps <= new[m].agg.reps
    BY <1>4, <1>5, <1>6, <1>7, <1>8
  <2> QED BY <1>4, <1>5, <2>1 DEF MostOf
<1>10. \A j \in MostOf(new) : j \in MostOf(es)
  <2> TAKE j \in MostOf(new)
  <2>1. j \in DOMAIN new /\ new[j].agg.reps >= 2 /\ new[m].agg.reps <= new[j].agg.reps
    BY <1>5 DEF MostOf
  <2>2. j \in DOMAIN es /\ new[j] = es[j]
    BY <1>4, <1>5, <1>6, <1>7, <1>8, <2>1
  <2>3. \A k \in DOMAIN es : es[k].agg.reps <= es[j].agg.reps
    BY <1>4, <1>5, <1>6, <2>1, <2>2
  <2> QED BY <2>1, <2>2, <2>3 DEF MostOf
<1>11. Max(MostOf(new)) = m
  <2>1. MostOf(new) \subseteq 0..n /\ n \in Nat
    BY DEF MostOf, Fits
  <2> DEFINE k == Max(MostOf(new))
  <2>2. k \in MostOf(new) /\ m <= k
    BY <1>9, <2>1, MaxOf
  <2> HIDE DEF k
  <2>3. k <= m
    BY <1>3, <1>10, <2>2
  <2>4. k \in Int /\ m \in Int
    BY <1>9, <2>1, <2>2
  <2>5. k = m
    BY <2>2, <2>3, <2>4
  <2> QED BY <2>5 DEF k
<1>12. DeriveRepeatability(new).status = DeriveRepeatability(es).status
  <2>1. DeriveRepeatability(new).status = RepeatStatus(new[m])
    BY <1>9, <1>11, RepeatabilityParts
  <2> QED BY <1>2, <1>5, <2>1
<1> QED BY <1>12, FallMeans

\* The comparison of the tails stands while no experiment of the two regimes comes or goes.
LEMMA TailHolds ==
  ASSUME NEW es, NEW new, Agree(es, new)
  PROVE  TailStands(es, new, DOMAIN es \ DOMAIN new, DOMAIN new \ DOMAIN es)
<1> SUFFICES ASSUME \A i \in DOMAIN es \ DOMAIN new : ~Tailed(es[i]),
                    \A i \in DOMAIN new \ DOMAIN es : ~Tailed(new[i])
             PROVE  DeriveHotRoomTail(new) = DeriveHotRoomTail(es)
  BY DEF TailStands
<1>1. ASSUME NEW r \in {"hot-room", "low-fanout"} PROVE RegimeTailP99(new, r) = RegimeTailP99(es, r)
  <2> DEFINE D(f) == {j \in DOMAIN f : f[j].regime = r /\ f[j].agg.metrics["p99"].samples > 0}
             v(f) == [j \in D(f) |-> f[j].agg.metrics["p99"].median]
  <2>1. \A j \in D(es) : j \in DOMAIN new /\ new[j] = es[j]
    BY DEF Tailed, Agree
  <2>2. \A j \in D(new) : j \in DOMAIN es /\ new[j] = es[j]
    BY DEF Tailed, Agree
  <2>3. D(new) = D(es)
    BY <2>1, <2>2
  <2>4. v(new) = v(es)
    <3> HIDE DEF D
    <3> QED BY <2>1, <2>3
  <2>5. RegimeTailP99(new, r) = MedianOf(v(new)) /\ RegimeTailP99(es, r) = MedianOf(v(es))
    BY DEF RegimeTailP99
  <2> QED BY <2>4, <2>5
<1>2. /\ RegimeTailP99(new, "hot-room") = RegimeTailP99(es, "hot-room")
      /\ RegimeTailP99(new, "low-fanout") = RegimeTailP99(es, "low-fanout")
  BY <1>1
<1> QED BY <1>2, Zenon DEF DeriveHotRoomTail

\* Places are the negatives of positions.
LEMMA Negatives == \A i \in Int : -i \in Int /\ -(-i) = i
  OBVIOUS

LEMMA AtLeastTwo == \A a, b \in Nat : a <= b /\ a >= 2 => b >= 2
  OBVIOUS

\* The positions of a listing.
LEMMA FitsPlaces ==
  ASSUME NEW n, NEW es, Fits(es, n)
  PROVE  n \in Nat /\ IsFiniteSet(1..n) /\ \A i \in DOMAIN es : i \in 1..n /\ i \in Int /\ -(-i) = i
<1>1. n \in Nat /\ DOMAIN es \subseteq 1..n
  BY DEF Fits
<1>2. \A i \in 1..n : i \in Int /\ -(-i) = i
  BY <1>1
<1> QED BY <1>1, <1>2, FS_Interval

\* The rows of a listing: those of its experiments with a regime, at the places of the listing.
ShowsListing(R, es) ==
  /\ \A p \in DOMAIN R :
       /\ p \in Int /\ -p \in DOMAIN es /\ es[-p].regime # ""
       /\ R[p] = RowOf(es[-p]) /\ R[p].thr \in Nat
       /\ R[p].regime = es[-p].regime /\ R[p].label = es[-p].label
  /\ \A i \in DOMAIN es :
       /\ i \in Int /\ -(-i) = i
       /\ es[i].regime # "" => /\ -i \in DOMAIN R /\ R[-i] = RowOf(es[i])
                               /\ R[-i].regime = es[i].regime /\ R[-i].label = es[i].label

LEMMA RowPlaces ==
  ASSUME NEW n, NEW es, Fits(es, n)
  PROVE  ShowsListing(RegimeRows(es), es)
<1> DEFINE own == {j \in DOMAIN es : es[j].regime # ""}
           places == {-i : i \in own}
           R == RegimeRows(es)
<1>1. /\ n \in Nat
      /\ \A i \in DOMAIN es : i \in Int /\ -(-i) = i /\ RowOf(es[i]).thr \in Nat
  BY FitsPlaces DEF Fits
<1>2. R = [q \in places |-> RowOf(es[-q])]
  BY DEF RegimeRows
<1>3. \A e : RowOf(e).regime = e.regime /\ RowOf(e).label = e.label
  BY DEF RowOf
<1>4. \A i \in own : i \in DOMAIN es /\ es[i].regime # "" /\ i \in Int /\ -(-i) = i
  BY <1>1
<1>5. \A p \in places : p \in Int /\ -p \in own
  <2> SUFFICES ASSUME NEW i \in own, NEW p, p = -i PROVE p \in Int /\ -p \in own
    OBVIOUS
  <2>1. i \in Int /\ -(-i) = i
    BY <1>4
  <2>2. -i \in Int
    BY <2>1, Negatives
  <2> HIDE DEF own
  <2> QED BY <2>1, <2>2
<1>6. \A i \in own : -i \in places
  OBVIOUS
<1>7. \A i \in DOMAIN es : es[i].regime # "" => i \in own
  OBVIOUS
<1>8. DOMAIN R = places /\ \A p \in places : R[p] = RowOf(es[-p])
  BY <1>2
<1> HIDE DEF own, places, R
<1>9. ASSUME NEW p \in DOMAIN R
      PROVE  /\ p \in Int /\ -p \in DOMAIN es /\ es[-p].regime # ""
             /\ R[p] = RowOf(es[-p]) /\ R[p].thr \in Nat
             /\ R[p].regime = es[-p].regime /\ R[p].label = es[-p].label
  <2>1. p \in Int /\ -p \in own /\ R[p] = RowOf(es[-p])
    BY <1>5, <1>8
  <2>2. -p \in DOMAIN es /\ es[-p].regime # "" /\ RowOf(es[-p]).thr \in Nat
    BY <1>1, <1>4, <2>1
  <2> QED BY <1>3, <2>1, <2>2
<1>10. ASSUME NEW i \in DOMAIN es, es[i].regime # ""
       PROVE  /\ -i \in DOMAIN R /\ R[-i] = RowOf(es[i])
              /\ R[-i].regime = es[i].regime /\ R[-i].label = es[i].label
  <2>1. -i \in DOMAIN R /\ R[-i] = RowOf(es[-(-i)]) /\ -(-i) = i
    BY <1>1, <1>6, <1>7, <1>8, <1>10
  <2> QED BY <1>3, <2>1
<1> QED BY <1>1, <1>9, <1>10 DEF R, ShowsListing

\* The claim about several regimes stands while none of them loses its last experiment.
LEMMA RegimesHold ==
  ASSUME NEW n, NEW es, NEW new, Fits(es, n), Fits(new, n), Agree(es, new)
  PROVE  RegimesStand(es, new, DOMAIN es \ DOMAIN new)
<1> SUFFICES ASSUME Falls(DeriveRegimeDependence(new), DeriveRegimeDependence(es)),
                    \A i \in DOMAIN es \ DOMAIN new :
                      es[i].regime # "" => \E j \in DOMAIN new : new[j].regime = es[i].regime
             PROVE  FALSE
  BY DEF RegimesStand
<1> DEFINE R1 == RegimeRows(es)
           R2 == RegimeRows(new)
           old == {R1[p].regime : p \in DOMAIN R1}
           now == {R2[p].regime : p \in DOMAIN R2}
<1>1. /\ DeriveRegimeDependence(es) = IF Cardinality(old) >= 2 THEN "VERIFIED" ELSE "UNKNOWN"
      /\ DeriveRegimeDependence(new) = IF Cardinality(now) >= 2 THEN "VERIFIED" ELSE "UNKNOWN"
  BY DEF DeriveRegimeDependence
<1>2a. ShowsListing(R1, es)
  BY RowPlaces
<1>2b. ShowsListing(R2, new)
  BY RowPlaces
<1>3. n \in Nat /\ IsFiniteSet(1..n) /\ \A i \in DOMAIN new : i \in 1..n
  BY FitsPlaces
<1> HIDE DEF R1, R2
<1>4. old \subseteq now
  <2> SUFFICES ASSUME NEW p \in DOMAIN R1 PROVE R1[p].regime \in now
    OBVIOUS
  <2>1. -p \in DOMAIN es /\ es[-p].regime # "" /\ R1[p].regime = es[-p].regime
    BY <1>2a DEF ShowsListing
  <2>2. PICK j \in DOMAIN new : new[j].regime = es[-p].regime
    BY <2>1 DEF Agree
  <2>3. -j \in DOMAIN R2 /\ R2[-j].regime = new[j].regime
    BY <1>2b, <2>1, <2>2 DEF ShowsListing
  <2> QED BY <2>1, <2>2, <2>3
<1>5. IsFiniteSet(now)
  <2> DEFINE own == {j \in DOMAIN new : new[j].regime # ""}
             f == [j \in own |-> new[j].regime]
  <2>1. IsFiniteSet(own)
    <3>1. own \subseteq 1..n
      BY <1>3
    <3> QED BY <1>3, <3>1, FS_Subset
  <2>2. \A j \in own : -j \in DOMAIN R2 /\ R2[-j].regime = new[j].regime
    BY <1>2b DEF ShowsListing
  <2>3. \A p \in DOMAIN R2 : -p \in own /\ R2[p].regime = new[-p].regime
    BY <1>2b DEF ShowsListing
  <2> HIDE DEF own
  <2>4. f \in [own -> now]
    BY <2>2
  <2>5. \A t \in now : \E j \in own : f[j] = t
    BY <2>3
  <2>6. f \in Surjection(own, now)
    BY <2>4, <2>5 DEF Surjection
  <2> QED BY <2>1, <2>6, FS_Surjection
<1>6. Cardinality(old) \in Nat /\ Cardinality(now) \in Nat /\ Cardinality(old) <= Cardinality(now)
  BY <1>4, <1>5, FS_Subset, FS_CardinalityType
<1> HIDE DEF old, now
<1>7. CASE Cardinality(old) >= 2
  <2>1. Cardinality(now) >= 2
    BY <1>6, <1>7, AtLeastTwo
  <2>2. DeriveRegimeDependence(new) = "VERIFIED"
    BY <1>1, <2>1
  <2> QED BY <2>2, FallMeans
<1>8. CASE ~(Cardinality(old) >= 2)
  <2>1. DeriveRegimeDependence(es) = "UNKNOWN"
    BY <1>1, <1>8
  <2> QED BY <2>1, FallMeans
<1> QED BY <1>7, <1>8

\* Rows of a report at places that are negatives of 1..n.
RowsAt(R, n) ==
  /\ n \in Nat
  /\ \A p \in DOMAIN R : p \in Int /\ -p \in 1..n /\ -(-p) = p /\ R[p].thr \in Nat

LEMMA ListingRows ==
  ASSUME NEW n, NEW es, Fits(es, n), NEW R, ShowsListing(R, es)
  PROVE  RowsAt(R, n)
<1>1. n \in Nat /\ \A i \in DOMAIN es : i \in 1..n
  BY FitsPlaces
<1>2. \A p \in DOMAIN R : p \in Int /\ -p \in DOMAIN es /\ R[p].thr \in Nat
  BY DEF ShowsListing
<1>3. \A p \in DOMAIN R : -(-p) = p
  BY <1>2, Negatives
<1> QED BY <1>1, <1>2, <1>3 DEF RowsAt

\* A configuration with a row has one that stands for it.
LEMMA LastRow ==
  ASSUME NEW n, NEW R, RowsAt(R, n), NEW rg, NEW p \in FilterByRegime(R, rg)
  PROVE  \E q \in ByConfig(R, rg) : R[q].label = R[p].label /\ p <= q
<1> DEFINE own == FilterByRegime(R, rg)
           T == {k \in own : R[k].label = R[p].label}
           S == {-k : k \in T}
<1>1. \A k \in own : k \in DOMAIN R /\ k \in Int /\ -k \in 1..n
  BY DEF FilterByRegime, RowsAt
<1>2. p \in T
  OBVIOUS
<1>3. S \subseteq Nat /\ S # {}
  <2>1. \A k \in T : -k \in Nat
    BY <1>1, n \in Nat DEF RowsAt
  <2> HIDE DEF T
  <2> QED BY <1>2, <2>1, Zenon
<1>4. PICK x \in S : \A y \in S : x <= y
  <2> HIDE DEF S
  <2> QED BY <1>3, LeastNumber
<1>5. PICK q \in T : x = -q
  OBVIOUS
<1>6. \A k \in T : k <= q
  <2> TAKE k \in T
  <2>1. -k \in S
    OBVIOUS
  <2>2. k \in Int /\ q \in Int /\ -q <= -k
    BY <1>1, <1>4, <1>5, <2>1
  <2> QED BY <2>2
<1>7. q \in ByConfig(R, rg)
  BY <1>5, <1>6 DEF ByConfig
<1> QED BY <1>2, <1>5, <1>6, <1>7

\* What is compared when rows are ranked.
IsRanked(r) == r.feasible \in BOOLEAN /\ r.score \in Nat

LEMMA RankedRows ==
  ASSUME NEW n, NEW R, RowsAt(R, n), NEW rg
  PROVE  /\ \A p \in ByConfig(R, rg) : /\ p \in DOMAIN R /\ R[p].regime = rg /\ IsRanked(RankedOf(R[p]))
                                       /\ RankedOf(R[p]).score = R[p].thr /\ RankedOf(R[p]).label = R[p].label
                                       /\ RankedOf(R[p]) \in RankConfigs(R, rg)
         /\ \A r \in RankConfigs(R, rg) :
              IsRanked(r) /\ \E p \in ByConfig(R, rg) : r = RankedOf(R[p]) /\ r.label = R[p].label
<1>1. \A r : Feasible(r) \in BOOLEAN
  BY DEF Feasible
<1>2. \A r : /\ RankedOf(r).label = r.label /\ RankedOf(r).score = r.thr
             /\ RankedOf(r).feasible = Feasible(r)
  BY DEF RankedOf
<1>3. \A p \in ByConfig(R, rg) : p \in DOMAIN R /\ R[p].regime = rg
  BY DEF ByConfig, FilterByRegime
<1>4. \A p \in ByConfig(R, rg) : IsRanked(RankedOf(R[p]))
  BY <1>1, <1>2, <1>3 DEF IsRanked, RowsAt
<1>5. RankConfigs(R, rg) = {RankedOf(R[p]) : p \in ByConfig(R, rg)}
  BY DEF RankConfigs
<1> QED BY <1>2, <1>3, <1>4, <1>5

\* Ranking is a weak order.
LEMMA WeakOrder ==
  ASSUME NEW a, NEW b, NEW c, IsRanked(a), IsRanked(b), IsRanked(c), Before(a, c)
  PROVE  Before(a, b) \/ Before(b, c)
  BY DEF IsRanked, Before

\* A regime with a row has a best configuration, and no other regime has.
LEMMA BestExists ==
  ASSUME NEW n, NEW R, RowsAt(R, n), NEW rg
  PROVE  PickBest(R, rg) # {} <=> FilterByRegime(R, rg) # {}
<1> DEFINE own == ByConfig(R, rg)
           F == {q \in own : RankedOf(R[q]).feasible}
           G == IF F # {} THEN F ELSE own
<1>1. CASE FilterByRegime(R, rg) = {}
  BY <1>1 DEF PickBest, RankConfigs, ByConfig
<1>2. CASE FilterByRegime(R, rg) # {}
  <2>1. own # {}
    BY <1>2, LastRow
  <2>2. \A q \in own : /\ q \in DOMAIN R /\ IsRanked(RankedOf(R[q])) /\ RankedOf(R[q]).score = R[q].thr
                       /\ RankedOf(R[q]) \in RankConfigs(R, rg)
    BY RankedRows
  <2>3. \A r \in RankConfigs(R, rg) : \E q \in own : r = RankedOf(R[q])
    BY RankedRows
  <2> HIDE DEF own
  <2>4. /\ G \subseteq own /\ G # {}
        /\ \A q \in G, k \in own : RankedOf(R[k]).feasible => RankedOf(R[q]).feasible
        /\ \A q \in G, k \in own : RankedOf(R[k]).feasible = RankedOf(R[q]).feasible => k \in G
    BY <2>1, <2>2 DEF IsRanked
  <2> HIDE DEF G
  <2> DEFINE P == {-q : q \in G}
             v == [i \in P |-> R[-i].thr]
  <2>5. \A q \in G : q \in Int /\ -q \in 1..n /\ -(-q) = q /\ R[q].thr \in Nat
    BY <2>2, <2>4 DEF RowsAt
  <2>6. P # {} /\ P \subseteq 1..n /\ \A i \in P : R[-i].thr \in Nat
    <3>1. P # {}
      BY <2>4
    <3>2. ASSUME NEW i \in P PROVE i \in 1..n /\ R[-i].thr \in Nat
      <4>1. PICK q \in G : i = -q
        OBVIOUS
      <4>2. -q \in 1..n /\ -(-q) = q /\ R[q].thr \in Nat
        BY <2>5
      <4> QED BY <4>1, <4>2
    <3> QED BY <3>1, <3>2
  <2>7. n \in Nat
    BY DEF RowsAt
  <2>8. PICK i \in P : \A j \in P : R[-j].thr <= R[-i].thr
    <3> HIDE DEF P
    <3>1. Series(v, n) /\ DOMAIN v # {}
      BY <2>6 DEF Series
    <3>2. \A j \in P : v[j] = R[-j].thr
      OBVIOUS
    <3> HIDE DEF v
    <3>3. PICK i \in DOMAIN v : \A j \in DOMAIN v : v[j] <= v[i]
      BY <2>7, <3>1, GreatestValue
    <3>4. DOMAIN v = P
      BY DEF v
    <3> QED BY <3>2, <3>3, <3>4
  <2>9. PICK q \in G : i = -q
    OBVIOUS
  <2>10. \A k \in G : -k \in P
    OBVIOUS
  <2> HIDE DEF P
  <2>11. \A k \in G : R[k].thr <= R[q].thr
    <3> TAKE k \in G
    <3>1. -(-k) = k /\ -(-q) = q
      BY <2>5
    <3>2. R[-(-k)].thr <= R[-(-q)].thr
      BY <2>8, <2>9, <2>10
    <3> QED BY <3>1, <3>2
  <2>12. ASSUME NEW k \in own PROVE ~Before(RankedOf(R[k]), RankedOf(R[q]))
    <3>1. q \in own /\ IsRanked(RankedOf(R[k])) /\ IsRanked(RankedOf(R[q]))
      BY <2>2, <2>4
    <3>2. RankedOf(R[k]).score = R[k].thr /\ RankedOf(R[q]).score = R[q].thr
      BY <2>2, <3>1
    <3>3. RankedOf(R[k]).feasible => RankedOf(R[q]).feasible
      BY <2>4
    <3>4. RankedOf(R[k]).feasible = RankedOf(R[q]).feasible => R[k].thr <= R[q].thr
      BY <2>4, <2>11
    <3> QED BY <3>1, <3>2, <3>3, <3>4 DEF Before, IsRanked
  <2>13. RankedOf(R[q]) \in PickBest(R, rg)
    BY <2>2, <2>3, <2>4, <2>12 DEF PickBest
  <2> QED BY <1>2, <2>13
<1> QED BY <1>1, <1>2

\* What a step may do to the rows of a regime without a change of its best configurations: the rows
\* that stood for a configuration stay, and those that come are neither among the best nor in the
\* place of one that was.
KeepsBest(R, Q, rg) ==
  /\ \A p \in DOMAIN R \cap DOMAIN Q : Q[p] = R[p]
  /\ \A p \in ByConfig(R, rg) : p \in DOMAIN Q
  /\ \A p \in ByConfig(Q, rg) :
       p \notin DOMAIN R => /\ RankedOf(Q[p]) \notin PickBest(Q, rg)
                            /\ \A b \in PickBest(R, rg) : b.label # Q[p].label

LEMMA SameBests ==
  ASSUME NEW n, NEW R, NEW Q, RowsAt(R, n), RowsAt(Q, n), NEW rg, KeepsBest(R, Q, rg)
  PROVE  PickBest(Q, rg) = PickBest(R, rg)
<1> DEFINE S1 == ByConfig(R, rg)
           S2 == ByConfig(Q, rg)
<1>1. /\ \A p \in S1 : /\ p \in DOMAIN R /\ R[p].regime = rg /\ IsRanked(RankedOf(R[p]))
                       /\ RankedOf(R[p]).label = R[p].label /\ RankedOf(R[p]) \in RankConfigs(R, rg)
      /\ \A r \in RankConfigs(R, rg) : IsRanked(r) /\ \E p \in S1 : r = RankedOf(R[p])
  BY RankedRows
<1>2. /\ \A p \in S2 : /\ p \in DOMAIN Q /\ Q[p].regime = rg /\ IsRanked(RankedOf(Q[p]))
                       /\ RankedOf(Q[p]).label = Q[p].label /\ RankedOf(Q[p]) \in RankConfigs(Q, rg)
      /\ \A r \in RankConfigs(Q, rg) : IsRanked(r) /\ \E p \in S2 : r = RankedOf(Q[p])
  BY RankedRows
<1>3. /\ \A p \in DOMAIN R \cap DOMAIN Q : Q[p] = R[p]
      /\ \A p \in S1 : p \in DOMAIN Q
      /\ \A p \in S2 : p \notin DOMAIN R => /\ RankedOf(Q[p]) \notin PickBest(Q, rg)
                                            /\ \A b \in PickBest(R, rg) : b.label # Q[p].label
  BY DEF KeepsBest
<1>4. /\ \A p \in DOMAIN R : p \in Int
      /\ \A p \in DOMAIN Q : p \in Int
  BY DEF RowsAt
<1>5. /\ \A p \in S1, k \in DOMAIN R : R[k].regime = rg /\ R[k].label = R[p].label => k <= p
      /\ \A p \in S2, k \in DOMAIN Q : Q[k].regime = rg /\ Q[k].label = Q[p].label => k <= p
  BY DEF ByConfig, FilterByRegime
<1>6. /\ \A b \in PickBest(R, rg) : b \in RankConfigs(R, rg) /\ \A r \in RankConfigs(R, rg) : ~Before(r, b)
      /\ \A b \in RankConfigs(R, rg) : (\A r \in RankConfigs(R, rg) : ~Before(r, b)) => b \in PickBest(R, rg)
      /\ \A b \in PickBest(Q, rg) : b \in RankConfigs(Q, rg) /\ \A r \in RankConfigs(Q, rg) : ~Before(r, b)
      /\ \A b \in RankConfigs(Q, rg) : (\A r \in RankConfigs(Q, rg) : ~Before(r, b)) => b \in PickBest(Q, rg)
  BY DEF PickBest
<1>7. ASSUME NEW p \in S1
      PROVE  p \in S2 \/ \E q \in S2 : q \notin DOMAIN R /\ Q[q].label = R[p].label
  <2>1. p \in DOMAIN R /\ p \in DOMAIN Q /\ Q[p] = R[p] /\ Q[p].regime = rg
    BY <1>1, <1>3
  <2>2. p \in FilterByRegime(Q, rg)
    BY <2>1 DEF FilterByRegime
  <2>3. PICK q \in S2 : Q[q].label = Q[p].label /\ p <= q
    BY <2>2, LastRow
  <2>4. CASE q \in DOMAIN R
    <3>1. q \in DOMAIN Q /\ Q[q] = R[q] /\ Q[q].regime = rg
      BY <1>2, <1>3, <2>4
    <3>2. q <= p
      BY <1>5, <2>1, <2>3, <2>4, <3>1
    <3>3. q = p
      BY <1>4, <2>1, <2>3, <2>4, <3>2
    <3> QED BY <3>3
  <2> QED BY <2>1, <2>3, <2>4
<1>8. ASSUME NEW q \in S2, q \in DOMAIN R PROVE q \in S1
  <2>1. q \in DOMAIN Q /\ Q[q] = R[q] /\ R[q].regime = rg
    BY <1>2, <1>3, <1>8
  <2>2. q \in FilterByRegime(R, rg)
    BY <1>8, <2>1 DEF FilterByRegime
  <2>3. PICK k \in S1 : R[k].label = R[q].label /\ q <= k
    BY <2>2, LastRow
  <2>4. k \in DOMAIN R /\ k \in DOMAIN Q /\ Q[k] = R[k] /\ Q[k].regime = rg
    BY <1>1, <1>3
  <2>5. k <= q
    BY <1>5, <2>1, <2>3, <2>4
  <2>6. k = q
    BY <1>4, <1>8, <2>3, <2>4, <2>5
  <2> QED BY <2>6
<1> HIDE DEF S1, S2
<1>9. ASSUME NEW m \in PickBest(R, rg) PROVE m \in RankConfigs(Q, rg)
  <2>1. PICK j \in S1 : m = RankedOf(R[j])
    BY <1>1, <1>6
  <2>2. m.label = R[j].label
    BY <1>1, <2>1
  <2>3. j \in S2
    BY <1>3, <1>7, <2>2
  <2>4. Q[j] = R[j]
    BY <1>1, <1>3
  <2> QED BY <1>2, <2>1, <2>3, <2>4
<1>10. ASSUME NEW b \in PickBest(Q, rg) PROVE b \in PickBest(R, rg)
  <2>1. PICK p \in S2 : b = RankedOf(Q[p])
    BY <1>2, <1>6
  <2>2. p \in DOMAIN R /\ p \in S1 /\ Q[p] = R[p]
    BY <1>2, <1>3, <1>8, <2>1
  <2>3. b \in RankConfigs(R, rg)
    BY <1>1, <2>1, <2>2
  <2>4. p \in FilterByRegime(R, rg)
    BY <1>1, <2>2 DEF FilterByRegime
  <2>5. PICK m \in PickBest(R, rg) : TRUE
    BY <2>4, BestExists
  <2>6. ASSUME NEW r \in RankConfigs(R, rg), Before(r, b) PROVE FALSE
    <3>1. Before(r, m) \/ Before(m, b)
      BY <1>1, <1>6, <2>3, <2>6, WeakOrder
    <3>2. ~Before(r, m)
      BY <1>6
    <3>3. ~Before(m, b)
      BY <1>6, <1>9
    <3> QED BY <3>1, <3>2, <3>3
  <2> QED BY <1>6, <2>3, <2>6
<1>11. ASSUME NEW m \in PickBest(R, rg) PROVE m \in PickBest(Q, rg)
  <2>1. m \in RankConfigs(Q, rg)
    BY <1>9
  <2>2. PICK p \in S2 : m = RankedOf(Q[p])
    BY <1>2, <2>1
  <2>3. p \in FilterByRegime(Q, rg)
    BY <1>2 DEF FilterByRegime
  <2>4. PICK b \in PickBest(Q, rg) : TRUE
    BY <2>3, BestExists
  <2>5. ASSUME NEW r \in RankConfigs(Q, rg), Before(r, m) PROVE FALSE
    <3>1. Before(r, b) \/ Before(b, m)
      BY <1>2, <1>6, <2>1, <2>5, WeakOrder
    <3>2. ~Before(r, b)
      BY <1>6
    <3>3. ~Before(b, m)
      BY <1>6, <1>10
    <3> QED BY <3>1, <3>2, <3>3
  <2> QED BY <1>6, <2>1, <2>5
<1> QED BY <1>10, <1>11

\* The ways to choose a best configuration for each regime with a row, and what is said of one.
RegimesOf(R) == {R[p].regime : p \in DOMAIN R}
BestChoices(R) ==
  {g \in [RegimesOf(R) -> UNION {PickBest(R, rg) : rg \in RegimesOf(R)}] :
     \A rg \in RegimesOf(R) : g[rg] \in PickBest(R, rg)}
OneBest(g) ==
  /\ Cardinality(DOMAIN g) >= 2
  /\ \A a \in DOMAIN g : g[a].feasible
  /\ \A a, b \in DOMAIN g : g[a].label = g[b].label
Verified(p) == IF p THEN "VERIFIED" ELSE "UNKNOWN"

\* uniqueRegimes lists each regime with a row once.
LEMMA UniqueOnce ==
  ASSUME NEW n, NEW R, RowsAt(R, n)
  PROVE  /\ \A i \in DOMAIN UniqueRegimes(R) :
              /\ i \in Int /\ UniqueRegimes(R)[i] \in RegimesOf(R)
              /\ FilterByRegime(R, UniqueRegimes(R)[i]) # {}
         /\ \A i, j \in DOMAIN UniqueRegimes(R) : UniqueRegimes(R)[i] = UniqueRegimes(R)[j] => i = j
         /\ \A rg \in RegimesOf(R) : \E i \in DOMAIN UniqueRegimes(R) : UniqueRegimes(R)[i] = rg
<1> DEFINE first(q) == \A r \in DOMAIN R : R[r].regime = R[q].regime => q <= r
           U == UniqueRegimes(R)
<1>1. DOMAIN U = {q \in DOMAIN R : first(q)} /\ \A i \in DOMAIN U : U[i] = R[i].regime
  BY DEF UniqueRegimes
<1>2. \A p \in DOMAIN R : p \in Int /\ -p \in 1..n /\ n \in Nat
  BY DEF RowsAt
<1>3. \A i \in DOMAIN U : i \in DOMAIN R /\ i \in Int /\ U[i] = R[i].regime /\ first(i)
  BY <1>1, <1>2
<1> HIDE DEF U
<1>4. ASSUME NEW i \in DOMAIN U
      PROVE  i \in Int /\ U[i] \in RegimesOf(R) /\ FilterByRegime(R, U[i]) # {}
  BY <1>3 DEF RegimesOf, FilterByRegime
<1>5. ASSUME NEW i \in DOMAIN U, NEW j \in DOMAIN U, U[i] = U[j] PROVE i = j
  <2>1. i <= j /\ j <= i /\ i \in Int /\ j \in Int
    BY <1>3, <1>5
  <2> QED BY <2>1
<1>6. ASSUME NEW rg \in RegimesOf(R) PROVE \E i \in DOMAIN U : U[i] = rg
  <2> DEFINE own == {p \in DOMAIN R : R[p].regime = rg}
             S == {-p : p \in own}
  <2>1. PICK p \in own : TRUE
    BY DEF RegimesOf
  <2>2. \A q \in own : q \in DOMAIN R /\ R[q].regime = rg /\ q \in Int /\ -q \in 0..n /\ n \in Nat
    BY <1>2
  <2>3. S \subseteq 0..n /\ S # {} /\ n \in Nat
    <3> HIDE DEF own
    <3> QED BY <2>1, <2>2
  <2>4. PICK x \in S : \A y \in S : y <= x
    <3> HIDE DEF S
    <3> QED BY <2>3, GreatestNumber
  <2>5. PICK q \in own : x = -q
    OBVIOUS
  <2>6. \A r \in own : q <= r
    <3> TAKE r \in own
    <3>1. -r \in S
      OBVIOUS
    <3>2. r \in Int /\ q \in Int /\ -r <= -q
      BY <2>2, <2>4, <2>5, <3>1
    <3> QED BY <3>2
  <2>7. first(q) /\ q \in DOMAIN R /\ R[q].regime = rg
    BY <2>2, <2>6
  <2> HIDE DEF own, S, first
  <2>8. q \in DOMAIN U
    BY <1>1, <2>7 DEF U
  <2> QED BY <1>3, <2>7, <2>8
<1>7. /\ \A i \in DOMAIN U : i \in Int /\ U[i] \in RegimesOf(R) /\ FilterByRegime(R, U[i]) # {}
      /\ \A i, j \in DOMAIN U : U[i] = U[j] => i = j
      /\ \A rg \in RegimesOf(R) : \E i \in DOMAIN U : U[i] = rg
  BY <1>4, <1>5, <1>6
<1> QED BY <1>7 DEF U

\* What the map of best configurations is when no regime is named twice, and what is said of it.
LEMMA BestMap ==
  ASSUME NEW U, NEW f, DOMAIN f = DOMAIN U, \A i \in DOMAIN U : i \in Int,
         \A i, j \in DOMAIN U : U[i] = U[j] => i = j,
         NEW g, DOMAIN g = {U[i] : i \in DOMAIN U}, \A i \in DOMAIN U : g[U[i]] = f[i],
         g = [rg \in DOMAIN g |-> g[rg]]
  PROVE  BestPerRegime(U, f) = g /\ AnalyzeDomination(g, f).dominates = OneBest(g)
<1>1. ASSUME NEW i \in DOMAIN U PROVE f[Max({k \in DOMAIN f : U[k] = U[i]})] = g[U[i]]
  <2>1. {k \in DOMAIN f : U[k] = U[i]} = {i}
    OBVIOUS
  <2>2. Max({i}) = i
    BY DEF Max
  <2> QED BY <2>1, <2>2
<1>2. BestPerRegime(U, f) = [rg \in DOMAIN g |-> f[Max({k \in DOMAIN f : U[k] = rg})]]
  BY DEF BestPerRegime
<1>3. \A rg \in DOMAIN g : f[Max({k \in DOMAIN f : U[k] = rg})] = g[rg]
  BY <1>1
<1>4. BestPerRegime(U, f) = g
  BY <1>2, <1>3
<1>5. AnalyzeDomination(g, f).dominates =
        (/\ Cardinality(DOMAIN g) >= 2
         /\ \A i \in DOMAIN f : f[i].feasible
         /\ \A i, j \in DOMAIN f : f[i].label = f[j].label)
  BY DEF AnalyzeDomination
<1>6. (\A i \in DOMAIN f : f[i].feasible) <=> (\A a \in DOMAIN g : g[a].feasible)
  OBVIOUS
<1>7. (\A i, j \in DOMAIN f : f[i].label = f[j].label) <=> (\A a, b \in DOMAIN g : g[a].label = g[b].label)
  OBVIOUS
<1>8. AnalyzeDomination(g, f).dominates = OneBest(g)
  BY <1>5, <1>6, <1>7 DEF OneBest
<1> QED BY <1>4, <1>8

\* The reports are those of the choices.
LEMMA ChoicesReported ==
  ASSUME NEW n, NEW R, RowsAt(R, n), NEW U, U = UniqueRegimes(R)
  PROVE  {Verified(rep.domination.dominates) : rep \in BuildCrossRegimeReports(R, U, FALSE)}
           = {Verified(OneBest(g)) : g \in BestChoices(R)}
<1> DEFINE present == {i \in DOMAIN U : FilterByRegime(R, U[i]) # {}}
           ranked == [i \in present |-> PickBest(R, U[i])]
           allBests == {f \in [present -> UNION {ranked[i] : i \in present}] :
                          \A i \in present : f[i] \in ranked[i]}
           Rep(f) == ReportOf(BestPerRegime(U, f), AnalyzeDomination(BestPerRegime(U, f), f), R, FALSE)
<1>1. BuildCrossRegimeReports(R, U, FALSE) = {Rep(f) : f \in allBests}
  BY DEF BuildCrossRegimeReports
<1>2. \A f : Rep(f).domination = AnalyzeDomination(BestPerRegime(U, f), f)
  BY DEF ReportOf
<1>3. /\ \A i \in DOMAIN U : i \in Int /\ U[i] \in RegimesOf(R) /\ FilterByRegime(R, U[i]) # {}
      /\ \A i, j \in DOMAIN U : U[i] = U[j] => i = j
      /\ \A rg \in RegimesOf(R) : \E i \in DOMAIN U : U[i] = rg
  BY UniqueOnce
<1>4. present = DOMAIN U
  BY <1>3
<1>5. RegimesOf(R) = {U[i] : i \in DOMAIN U}
  BY <1>3
<1>6. \A i \in DOMAIN U : ranked[i] = PickBest(R, U[i])
  BY <1>4
<1> HIDE DEF Rep, present, ranked
<1>7. ASSUME NEW f \in allBests PROVE \E g \in BestChoices(R) : Rep(f).domination.dominates = OneBest(g)
  <2> DEFINE at(rg) == CHOOSE i \in DOMAIN U : U[i] = rg
             g == [rg \in RegimesOf(R) |-> f[at(rg)]]
  <2>1. DOMAIN f = DOMAIN U /\ \A i \in DOMAIN U : f[i] \in PickBest(R, U[i])
    BY <1>4, <1>6
  <2>2. \A i \in DOMAIN U : at(U[i]) = i
    BY <1>3
  <2>3. \A rg \in RegimesOf(R) : at(rg) \in DOMAIN U /\ U[at(rg)] = rg
    BY <1>3
  <2> HIDE DEF at
  <2>4. \A i \in DOMAIN U : g[U[i]] = f[i]
    BY <1>3, <2>2
  <2>5. \A rg \in RegimesOf(R) : g[rg] \in PickBest(R, rg)
    BY <2>1, <2>3
  <2>6. DOMAIN g = RegimesOf(R) /\ g = [rg \in DOMAIN g |-> g[rg]]
    OBVIOUS
  <2>7. g \in BestChoices(R)
    BY <2>5, <2>6 DEF BestChoices
  <2> HIDE DEF g, allBests
  <2>8. BestPerRegime(U, f) = g /\ AnalyzeDomination(g, f).dominates = OneBest(g)
    BY <1>3, <1>5, <2>1, <2>4, <2>6, BestMap
  <2> QED BY <1>2, <2>7, <2>8
<1>8. ASSUME NEW g \in BestChoices(R) PROVE \E f \in allBests : Rep(f).domination.dominates = OneBest(g)
  <2> DEFINE f == [i \in DOMAIN U |-> g[U[i]]]
  <2>1. /\ DOMAIN g = RegimesOf(R) /\ g = [rg \in DOMAIN g |-> g[rg]]
        /\ \A rg \in RegimesOf(R) : g[rg] \in PickBest(R, rg)
    BY DEF BestChoices
  <2>2. /\ DOMAIN f = DOMAIN U /\ \A i \in DOMAIN U : g[U[i]] = f[i]
        /\ \A i \in DOMAIN U : f[i] \in PickBest(R, U[i])
    BY <1>3, <2>1
  <2>3. f \in allBests
    BY <1>4, <1>6, <2>2
  <2> HIDE DEF f, allBests
  <2>4. BestPerRegime(U, f) = g /\ AnalyzeDomination(g, f).dominates = OneBest(g)
    BY <1>3, <1>5, <2>1, <2>2, BestMap
  <2> QED BY <1>2, <2>3, <2>4
<1> HIDE DEF allBests
<1>9. \A rep \in BuildCrossRegimeReports(R, U, FALSE) :
        \E g \in BestChoices(R) : rep.domination.dominates = OneBest(g)
  BY <1>1, <1>7
<1>10. \A g \in BestChoices(R) :
         \E rep \in BuildCrossRegimeReports(R, U, FALSE) : rep.domination.dominates = OneBest(g)
  BY <1>1, <1>8
<1> QED BY <1>9, <1>10

\* Rows with the same best configurations in the same regimes say the same of dominance.
LEMMA SameDominance ==
  ASSUME NEW n, NEW R, NEW Q, RowsAt(R, n), RowsAt(Q, n), \A rg : PickBest(Q, rg) = PickBest(R, rg)
  PROVE  BestChoices(Q) = BestChoices(R)
<1>1. \A rg : rg \in RegimesOf(R) <=> FilterByRegime(R, rg) # {}
  BY DEF RegimesOf, FilterByRegime
<1>2. \A rg : rg \in RegimesOf(Q) <=> FilterByRegime(Q, rg) # {}
  BY DEF RegimesOf, FilterByRegime
<1>3. \A rg : PickBest(R, rg) # {} <=> FilterByRegime(R, rg) # {}
  BY BestExists
<1>4. \A rg : PickBest(Q, rg) # {} <=> FilterByRegime(Q, rg) # {}
  BY BestExists
<1>5. RegimesOf(Q) = RegimesOf(R)
  BY <1>1, <1>2, <1>3, <1>4
<1> QED BY <1>5 DEF BestChoices

\* Dominance stands while the rows that stood stay and none comes among the best or in their place.
LEMMA DominanceHolds ==
  ASSUME NEW n, NEW es, NEW new, Fits(es, n), Fits(new, n), Agree(es, new)
  PROVE  DominanceStands(es, new, DOMAIN es \ DOMAIN new, DOMAIN new \ DOMAIN es)
<1> DEFINE R == RegimeRows(es)
           Q == RegimeRows(new)
<1> SUFFICES ASSUME \A i \in DOMAIN es \ DOMAIN new : ~StandsFor(es, i),
                    \A i \in DOMAIN new \ DOMAIN es :
                      StandsFor(new, i) => /\ RankedOf(RowOf(new[i])) \notin PickBest(Q, new[i].regime)
                                           /\ \A b \in PickBest(R, new[i].regime) : b.label # new[i].label
             PROVE  DeriveDominance(new) = DeriveDominance(es)
  BY DEF DominanceStands
<1>1. ShowsListing(R, es)
  BY RowPlaces
<1>2. ShowsListing(Q, new)
  BY RowPlaces
<1>3. /\ \A i : StandsFor(es, i) <=> es[i].regime # "" /\ -i \in ByConfig(R, es[i].regime)
      /\ \A i : StandsFor(new, i) <=> new[i].regime # "" /\ -i \in ByConfig(Q, new[i].regime)
  BY DEF StandsFor
<1>4. /\ DeriveDominance(es) = {Verified(rep.domination.dominates) :
                                  rep \in BuildCrossRegimeReports(R, UniqueRegimes(R), FALSE)}
      /\ DeriveDominance(new) = {Verified(rep.domination.dominates) :
                                   rep \in BuildCrossRegimeReports(Q, UniqueRegimes(Q), FALSE)}
  BY DEF DeriveDominance, Verified
<1> HIDE DEF R, Q
<1>5. RowsAt(R, n)
  BY <1>1, ListingRows
<1>6. RowsAt(Q, n)
  BY <1>2, ListingRows
<1>7. \A p \in DOMAIN R : /\ p \in Int /\ -(-p) = p /\ -p \in DOMAIN es /\ es[-p].regime # ""
                          /\ R[p] = RowOf(es[-p]) /\ R[p].regime = es[-p].regime /\ R[p].label = es[-p].label
  BY <1>1, <1>5 DEF ShowsListing, RowsAt
<1>8. \A p \in DOMAIN Q : /\ p \in Int /\ -(-p) = p /\ -p \in DOMAIN new /\ new[-p].regime # ""
                          /\ Q[p] = RowOf(new[-p]) /\ Q[p].regime = new[-p].regime /\ Q[p].label = new[-p].label
  BY <1>2, <1>6 DEF ShowsListing, RowsAt
<1>9. \A i \in DOMAIN es : es[i].regime # "" => -i \in DOMAIN R
  BY <1>1 DEF ShowsListing
<1>10. \A i \in DOMAIN new : new[i].regime # "" => -i \in DOMAIN Q
  BY <1>2 DEF ShowsListing
<1>11. \A i \in DOMAIN es : i \in DOMAIN new => new[i] = es[i]
  BY DEF Agree
<1>12. ASSUME NEW rg PROVE KeepsBest(R, Q, rg)
  <2>1. ASSUME NEW p \in DOMAIN R \cap DOMAIN Q PROVE Q[p] = R[p]
    <3>1. -p \in DOMAIN es /\ R[p] = RowOf(es[-p])
      BY <1>7
    <3>2. -p \in DOMAIN new /\ Q[p] = RowOf(new[-p])
      BY <1>8
    <3>3. new[-p] = es[-p]
      BY <1>11, <3>1, <3>2
    <3> QED BY <3>1, <3>2, <3>3
  <2>2. ASSUME NEW p \in ByConfig(R, rg) PROVE p \in DOMAIN Q
    <3>1. p \in DOMAIN R /\ R[p].regime = rg
      BY DEF ByConfig, FilterByRegime
    <3>2. PICK i \in DOMAIN es : i = -p /\ -i = p /\ es[i].regime # "" /\ es[i].regime = rg
      BY <1>7, <3>1
    <3>3. StandsFor(es, i)
      BY <1>3, <3>2
    <3>4. i \in DOMAIN new /\ new[i].regime # ""
      BY <1>11, <3>2, <3>3
    <3> QED BY <1>10, <3>2, <3>4
  <2>3. ASSUME NEW p \in ByConfig(Q, rg), p \notin DOMAIN R
        PROVE  /\ RankedOf(Q[p]) \notin PickBest(Q, rg)
               /\ \A b \in PickBest(R, rg) : b.label # Q[p].label
    <3>1. p \in DOMAIN Q /\ Q[p].regime = rg
      BY DEF ByConfig, FilterByRegime
    <3>2. PICK i \in DOMAIN new : /\ i = -p /\ -i = p /\ new[i].regime # "" /\ new[i].regime = rg
                                  /\ Q[p] = RowOf(new[i]) /\ Q[p].label = new[i].label
      BY <1>8, <3>1
    <3>3. i \notin DOMAIN es
      BY <1>9, <1>11, <2>3, <3>2
    <3>4. StandsFor(new, i)
      BY <1>3, <3>2
    <3> QED BY <3>2, <3>3, <3>4
  <2> QED BY <2>1, <2>2, <2>3 DEF KeepsBest
<1>13. \A rg : PickBest(Q, rg) = PickBest(R, rg)
  BY <1>5, <1>6, <1>12, SameBests
<1>14. BestChoices(Q) = BestChoices(R)
  BY <1>5, <1>6, <1>13, SameDominance
<1>15. DeriveDominance(es) = {Verified(OneBest(g)) : g \in BestChoices(R)}
  BY <1>4, <1>5, ChoicesReported
<1>16. DeriveDominance(new) = {Verified(OneBest(g)) : g \in BestChoices(Q)}
  BY <1>4, <1>6, ChoicesReported
<1> QED BY <1>14, <1>15, <1>16

\* Delivery accounting stands while an experiment that accounted is listed.
LEMMA AccountingHolds ==
  ASSUME NEW es, NEW new, Agree(es, new)
  PROVE  AccountingStands(es, new, DOMAIN es \ DOMAIN new)
<1> SUFFICES ASSUME Falls(DeriveDeliveryAccounting(new), DeriveDeliveryAccounting(es)),
                    NEW i \in DOMAIN es, Accounts(es[i]), i \in DOMAIN new
             PROVE  FALSE
  BY DEF AccountingStands
<1>1. new[i] = es[i]
  BY DEF Agree
<1>2. DeriveDeliveryAccounting(new) = "VERIFIED"
  BY <1>1 DEF DeriveDeliveryAccounting
<1> QED BY <1>2, FallMeans

\* The listing of a store of summarised experiments is one the lemmas are about.
LEMMA ListingFits ==
  ASSUME NEW store \in Seq(Experiments), NEW n \in Nat, Len(store) <= n,
         \A i \in DOMAIN store : store[i].status \in {"completed", "partial"} => Summarised(store[i])
  PROVE  Fits(ListCompleted(store), n)
<1> DEFINE es == ListCompleted(store)
<1>1. \A i \in DOMAIN es : i \in DOMAIN store /\ store[i].status = "completed" /\ es[i] = store[i]
  BY DEF ListCompleted
<1> HIDE DEF es
<1>2. DOMAIN store = 1..Len(store) /\ Len(store) \in Nat /\ \A i \in DOMAIN store : store[i] \in Experiments
  BY LenProperties, ElementOfSeq
<1>3. ASSUME NEW i \in DOMAIN es PROVE es[i].agg.reps \in Nat /\ RowOf(es[i]).thr \in Nat
  <2>1. es[i] \in Experiments /\ Summarised(es[i])
    BY <1>1, <1>2
  <2>2. Measures(es[i])
    BY <2>1, SummarisedMeasures
  <2>3. es[i].agg \in Aggregates
    BY <2>2 DEF Measures
  <2>4. es[i].agg.metrics["rate"].mean = NA \/ es[i].agg.metrics["rate"].mean \in Nat
    BY <2>2 DEF Measures, AggregateKeys
  <2>5. RowOf(es[i]).thr = IF es[i].agg.metrics["rate"].mean = NA THEN 0 ELSE es[i].agg.metrics["rate"].mean
    BY DEF RowOf
  <2> QED BY <2>3, <2>4, <2>5 DEF Aggregates
<1>4. DOMAIN es \subseteq 1..n
  BY <1>1, <1>2
<1> QED BY <1>3, <1>4 DEF Fits, es

\* A step leaves what stays in the listing as it was.
LEMMA ListingChanges ==
  ASSUME LabInv, LabInv', [AnalysisNext]_labVars
  PROVE  /\ Fits(ListCompleted(lab), Len(lab')) /\ Fits(ListCompleted(lab'), Len(lab'))
         /\ Agree(ListCompleted(lab), ListCompleted(lab'))
<1>1. /\ lab \in Seq(Experiments) /\ Len(lab) \in Nat /\ DOMAIN lab = 1..Len(lab)
      /\ \A i \in DOMAIN lab : lab[i].status \in {"completed", "partial"} => Summarised(lab[i])
  BY LabRecords
<1>2. /\ lab' \in Seq(Experiments)
      /\ \A i \in DOMAIN lab' : lab'[i].status \in {"completed", "partial"} => Summarised(lab'[i])
  BY DEF LabInv, Compared
<1>3. Len(lab') \in Nat /\ DOMAIN lab' = 1..Len(lab')
  BY <1>2, LenProperties
<1>4. /\ Len(lab) <= Len(lab')
      /\ \A j \in DOMAIN lab : lab[j].status = "completed" /\ lab'[j].status = "completed" => lab'[j] = lab[j]
  <2>1. ASSUME NEW k \in ExpKinds, CreateExperiment(k)
        PROVE  Len(lab) <= Len(lab') /\ \A j \in DOMAIN lab : lab'[j] = lab[j]
    <3> DEFINE e == [spec |-> k.spec, preset |-> k.preset, arch |-> k.arch, regime |-> k.regime,
                     label |-> k.label, status |-> "created", runs |-> <<>>,
                     agg |-> NoAggregate, result |-> NoResult]
    <3>1. lab' = Append(lab, e)
      BY <2>1 DEF CreateExperiment
    <3> HIDE DEF e
    <3>2. Len(lab') = Len(lab) + 1 /\ \A j \in 1..Len(lab) : lab'[j] = lab[j]
      BY <1>1, <3>1, AppendProperties
    <3> QED BY <1>1, <3>2
  <2>2. ASSUME NEW i \in DOMAIN lab, NEW e, lab' = [lab EXCEPT ![i] = e]
        PROVE  Len(lab) <= Len(lab') /\ lab'[i] = e /\ \A j \in DOMAIN lab : j # i => lab'[j] = lab[j]
    <3>1. DOMAIN lab' = DOMAIN lab
      BY <2>2, Zenon
    <3>2. 1..Len(lab') = 1..Len(lab) /\ Len(lab) \in Nat /\ Len(lab') \in Nat
      BY <1>1, <1>3, <3>1
    <3>3. Len(lab') = Len(lab)
      BY <3>2
    <3> QED BY <1>1, <2>2, <3>3
  <2>3. ASSUME NEW i \in DOMAIN lab, StartExperiment(i)
        PROVE  \E e : lab' = [lab EXCEPT ![i] = e] /\ e.status = "running"
    <3>1. lab[i] \in Experiments
      BY LabRecords
    <3>2. \/ lab' = [lab EXCEPT ![i] = [lab[i] EXCEPT !.status = "running", !.runs = <<>>, !.agg = NoAggregate]]
          \/ lab' = [lab EXCEPT ![i] = [lab[i] EXCEPT !.status = "running"]]
      BY <2>3 DEF StartExperiment
    <3>3. /\ [lab[i] EXCEPT !.status = "running", !.runs = <<>>, !.agg = NoAggregate].status = "running"
          /\ [lab[i] EXCEPT !.status = "running"].status = "running"
      BY <3>1 DEF Experiments
    <3> QED BY <3>2, <3>3
  <2>4. CASE \E k \in ExpKinds : CreateExperiment(k)
    BY <2>1, <2>4
  <2>5. CASE \E i \in DOMAIN lab : StartExperiment(i)
    <3>1. PICK i \in DOMAIN lab : StartExperiment(i)
      BY <2>5
    <3>2. PICK e : lab' = [lab EXCEPT ![i] = e] /\ e.status = "running"
      BY <2>3, <3>1
    <3> QED BY <2>2, <3>2
  <2>6. CASE \E i \in DOMAIN lab, ends \in RunEnds : FinalizeExperiment(i, ends)
    <3>1. PICK i \in DOMAIN lab, ends \in RunEnds : FinalizeExperiment(i, ends)
      BY <2>6
    <3>2. lab[i].status = "running" /\ \E e : lab' = [lab EXCEPT ![i] = e]
      BY <3>1, FinalizeKeeps
    <3> QED BY <2>2, <3>2
  <2>7. CASE UNCHANGED labVars
    BY <1>1, <2>7 DEF labVars
  <2> QED BY <2>4, <2>5, <2>6, <2>7 DEF AnalysisNext
<1>5. Fits(ListCompleted(lab), Len(lab')) /\ Fits(ListCompleted(lab'), Len(lab'))
  BY <1>1, <1>2, <1>3, <1>4, ListingFits
<1>6. Agree(ListCompleted(lab), ListCompleted(lab'))
  <2>1. \A store : \A i \in DOMAIN ListCompleted(store) :
          i \in DOMAIN store /\ store[i].status = "completed" /\ ListCompleted(store)[i] = store[i]
    BY DEF ListCompleted
  <2> QED BY <1>4, <2>1 DEF Agree
<1> QED BY <1>5, <1>6

\* What the evidence page has said of a claim changes only for a cause of that claim's own
\* (evidence.go, eval and deriveRepeatability to deriveDeliveryAccounting), for any listing limit,
\* any experiments and any results. The four kinds of claims with a rule of their own and delivery
\* accounting fall only with their last support; repeatability falls only when its experiment leaves
\* the listing or one with as many repetitions comes; hot rooms' tail changes only for experiments
\* of its two regimes; the dependence on regimes falls only when a regime loses its last experiment;
\* dominance changes only when a row that stood for its configuration leaves, or when one comes that
\* is among the best of its regime or in the place of one that was.
THEOREM ClaimsKeptHolds == AnalysisInit /\ [][AnalysisNext]_labVars => ClaimsKept
<1>1. LabInv /\ LabInv' /\ [AnalysisNext]_labVars => [ClaimsStand]_labVars
  <2> SUFFICES ASSUME LabInv, LabInv', [AnalysisNext]_labVars PROVE ClaimsStand
    OBVIOUS
  <2>1. PICK es, new, n : es = ListCompleted(lab) /\ new = ListCompleted(lab') /\ n = Len(lab')
    OBVIOUS
  <2>2. Fits(es, n) /\ Fits(new, n) /\ Agree(es, new)
    BY <2>1, ListingChanges
  <2>3. SeedsStand(es, new, DOMAIN es \ DOMAIN new)
    BY <2>2, SeedsHold
  <2>4. RepeatabilityStands(es, new, DOMAIN es \ DOMAIN new, DOMAIN new \ DOMAIN es)
    BY <2>2, RepeatabilityHolds
  <2>5. TailStands(es, new, DOMAIN es \ DOMAIN new, DOMAIN new \ DOMAIN es)
    BY <2>2, TailHolds
  <2>6. RegimesStand(es, new, DOMAIN es \ DOMAIN new)
    BY <2>2, RegimesHold
  <2>7. DominanceStands(es, new, DOMAIN es \ DOMAIN new, DOMAIN new \ DOMAIN es)
    BY <2>2, DominanceHolds
  <2>8. AccountingStands(es, new, DOMAIN es \ DOMAIN new)
    BY <2>2, AccountingHolds
  <2> QED BY <2>1, <2>3, <2>4, <2>5, <2>6, <2>7, <2>8 DEF ClaimsStand
<1> QED BY <1>1, LabStart, LabStep, PTL DEF ClaimsKept
=============================================================================
