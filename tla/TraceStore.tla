----------------------------- MODULE TraceStore -----------------------------
(***************************************************************************)
(* Message traces: core/trace.go, the bounded span buffer of every         *)
(* service, and ops/trace.go, which fetches the buffers again and again    *)
(* and joins the spans of a message into one trace.                        *)
(*                                                                         *)
(* A span is its message and its hop; every node here records one hop.     *)
(* Messages are numbers in the order they are sent, all of them sampled.   *)
(* traceOnce fetches from all nodes at once and its goroutines add their   *)
(* spans one by one.                                                       *)
(***************************************************************************)
EXTENDS Integers, Sequences, SequencesExt

CONSTANTS
  TraceNodes,
  TraceMsgs,     \* bound: messages 1..TraceMsgs
  RingSize,      \* TraceRecorder.size
  FetchLimit,    \* limit= of the request
  TraceMaxKept,
  MaxPasses      \* bound: calls of traceOnce

ASSUME TraceAssumption ==
  TraceMsgs \in Nat /\ RingSize \in Nat \ {0} /\ FetchLimit \in Nat /\ TraceMaxKept \in Nat \ {0}

VARIABLES
  ring, ringDropped,    \* per node: buffered messages, spans that fell out
  traceOrder, seenSpans, traceSpans,  \* traceStore: order, seen and byID
  adding,               \* per node: what its goroutine still has to add; not yet fetched: <<0>>
  passes,
  \* history
  windows,              \* per node: what the last pass fetched
  evicted               \* the last pass evicted a trace

traceVars == <<ring, ringDropped, traceOrder, seenSpans, traceSpans, adding, passes, windows, evicted>>

NotFetched == <<0>>
Messages == 1..TraceMsgs

TraceInit ==
  /\ ring = [n \in TraceNodes |-> <<>>] /\ ringDropped = [n \in TraceNodes |-> 0]
  /\ traceOrder = <<>>
  /\ seenSpans = [m \in Messages |-> {}] /\ traceSpans = [m \in Messages |-> {}]
  /\ adding = [n \in TraceNodes |-> <<>>]
  /\ passes = 0
  /\ windows = [n \in TraceNodes |-> {}] /\ evicted = FALSE

PassOver == \A n \in TraceNodes : adding[n] = <<>>

\* TraceRecorder.Record: a full buffer loses its oldest span.
RecordSpan(n) ==
  /\ LET m == ringDropped[n] + Len(ring[n]) + 1
         full == Len(ring[n]) >= RingSize
     IN /\ m \in Messages
        /\ ring' = [ring EXCEPT ![n] = Append(IF full THEN Tail(@) ELSE @, m)]
        /\ ringDropped' = [ringDropped EXCEPT ![n] = @ + (IF full THEN 1 ELSE 0)]
  /\ UNCHANGED <<traceOrder, seenSpans, traceSpans, adding, passes, windows, evicted>>

TraceOnce ==
  /\ PassOver /\ passes < MaxPasses
  /\ passes' = passes + 1
  /\ adding' = [n \in TraceNodes |-> NotFetched]
  /\ windows' = [n \in TraceNodes |-> {}] /\ evicted' = FALSE
  /\ UNCHANGED <<ring, ringDropped, traceOrder, seenSpans, traceSpans>>

Recent(n) == SubSeq(ring[n], IF Len(ring[n]) > FetchLimit THEN Len(ring[n]) - FetchLimit + 1 ELSE 1,
                    Len(ring[n]))

FetchTraces(n) ==
  /\ adding[n] = NotFetched
  /\ adding' = [adding EXCEPT ![n] = Recent(n)]
  /\ windows' = [windows EXCEPT ![n] = Range(Recent(n))]
  /\ UNCHANGED <<ring, ringDropped, traceOrder, seenSpans, traceSpans, passes, evicted>>

\* Unreachable instances are skipped.
FetchFails(n) ==
  /\ adding[n] = NotFetched
  /\ adding' = [adding EXCEPT ![n] = <<>>]
  /\ UNCHANGED <<ring, ringDropped, traceOrder, seenSpans, traceSpans, passes, windows, evicted>>

\* Mutant: the trace goes, what was seen of it stays.
EvictHalf(out, seen) == seen

\* An evicted message is forgotten entirely.
Evict(out, seen) == IF out = 0 THEN seen ELSE [seen EXCEPT ![out] = {}]

\* traceStore.add
AddSpan(n) ==
  /\ adding[n] \notin {<<>>, NotFetched}
  /\ LET m == Head(adding[n])
         new == seenSpans[m] = {}
         full == new /\ Len(traceOrder) = TraceMaxKept
         out == IF full THEN Head(traceOrder) ELSE 0
         listed == ~new => \E i \in DOMAIN traceOrder : traceOrder[i] = m
         Joined(f) == IF n \in seenSpans[m] \/ ~listed THEN f ELSE [f EXCEPT ![m] = @ \cup {n}]
     IN /\ traceOrder' = IF new THEN Append(IF full THEN Tail(traceOrder) ELSE traceOrder, m)
                         ELSE traceOrder
        /\ seenSpans' = [Evict(out, seenSpans) EXCEPT ![m] = @ \cup {n}]
        /\ traceSpans' = Joined(IF full THEN [traceSpans EXCEPT ![out] = {}] ELSE traceSpans)
        /\ evicted' = (evicted \/ full)
  /\ adding' = [adding EXCEPT ![n] = Tail(@)]
  /\ UNCHANGED <<ring, ringDropped, passes, windows>>

TraceNext ==
  \/ \E n \in TraceNodes : RecordSpan(n) \/ FetchTraces(n) \/ FetchFails(n) \/ AddSpan(n)
  \/ TraceOnce

----------------------------------------------------------------------------
(* Properties                                                              *)

\* HopsJoined: after a pass that had room for every message it met, each of these is listed with
\* every hop that was fetched, whatever earlier passes evicted and however the goroutines of the
\* pass interleave (traceStore.add).
HopsJoined ==
  PassOver /\ ~evicted =>
    \A n \in TraceNodes : \A m \in windows[n] : m \in Range(traceOrder) /\ n \in traceSpans[m]

\* MissingMeansAbsent: what ops/trace.go:28 says of a trace with a missing hop: the message did not
\* get there, or its span was not in the window that was fetched.
MissingMeansAbsent ==
  PassOver => \A m \in Range(traceOrder), n \in TraceNodes : n \in traceSpans[m] \/ m \notin windows[n]

----------------------------------------------------------------------------
(* The inductive invariant behind HopsJoined                               *)

TraceTypes ==
  /\ ring \in [TraceNodes -> Seq(Messages)]
  /\ traceOrder \in Seq(Messages)
  /\ seenSpans \in [Messages -> SUBSET TraceNodes]
  /\ adding \in [TraceNodes -> Seq(Messages) \cup {NotFetched}]
  /\ windows \in [TraceNodes -> SUBSET Messages]
  /\ evicted \in BOOLEAN

\* A message is listed once, exactly when some span of it was seen; every span seen was joined.
StoreSound ==
  /\ \A i, j \in DOMAIN traceOrder : traceOrder[i] = traceOrder[j] => i = j
  /\ \A m \in Messages : seenSpans[m] # {} <=> m \in Range(traceOrder)
  /\ traceSpans = seenSpans

\* What a goroutine of the pass has fetched it has added, or is about to.
PassSound ==
  ~evicted => \A n \in TraceNodes :
    /\ adding[n] = NotFetched => windows[n] = {}
    /\ adding[n] # NotFetched => \A m \in windows[n] : m \in Range(adding[n]) \/ n \in seenSpans[m]

TraceInv == TraceTypes /\ StoreSound /\ PassSound
=============================================================================
