--------------------------- MODULE StorageConsumer ---------------------------
(***************************************************************************)
(* monolith/consumer: the Kafka consumer group "danmu-storage" that writes *)
(* danmu to ClickHouse and commits offsets afterwards.  A fetch goroutine  *)
(* feeds msgCh; the main loop owns batch/pending and flushes on size, on a *)
(* ticker and on shutdown.  A record is <<partition, offset>>; what is in  *)
(* it matters only as decodable or not (Poison).  The process may crash    *)
(* and be restarted; ClickHouse and the broker may fail any call.          *)
(***************************************************************************)
EXTENDS Integers, Sequences, FiniteSets, FiniteSetsExt, Functions

CONSTANTS
  Partitions,
  LogLen,     \* records per partition
  Poison,     \* the records json.Unmarshal rejects
  ChanCap,    \* capacity of msgCh (2000 in the code)
  BatchMax,   \* flush threshold (1000 in the code)
  MaxFaults,  \* bound on crashes, failed commits and ambiguous inserts together
  MaxStops,   \* bound on termination signals
  None

ASSUME BoundsAssumption ==
  /\ LogLen \in Nat /\ ChanCap \in Nat \ {0} /\ BatchMax \in Nat \ {0} /\ MaxFaults \in Nat /\ MaxStops \in Nat
  /\ None \notin Partitions \X (1..LogLen)

VARIABLES
  committed,  \* the group's offset at the broker: records 1..committed[p] are not redelivered
  fetched,    \* the reader's position
  fetching,   \* the fetch goroutine has not returned
  hand,       \* the record between FetchMessage and msgCh
  msgCh,
  pending,    \* batch and pending, which correspond one to one
  pc,         \* main loop: "select", "flush", "commit", "poison", "stopped"; "down" after a crash
  bad,        \* the poison record being committed
  ctxDone,    \* the signal handler has cancelled ctx
  last,       \* the loop has seen ctx.Done: this flush is its last
  rows,       \* number of rows of each record in ClickHouse
  faults,     \* crashes, failed commits, ambiguous inserts so far
  stops,      \* signals so far
  base        \* history: committed when this process started

vars == <<committed, fetched, fetching, hand, msgCh, pending, pc, bad, ctxDone, last, rows, faults, stops, base>>

Records == Partitions \X (1..LogLen)
Offsets(s, p) == {r[2] : r \in {x \in Range(s) : x[1] = p}}

Init ==
  /\ committed = [p \in Partitions |-> 0]
  /\ fetched = committed /\ base = committed
  /\ fetching = TRUE /\ hand = None /\ msgCh = <<>> /\ pending = <<>> /\ bad = None
  /\ pc = "select"
  /\ ctxDone = FALSE /\ last = FALSE
  /\ rows = [r \in Records |-> 0]
  /\ faults = 0 /\ stops = 0

Running == pc \notin {"stopped", "down"}

\* A commit may fail at the cost of a fault; once ctx is cancelled it fails
\* for free, because flush passes that same ctx to CommitMessages.
CommitMayFail ==
  IF ctxDone THEN UNCHANGED faults ELSE faults < MaxFaults /\ faults' = faults + 1

\* reader.CommitMessages: per partition the offset of the last record passed,
\* whatever was committed before.
CommitMessages(s) ==
  committed' = [p \in Partitions |->
                  IF Offsets(s, p) = {} THEN committed[p] ELSE Max(Offsets(s, p))]

-----------------------------------------------------------------------------
(* The fetch goroutine *)

FetchMessage(p) ==
  /\ Running /\ fetching
  /\ hand = None
  /\ fetched[p] < LogLen
  /\ hand' = <<p, fetched[p] + 1>>
  /\ fetched' = [fetched EXCEPT ![p] = @ + 1]
  /\ UNCHANGED <<committed, fetching, msgCh, pending, pc, bad, ctxDone, last, rows, faults, stops, base>>

\* select { case msgCh <- m: ... }; the send blocks while the channel is full.
SendMsgCh ==
  /\ Running
  /\ hand # None
  /\ Len(msgCh) < ChanCap
  /\ msgCh' = Append(msgCh, hand)
  /\ hand' = None
  /\ UNCHANGED <<committed, fetched, fetching, pending, pc, bad, ctxDone, last, rows, faults, stops, base>>

\* ... case <-ctx.Done(), or FetchMessage fails because ctx is cancelled: the
\* goroutine returns, with the record in hand if it has one.
FetchReturn ==
  /\ Running /\ fetching /\ ctxDone
  /\ fetching' = FALSE
  /\ hand' = None
  /\ UNCHANGED <<committed, fetched, msgCh, pending, pc, bad, ctxDone, last, rows, faults, stops, base>>

-----------------------------------------------------------------------------
(* The main loop *)

AfterAppend(s) == IF Len(s) >= BatchMax THEN "flush" ELSE "select"

\* case m := <-msgCh, decodable: append, flush when the batch is full.
Receive ==
  /\ pc = "select"
  /\ msgCh # <<>> /\ Head(msgCh) \notin Poison
  /\ msgCh' = Tail(msgCh)
  /\ pending' = Append(pending, Head(msgCh))
  /\ pc' = AfterAppend(pending')
  /\ UNCHANGED <<committed, fetched, fetching, hand, bad, ctxDone, last, rows, faults, stops, base>>

\* case m := <-msgCh, undecodable: commit it alone, at once.
ReceivePoison ==
  /\ pc = "select"
  /\ msgCh # <<>> /\ Head(msgCh) \in Poison
  /\ msgCh' = Tail(msgCh)
  /\ bad' = Head(msgCh)
  /\ pc' = "poison"
  /\ UNCHANGED <<committed, fetched, fetching, hand, pending, ctxDone, last, rows, faults, stops, base>>

CommitPoison ==
  /\ pc = "poison"
  /\ CommitMessages(<<bad>>)
  /\ bad' = None /\ pc' = "select"
  /\ UNCHANGED <<fetched, fetching, hand, msgCh, pending, ctxDone, last, rows, faults, stops, base>>

CommitPoisonFails ==
  /\ pc = "poison"
  /\ CommitMayFail
  /\ bad' = None /\ pc' = "select"
  /\ UNCHANGED <<committed, fetched, fetching, hand, msgCh, pending, ctxDone, last, rows, stops, base>>

\* case <-ticker.C
Tick ==
  /\ pc = "select"
  /\ pending # <<>>
  /\ pc' = "flush"
  /\ UNCHANGED <<committed, fetched, fetching, hand, msgCh, pending, bad, ctxDone, last, rows, faults, stops, base>>

\* case <-ctx.Done(): the last flush; an empty batch stops at once.
SeeCtxDone ==
  /\ pc = "select" /\ ctxDone
  /\ pc' = IF pending = <<>> THEN "stopped" ELSE "flush"
  /\ last' = TRUE
  /\ UNCHANGED <<committed, fetched, fetching, hand, msgCh, pending, bad, ctxDone, rows, faults, stops, base>>

\* Where flush returns to.
AfterFlush == IF last THEN "stopped" ELSE "select"

AddRows == rows' = [r \in Records |->
                      rows[r] + Cardinality({i \in DOMAIN pending : pending[i] = r})]

\* flush: BatchInsert succeeds, the commit is next.
Insert ==
  /\ pc = "flush"
  /\ AddRows
  /\ pc' = "commit"
  /\ UNCHANGED <<committed, fetched, fetching, hand, msgCh, pending, bad, ctxDone, last, faults, stops, base>>

\* Mutant: the batch is dropped although the insert failed.
InsertFailsDrop ==
  /\ pc = "flush"
  /\ pending' = <<>>
  /\ pc' = AfterFlush
  /\ UNCHANGED <<committed, fetched, fetching, hand, msgCh, bad, ctxDone, last, rows, faults, stops, base>>

\* Mutant: no return after the insert error.
InsertFailsCommit ==
  /\ pc = "flush"
  /\ pc' = "commit"
  /\ UNCHANGED <<committed, fetched, fetching, hand, msgCh, pending, bad, ctxDone, last, rows, faults, stops, base>>

\* flush: BatchInsert fails, the batch is kept for the next flush.
InsertFails ==
  /\ pc = "flush"
  /\ pc' = AfterFlush
  /\ UNCHANGED <<committed, fetched, fetching, hand, msgCh, pending, bad, ctxDone, last, rows, faults, stops, base>>

\* flush: the transaction commits and its acknowledgement is lost.
InsertAmbiguous ==
  /\ pc = "flush"
  /\ faults < MaxFaults /\ faults' = faults + 1
  /\ AddRows
  /\ pc' = AfterFlush
  /\ UNCHANGED <<committed, fetched, fetching, hand, msgCh, pending, bad, ctxDone, last, stops, base>>

\* Mutant: the batch is not cleared after a successful commit.
CommitPendingKeep ==
  /\ pc = "commit"
  /\ CommitMessages(pending)
  /\ pc' = AfterFlush
  /\ UNCHANGED <<fetched, fetching, hand, msgCh, pending, bad, ctxDone, last, rows, faults, stops, base>>

CommitPending ==
  /\ pc = "commit"
  /\ CommitMessages(pending)
  /\ pending' = <<>>
  /\ pc' = AfterFlush
  /\ UNCHANGED <<fetched, fetching, hand, msgCh, bad, ctxDone, last, rows, faults, stops, base>>

\* The commit fails; the batch is cleared all the same.
CommitPendingFails ==
  /\ pc = "commit"
  /\ CommitMayFail
  /\ pending' = <<>>
  /\ pc' = AfterFlush
  /\ UNCHANGED <<committed, fetched, fetching, hand, msgCh, bad, ctxDone, last, rows, stops, base>>

-----------------------------------------------------------------------------
(* The process *)

Signal ==
  /\ Running /\ ~ctxDone
  /\ stops < MaxStops /\ stops' = stops + 1
  /\ ctxDone' = TRUE
  /\ UNCHANGED <<committed, fetched, fetching, hand, msgCh, pending, pc, bad, last, rows, faults, base>>

Crash ==
  /\ Running
  /\ faults < MaxFaults /\ faults' = faults + 1
  /\ pc' = "down"
  /\ UNCHANGED <<committed, fetched, fetching, hand, msgCh, pending, bad, ctxDone, last, rows, stops, base>>

\* A new process resumes from the group's committed offsets.
Restart ==
  /\ ~Running
  /\ fetched' = committed /\ base' = committed
  /\ fetching' = TRUE /\ hand' = None /\ msgCh' = <<>> /\ pending' = <<>> /\ bad' = None
  /\ pc' = "select" /\ ctxDone' = FALSE /\ last' = FALSE
  /\ UNCHANGED <<committed, rows, faults, stops>>

Next ==
  \/ \E p \in Partitions : FetchMessage(p)
  \/ SendMsgCh \/ FetchReturn
  \/ Receive \/ ReceivePoison \/ CommitPoison \/ CommitPoisonFails \/ Tick \/ SeeCtxDone
  \/ Insert \/ InsertFails \/ InsertAmbiguous \/ CommitPending \/ CommitPendingFails
  \/ Signal \/ Crash \/ Restart

Spec == Init /\ [][Next]_vars

\* The goroutines run, the ticker ticks, a supervisor restarts the process,
\* and ClickHouse does not reject every flush for ever.
Fairness ==
  /\ \A p \in Partitions : WF_vars(FetchMessage(p))
  /\ WF_vars(SendMsgCh) /\ WF_vars(Receive \/ ReceivePoison)
  /\ WF_vars(CommitPoison) /\ WF_vars(CommitPending)
  /\ SF_vars(Tick) /\ SF_vars(Insert)
  /\ WF_vars(SeeCtxDone) /\ WF_vars(Restart)

FairSpec == Spec /\ Fairness

-----------------------------------------------------------------------------
(* Properties *)

\* Every variable has its type and the buffers respect their bounds.
TypeOK ==
  /\ committed \in [Partitions -> 0..LogLen]
  /\ fetched \in [Partitions -> 0..LogLen]
  /\ base \in [Partitions -> 0..LogLen]
  /\ hand \in Records \cup {None} /\ bad \in Records \cup {None}
  /\ msgCh \in Seq(Records) /\ Len(msgCh) <= ChanCap
  /\ pending \in Seq(Records)
  /\ pc \in {"select", "flush", "commit", "poison", "stopped", "down"}
  /\ fetching \in BOOLEAN /\ ctxDone \in BOOLEAN /\ last \in BOOLEAN
  /\ rows \in [Records -> Nat]
  /\ faults \in 0..MaxFaults /\ stops \in 0..MaxStops

InMemory(r) == r = hand \/ r \in Range(msgCh) \/ r \in Range(pending)

\* A committed offset never passes a record that is not in ClickHouse: "offset
\* must be committed only after ClickHouse has stored it" (main.go 77-79).
CommittedIsStored ==
  \A p \in Partitions, o \in 1..LogLen :
    o <= committed[p] /\ <<p, o>> \notin Poison => rows[<<p, o>>] > 0

\* A later record of the partition was undecodable and committed at once.
Overtaken(p, o) == \E q \in (o + 1)..committed[p] : <<p, q>> \in Poison

\* CommittedIsStored but for the one way the code breaks it: through crashes,
\* failed inserts, ambiguous inserts, failed commits and an orderly stop, the
\* commit of a poison record is all that can pass an unstored record.
CommittedUnlessOvertaken ==
  \A p \in Partitions, o \in 1..LogLen :
    o <= committed[p] /\ <<p, o>> \notin Poison => rows[<<p, o>>] > 0 \/ Overtaken(p, o)

\* While the process runs, a decodable record it has fetched is in ClickHouse
\* or still in one of its buffers: a failed insert or a failed commit drops nothing.
NothingDropped ==
  Running /\ ~ctxDone =>
    \A p \in Partitions : \A o \in (base[p] + 1)..fetched[p] :
      <<p, o>> \notin Poison => rows[<<p, o>>] > 0 \/ InMemory(<<p, o>>)

\* Duplicate rows are explained: a crash, a failed commit or an ambiguous
\* insert adds at most one row per record, and so does an orderly stop, whose
\* last commit runs under the cancelled ctx (main.go 116-117, 127, 140).
DuplicatesExplained == \A r \in Records : rows[r] <= 1 + faults + stops

\* The consumer's account of its records: a fetched record is stored or still held, and a
\* row too many has a fault or a stop to explain it (main.go 92-160).
RowsExplained == NothingDropped /\ DuplicatesExplained

\* Every decodable record that no poison commit overtook reaches ClickHouse in
\* the end, across crashes, restarts and failed inserts (at-least-once, main.go 79).
EventuallyStored ==
  <>(\A p \in Partitions, o \in 1..LogLen :
       <<p, o>> \notin Poison => rows[<<p, o>>] > 0 \/ Overtaken(p, o))

-----------------------------------------------------------------------------
(* The inductive invariants behind CommittedUnlessOvertaken and            *)
(* RowsExplained                                                           *)

\* A record passes hand, msgCh and pending in the order of its partition.
InOrder(s) == \A i, j \in DOMAIN s : i < j /\ s[i][1] = s[j][1] => s[i][2] < s[j][2]

PathInOrder ==
  /\ InOrder(msgCh) /\ InOrder(pending)
  /\ \A x \in Range(pending), y \in Range(msgCh) : x[1] = y[1] => x[2] < y[2]
  /\ \A x \in Range(pending) \cup Range(msgCh) : base[x[1]] < x[2] /\ x[2] <= fetched[x[1]]
  /\ hand # None =>
       /\ hand[2] = fetched[hand[1]] /\ base[hand[1]] < hand[2]
       /\ \A x \in Range(pending) \cup Range(msgCh) : x[1] = hand[1] => x[2] < hand[2]
  /\ \A p \in Partitions : base[p] <= fetched[p]

\* What a process has fetched is stored or held; only the record in hand when ctx ends may be lost.
FetchedKept ==
  \A p \in Partitions : \A o \in (base[p] + 1)..fetched[p] :
    \/ <<p, o>> \in Poison \/ rows[<<p, o>>] > 0 \/ InMemory(<<p, o>>)
    \/ ~fetching /\ o = fetched[p]

\* What the process found committed was stored or overtaken.
BaseSound ==
  \A p \in Partitions, o \in 1..LogLen :
    o <= base[p] /\ <<p, o>> \notin Poison =>
      rows[<<p, o>>] > 0 \/ \E q \in (o + 1)..base[p] : <<p, q>> \in Poison

\* The loop is where its locals say it is.
LoopState ==
  /\ pc = "commit" => \A x \in Range(pending) : rows[x] > 0
  /\ pc = "poison" => bad \in Records \cap Poison
  /\ Running /\ ~ctxDone => fetching
  /\ last \/ pc = "stopped" => ctxDone

ConsumerInv ==
  TypeOK /\ PathInOrder /\ FetchedKept /\ BaseSound /\ LoopState /\ CommittedUnlessOvertaken

\* A process that runs inserts r once more without another fault.
Due(r) ==
  \/ r[2] > fetched[r[1]] \/ r = hand \/ r \in Range(msgCh)
  \/ pc # "commit" /\ r \in Range(pending)

\* A signal pays for the row its process adds, a crash for the rows of the next process.
RowsPaid ==
  \A r \in Records :
    rows[r] + (IF ctxDone THEN 1 ELSE 0) + (IF pc = "down" \/ (pc # "stopped" /\ Due(r)) THEN 1 ELSE 0)
      <= 1 + faults + stops
=============================================================================
