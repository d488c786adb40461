------------------------------ MODULE HistRing ------------------------------
(***************************************************************************)
(* The ring buffer of one room's hot history (monolith/server/roomhist.go, *)
(* type histRoom): entries is the backing slice, which reset keeps at its  *)
(* old length; head is the oldest slot once the ring is full.  Slots count *)
(* from 0 in the code and in head, from 1 in the sequence.  stale stands   *)
(* for lastAt: the TTL has passed since the last append.                   *)
(***************************************************************************)
EXTENDS Naturals, Sequences, SequencesExt

CONSTANT HistMax    \* entries a room keeps

ASSUME HistMaxAssumption == HistMax \in Nat \ {0}

NewRing == [entries |-> <<>>, head |-> 0, count |-> 0, lastSeq |-> 0, stale |-> FALSE]

Reset(r) == [r EXCEPT !.head = 0, !.count = 0, !.lastSeq = 0]

Expired(r) == r.count > 0 /\ r.stale

\* One message of AppendBatch; Seq 0 marks an unnumbered one.
Push(r, e) ==
  LET full == r.count >= HistMax
      slot == IF full THEN r.head ELSE r.count
  IN  IF e.seq = 0 THEN r
      ELSE [r EXCEPT !.entries = IF slot = Len(@) THEN Append(@, e)
                                 ELSE [@ EXCEPT ![slot + 1] = e],
                     !.head    = IF full THEN (@ + 1) % HistMax ELSE @,
                     !.count   = IF full THEN @ ELSE @ + 1,
                     !.lastSeq = IF e.seq > @ THEN e.seq ELSE @]

\* AppendBatch once it holds the histRoom's lock.
PushAll(r, batch) ==
  LET pushed[n \in 0..Len(batch)] ==
        IF n = 0 THEN IF Expired(r) THEN Reset(r) ELSE r ELSE Push(pushed[n - 1], batch[n])
  IN [pushed[Len(batch)] EXCEPT !.stale = FALSE]

\* What ReplayFrom walks over, oldest first.
Contents(r) == [i \in 1..r.count |-> r.entries[((r.head + i - 1) % HistMax) + 1]]

\* ReplayFrom's selection: handleReconnect asks for at most HistMax, never a cut.
ReplayAfter(r, after) ==
  IF Expired(r) THEN {} ELSE {e \in ToSet(Contents(r)) : e.seq > after}

Rings(S) == [entries : Seq(S), head : Nat, count : Nat, lastSeq : Nat, stale : BOOLEAN]

\* A ring of entries of S: its slots lie in the slice, and the oldest one moves only once it is full.
RingSound(r, S) ==
  /\ r \in Rings(S)
  /\ r.count <= Len(r.entries) /\ Len(r.entries) <= HistMax /\ r.head < HistMax
  /\ r.count < HistMax => r.head = 0
=============================================================================
