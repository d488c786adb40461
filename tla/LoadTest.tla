------------------------------ MODULE LoadTest ------------------------------
(***************************************************************************)
(* The load generator, monolith/loadtest/main.go: the connections of one   *)
(* room (runClient), each with a sender and a reader goroutine, the        *)
(* counters they share (Metrics), the goroutine that resets them when the  *)
(* warm-up ends (ResetMeasurement) and the accounting of deliveries by     *)
(* sequence numbers (deliveryTracker).                                     *)
(*                                                                         *)
(* Time passes in ticks; a step may come later than it could. Of the       *)
(* server (monolith/server) it has what the accounting depends on: a       *)
(* worker numbers a message and then hands it to the connections, some of  *)
(* which lose it to a full queue; several workers do so at once, the       *)
(* writer of a connection has a lane for the messages of high priority,    *)
(* and the messages of other servers come with the numbers they were given *)
(* there. So what is on its way to a connection has no order. The server's *)
(* pings are answered by the WebSocket library and leave no trace here:    *)
(* the read deadline is only moved by a pong, and nothing in the load      *)
(* generator sends a ping, so SetPongHandler's handler never runs.         *)
(* Latencies, acks and the printed report are left out.                    *)
(***************************************************************************)
EXTENDS Integers, Sequences, FiniteSets, FiniteSetsExt, Functions

CONSTANTS
  Conns,
  WarmupEnd, SendEnd, ReadWait,    \* measureStart, sendEnd and the 90 seconds, in ticks
  MaxClock, MaxSeq,                \* bounds: ticks, numbers of messages of the room,
  MaxForeign, MaxFrame             \* messages of other servers, messages in a frame

\* The load generator opens as many connections as it was told to.
ASSUME LoadAssumption == IsFiniteSet(Conns)

VARIABLES
  ticks, cancelled,
  snd, rdr,            \* per connection: where its sender and its reader are
  deadline,            \* per connection: its read deadline
  wire, frame,         \* per connection: on its way and not read; the frame its reader handles
  tracker, prevs,      \* per connection: its deliveryTracker and the totals it last reported
  totals, bases, epoch, reset,  \* Metrics, and how far ResetMeasurement is
  roomSeq,             \* the room's sequence on the server (Hub.roomSeqs)
  foreign,             \* bound: messages of other servers so far
  handled,             \* history, per connection: what it tracked, as <<epoch, number>>, in order
  timedOut             \* history: connections an idle read deadline ended

ioVars == <<snd, rdr, deadline, wire, frame>>
countVars == <<tracker, prevs, totals, bases, epoch, reset>>
serverVars == <<roomSeq, foreign>>
loadVars == <<ticks, cancelled, ioVars, countVars, serverVars, handled, timedOut>>

NoTracker == [epoch |-> 0, last |-> 0, obs |-> 0, miss |-> 0]
Open(c) == snd[c] \in {"waiting", "sending", "joining"}

LoadInit ==
  /\ ticks = 0 /\ cancelled = FALSE
  /\ snd = [c \in Conns |-> "new"] /\ rdr = [c \in Conns |-> "off"]
  /\ deadline = [c \in Conns |-> 0]
  /\ wire = [c \in Conns |-> {}] /\ frame = [c \in Conns |-> <<>>]
  /\ tracker = [c \in Conns |-> NoTracker]
  /\ prevs = [c \in Conns |-> [obs |-> 0, miss |-> 0]]
  /\ totals = [sent |-> 0, recv |-> 0, obs |-> 0, miss |-> 0]
  /\ bases = [sent |-> 0, recv |-> 0] /\ epoch = 0 /\ reset = "sent"
  /\ roomSeq = 0 /\ foreign = 0 /\ handled = [c \in Conns |-> <<>>] /\ timedOut = {}

LoadTick ==
  /\ ticks < MaxClock /\ ticks' = ticks + 1
  /\ UNCHANGED <<cancelled, ioVars, countVars, serverVars, handled, timedOut>>

\* The time is up, or a signal.
Cancel ==
  /\ ~cancelled /\ cancelled' = TRUE
  /\ UNCHANGED <<ticks, ioVars, countVars, serverVars, handled, timedOut>>

----------------------------------------------------------------------------
(* runClient: the sender                                                   *)

Dial(c, ok) ==
  /\ snd[c] = "new" /\ ~cancelled
  /\ snd' = [snd EXCEPT ![c] = IF ok THEN "waiting" ELSE "done"]
  /\ rdr' = [rdr EXCEPT ![c] = IF ok THEN "read" ELSE "gone"]
  /\ deadline' = [deadline EXCEPT ![c] = ticks + ReadWait]
  /\ wire' = IF ok THEN wire ELSE [wire EXCEPT ![c] = {}]
  /\ UNCHANGED <<ticks, cancelled, frame, countVars, serverVars, handled, timedOut>>

\* Nothing is sent before measureStart. A cancel in that time waits for the reader, whose
\* connection is only closed when this goroutine returns.
AwaitMeasureStart(c) ==
  /\ snd[c] = "waiting"
  /\ \/ cancelled /\ snd' = [snd EXCEPT ![c] = "joining"]
     \/ rdr[c] = "gone" /\ snd' = [snd EXCEPT ![c] = "done"]
     \/ ticks >= WarmupEnd /\ snd' = [snd EXCEPT ![c] = "sending"]
  /\ UNCHANGED <<ticks, cancelled, rdr, deadline, wire, frame, countVars, serverVars, handled, timedOut>>

\* The connections a message can still reach: one registers while it is handed out.
Reachable == {c \in Conns : snd[c] # "done" /\ rdr[c] # "gone"}

\* Message m is on its way to the connections in Got.
HandOut(m, Got) == wire' = [c \in Conns |-> IF c \in Got THEN wire[c] \cup {m} ELSE wire[c]]

\* The worker's flush: the room's next number, then the queues of the connections. Those outside
\* Got have a full one.
Broadcast(Got) ==
  /\ roomSeq < MaxSeq /\ roomSeq' = roomSeq + 1
  /\ HandOut(<<roomSeq + 1, "own">>, Got) /\ UNCHANGED foreign

SendMessage(c) ==
  /\ snd[c] = "sending" /\ ticks <= SendEnd
  /\ \E Got \in SUBSET Reachable : Broadcast(Got)
  /\ totals' = [totals EXCEPT !.sent = @ + 1]
  /\ UNCHANGED <<ticks, cancelled, snd, rdr, deadline, frame, tracker, prevs, bases, epoch, reset,
                 handled, timedOut>>

\* Another client of the room, the traffic of the warm-up, or an administrator. What an administrator
\* sends takes a number too; in a frame without a danmu the reader does not look at it, which for the
\* accounting is as if the connection were not in Got.
OtherSends ==
  /\ \E Got \in SUBSET Reachable : Broadcast(Got)
  /\ UNCHANGED <<ticks, cancelled, snd, rdr, deadline, frame, countVars, handled, timedOut>>

\* A message of another server, which numbered it by its own counter: RedisHub adopts the number
\* if it is ahead of the room's and hands the message out.
PeerDelivers ==
  /\ foreign < MaxForeign /\ foreign' = foreign + 1
  /\ \E s \in 1..MaxSeq, Got \in SUBSET Reachable :
       /\ HandOut(<<s, "peer">>, Got) /\ roomSeq' = Max({roomSeq, s})
  /\ UNCHANGED <<ticks, cancelled, snd, rdr, deadline, frame, countVars, handled, timedOut>>

\* The sender returns, for the end of the window, a cancel, its reader's end or a failing write;
\* the deferred function closes the connection.
EndSending(c) ==
  /\ snd[c] = "sending" \/ (snd[c] = "joining" /\ rdr[c] = "gone")
  /\ snd' = [snd EXCEPT ![c] = "done"]
  /\ UNCHANGED <<ticks, cancelled, rdr, deadline, wire, frame, countVars, serverVars, handled, timedOut>>

----------------------------------------------------------------------------
(* runClient: the reader                                                   *)

\* ReadMessage and scanFrame: what a frame holds is numbered in the order it has there.
ReadFrame(c) ==
  /\ rdr[c] = "read" /\ Open(c) /\ ticks < deadline[c]
  /\ \E n \in 1..MaxFrame : \E q \in [1..n -> wire[c]] :
       /\ IsInjective(q)
       /\ frame' = [frame EXCEPT ![c] = [i \in 1..n |-> q[i][1]]]
       /\ wire' = [wire EXCEPT ![c] = @ \ {q[i] : i \in 1..n}]
       /\ totals' = [totals EXCEPT !.recv = @ + n]
  /\ rdr' = [rdr EXCEPT ![c] = "track"]
  /\ UNCHANGED <<ticks, cancelled, snd, deadline, tracker, prevs, bases, epoch, reset, serverVars,
                 handled, timedOut>>

OnSeq(t, s) ==
  IF t.last = 0 THEN [t EXCEPT !.obs = @ + 1, !.last = s]
  ELSE IF s <= t.last THEN t
  ELSE [t EXCEPT !.obs = @ + 1, !.miss = @ + s - t.last - 1, !.last = s]

OnSeqs(t, ep, seqs) ==
  LET after[i \in 0..Len(seqs)] ==
        IF i = 0 THEN IF ep = t.epoch THEN t ELSE [NoTracker EXCEPT !.epoch = ep]
        ELSE OnSeq(after[i - 1], seqs[i])
  IN after[Len(seqs)]

\* Mutant: the totals only ever grow.
TrackGrowing(c) ==
  /\ rdr[c] = "track"
  /\ tracker' = [tracker EXCEPT ![c] = OnSeqs(@, epoch, frame[c])]
  /\ totals' = [totals EXCEPT !.obs = @ + Max({0, tracker'[c].obs - prevs[c].obs})]
  /\ prevs' = [prevs EXCEPT ![c].obs = tracker'[c].obs]
  /\ handled' = [handled EXCEPT ![c] = @ \o [i \in DOMAIN frame[c] |-> <<epoch, frame[c][i]>>]]
  /\ rdr' = [rdr EXCEPT ![c] = "missing"]
  /\ UNCHANGED <<ticks, cancelled, snd, deadline, wire, frame, bases, epoch, reset, serverVars,
                 timedOut>>

\* The epoch is loaded, the tracker moved and the difference added to deliveryObserved.
Track(c) ==
  /\ rdr[c] = "track"
  /\ tracker' = [tracker EXCEPT ![c] = OnSeqs(@, epoch, frame[c])]
  /\ totals' = [totals EXCEPT !.obs = @ + tracker'[c].obs - prevs[c].obs]
  /\ prevs' = [prevs EXCEPT ![c].obs = tracker'[c].obs]
  /\ handled' = [handled EXCEPT ![c] = @ \o [i \in DOMAIN frame[c] |-> <<epoch, frame[c][i]>>]]
  /\ rdr' = [rdr EXCEPT ![c] = "missing"]
  /\ UNCHANGED <<ticks, cancelled, snd, deadline, wire, frame, bases, epoch, reset, serverVars,
                 timedOut>>

TrackMissing(c) ==
  /\ rdr[c] = "missing"
  /\ totals' = [totals EXCEPT !.miss = @ + tracker[c].miss - prevs[c].miss]
  /\ prevs' = [prevs EXCEPT ![c].miss = tracker[c].miss]
  /\ frame' = [frame EXCEPT ![c] = <<>>] /\ rdr' = [rdr EXCEPT ![c] = "read"]
  /\ UNCHANGED <<ticks, cancelled, snd, deadline, wire, tracker, bases, epoch, reset, serverVars,
                 handled, timedOut>>

\* The connection is closed, or the read deadline has passed. What was on its way is lost.
ReadError(c) ==
  /\ rdr[c] = "read" /\ (~Open(c) \/ ticks >= deadline[c])
  /\ rdr' = [rdr EXCEPT ![c] = "gone"] /\ wire' = [wire EXCEPT ![c] = {}]
  /\ timedOut' = IF Open(c) /\ ~cancelled THEN timedOut \cup {c} ELSE timedOut
  /\ UNCHANGED <<ticks, cancelled, snd, deadline, frame, countVars, serverVars, handled>>

----------------------------------------------------------------------------
(* ResetMeasurement, at measureStart                                       *)

ResetMeasurement ==
  /\ ticks >= WarmupEnd
  /\ \/ /\ reset = "sent" /\ ~cancelled /\ reset' = "recv"
        /\ bases' = [bases EXCEPT !.sent = totals.sent] /\ UNCHANGED epoch
     \/ /\ reset = "recv" /\ reset' = "epoch"
        /\ bases' = [bases EXCEPT !.recv = totals.recv] /\ UNCHANGED epoch
     \/ /\ reset = "epoch" /\ reset' = "done"
        /\ epoch' = epoch + 1 /\ UNCHANGED bases
  /\ UNCHANGED <<ticks, cancelled, ioVars, tracker, prevs, totals, serverVars, handled, timedOut>>

LoadNext ==
  \/ LoadTick \/ Cancel \/ OtherSends \/ PeerDelivers \/ ResetMeasurement
  \/ \E c \in Conns :
       \/ \E ok \in BOOLEAN : Dial(c, ok)
       \/ AwaitMeasureStart(c) \/ SendMessage(c) \/ EndSending(c)
       \/ ReadFrame(c) \/ Track(c) \/ TrackMissing(c) \/ ReadError(c)

----------------------------------------------------------------------------
(* Properties                                                              *)

\* Where the last epoch stands in what a connection has tracked, what it has of the room there, and
\* what of that came in turn: ahead of everything that had come before.
LastPart(h) == {i \in DOMAIN h : \A j \in DOMAIN h : h[j][1] <= h[i][1]}
Came(h) == {h[i][2] : i \in LastPart(h)}
InTurn(h) == {h[i][2] : i \in {k \in LastPart(h) : \A j \in LastPart(h) : j < k => h[j][2] < h[k][2]}}
Counted(c) == InTurn(handled[c])

\* The numbers between the first and the last of W that are not in W.
Holes(W) == {s \in UNION {1..b : b \in W} : s \notin W /\ \E a \in W : a < s}

\* The connections, each with the messages that f gives it.
PairsOf(f) == UNION {{c} \X f[c] : c \in Conns}

\* The delivery accounting survives the reset in the middle of the traffic, lost messages, messages
\* that overtake one another and numbers given twice (main.go, onSeqs and the differences
\* runClient adds): whenever no reader is inside a frame, the two totals say for every connection
\* how many numbers of its current window came in turn, and how many between the first and the last
\* of those did not, because they were lost or because they came after a later one. So every number
\* between them is in one of the two totals, once. A connection that has been silent since the
\* reset still counts with its warm-up.
DeliveryAccounted ==
  (\A c \in Conns : rdr[c] \notin {"track", "missing"})
    => /\ totals.obs = Cardinality(PairsOf([c \in Conns |-> Counted(c)]))
       /\ totals.miss = Cardinality(PairsOf([c \in Conns |-> Holes(Counted(c))]))

\* distributed/BENCHMARKING.md, line 54: missing_deliveries is the number of real drops. So nothing counts
\* as missing that the connection has received.
MissingIsLost ==
  (\A c \in Conns : rdr[c] \notin {"track", "missing"})
    => totals.miss = Cardinality(PairsOf([c \in Conns |->
                                            Holes(Counted(c)) \ Came(handled[c])]))

\* main.go, lines 322 and 731: with the renewal of the session a run may be longer than the
\* server's ten minutes. So no connection is lost to its read deadline while the server delivers.
LongRunSurvives == timedOut = {}

----------------------------------------------------------------------------
(* The inductive invariant                                                 *)

Trackers == [epoch : Nat, last : Nat, obs : Nat, miss : Nat]

LoadTypes ==
  /\ roomSeq \in Nat /\ epoch \in Nat
  /\ snd \in [Conns -> {"new", "waiting", "sending", "joining", "done"}]
  /\ rdr \in [Conns -> {"off", "read", "track", "missing", "gone"}]
  /\ wire \in [Conns -> SUBSET (Nat \X {"own", "peer"})] /\ frame \in [Conns -> Seq(Nat)]
  /\ tracker \in [Conns -> Trackers]
  /\ prevs \in [Conns -> [obs : Nat, miss : Nat]]
  /\ totals \in [sent : Nat, recv : Nat, obs : Int, miss : Int]
  /\ handled \in [Conns -> Seq(Nat \X Nat)]

\* What a connection has tracked (h), what its reader is at (f) and what is on its way (w) carry
\* numbers of the room, which has come to n.
OfTheRoom(n, h, f, w, tracking) ==
  /\ \A x \in w : x[1] \in 1..n
  /\ \A i \in DOMAIN f : f[i] \in 1..n
  /\ \A i \in DOMAIN h : h[i][2] \in 1..n
  /\ tracking => f # <<>>

\* Tracker t has counted the numbers in W, which came in turn.
Counts(t, W) ==
  /\ t.obs = Cardinality(W) /\ t.miss = Cardinality(Holes(W))
  /\ IF W = {} THEN t.last = 0 ELSE t.last \in W /\ \A s \in W : s <= t.last

\* The epoch of a tracker is the last one in which its connection tracked anything, and nothing came
\* in it that is ahead of the tracker.
Follows(t, h) ==
  /\ \A i \in DOMAIN h : h[i][1] <= t.epoch /\ (h[i][1] = t.epoch => h[i][2] <= t.last)
  /\ h = <<>> \/ \E i \in DOMAIN h : h[i][1] = t.epoch
  /\ Counts(t, InTurn(h))

\* What has been added to deliveryMissing, by connection: a reader that has moved its tracker and
\* not yet reported the difference stands there with what it reported before.
MissingReported(H) ==
  /\ totals.miss = Cardinality(PairsOf(H))
  /\ \A c \in Conns : /\ Cardinality(H[c]) = prevs[c].miss
                      /\ rdr[c] # "missing" => H[c] = Holes(Counted(c))

LoadInv ==
  /\ LoadTypes
  /\ \A c \in Conns :
       /\ OfTheRoom(roomSeq, handled[c], frame[c], wire[c], rdr[c] = "track")
       /\ Follows(tracker[c], handled[c]) /\ tracker[c].epoch <= epoch
       /\ prevs[c].obs = tracker[c].obs
       /\ snd[c] = "new" => rdr[c] = "off"
  /\ totals.obs = Cardinality(PairsOf([c \in Conns |-> Counted(c)]))
  /\ \E H \in [Conns -> SUBSET (1..roomSeq)] : MissingReported(H)
=============================================================================
