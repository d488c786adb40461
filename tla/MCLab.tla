-------------------------------- MODULE MCLab --------------------------------
(***************************************************************************)
(* Small instances of what measures the system, one at a time: focus,      *)
(* chosen at the start, says which of them moves. They share no state, so  *)
(* the product of their behaviours would show nothing more.                *)
(***************************************************************************)
EXTENDS Collector, TraceStore, Analysis, LoadTest

CONSTANTS c1, c2, i1, i2, n1, n2

VARIABLE focus

Init ==
  /\ CollectorInit /\ TraceInit /\ AnalysisInit /\ LoadInit
  /\ focus \in {"poll", "kafka", "trace", "analysis", "load"}
  /\ kafkaOn = (focus = "kafka")

\* The poll loop without Kafka while instances come, go and fail; both loops of the collector while
\* the instances stay as they are (see Few).
CollectorSteps ==
  \/ focus = "poll" /\ PollNext
  \/ focus = "kafka" /\ CollectorNext

Next ==
  /\ UNCHANGED focus
  /\ \/ CollectorSteps /\ UNCHANGED <<traceVars, labVars, loadVars>>
     \/ focus = "trace" /\ TraceNext /\ UNCHANGED <<collectorVars, labVars, loadVars>>
     \/ focus = "analysis" /\ AnalysisNext /\ UNCHANGED <<collectorVars, traceVars, loadVars>>
     \/ focus = "load" /\ LoadNext /\ UNCHANGED <<collectorVars, traceVars, labVars>>

\* Bounds that keep the product of independent choices small. While a message is on its way only
\* one connection of the load test has a reader: the totals are sums over the connections, and the
\* other one may have left its share of the warm-up in them. Two experiments do everything; of three
\* those that fail or stop are not followed, and the fourth only pushes the first out of the listing.
Busy(c) == rdr[c] \notin {"off", "gone"} \/ wire[c] # {}
Few ==
  /\ focus = "kafka" => /\ polls <= 2 /\ grown = [i \in Insts |-> 0]
                        /\ answering = Insts /\ registered = Insts
  /\ focus = "analysis" => \A i \in DOMAIN lab :
       /\ Len(lab) >= 3 => \/ lab[i].status \in {"created", "completed"}
                           \/ lab[i].status = "running" /\ lab[i].runs = <<>>
       /\ Len(lab) = 4 => lab[i].status = IF i = 4 THEN "created" ELSE "completed"
  /\ focus = "load" => /\ cancelled => roomSeq = 0
                       /\ totals.sent <= 1 /\ foreign + totals.sent <= 1
                       /\ roomSeq = MaxSeq => ticks <= WarmupEnd /\ totals.sent = 0
                       /\ roomSeq = 0 \/ Cardinality({c \in Conns : Busy(c)}) <= 1

Spec == Init /\ [][Next /\ Few']_<<collectorVars, traceVars, labVars, loadVars, focus>>

Symmetry == Permutations(Conns) \cup Permutations(TraceNodes)

----------------------------------------------------------------------------
(* Repetitions: p90, p99, receive and delivery rate, connections, CPU,      *)
(* Kafka available                                                         *)

RunOf(st, p90, p99, rate, dlv, conns, cpu, broker) ==
  [st |-> st, kafka |-> broker,
   m |-> [p90 |-> p90, p99 |-> p99, rate |-> rate, dlv |-> dlv, conns |-> conns, cpu |-> cpu]]
Good == RunOf("completed", 100, 3, 10, 100, 2, 1, TRUE)
Slow == RunOf("completed", 140, 3, 12, 98, 1, 1, FALSE)
Quick == RunOf("completed", 90, 3, 10, 100, 1, 1, FALSE)
Late == RunOf("completed", 100, 9, 10, 100, NA, 5, FALSE)
Blind == RunOf("completed", NA, NA, 8, NA, 1, NA, FALSE)
Failed == RunOf("failed", 100, NA, NA, NA, 1, NA, FALSE)
Stopped == RunOf("stopped", 100, 3, 10, 100, 2, 1, FALSE)
MCRunEnds ==
  {<<Good, Good>>, <<Quick, Quick, Slow>>, <<Slow, Late>>, <<Blind, Blind>>, <<Good, Failed>>,
   <<Stopped>>}
Hot == [spec |-> "s", preset |-> "hot-room", arch |-> "distributed", regime |-> "hot-room", label |-> <<>>]
Low == [spec |-> "s", preset |-> "", arch |-> "monolith", regime |-> "low-fanout", label |-> <<>>]
Tuned == [Low EXCEPT !.label = <<"tuned">>]
MCExpKinds == {Hot, Low, Tuned}
=============================================================================
