------------------------------ MODULE Analysis ------------------------------
(***************************************************************************)
(* What the ops console says about the experiments it has stored: the      *)
(* statistics of an experiment's repetitions (ops/stat.go, aggregate.go),  *)
(* the comparison of two experiments (compare.go) and the status of the    *)
(* project's claims (evidence.go) over the bounded listing of              *)
(* experiment_store.go.                                                    *)
(*                                                                         *)
(* The metrics are one or two of each kind the code treats differently.    *)
(* Values are multiplied by Scale: with 6, the mean and the median of up   *)
(* to three of them are whole. int64ptrOf truncates to multiples of Scale. *)
(* Measured values are functions on the positions of their runs, and the   *)
(* listing is one on the positions of its experiments in the store. The    *)
(* delivery rate is in percent and stands for the three delivery metrics,  *)
(* which a report has together or not at all; its floor of a thousandth is *)
(* the least difference of two values here. P99Max and DeliveryMin are     *)
(* multiplied by Scale, too.                                               *)
(* Bootstrap intervals only add text to a line and are left out, as is the *)
(* test for different windows, which the specification hash covers.        *)
(***************************************************************************)
EXTENDS CrossRegime, Sequences

CONSTANTS
  ExpKinds,    \* the requests
  RunEnds,     \* how the repetitions of a Start can end: sequences of Repetitions
  NA,          \* a metric that was not measured
  Scale,       \* the resolution of values: 1 is Scale
  LatencyFloor, ConnTarget, ConnGoal, \* thresholds of the code, scaled down
  StoreLimit,  \* experimentStore.limit
  MaxLab       \* bound: experiments created

VARIABLE lab   \* the store, in the order of CreatedAt

labVars == <<lab>>

AggregateKeys == {"p90", "p99", "rate", "conns", "dlv", "cpu"}
\* label is what configLabelOf makes of the request's configuration.
Requests == [spec : STRING, preset : STRING, arch : STRING, regime : STRING, label : Seq(STRING)]
Repetitions == [st : {"completed", "failed", "stopped"}, kafka : BOOLEAN,
                m : [AggregateKeys -> Nat \cup {NA}]]

\* What is measured is counted from 0, differences below the floor are not notable.
ASSUME AnalysisAssumption ==
  /\ ExpKinds \subseteq Requests
  /\ \A ends \in RunEnds : ends \in Seq(Repetitions)
  /\ NA \notin Int
  /\ Scale \in Nat \ {0} /\ LatencyFloor \in Nat \ {0} /\ StoreLimit \in Nat

NoAggregate == [reps |-> 0]
NoResult == [p90 |-> NA, p99 |-> NA, rate |-> NA, conns |-> NA, dlv |-> NA, kafka |-> FALSE]

----------------------------------------------------------------------------
(* stat.go: statistics of measured values, a function on positions         *)

SumOf(v) ==
  LET last == Max(DOMAIN v)
      total[i \in 0..last] ==
        IF i = 0 THEN 0 ELSE total[i - 1] + IF i \in DOMAIN v THEN v[i] ELSE 0
  IN total[last]

SampleCount(v) == Cardinality(DOMAIN v)
MeanOf(v) == IF DOMAIN v = {} THEN NA ELSE SumOf(v) \div SampleCount(v)

\* sorted[k - 1] of the code: the least value that k of the values do not exceed.
NthSmallest(v, k) ==
  Min({x \in {v[i] : i \in DOMAIN v} : Cardinality({i \in DOMAIN v : v[i] <= x}) >= k})

MedianOf(v) ==
  LET half == SampleCount(v) \div 2
  IN IF DOMAIN v = {} THEN NA
     ELSE IF SampleCount(v) % 2 = 1 THEN NthSmallest(v, half + 1)
     ELSE (NthSmallest(v, half) + NthSmallest(v, half + 1)) \div 2

\* The coefficient of variation exists and is at least pct percent; squared to stay whole.
CVKnown(v) == SampleCount(v) >= 2 /\ MeanOf(v) # 0
CVAtLeast(v, pct) ==
  LET m == MeanOf(v)
      squares == SumOf([i \in DOMAIN v |-> (v[i] - m) * (v[i] - m)])
  IN CVKnown(v) /\ 10000 * squares >= pct * pct * (SampleCount(v) - 1) * m * m

----------------------------------------------------------------------------
(* aggregate.go                                                            *)

SuccessfulRuns(runs) == {i \in DOMAIN runs : runs[i].st = "completed"}

Measured(runs, k) ==
  [i \in {j \in SuccessfulRuns(runs) : runs[j].m[k] # NA} |-> Scale * runs[i].m[k]]

AggregateValues(v) ==
  [samples |-> SampleCount(v), mean |-> MeanOf(v), median |-> MedianOf(v), highCV |-> CVAtLeast(v, 30)]

StabilityOf(p90) ==
  IF ~CVKnown(p90) THEN "n/a"
  ELSE IF CVAtLeast(p90, 30) THEN "variable"
  ELSE IF CVAtLeast(p90, 10) THEN "moderate" ELSE "stable"

BuildExperimentAggregate(runs) ==
  IF SuccessfulRuns(runs) = {} THEN NoAggregate
  ELSE [reps |-> Cardinality(SuccessfulRuns(runs)),
        metrics |-> [k \in AggregateKeys |-> AggregateValues(Measured(runs, k))],
        stability |-> StabilityOf(Measured(runs, "p90"))]

Int64PtrOf(x) == IF x = NA THEN NA ELSE (x \div Scale) * Scale

\* Mutant: latencies are represented by their mean.
RepresentByMean(agg, runs) ==
  [p90 |-> Int64PtrOf(agg.metrics["p90"].mean), p99 |-> Int64PtrOf(agg.metrics["p99"].mean),
   rate |-> agg.metrics["rate"].mean, conns |-> Int64PtrOf(agg.metrics["conns"].median),
   dlv |-> agg.metrics["dlv"].mean, kafka |-> runs[Max(SuccessfulRuns(runs))].kafka]

\* Latency and scale by median, rates by mean, what the brokers said by the last good run.
RepresentativeResult(agg, runs) ==
  [p90 |-> Int64PtrOf(agg.metrics["p90"].median), p99 |-> Int64PtrOf(agg.metrics["p99"].median),
   rate |-> agg.metrics["rate"].mean, conns |-> Int64PtrOf(agg.metrics["conns"].median),
   dlv |-> agg.metrics["dlv"].mean, kafka |-> runs[Max(SuccessfulRuns(runs))].kafka]

----------------------------------------------------------------------------
(* compare.go                                                              *)

CompareMetrics == <<
  [key |-> "conns", group |-> "scale", dir |-> 1, floor |-> Scale],
  [key |-> "p90", group |-> "latency", dir |-> -1, floor |-> LatencyFloor * Scale],
  [key |-> "p99", group |-> "latency", dir |-> -1, floor |-> LatencyFloor * Scale],
  [key |-> "rate", group |-> "throughput", dir |-> 1, floor |-> Scale],
  [key |-> "dlv", group |-> "reliability", dir |-> 1, floor |-> 1]>>

VerdictOf(d, dir) ==
  IF d * dir > 0 THEN "better" ELSE IF d * dir < 0 THEN "worse" ELSE "same"

CompareMetricsDirection(k) ==
  LET at == {i \in DOMAIN CompareMetrics : CompareMetrics[i].key = k}
  IN IF at = {} THEN 0 ELSE CompareMetrics[Min(at)].dir

\* One row: "" when a side is N/A.
RowVerdict(left, right, c) ==
  IF NA \in {left.result[c.key], right.result[c.key]} THEN ""
  ELSE VerdictOf(right.result[c.key] - left.result[c.key], c.dir)

AbsF(x) == IF x < 0 THEN -x ELSE x

Notable(left, right, c) ==
  /\ NA \notin {left.result[c.key], right.result[c.key]}
  /\ LET l == left.result[c.key]
         d == AbsF(right.result[c.key] - l)
     IN d >= c.floor /\ (l # 0 => 100 * d >= 10 * l)

\* |delta| in percent of the left side, or |delta| itself when that is 0: a fraction.
Notability(left, right, c) ==
  LET l == left.result[c.key]
      d == AbsF(right.result[c.key] - l)
  IN IF l # 0 THEN <<100 * d, l>> ELSE <<d, Scale>>

\* The verdict of the group's most notable row, the first of equals.
NetVerdict(left, right, group) ==
  LET ks == {i \in DOMAIN CompareMetrics :
               CompareMetrics[i].group = group /\ Notable(left, right, CompareMetrics[i])}
      n(i) == Notability(left, right, CompareMetrics[i])
      Above(i, j) == n(i)[1] * n(j)[2] > n(j)[1] * n(i)[2]
      best == {i \in ks : \A j \in ks : ~Above(j, i) /\ (j < i => Above(i, j))}
  IN IF ks = {} THEN "no_notable"
     ELSE RowVerdict(left, right, CompareMetrics[CHOOSE i \in best : TRUE])

\* better stands for "likely improvement" and worse for "likely regression". The CPU is in the
\* list without a direction: it can only make the pair noisy.
ApplyAggregateComparison(left, right) ==
  LET keys == {k \in {"p99", "p90", "rate", "dlv", "cpu"} :
                 left.agg.metrics[k].samples > 0 /\ right.agg.metrics[k].samples > 0}
      noisy == {k \in keys : left.agg.metrics[k].highCV \/ right.agg.metrics[k].highCV}
      moved == {VerdictOf(right.agg.metrics[k].median - left.agg.metrics[k].median,
                          CompareMetricsDirection(k)) : k \in keys \ noisy}
  IN IF left.spec # right.spec THEN "not_comparable"
     ELSE IF noisy # {} THEN "high_variance"
     ELSE IF {"better", "worse"} \subseteq moved THEN "mixed"
     ELSE IF "better" \in moved THEN "better"
     ELSE IF "worse" \in moved THEN "worse" ELSE "no_clear_difference"

\* ExperimentManager.Compare refuses the others.
Compared == {i \in DOMAIN lab : lab[i].status \in {"completed", "partial"}}

----------------------------------------------------------------------------
(* evidence.go                                                             *)

\* ListCompleted: the completed ones among the StoreLimit experiments created last.
ListCompleted(store) ==
  [i \in {j \in DOMAIN store : j > Len(store) - StoreLimit /\ store[j].status = "completed"}
     |-> store[i]]

ClaimSeeds == {
  [id |-> "connections", mode |-> "metric", metric |-> "conns", preset |-> "", min |-> ConnTarget],
  [id |-> "million", mode |-> "goal", metric |-> "conns", preset |-> "", min |-> ConnGoal],
  [id |-> "hot-room", mode |-> "capability", metric |-> "p90", preset |-> "hot-room", min |-> 0],
  [id |-> "kafka", mode |-> "code", metric |-> "", preset |-> "", min |-> 0]}

Considered(seed, es) == {i \in DOMAIN es : seed.preset \in {"", es[i].preset}}

Supports(seed, e) ==
  CASE seed.mode = "code" -> e.arch = "distributed" /\ e.result.kafka
    [] seed.mode = "capability" -> e.result[seed.metric] # NA
    [] OTHER -> e.result[seed.metric] # NA /\ e.result[seed.metric] >= seed.min * Scale

\* Mutant: one related experiment that misses the target is enough to take the claim back.
EvalAll(seed, es) ==
  LET rel == Considered(seed, es)
  IN IF rel # {} /\ \A i \in rel : Supports(seed, es[i]) THEN "VERIFIED"
     ELSE IF seed.mode = "code" THEN "CODE_VERIFIED"
     ELSE IF seed.mode # "goal" /\ rel # {} THEN "PARTIALLY_VERIFIED" ELSE "TARGET"

\* The status of a claim of mode metric, goal, capability or code.
Eval(seed, es) ==
  LET rel == Considered(seed, es)
  IN IF \E i \in rel : Supports(seed, es[i]) THEN "VERIFIED"
     ELSE IF seed.mode = "code" THEN "CODE_VERIFIED"
     ELSE IF seed.mode # "goal" /\ rel # {} THEN "PARTIALLY_VERIFIED" ELSE "TARGET"

\* The experiment with the most successful repetitions, the newest of equals, decides.
DeriveRepeatability(es) ==
  LET most == {i \in DOMAIN es : /\ es[i].agg.reps >= 2
                                 /\ \A j \in DOMAIN es : es[j].agg.reps <= es[i].agg.reps}
      best == Max(most)
  IN IF most = {} THEN [status |-> "UNKNOWN", exp |-> NA]
     ELSE [status |-> IF es[best].agg.stability \in {"stable", "moderate"}
                      THEN "VERIFIED" ELSE "PARTIALLY_VERIFIED",
           exp |-> best]

\* The median over the experiments of a regime of their median p99.
RegimeTailP99(es, regime) ==
  MedianOf([i \in {j \in DOMAIN es : es[j].regime = regime /\ es[j].agg.metrics["p99"].samples > 0}
              |-> es[i].agg.metrics["p99"].median])

DeriveHotRoomTail(es) ==
  LET hot == RegimeTailP99(es, "hot-room")
      lo == RegimeTailP99(es, "low-fanout")
  IN IF NA \in {hot, lo} THEN "UNKNOWN" ELSE IF hot > lo THEN "VERIFIED" ELSE "CODE_VERIFIED"

\* sweepResultFromExperiment, with what aggMean and aggMedian read.
RowOf(e) ==
  LET read(x) == IF x = NA THEN 0 ELSE x
  IN [regime |-> e.regime, label |-> e.label, thr |-> read(e.agg.metrics["rate"].mean),
      p99 |-> read(e.agg.metrics["p99"].median), dlv |-> read(e.agg.metrics["dlv"].mean)]

\* The rows of the experiments with a regime. The listing has the newest experiment first, so the
\* one at position i of the store has the place -i, and the last row of a configuration is that
\* of the oldest experiment.
RegimeRows(es) == [p \in {-i : i \in {j \in DOMAIN es : es[j].regime # ""}} |-> RowOf(es[-p])]

\* Each regime at the place of its first row.
UniqueRegimes(rows) ==
  [p \in {q \in DOMAIN rows : \A r \in DOMAIN rows : rows[r].regime = rows[q].regime => q <= r}
     |-> rows[p].regime]

\* Whether the optimum shifts decides nothing. There is a best configuration of every regime with
\* a row, so the regimes are counted.
DeriveRegimeDependence(es) ==
  LET rows == RegimeRows(es)
  IN IF Cardinality({rows[p].regime : p \in DOMAIN rows}) >= 2 THEN "VERIFIED" ELSE "UNKNOWN"

\* The statuses a request for the evidence page can get: which of equally good configurations is
\* ranked first is up to the order of a map.
DeriveDominance(es) ==
  LET rows == RegimeRows(es)
  IN {IF rep.domination.dominates THEN "VERIFIED" ELSE "UNKNOWN" :
        rep \in BuildCrossRegimeReports(rows, UniqueRegimes(rows), FALSE)}

\* The result or some run of the experiment has a delivery rate.
Accounts(e) == e.result.dlv # NA \/ \E r \in DOMAIN e.runs : e.runs[r].m["dlv"] # NA

DeriveDeliveryAccounting(es) ==
  IF \E i \in DOMAIN es : Accounts(es[i]) THEN "VERIFIED" ELSE "CODE_VERIFIED"

----------------------------------------------------------------------------
(* The experiments come and go                                             *)

AnalysisInit == lab = <<>>

CreateExperiment(k) ==
  /\ Len(lab) < MaxLab
  /\ lab' = Append(lab, [spec |-> k.spec, preset |-> k.preset, arch |-> k.arch, regime |-> k.regime, label |-> k.label,
                         status |-> "created", runs |-> <<>>,
                         agg |-> NoAggregate, result |-> NoResult])

\* Start and beginRun: a created or completed experiment starts over, any other one resumes. The
\* old result stays in the record while the experiment runs.
StartExperiment(i) ==
  /\ \A j \in DOMAIN lab : lab[j].status # "running"
  /\ lab' = IF lab[i].status \in {"created", "completed"}
            THEN [lab EXCEPT ![i].status = "running", ![i].runs = <<>>, ![i].agg = NoAggregate]
            ELSE [lab EXCEPT ![i].status = "running"]

DeriveExperimentStatus(runs) ==
  LET sts == {runs[i].st : i \in DOMAIN runs}
  IN IF "stopped" \in sts THEN "stopped"
     ELSE IF sts = {"completed"} THEN "completed"
     ELSE IF "completed" \in sts THEN "partial" ELSE "failed"

\* finishRun's last call, finalizeExperiment: a repetition that had completed before keeps its
\* result. Without a successful one the old aggregate stays, the result does not.
FinalizeExperiment(i, ends) ==
  LET old == lab[i].runs
      runs == [k \in 1..Max({Len(old), Len(ends)}) |->
                 IF k \in DOMAIN old /\ (old[k].st = "completed" \/ k > Len(ends)) THEN old[k]
                 ELSE ends[k]]
      agg == BuildExperimentAggregate(runs)
      none == SuccessfulRuns(runs) = {}
  IN /\ lab[i].status = "running"
     /\ lab' = [lab EXCEPT ![i].status = DeriveExperimentStatus(runs), ![i].runs = runs,
                           ![i].agg = IF none THEN @ ELSE agg,
                           ![i].result = IF none THEN NoResult ELSE RepresentativeResult(agg, runs)]

AnalysisNext ==
  \/ \E k \in ExpKinds : CreateExperiment(k)
  \/ \E i \in DOMAIN lab : StartExperiment(i)
  \/ \E i \in DOMAIN lab, ends \in RunEnds : FinalizeExperiment(i, ends)

----------------------------------------------------------------------------
(* The invariant behind the properties: what is compared or listed is the  *)
(* summary of its own runs.                                                *)

Values == Int \cup {NA}
Aggregates ==
  [reps : Nat, stability : {"n/a", "variable", "moderate", "stable"},
   metrics : [AggregateKeys -> [samples : Nat, mean : Values, median : Values, highCV : BOOLEAN]]]
Results ==
  [p90 : Values, p99 : Values, rate : Values, conns : Values, dlv : Values, kafka : BOOLEAN]
Experiments ==
  [spec : STRING, preset : STRING, arch : STRING, regime : STRING, label : Seq(STRING),
   status : {"created", "running", "completed", "partial", "failed", "stopped"},
   runs : Seq(Repetitions), agg : Aggregates \cup {NoAggregate}, result : Results]

Summarised(e) ==
  /\ SuccessfulRuns(e.runs) # {}
  /\ e.agg = BuildExperimentAggregate(e.runs)
  /\ e.result = RepresentativeResult(e.agg, e.runs)

LabInv == lab \in Seq(Experiments) /\ \A i \in Compared : Summarised(lab[i])

----------------------------------------------------------------------------
(* Properties                                                              *)

Mirrored(v) == CASE v = "better" -> "worse" [] v = "worse" -> "better" [] OTHER -> v

\* Which of two experiments is called A decides nothing: every row's verdict and the conclusion
\* over the aggregates (compare.go, CompareExperiments and applyAggregateComparison) turn round
\* with the sides, and the two parts of the answer, of which one reads the aggregates and the
\* other the truncated representative result, do not contradict each other: after a likely
\* improvement neither the row of the p90 nor that of the p99 is worse, and a group's net verdict
\* is that of one of its rows, which moved.
CompareSound ==
  \A i, j \in Compared :
    LET a == lab[i]
        b == lab[j]
        conclusion == ApplyAggregateComparison(a, b)
        row(c) == RowVerdict(a, b, CompareMetrics[c])
    IN /\ ApplyAggregateComparison(b, a) = Mirrored(conclusion)
       /\ \A c \in DOMAIN CompareMetrics :
            /\ RowVerdict(b, a, CompareMetrics[c]) = Mirrored(row(c))
            /\ conclusion = "better" /\ CompareMetrics[c].key \in {"p90", "p99"} => row(c) # "worse"
       /\ \A g \in {"latency", "throughput", "scale", "reliability"} :
            \/ NetVerdict(a, b, g) = "no_notable"
            \/ \E c \in DOMAIN CompareMetrics :
                 CompareMetrics[c].group = g /\ NetVerdict(a, b, g) = row(c) /\ row(c) # "same"

ClaimRank(st) ==
  CASE st = "VERIFIED" -> 2 [] st = "PARTIALLY_VERIFIED" -> 1 [] OTHER -> 0

Falls(new, old) == ClaimRank(new) < ClaimRank(old)

\* A claim with a rule of its own falls only when everything that held it up has left the listing.
SeedsStand(es, new, gone) ==
  \A s \in ClaimSeeds :
    Falls(Eval(s, new), Eval(s, es)) =>
      {i \in Considered(s, es) : Eval(s, es) = "VERIFIED" => Supports(s, es[i])} \subseteq gone

\* The claim of repeatable runs falls only when the experiment behind it leaves or one with at
\* least as many repetitions comes.
RepeatabilityStands(es, new, gone, added) ==
  LET best == DeriveRepeatability(es)
  IN Falls(DeriveRepeatability(new).status, best.status) =>
       \/ best.exp \in gone
       \/ \E i \in added : new[i].agg.reps >= es[best.exp].agg.reps

\* The comparison of the two regimes changes only for an experiment of one of them with a p99.
Tailed(e) == e.regime \in {"hot-room", "low-fanout"} /\ e.agg.metrics["p99"].samples > 0
TailStands(es, new, gone, added) ==
  DeriveHotRoomTail(new) # DeriveHotRoomTail(es) =>
    (\E i \in gone : Tailed(es[i])) \/ (\E i \in added : Tailed(new[i]))

\* The claim about several regimes falls only when one of them loses its last experiment.
RegimesStand(es, new, gone) ==
  Falls(DeriveRegimeDependence(new), DeriveRegimeDependence(es)) =>
    \E i \in gone : es[i].regime # "" /\ \A j \in DOMAIN new : new[j].regime # es[i].regime

\* The row of the experiment stands for its configuration in its regime.
StandsFor(es, i) == es[i].regime # "" /\ -i \in ByConfig(RegimeRows(es), es[i].regime)

\* What can be said about dominance changes only when a row that stood for its configuration
\* leaves, or when one comes that stands for its own and is among the best of its regime or takes
\* the place of one that was.
DominanceStands(es, new, gone, added) ==
  DeriveDominance(new) # DeriveDominance(es) =>
    \/ \E i \in gone : StandsFor(es, i)
    \/ \E i \in added :
         /\ StandsFor(new, i)
         /\ \/ RankedOf(RowOf(new[i])) \in PickBest(RegimeRows(new), new[i].regime)
            \/ \E b \in PickBest(RegimeRows(es), new[i].regime) : b.label = new[i].label

\* The claim that deliveries are accounted for falls only when no experiment that did is left.
AccountingStands(es, new, gone) ==
  Falls(DeriveDeliveryAccounting(new), DeriveDeliveryAccounting(es)) =>
    {i \in DOMAIN es : Accounts(es[i])} \subseteq gone

\* What the listing loses and gains in the step: an experiment leaves when it is started again or
\* when it is no longer among the StoreLimit newest, and comes when it completes.
ClaimsStand ==
  LET es == ListCompleted(lab)
      new == ListCompleted(lab')
      gone == DOMAIN es \ DOMAIN new
      added == DOMAIN new \ DOMAIN es
  IN /\ SeedsStand(es, new, gone)
     /\ RepeatabilityStands(es, new, gone, added)
     /\ TailStands(es, new, gone, added)
     /\ RegimesStand(es, new, gone)
     /\ DominanceStands(es, new, gone, added)
     /\ AccountingStands(es, new, gone)

\* What the evidence page has said about a claim it does not take back without a cause of that
\* claim's own. A claim of a metric, a capability or a broker (evidence.go, eval) and the one about
\* delivery accounting are taken back only when no experiment that supported them is listed any
\* more; repeatability, the tail of hot rooms, the dependence on regimes and the dominance of one
\* configuration (deriveRepeatability to deriveDominance) change only for the experiments they
\* are about, as the parts of ClaimsStand say. Dominance is the frail one: an experiment of a
\* regime nobody had measured is best there, and takes the claim back.
ClaimsKept == [][ClaimsStand]_labVars

\* evidence.go, line 363, of List: the statuses are determined by what is stored. They are not
\* when two configurations of a regime are equally good.
DominanceDetermined == Cardinality(DeriveDominance(ListCompleted(lab))) = 1

\* evidence.go, line 13, of VERIFIED: the store holds an experiment that supports the claim. So a
\* claim some completed experiment of the store supports is verified.
VerifiedWhileStored ==
  \A s \in ClaimSeeds :
    (\E i \in DOMAIN lab : lab[i].status = "completed" /\ i \in Considered(s, lab)
                             /\ Supports(s, lab[i]))
      => Eval(s, ListCompleted(lab)) = "VERIFIED"
=============================================================================
