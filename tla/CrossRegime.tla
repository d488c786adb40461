---------------------------- MODULE CrossRegime ----------------------------
(***************************************************************************)
(* The cross-regime report of ops/sweep.go: which configuration is best    *)
(* in each workload regime, whether one is best in all of them, and        *)
(* whether the gate for adaptive control opens (rankConfigs, pickBest,     *)
(* analyzeDomination, evaluateGate). A sweep reports on its own rows, the  *)
(* evidence page on one row for each stored experiment.                    *)
(*                                                                         *)
(* The rows are a function on their places in the order of the code. A     *)
(* metric is a natural number; 0 stands for one that was not measured, as  *)
(* which aggMean and aggMedian read it. A label is the sequence of what it *)
(* spells out; the empty one is "default".                                 *)
(***************************************************************************)
EXTENDS Integers, FiniteSets, FiniteSetsExt

CONSTANTS P99Max, DeliveryMin  \* the constraints of SensibleRankObjective

DefaultLabel == <<>>

\* The places of the rows of a regime, and of the rows of a configuration.
FilterByRegime(rows, rg) == {i \in DOMAIN rows : rows[i].regime = rg}
FilterBy(rows, label) == {i \in DOMAIN rows : rows[i].label = label}

Feasible(r) == /\ r.p99 > 0 /\ r.p99 <= P99Max
               /\ r.dlv > 0 /\ r.dlv >= DeliveryMin

RankedOf(r) == [label |-> r.label, feasible |-> Feasible(r), score |-> r.thr]

\* byConfig: among the rows of a regime the last one of a label stands for it.
ByConfig(rows, rg) ==
  LET own == FilterByRegime(rows, rg)
  IN {i \in own : \A k \in own : rows[k].label = rows[i].label => k <= i}

RankConfigs(rows, rg) == {RankedOf(rows[i]) : i \in ByConfig(rows, rg)}

Before(a, b) == \/ a.feasible /\ ~b.feasible
                \/ a.feasible = b.feasible /\ a.score > b.score

\* The configurations that may be ranked first: a map's order decides between equal ones.
PickBest(rows, rg) ==
  LET ranked == RankConfigs(rows, rg) IN {b \in ranked : \A r \in ranked : ~Before(r, b)}

\* allBest: the place of a regime in the request -> its first ranked configuration, for the
\* regimes with a row. A regime that the request names twice is ranked twice, and the map
\* bestPerRegime keeps the later one.
BestPerRegime(regimes, allBest) ==
  [rg \in {regimes[i] : i \in DOMAIN allBest} |->
     allBest[Max({i \in DOMAIN allBest : regimes[i] = rg})]]

AnalyzeDomination(best, allBest) ==
  LET same == /\ \A i \in DOMAIN allBest : allBest[i].feasible
              /\ \A i, j \in DOMAIN allBest : allBest[i].label = allBest[j].label
      several == Cardinality(DOMAIN best) >= 2
  IN [dominates |-> several /\ same, shifts |-> several /\ ~same]

\* Mutant: an infeasible best configuration does not count.
HasAnyVariance(best) == TRUE

HasLowVariance(best) == \A rg \in DOMAIN best : best[rg].feasible

\* More than 10% better than the default configuration, of which the last row is taken.
Improves(b, rows) ==
  LET def == FilterBy(rows, DefaultLabel)
      v == rows[Max(def)].thr
  IN def # {} /\ v # 0 /\ b.feasible /\ 10 * (b.score - v) > v

EvaluateGate(best, domination, rows, tunable) ==
  /\ domination.shifts
  /\ \E rg \in DOMAIN best : Improves(best[rg], rows)
  /\ HasLowVariance(best)
  /\ tunable

ReportOf(best, domination, rows, tunable) ==
  [best |-> best, domination |-> domination, go |-> EvaluateGate(best, domination, rows, tunable)]

\* Every report the rows can give.
BuildCrossRegimeReports(rows, regimes, tunable) ==
  LET present == {i \in DOMAIN regimes : FilterByRegime(rows, regimes[i]) # {}}
      ranked == [i \in present |-> PickBest(rows, regimes[i])]
      allBests == {f \in [present -> UNION {ranked[i] : i \in present}] :
                     \A i \in present : f[i] \in ranked[i]}
  IN {LET best == BestPerRegime(regimes, f)
      IN ReportOf(best, AnalyzeDomination(best, f), rows, tunable) : f \in allBests}
=============================================================================
