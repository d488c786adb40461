---------------------------- MODULE SweepManager ----------------------------
(***************************************************************************)
(* The sweep manager of the ops console, ops/sweep_manager.go with         *)
(* sweep_store.go: one background goroutine runs the units of the active   *)
(* sweep one after the other, each as an experiment of its own, and        *)
(* writes the report when it ends; HTTP handlers Start and Stop a sweep.   *)
(*                                                                         *)
(* The experiment manager is what ExperimentManager.tla promises: one      *)
(* experiment at a time, Start refused while another one is active, every  *)
(* run ends, a stop is asynchronous. Other users of the console may start  *)
(* and stop experiments of their own, and stop the sweep's.                *)
(*                                                                         *)
(* A sweep file has one writer at a time, so a Load followed by the Save   *)
(* that it leads to is one step; experiments change in between. The wakeup *)
(* channel only shortens a wait and is left out.                           *)
(***************************************************************************)
EXTENDS SweepReport

CONSTANTS
  Sweeps,
  Params, Regimes,  \* the request all of them were created from
  Outcomes,         \* per unit: how its experiment can end, records of st, thr, p99 and dlv
  NoSweep, NoExp,
  OtherExp,         \* an experiment that belongs to no sweep
  MaxSweepCalls,    \* bound: accepted Starts and Stops
  MaxSweepFaults    \* bound: failed saves, creates and launches, experiments of others, crashes

VARIABLES
  sweepFile,      \* the stored sweeps
  sweepActive, sweepStopReq,   \* SweepManager's fields
  runner,         \* the goroutine of runSweep: pc, unit and the last status it polled
  stopper,        \* the sweep a Stop is still working on
  expFile,        \* the experiments of the units: status and aggregate
  emActive, emStopping,        \* ExperimentManager: active experiment, stop requested for it
  sweepCalls, sweepFaults,    \* bound counters
  interrupted     \* history: units whose experiment was not over when a stop ended the wait for it

sweepVars == <<sweepFile, sweepActive, sweepStopReq, runner, stopper, expFile, emActive, emStopping,
               sweepCalls, sweepFaults, interrupted>>

Plan == BuildSweepPlan(Params, Regimes)
Units == DOMAIN Plan
SweepExps == Sweeps \X Units
Terminal == {"completed", "partial", "failed", "stopped"}
StatusesOfExps == {"none", "created", "running"} \cup Terminal
Measured == [st : StatusesOfExps, thr : Nat, p99 : Nat, dlv : Nat]
Unmeasured(st) == [st |-> st, thr |-> 0, p99 |-> 0, dlv |-> 0]
NoReport == [best |-> <<>>, domination |-> [dominates |-> FALSE, shifts |-> FALSE], go |-> FALSE]
IdleRunner == [pc |-> "idle", u |-> 0, last |-> "none"]

\* The lists of the request are lists, and an experiment that ran ends in one of the final statuses.
ASSUME SweepAssumption ==
  /\ NoSweep \notin Sweeps /\ NoExp \notin SweepExps /\ OtherExp \notin SweepExps /\ OtherExp # NoExp
  /\ Params \in Seq(Range(Params)) /\ Regimes \in Seq(Range(Regimes))
  /\ \A i \in DOMAIN Params : Params[i].values \in Seq(Range(Params[i].values))
  /\ \A u \in Units : Outcomes[u] \subseteq {m \in Measured : m.st \in Terminal}

\* Create: the units carry an experiment only later.
CreatedSweep ==
  [status |-> "created", results |-> <<>>, report |-> NoReport,
   units |-> [u \in Units |-> [exp |-> FALSE, done |-> FALSE, status |-> "none"]]]

SweepInit ==
  /\ Validate(Params, Regimes)
  /\ sweepFile = [s \in Sweeps |-> CreatedSweep]
  /\ sweepActive = NoSweep /\ sweepStopReq = FALSE
  /\ runner = IdleRunner /\ stopper = NoSweep
  /\ expFile = [e \in SweepExps |-> Unmeasured("none")]
  /\ emActive = NoExp /\ emStopping = FALSE
  /\ sweepCalls = 0 /\ sweepFaults = 0
  /\ interrupted = {}

PendingUnits(s) == {u \in Units : ~sweepFile[s].units[u].done}
Exp == <<sweepActive, runner.u>>         \* the experiment of the unit in hand
At(l) == runner.pc = l
Fault == sweepFaults < MaxSweepFaults /\ sweepFaults' = sweepFaults + 1
NoFault == UNCHANGED sweepFaults

----------------------------------------------------------------------------
(* Start and Stop                                                          *)

SweepStart(s) ==
  /\ sweepActive = NoSweep /\ sweepCalls < MaxSweepCalls
  /\ sweepFile[s].status \notin {"running", "completed"}
  /\ PendingUnits(s) # {}
  /\ sweepFile' = [sweepFile EXCEPT ![s].status = "running"]
  /\ sweepActive' = s /\ sweepStopReq' = FALSE
  /\ runner' = [IdleRunner EXCEPT !.pc = "check"]
  /\ sweepCalls' = sweepCalls + 1
  /\ UNCHANGED <<stopper, expFile, emActive, emStopping, sweepFaults, interrupted>>

SweepStop(s) ==
  /\ sweepActive = s /\ stopper = NoSweep /\ sweepCalls < MaxSweepCalls
  /\ sweepStopReq' = TRUE
  /\ stopper' = s
  /\ sweepCalls' = sweepCalls + 1
  /\ UNCHANGED <<sweepFile, sweepActive, runner, expFile, emActive, emStopping, sweepFaults,
                 interrupted>>

CurrentUnitExperiment(s) ==
  LET cur == {u \in PendingUnits(s) : sweepFile[s].units[u].exp}
  IN IF cur = {} THEN NoExp ELSE <<s, Min(cur)>>

\* em.Stop(e) for the active experiment; it is refused for any other.
EmStop(e) == emStopping' = (emStopping \/ (e # NoExp /\ emActive = e))

SweepStopExperiment ==
  /\ stopper # NoSweep
  /\ EmStop(CurrentUnitExperiment(stopper))
  /\ stopper' = NoSweep
  /\ UNCHANGED <<sweepFile, sweepActive, sweepStopReq, runner, expFile, emActive, sweepCalls,
                 sweepFaults, interrupted>>

----------------------------------------------------------------------------
(* runSweep                                                                *)

RunnerOnly == UNCHANGED <<sweepActive, sweepStopReq, stopper, sweepCalls>>

NextUnit ==
  /\ At("check")
  /\ runner' = IF sweepStopReq \/ PendingUnits(sweepActive) = {}
               THEN [runner EXCEPT !.pc = "finish", !.last = IF sweepStopReq THEN "stopped" ELSE "completed"]
               ELSE [pc |-> "ensure", u |-> Min(PendingUnits(sweepActive)), last |-> "none"]
  /\ RunnerOnly /\ UNCHANGED <<sweepFile, expFile, emActive, emStopping, interrupted>> /\ NoFault

\* appendUnitResult: e is NoExp when the unit has nothing to show.
UnitRow(u, e) ==
  LET x == IF e = NoExp THEN Unmeasured("none") ELSE expFile[e]
  IN [regime |-> Plan[u].regime, label |-> Plan[u].label, cfg |-> Plan[u].cfg, exp |-> e,
      status |-> x.st, thr |-> x.thr, p99 |-> x.p99, dlv |-> x.dlv, best |-> FALSE]

\* Mutant: a result is stored in the place of the last one.
AppendOverLast(results, row) ==
  IF results = <<>> THEN <<row>> ELSE [results EXCEPT ![Len(results)] = row]

AppendUnitResult(results, row) ==
  LET old == {i \in DOMAIN results : results[i].regime = row.regime /\ results[i].cfg = row.cfg}
  IN IF old = {} THEN Append(results, row) ELSE [results EXCEPT ![Min(old)] = row]

\* The unit in hand is over, with this status and the row of experiment e.
StoreUnit(status, e) ==
  LET f == sweepFile[sweepActive]
      u == runner.u
  IN sweepFile' = [sweepFile EXCEPT ![sweepActive] =
       [status |-> f.status, report |-> f.report,
        results |-> AppendUnitResult(f.results, UnitRow(u, e)),
        units |-> [f.units EXCEPT ![u] = [exp |-> f.units[u].exp, done |-> TRUE, status |-> status]]]]

\* The goroutine does not look whether the Save failed.
UnitDone(status, e) ==
  \/ StoreUnit(status, e) /\ NoFault
  \/ Fault /\ UNCHANGED sweepFile

EnsureFailed ==
  /\ runner' = [runner EXCEPT !.pc = "failed"]
  /\ RunnerOnly /\ UNCHANGED <<sweepFile, emActive, emStopping, interrupted>>

\* createSweepExperiment, and the unit saved with the experiment's id.
CreateExperiment ==
  /\ At("ensure") /\ ~sweepFile[sweepActive].units[runner.u].exp
  /\ expFile' = [expFile EXCEPT ![Exp].st = "created"]
  /\ sweepFile' = [sweepFile EXCEPT ![sweepActive].units[runner.u].exp = TRUE]
  /\ runner' = [runner EXCEPT !.pc = "start"]
  /\ RunnerOnly /\ UNCHANGED <<emActive, emStopping, interrupted>> /\ NoFault

\* No experiment, or one that no file knows of because the save of the unit failed.
CreateFails ==
  /\ At("ensure") /\ ~sweepFile[sweepActive].units[runner.u].exp
  /\ EnsureFailed /\ UNCHANGED expFile /\ Fault

\* The unit was begun before: its result could not be saved.
FindExperiment ==
  /\ At("ensure") /\ sweepFile[sweepActive].units[runner.u].exp
  /\ runner' = [runner EXCEPT !.pc = IF expFile[Exp].st = "created" THEN "start" ELSE "poll"]
  /\ RunnerOnly /\ UNCHANGED <<sweepFile, expFile, emActive, emStopping, interrupted>> /\ NoFault

StartExperiment ==
  /\ At("start") /\ emActive = NoExp
  /\ expFile' = [expFile EXCEPT ![Exp].st = "running"]
  /\ emActive' = Exp /\ emStopping' = FALSE
  /\ runner' = [runner EXCEPT !.pc = "poll"]
  /\ RunnerOnly /\ UNCHANGED <<sweepFile, interrupted>> /\ NoFault

\* Refused at once while another experiment is active: this one stays created.
StartRefusedByManager ==
  /\ At("start") /\ emActive # NoExp
  /\ EnsureFailed /\ UNCHANGED expFile /\ NoFault

LaunchFailsAtOnce ==
  /\ At("start") /\ emActive = NoExp
  /\ expFile' = [expFile EXCEPT ![Exp].st = "failed"]
  /\ EnsureFailed /\ Fault

\* The unit that could not be started is over, and the loop goes on to the next one.
RecordFailed ==
  /\ At("failed")
  /\ UnitDone("failed", NoExp)
  /\ runner' = [runner EXCEPT !.pc = "check"]
  /\ RunnerOnly /\ UNCHANGED <<expFile, emActive, emStopping, interrupted>>

\* Mutant: only a completed experiment is waited for.
PollCompleted ==
  /\ At("poll") /\ ~sweepStopReq
  /\ LET st == expFile[Exp].st
     IN runner' = [runner EXCEPT !.last = st, !.pc = IF st = "completed" THEN "record" ELSE "poll"]
  /\ RunnerOnly /\ UNCHANGED <<sweepFile, expFile, emActive, emStopping, interrupted>> /\ NoFault

Poll ==
  /\ At("poll") /\ ~sweepStopReq
  /\ LET st == expFile[Exp].st
     IN runner' = [runner EXCEPT !.last = st, !.pc = IF st \in Terminal THEN "record" ELSE "poll"]
  /\ RunnerOnly /\ UNCHANGED <<sweepFile, expFile, emActive, emStopping, interrupted>> /\ NoFault

PollStopped ==
  /\ At("poll") /\ sweepStopReq
  /\ runner' = [runner EXCEPT !.pc = "record"]
  /\ interrupted' = interrupted \cup {Exp}
  /\ RunnerOnly /\ UNCHANGED <<sweepFile, expFile, emActive, emStopping>> /\ NoFault

\* Status and metrics are read again for the row; without a polled status the unit is "unknown".
Record ==
  /\ At("record")
  /\ UnitDone(IF runner.last = "none" THEN "unknown" ELSE runner.last,
              IF runner.last = "none" THEN NoExp ELSE Exp)
  /\ runner' = [runner EXCEPT !.pc = "check"]
  /\ RunnerOnly /\ UNCHANGED <<expFile, emActive, emStopping, interrupted>>

\* The rows of a regime's best configuration are flagged; no flag is ever taken back.
FlagBest(results, rep) ==
  [i \in DOMAIN results |->
     LET r == results[i]
     IN [r EXCEPT !.best = @ \/ (r.regime \in DOMAIN rep.best /\ rep.best[r.regime].label = r.label)]]

FinishSweep ==
  /\ At("finish")
  /\ LET f == sweepFile[sweepActive]
         tunable == SweepHasSystemParam(Params)
     IN \/ /\ \E rep \in IF f.results = <<>> THEN {NoReport}
                         ELSE BuildCrossRegimeReports(f.results, Regimes, tunable) :
                sweepFile' = [sweepFile EXCEPT
                  ![sweepActive] = [f EXCEPT !.status = runner.last, !.report = rep,
                                             !.results = FlagBest(f.results, rep)]]
           /\ NoFault
        \/ Fault /\ UNCHANGED sweepFile
  /\ runner' = [runner EXCEPT !.pc = "leave"]
  /\ RunnerOnly /\ UNCHANGED <<expFile, emActive, emStopping, interrupted>>

LeaveSweep ==
  /\ At("leave")
  /\ sweepActive' = NoSweep
  /\ runner' = IdleRunner
  /\ UNCHANGED <<sweepFile, sweepStopReq, stopper, expFile, emActive, emStopping, sweepCalls,
                 sweepFaults, interrupted>>

----------------------------------------------------------------------------
(* The experiment manager and its other users; the end of the process      *)

SweepSideOnly == UNCHANGED <<sweepFile, sweepActive, sweepStopReq, runner, stopper, sweepCalls,
                             interrupted>>

\* A session ends; one that was told to stop may keep what its finished repetitions measured.
EmEnd ==
  /\ emActive # NoExp
  /\ \/ emActive = OtherExp /\ UNCHANGED expFile
     \/ /\ emActive # OtherExp
        /\ \E o \in Outcomes[emActive[2]] \cup {Unmeasured("failed")} :
             \E st \in {o.st} \cup (IF emStopping THEN {"stopped"} ELSE {}) :
               expFile' = [expFile EXCEPT ![emActive] = [o EXCEPT !.st = st]]
  /\ emActive' = NoExp /\ emStopping' = FALSE
  /\ SweepSideOnly /\ NoFault

OtherStart ==
  /\ emActive = NoExp /\ Fault
  /\ emActive' = OtherExp
  /\ UNCHANGED <<expFile, emStopping>> /\ SweepSideOnly

UserStop ==
  /\ emActive # NoExp /\ ~emStopping /\ Fault
  /\ emStopping' = TRUE
  /\ UNCHANGED <<expFile, emActive>> /\ SweepSideOnly

\* What is stored as running stays so, and Start then refuses it.
SweepCrash ==
  /\ sweepActive # NoSweep /\ Fault
  /\ sweepActive' = NoSweep /\ sweepStopReq' = FALSE
  /\ runner' = IdleRunner /\ stopper' = NoSweep
  /\ emActive' = NoExp /\ emStopping' = FALSE
  /\ UNCHANGED <<sweepFile, expFile, sweepCalls, interrupted>>

RunnerStep ==
  \/ NextUnit \/ CreateExperiment \/ CreateFails \/ FindExperiment
  \/ StartExperiment \/ StartRefusedByManager \/ LaunchFailsAtOnce \/ RecordFailed
  \/ Poll \/ PollStopped \/ Record \/ FinishSweep \/ LeaveSweep

SweepNext ==
  \/ \E s \in Sweeps : SweepStart(s) \/ SweepStop(s)
  \/ SweepStopExperiment
  \/ RunnerStep
  \/ EmEnd \/ OtherStart \/ UserStop \/ SweepCrash

\* The goroutine of runSweep keeps running and a load test ends by itself.
SweepFairness == WF_sweepVars(RunnerStep) /\ WF_sweepVars(EmEnd)

----------------------------------------------------------------------------
(* Properties                                                              *)

\* The units that share a row: a regime that the request names twice gives a configuration two
\* units with one key, and the row shows the later of the two.
SameRow(u) == {v \in Units : Plan[v].regime = Plan[u].regime /\ Plan[v].cfg = Plan[u].cfg}

\* Row r is that of a unit with experiment e, stored as x: it shows the experiment's final status
\* and measures, what it was when the wait for it was cut short, or that there was none to show.
Shows(unit, e, x, cut, r) ==
  /\ unit.done
  /\ \/ /\ r.exp = NoExp /\ r.thr = 0 /\ r.p99 = 0 /\ r.dlv = 0
        /\ unit.status = "failed" \/ (unit.status = "unknown" /\ cut)
     \/ r.exp = e /\ cut
     \/ /\ r.exp = e /\ r.status \in Terminal
        /\ r.status = x.st /\ r.status = unit.status
        /\ r.thr = x.thr /\ r.p99 = x.p99 /\ r.dlv = x.dlv

ShowsUnit(s, u, r) ==
  Shows(sweepFile[s].units[u], <<s, u>>, expFile[<<s, u>>], <<s, u>> \in interrupted, r)

\* RowIsOwn: every unit that is done has exactly one row, and unless a stop cut the wait short the
\* row shows its own experiment's final status and measures (Record, appendUnitResult): the status
\* polled, the status read again for the row and the order of the units never mix two experiments.
RowIsOwn ==
  \A s \in Sweeps : \A u \in Units :
    LET f == sweepFile[s]
        rows == {i \in DOMAIN f.results : f.results[i].regime = Plan[u].regime /\ f.results[i].cfg = Plan[u].cfg}
    IN /\ Cardinality(rows) = IF \E v \in SameRow(u) : f.units[v].done THEN 1 ELSE 0
       /\ \A i \in rows : \E v \in SameRow(u) : ShowsUnit(s, v, f.results[i])

\* What a report says of the rows: every regime with a row has a best configuration that is one of
\* its own, none of its configurations is ranked before it, and GO takes feasible best
\* configurations in all regimes that are not all the same. The last row of a label stands for it,
\* and a regime that the request names twice may differ from itself.
ReportFits(results, report) ==
  LET best == report.best
  IN /\ \A i \in DOMAIN results :
          LET rg == results[i].regime
          IN /\ rg \in DOMAIN best
             /\ \E j \in FilterByRegime(results, rg) : best[rg] = RankedOf(results[j])
             /\ i \in ByConfig(results, rg) => ~Before(RankedOf(results[i]), best[rg])
     /\ report.go =>
          /\ \A rg \in DOMAIN best : best[rg].feasible
          /\ \/ \E r1, r2 \in DOMAIN best : best[r1].label # best[r2].label
             \/ \E i, j \in DOMAIN Regimes : i # j /\ Regimes[i] = Regimes[j]

\* ReportSound: the report of an ended sweep speaks of all its rows, the ones of an earlier Start
\* included (finishSweep, pickBest, evaluateGate).
ReportSound ==
  \A s \in Sweeps :
    LET f == sweepFile[s]
    IN f.status \in {"stopped", "completed"} => ReportFits(f.results, f.report)

----------------------------------------------------------------------------
(* The inductive invariant behind RowIsOwn and ReportSound                 *)

ResultRows ==
  [regime : Range(Regimes), label : {Plan[u].label : u \in Units}, cfg : Nat, exp : {NoExp} \cup SweepExps,
   status : StatusesOfExps, thr : Nat, p99 : Nat, dlv : Nat, best : BOOLEAN]

UnitRecords == [exp : BOOLEAN, done : BOOLEAN, status : StatusesOfExps \cup {"unknown"}]

StoredSweep(f) ==
  /\ f = [status |-> f.status, results |-> f.results, report |-> f.report, units |-> f.units]
  /\ f.status \in {"created", "running", "stopped", "completed"}
  /\ f.results \in Seq(ResultRows) /\ f.units \in [Units -> UnitRecords]

SweepTypes ==
  /\ sweepFile = [s \in Sweeps |-> sweepFile[s]] /\ \A s \in Sweeps : StoredSweep(sweepFile[s])
  /\ sweepActive \in Sweeps \cup {NoSweep} /\ sweepStopReq \in BOOLEAN
  /\ stopper \in Sweeps \cup {NoSweep}
  /\ runner \in [pc : {"idle", "check", "ensure", "start", "failed", "poll", "record", "finish", "leave"},
                 u : Units \cup {0}, last : StatusesOfExps]
  /\ expFile \in [SweepExps -> Measured]
  /\ emActive \in SweepExps \cup {NoExp, OtherExp} /\ emStopping \in BOOLEAN
  /\ interrupted \subseteq SweepExps

\* The goroutine works on a pending unit of the active sweep, stored as running; what it is about
\* to record is the final status it polled, unless a stop cut the wait short.
RunnerOwn ==
  /\ At("idle") <=> sweepActive = NoSweep
  /\ runner.pc \notin {"idle", "leave"} => sweepFile[sweepActive].status = "running"
  /\ runner.pc \in {"ensure", "start", "failed", "poll", "record"} => runner.u \in PendingUnits(sweepActive)
  /\ runner.pc \in {"start", "poll", "record"} => sweepFile[sweepActive].units[runner.u].exp
  /\ At("record") => \/ Exp \in interrupted
                     \/ runner.last \in Terminal /\ expFile[Exp].st = runner.last
  /\ At("finish") => runner.last \in {"stopped", "completed"}

\* An experiment the manager runs is stored as running, and a unit knows the one created for it.
ExperimentsOwn ==
  /\ emActive \in SweepExps => expFile[emActive].st = "running"
  /\ \A s \in Sweeps : \A u \in Units : expFile[<<s, u>>].st # "none" => sweepFile[s].units[u].exp

SameKey(r, q) == r.regime = q.regime /\ r.cfg = q.cfg

\* One row for a key, every row is that of a unit that is done, and every such unit has one.
RowsOwn ==
  \A s \in Sweeps :
    LET f == sweepFile[s]
    IN /\ \A i, j \in DOMAIN f.results : SameKey(f.results[i], f.results[j]) => i = j
       /\ \A i \in DOMAIN f.results :
            \E v \in Units : SameKey(Plan[v], f.results[i]) /\ ShowsUnit(s, v, f.results[i])
       /\ \A u \in Units : f.units[u].done => \E i \in DOMAIN f.results : SameKey(Plan[u], f.results[i])

SweepInv == SweepTypes /\ RunnerOwn /\ ExperimentsOwn /\ RowsOwn /\ ReportSound

----------------------------------------------------------------------------
(* Liveness, and what Stop is documented to do                             *)

\* A crash left the experiment that the loop waits for stored as running.
Orphaned == At("poll") /\ expFile[Exp].st = "running" /\ emActive # Exp

\* SweepEnds: a started sweep ends, whatever is stopped, refused or lost on the way (runSweep's two
\* loops): the wait for an experiment is left and a lost save does not make the loop run forever,
\* unless the experiment is one that a crash left running, which nothing ever ends.
SweepEnds == \A s \in Sweeps : (sweepActive = s) ~> (sweepActive = NoSweep \/ Orphaned)

\* StopIsHeeded: what Stop is documented to do (ops/sweep_manager.go:119): once the sweep is stored
\* as stopped and Stop has returned, no experiment of it goes on without having been told to stop.
StopIsHeeded ==
  \A s \in Sweeps :
    sweepFile[s].status = "stopped" /\ stopper = NoSweep /\ emActive \in {s} \X Units => emStopping
=============================================================================
