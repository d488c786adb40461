------------------------- MODULE ExperimentManager -------------------------
(***************************************************************************)
(* The experiment manager of the ops console: ops/experiment_manager.go    *)
(* (Start, Stop, beginRun, finishRun, finalizeExperiment), run.go,         *)
(* experiment.go (CanStart), loadtest.go (the single load test child),     *)
(* experiment_store.go (one file per experiment, replaced by rename) and   *)
(* serverproc.go (the single controlled server).                           *)
(*                                                                         *)
(* Goroutines: Callers execute Start and Stop for HTTP requests and for    *)
(* the sweep manager; Loops wait for a load test child and run finishRun.  *)
(* Every critical section, every Load and every Save is one step; an       *)
(* Experiment between a Load and a Save is a goroutine's own copy, so a    *)
(* Save can overwrite what another goroutine wrote meanwhile.              *)
(*                                                                         *)
(* A run is its status and, when completed, the child that measured it.    *)
(* Results, aggregates, environments, samplers and audit events are left   *)
(* out, and so are failing Saves, which the code only logs.                *)
(***************************************************************************)
EXTENDS Integers, FiniteSets, FiniteSetsExt

CONSTANTS
  Exps,        \* experiments created so far
  Reps,        \* their repetitions
  Config,      \* per experiment: the system_config it wants, NoConfig for none
  Callers, Loops,
  None, NoConfig,
  MaxCalls,    \* bound: calls of Start and Stop
  MaxFaults,   \* bound: child or controlled server that cannot be started
  MaxCrashes   \* bound: ends of the ops process

ASSUME ExperimentManagerAssumption ==
  /\ Reps \in Nat \ {0} /\ None \notin Exps /\ Callers \cap Loops = {}

VARIABLES
  disk,                       \* the experiment files
  active, activeRun, outcome, \* ExperimentManager's fields
  server,                     \* the configuration the controlled server runs with
  pc, cur, idx, loc,          \* per goroutine: where it is, its experiment, repetition and copy
  child,                      \* per loop: the run its child was launched for and how it ended
  calls, faults, crashes,     \* bound counters
  \* history
  collided,    \* a Start passed the check while another goroutine was starting or finishing,
               \* or with a record that is stale by then
  stopped,     \* experiments a Stop was accepted for since their last Start
  todo         \* per experiment: runs its last Start planned and that have not begun since

mgrVars == <<active, activeRun, outcome>>
bounds == <<calls, faults, crashes>>
vars == <<disk, mgrVars, server, pc, cur, idx, loc, child, bounds, collided, stopped, todo>>

Indexes == 1..Reps
Actors == Callers \cup Loops
RunStatuses == {"none", "running", "completed", "failed", "stopped"}
ExpStatuses == {"created", "running", "completed", "partial", "failed", "stopped"}
NoRun == [st |-> "none", by |-> None]
Fresh == [status |-> "created", runs |-> [i \in Indexes |-> NoRun]]
NoChild == [exp |-> None, run |-> 0, end |-> "none"]

----------------------------------------------------------------------------
(* Pure parts                                                              *)

Having(x, st) == {i \in Indexes : x.runs[i].st = st}
Attempted(x) == Indexes \ Having(x, "none")

DeriveExperimentStatus(x) ==
  IF Attempted(x) = {} THEN "created"
  ELSE IF Having(x, "running") # {} THEN "running"
  ELSE IF Having(x, "stopped") # {} THEN "stopped"
  ELSE IF Having(x, "completed") = Attempted(x) THEN "completed"
  ELSE IF Having(x, "completed") = {} THEN "failed" ELSE "partial"

CanStart(x) == x.status # "running"

\* Mutant: a resume starts from scratch.
PlanAlwaysFresh(x) == [fresh |-> TRUE, todo |-> Indexes]

\* Runs to execute; fresh when the old ones are thrown away.
PlanStartRuns(x) ==
  LET left == Indexes \ Having(x, "completed")
      fresh == Attempted(x) = {} \/ x.status \in {"created", "completed"} \/ left = {}
  IN [fresh |-> fresh, todo |-> IF fresh THEN Indexes ELSE left]

\* Mutant: a failed repetition is retried at once.
NextTodoRetries(x) ==
  LET left == Having(x, "none") \cup Having(x, "failed") IN IF left = {} THEN 0 ELSE Min(left)

\* The next repetition nobody has tried; failed ones wait for the next Start.
NextTodoIndex(x) == IF Attempted(x) = Indexes THEN 0 ELSE Min(Indexes \ Attempted(x))

SetRun(x, i, st, by) == [x EXCEPT !.runs[i] = [st |-> st, by |-> by]]

----------------------------------------------------------------------------
Init ==
  /\ disk = [e \in Exps |-> Fresh]
  /\ active = None /\ activeRun = 0 /\ outcome = "none"
  /\ server = NoConfig
  /\ pc = [a \in Actors |-> "idle"]
  /\ cur = [a \in Actors |-> None]
  /\ idx = [a \in Actors |-> 0]
  /\ loc = [a \in Actors |-> Fresh]
  /\ child = [g \in Loops |-> NoChild]
  /\ calls = 0 /\ faults = 0 /\ crashes = 0
  /\ collided = FALSE
  /\ stopped = {}
  /\ todo = [e \in Exps |-> {}]

Goto(a, l) == pc' = [pc EXCEPT ![a] = l]

\* A goroutine returns; its locals are forgotten.
Return(a) ==
  /\ Goto(a, "idle")
  /\ cur' = [cur EXCEPT ![a] = None]
  /\ idx' = [idx EXCEPT ![a] = 0]
  /\ loc' = [loc EXCEPT ![a] = Fresh]

Waiting == {g \in Loops : pc[g] = "wait"}    \* loadtestManager.running
\* Between passing Start's check and the end of beginRun, or inside finishRun.
Busy == {a \in Actors : pc[a] \notin {"idle", "wait", "exited", "check", "cancel"}}

----------------------------------------------------------------------------
(* Start                                                                   *)

Start(c, e) ==
  /\ pc[c] = "idle" /\ calls < MaxCalls
  /\ CanStart(disk[e])
  /\ calls' = calls + 1
  /\ Goto(c, "check")
  /\ cur' = [cur EXCEPT ![c] = e]
  /\ loc' = [loc EXCEPT ![c] = disk[e]]
  /\ UNCHANGED <<disk, mgrVars, server, idx, child, faults, crashes, collided, stopped, todo>>

StartRefused(c) ==
  /\ pc[c] = "check" /\ active # None
  /\ Return(c)
  /\ UNCHANGED <<disk, mgrVars, server, child, bounds, collided, stopped, todo>>

StartChecked(c) ==
  LET plan == PlanStartRuns(loc[c]) IN
  /\ pc[c] = "check" /\ active = None
  /\ collided' = (collided \/ Busy # {} \/ loc[c] # disk[cur[c]])
  /\ Goto(c, "plan")
  /\ loc' = [loc EXCEPT ![c] = IF plan.fresh THEN [@ EXCEPT !.runs = Fresh.runs] ELSE @]
  /\ idx' = [idx EXCEPT ![c] = Min(plan.todo)]
  /\ stopped' = stopped \ {cur[c]}
  /\ todo' = [todo EXCEPT ![cur[c]] = plan.todo]
  /\ UNCHANGED <<disk, mgrVars, server, cur, child, bounds>>

SavePlan(c) ==
  /\ pc[c] = "plan"
  /\ disk' = [disk EXCEPT ![cur[c]] = loc[c]]
  /\ Goto(c, IF Config[cur[c]] = NoConfig THEN "load" ELSE "ensure")
  /\ UNCHANGED <<mgrVars, server, cur, idx, loc, child, bounds, collided, stopped, todo>>

\* ServerProcessManager.Ensure: the running server is kept or replaced.
EnsureServer(c) ==
  /\ pc[c] = "ensure"
  /\ server' = Config[cur[c]]
  /\ Goto(c, "load")
  /\ UNCHANGED <<disk, mgrVars, cur, idx, loc, child, bounds, collided, stopped, todo>>

EnsureFails(c) ==
  /\ pc[c] = "ensure" /\ server # Config[cur[c]] /\ faults < MaxFaults
  /\ faults' = faults + 1
  /\ server' = NoConfig
  /\ disk' = [disk EXCEPT ![cur[c]] = [loc[c] EXCEPT !.status = "failed"]]
  /\ Return(c)
  /\ UNCHANGED <<mgrVars, child, calls, crashes, collided, stopped, todo>>

----------------------------------------------------------------------------
(* beginRun, for a caller or for the loop that finished the run before     *)

BeginLoad(a) ==
  /\ pc[a] = "load"
  /\ loc' = [loc EXCEPT ![a] = [SetRun(disk[cur[a]], idx[a], "running", None)
                                  EXCEPT !.status = "running"]]
  /\ Goto(a, "save")
  /\ UNCHANGED <<disk, mgrVars, server, cur, idx, child, bounds, collided, stopped, todo>>

BeginSave(a) ==
  /\ pc[a] = "save"
  /\ disk' = [disk EXCEPT ![cur[a]] = loc[a]]
  /\ todo' = [todo EXCEPT ![cur[a]] = @ \ {idx[a]}]
  /\ Goto(a, "claim")
  /\ UNCHANGED <<mgrVars, server, cur, idx, loc, child, bounds, collided, stopped>>

Claim(a) ==
  /\ pc[a] = "claim"
  /\ active' = cur[a] /\ activeRun' = idx[a] /\ outcome' = "completed"
  /\ Goto(a, "launch")
  /\ UNCHANGED <<disk, server, cur, idx, loc, child, bounds, collided, stopped, todo>>

\* loadtestManager.Start: refuses a second child; the new goroutine g waits for the first.
\* A loop that launches the next run ends, so it stands for the new goroutine too.
Launch(a) ==
  /\ pc[a] = "launch" /\ Waiting = {}
  /\ \E g \in Loops :
       /\ IF a \in Loops THEN g = a ELSE pc[g] = "idle"
       /\ child' = [child EXCEPT ![g] = [exp |-> cur[a], run |-> idx[a], end |-> "none"]]
       /\ pc' = [pc EXCEPT ![a] = "idle", ![g] = "wait"]
  /\ cur' = [cur EXCEPT ![a] = None]
  /\ idx' = [idx EXCEPT ![a] = 0]
  /\ loc' = [loc EXCEPT ![a] = Fresh]
  /\ UNCHANGED <<disk, mgrVars, server, bounds, collided, stopped, todo>>

\* Mutant: a launch that fails is not finalized.
LaunchFailsForgets(a) ==
  /\ pc[a] = "launch" /\ faults < MaxFaults /\ faults' = faults + 1
  /\ active' = None /\ activeRun' = 0 /\ outcome' = "none"
  /\ Return(a)
  /\ UNCHANGED <<disk, server, child, calls, crashes, collided, stopped, todo>>

LaunchFails(a) ==
  /\ pc[a] = "launch"
  /\ \/ Waiting # {} /\ faults' = faults
     \/ Waiting = {} /\ faults < MaxFaults /\ faults' = faults + 1
  /\ active' = None /\ activeRun' = 0 /\ outcome' = "none"
  /\ loc' = [loc EXCEPT ![a] = SetRun(@, idx[a], "failed", None)]
  /\ Goto(a, "saveFailed")
  /\ UNCHANGED <<disk, server, cur, idx, child, calls, crashes, collided, stopped, todo>>

SaveFailed(a) ==
  /\ pc[a] = "saveFailed"
  /\ disk' = [disk EXCEPT ![cur[a]] = loc[a]]
  /\ loc' = [loc EXCEPT ![a].status = DeriveExperimentStatus(loc[a])]
  /\ Goto(a, "release")
  /\ UNCHANGED <<mgrVars, server, cur, idx, child, bounds, collided, stopped, todo>>

----------------------------------------------------------------------------
(* The child and finishRun                                                 *)

\* The child ends by itself, cleanly or not, or because it was cancelled; its goroutine clears running.
ChildExit(g, end) ==
  /\ pc[g] = "wait"
  /\ end = "error" => child[g].end # "cancelled"
  /\ child' = [child EXCEPT ![g].end = end]
  /\ Goto(g, "exited")
  /\ UNCHANGED <<disk, mgrVars, server, cur, idx, loc, bounds, collided, stopped, todo>>

\* finishRun takes the run that is active now, whichever child has ended.
FinishRun(g) ==
  /\ pc[g] = "exited" /\ active # None
  /\ cur' = [cur EXCEPT ![g] = active]
  /\ idx' = [idx EXCEPT ![g] = activeRun]
  /\ child' = [child EXCEPT ![g].end = IF outcome = "stopped" THEN "stopped" ELSE @]
  /\ active' = None /\ activeRun' = 0 /\ outcome' = "none"
  /\ Goto(g, "finish")
  /\ UNCHANGED <<disk, server, loc, bounds, collided, stopped, todo>>

FinishUnknown(g) ==
  /\ pc[g] = "exited" /\ active = None
  /\ child' = [child EXCEPT ![g] = NoChild]
  /\ Goto(g, "idle")
  /\ UNCHANGED <<disk, mgrVars, server, cur, idx, loc, bounds, collided, stopped, todo>>

RunEnd(g) ==
  CASE child[g].end = "stopped" -> "stopped"
    [] child[g].end = "report"  -> "completed"
    [] OTHER                    -> "failed"

\* Mutant: a stopped run is followed by the next repetition.
FinishGoesOn(g) ==
  LET x == SetRun(disk[cur[g]], idx[g], RunEnd(g), None)
      more == NextTodoIndex(x) > 0
  IN
  /\ pc[g] = "finish"
  /\ loc' = [loc EXCEPT ![g] = [x EXCEPT !.status = IF more THEN "running" ELSE DeriveExperimentStatus(x)]]
  /\ child' = [child EXCEPT ![g] = NoChild]
  /\ Goto(g, IF more THEN "saveNext" ELSE "release")
  /\ UNCHANGED <<disk, mgrVars, server, cur, idx, bounds, collided, stopped, todo>>

\* What finishRun and finalizeExperiment make of the record they load.
Finish(g) ==
  LET x == SetRun(disk[cur[g]], idx[g], RunEnd(g),
                  IF RunEnd(g) = "completed" THEN <<child[g].exp, child[g].run>> ELSE None)
      more == NextTodoIndex(x) > 0 /\ RunEnd(g) # "stopped"
  IN
  /\ pc[g] = "finish"
  /\ loc' = [loc EXCEPT ![g] = [x EXCEPT !.status = IF more THEN "running" ELSE DeriveExperimentStatus(x)]]
  /\ child' = [child EXCEPT ![g] = NoChild]
  /\ Goto(g, IF more THEN "saveNext" ELSE "release")
  /\ UNCHANGED <<disk, mgrVars, server, cur, idx, bounds, collided, stopped, todo>>

SaveNext(g) ==
  /\ pc[g] = "saveNext"
  /\ disk' = [disk EXCEPT ![cur[g]] = loc[g]]
  /\ idx' = [idx EXCEPT ![g] = NextTodoIndex(loc[g])]
  /\ Goto(g, "load")
  /\ UNCHANGED <<mgrVars, server, cur, loc, child, bounds, collided, stopped, todo>>

\* finalizeExperiment: the controlled server goes before the record is saved.
Release(a) ==
  /\ pc[a] = "release"
  /\ server' = IF Config[cur[a]] = NoConfig THEN server ELSE NoConfig
  /\ Goto(a, "final")
  /\ UNCHANGED <<disk, mgrVars, cur, idx, loc, child, bounds, collided, stopped, todo>>

SaveFinal(a) ==
  /\ pc[a] = "final"
  /\ disk' = [disk EXCEPT ![cur[a]] = loc[a]]
  /\ Return(a)
  /\ UNCHANGED <<mgrVars, server, child, bounds, collided, stopped, todo>>

----------------------------------------------------------------------------
(* Stop and the end of the process                                         *)

Stop(c) ==
  /\ pc[c] = "idle" /\ calls < MaxCalls
  /\ active # None
  /\ calls' = calls + 1
  /\ outcome' = "stopped"
  /\ stopped' = stopped \cup {active}
  /\ Goto(c, "cancel")
  /\ UNCHANGED <<disk, active, activeRun, server, cur, idx, loc, child, faults, crashes, collided, todo>>

\* loadtestManager.Stop cancels the child there is now, if any.
CancelChild(c) ==
  /\ pc[c] = "cancel"
  /\ child' = [g \in Loops |-> IF g \in Waiting THEN [child[g] EXCEPT !.end = "cancelled"] ELSE child[g]]
  /\ Goto(c, "idle")
  /\ UNCHANGED <<disk, mgrVars, server, cur, idx, loc, bounds, collided, stopped, todo>>

\* A crash, or an orderly end that does not wait for finishRun.
Crash ==
  /\ crashes < MaxCrashes
  /\ crashes' = crashes + 1
  /\ pc' = [a \in Actors |-> "idle"]
  /\ cur' = [a \in Actors |-> None]
  /\ idx' = [a \in Actors |-> 0]
  /\ loc' = [a \in Actors |-> Fresh]
  /\ child' = [g \in Loops |-> NoChild]
  /\ active' = None /\ activeRun' = 0 /\ outcome' = "none"
  /\ server' = NoConfig
  /\ UNCHANGED <<disk, calls, faults, collided, stopped, todo>>

BeginRun(a) == BeginLoad(a) \/ BeginSave(a) \/ Claim(a) \/ Launch(a) \/ LaunchFails(a) \/ SaveFailed(a)
Finalize(a) == Release(a) \/ SaveFinal(a)
CallerStep(c) ==
  \/ StartRefused(c) \/ StartChecked(c) \/ SavePlan(c)
  \/ EnsureServer(c) \/ EnsureFails(c) \/ CancelChild(c)
LoopStep(g) ==
  \/ \E end \in {"report", "error", "noReport"} : ChildExit(g, end)
  \/ FinishRun(g) \/ FinishUnknown(g) \/ Finish(g) \/ SaveNext(g)
Step(a) == BeginRun(a) \/ Finalize(a) \/ (a \in Callers /\ CallerStep(a)) \/ (a \in Loops /\ LoopStep(a))

Next ==
  \/ \E c \in Callers : (\E e \in Exps : Start(c, e)) \/ Stop(c)
  \/ \E a \in Actors : Step(a)
  \/ Crash

Spec == Init /\ [][Next]_vars

\* Goroutines run, and a load test ends: it has a duration.
FairSpec == Spec /\ \A a \in Actors : WF_vars(Step(a))

----------------------------------------------------------------------------
(* Properties                                                              *)

TypeOK ==
  /\ disk \in [Exps -> [status : ExpStatuses, runs : [Indexes ->
       [st : RunStatuses, by : {None} \cup (Exps \X Indexes)]]]]
  /\ active \in Exps \cup {None}
  /\ activeRun \in 0..Reps
  /\ server \in {Config[e] : e \in Exps} \cup {NoConfig}
  /\ \A a \in Actors : cur[a] \in Exps \cup {None} /\ idx[a] \in 0..Reps

Clean == ~collided /\ crashes = 0
InHand(e) ==
  \/ \E a \in Actors : cur[a] = e /\ pc[a] # "check"
  \/ active = e /\ \E g \in Loops : pc[g] \in {"wait", "exited"}

\* An experiment the store calls running is in some goroutine's hands, so that it gets an end:
\* beginRun saves "running", and only finalizeExperiment (experiment_manager.go:612) replaces it.
\* Excepted are ends of the process (nothing reads the store again at start-up) and a Start that
\* fell into another one or between two repetitions, whose failure clears the other's claim.
RunningIsOwned == Clean => \A e \in Exps : disk[e].status = "running" => InHand(e)

\* What is stored as the result of a repetition was measured by the child launched for it:
\* finishRun (experiment_manager.go:504) attributes a report to whatever run is active by then.
ResultIsOwn ==
  ~collided => \A e \in Exps, i \in Indexes :
    disk[e].runs[i].st = "completed" => disk[e].runs[i].by = <<e, i>>

\* An experiment is stored as completed only with every repetition completed (run.go:87 judges
\* only the runs there are).  The one exception is the record a new Start of a completed
\* experiment saves before its first run (experiment_manager.go:405): completed, without runs.
CompletedMeansAll ==
  Clean => \A e \in Exps : disk[e].status = "completed" =>
    Having(disk[e], "completed") = Indexes \/ (Attempted(disk[e]) = {} /\ InHand(e))

\* While a load test of an experiment with a system_config runs, the controlled server has
\* that configuration (experiment_manager.go:414 ensures it once, before the first repetition).
ServerMatches ==
  Clean => \A g \in Waiting : Config[child[g].exp] # NoConfig => server = Config[child[g].exp]

\* What the store says of experiments is what happened: who is running has an owner, a result was
\* measured for its repetition and on the configured server, and completed means all of them.
StoreTruthful == RunningIsOwned /\ ResultIsOwn /\ CompletedMeansAll /\ ServerMatches

\* After an accepted Stop no further repetition of the experiment begins (experiment_manager.go:572),
\* and its last run is not stored as completed.
StopSticks ==
  ~collided => \A e \in stopped :
    /\ ~\E g \in Loops : cur[g] = e /\ pc[g] \in {"saveNext", "load", "save", "claim"}
    /\ ~\E g \in Loops : cur[g] = e /\ pc[g] \in {"release", "final"} /\ loc[g].status = "completed"

\* A resume keeps completed repetitions (experiment_manager.go:352): a stored completed run is
\* only ever replaced when Start executes a completed experiment anew.
KeepsCompleted ==
  [][~collided => \A e \in Exps : disk[e].status # "completed" =>
        Having(disk[e], "completed") \subseteq Having(disk'[e], "completed")]_vars

\* Every experiment that starts running reaches an end, whatever fails: a load test has a duration
\* and every path of finishRun and beginRun ends in finalizeExperiment.
RunEnds ==
  \A e \in Exps : (Clean /\ disk[e].status = "running") ~> (~Clean \/ disk[e].status # "running")

\* As planStartRuns says (experiment_manager.go:342), a Start that resumes an experiment retries
\* every repetition that has not completed: when it ends by itself, nothing planned is left.
RestartRetriesAll ==
  \A e \in Exps : (Clean /\ faults = 0 /\ disk[e].status \in {"completed", "partial", "failed"}
                    /\ ~InHand(e)) => todo[e] = {}

----------------------------------------------------------------------------
(* The inductive invariant behind StoreTruthful, StopSticks, KeepsCompleted *)

Records == [status : ExpStatuses, runs : [Indexes -> [st : RunStatuses, by : {None} \cup (Exps \X Indexes)]]]
CallerPcs == {"idle", "check", "cancel"}
ClaimedPcs == {"launch", "wait", "exited"}
OwnerPcs == ClaimedPcs \cup {"plan", "ensure", "load", "save", "claim", "saveFailed", "finish", "saveNext",
                             "release", "final"}

\* A goroutine that owns an experiment, and which one and which repetition of it.
Owners == {a \in Actors : pc[a] \in OwnerPcs}
HeldExp(a) == IF pc[a] \in {"wait", "exited"} THEN child[a].exp ELSE cur[a]
HeldRun(a) == IF pc[a] \in {"wait", "exited"} THEN child[a].run ELSE idx[a]

Ends == {"none", "report", "error", "noReport", "cancelled", "stopped"}

ActorTypes(a) ==
  /\ pc[a] \in {"wait", "exited", "finish", "saveNext"} => a \in Loops
  /\ pc[a] = "check" => cur[a] \in Exps /\ loc[a].status # "running"
  /\ pc[a] \in OwnerPcs => HeldExp(a) \in Exps /\ HeldRun(a) \in Indexes
  /\ pc[a] = "finish" => child[a].exp \in Exps /\ child[a].run \in Indexes
  /\ pc[a] = "saveNext" => Attempted(loc[a]) # Indexes

ExpTypes ==
  /\ disk \in [Exps -> Records] /\ loc \in [Actors -> Records]
  /\ pc \in [Actors -> CallerPcs \cup OwnerPcs]
  /\ cur \in [Actors -> Exps \cup {None}] /\ idx \in [Actors -> 0..Reps]
  /\ child \in [Loops -> [exp : Exps \cup {None}, run : 0..Reps, end : Ends]]
  /\ active \in Exps \cup {None} /\ activeRun \in 0..Reps /\ (active # None => activeRun \in Indexes)
  /\ outcome \in {"none", "completed", "stopped"} /\ crashes \in Nat
  /\ collided \in BOOLEAN /\ stopped \subseteq Exps
  /\ \A a \in Actors : ActorTypes(a)

OwnResults(x, e) == \A i \in Indexes : x.runs[i].st = "completed" => x.runs[i].by = <<e, i>>
Done(x) == Having(x, "completed")

\* A stored record: its results are its own and its status fits them.
RecordSound(x, e) ==
  /\ OwnResults(x, e)
  /\ x.status = "created" => Done(x) = {}
  /\ Done(x) = Indexes => x.status = "completed"

\* The claim follows the owner.
ClaimHeld ==
  /\ active # None => \E a \in Owners : pc[a] \in ClaimedPcs
  /\ \A a \in Owners : pc[a] \in ClaimedPcs => active = HeldExp(a) /\ activeRun = HeldRun(a)
  /\ \A a \in Owners : pc[a] = "finish" => child[a].exp = cur[a] /\ child[a].run = idx[a]

\* The owner's copy x and the stored record d of the experiment e whose repetition i it holds, at l.
CopyFits(l, e, i, d, x) ==
  LET Keeps == OwnResults(x, e) /\ (d.status = "completed" \/ Done(d) \subseteq Done(x))
  IN /\ l = "plan" => /\ Keeps /\ x.runs[i].st # "completed"
                      /\ x.status \in {"created", "completed"} => Attempted(x) = {}
     /\ l \in {"ensure", "load"} => d = x /\ x.runs[i].st # "completed"
     /\ l = "save" => Keeps /\ x.status = "running" /\ x.runs[i].st = "running"
     /\ l \in {"claim", "launch"} => d = x /\ d.status = "running" /\ d.runs[i].st = "running"
     /\ l \in {"wait", "exited", "finish"} => d.status = "running" /\ d.runs[i].st = "running"
     /\ l = "saveFailed" => Keeps /\ x.status = "running" /\ x.runs[i].st = "failed"
     /\ l = "saveNext" => Keeps /\ x.status = "running"
     /\ l \in {"release", "final"} =>
          /\ Keeps /\ Attempted(x) # {} /\ x.status = DeriveExperimentStatus(x)
          /\ x.status = "completed" => Done(x) = Indexes
CopyHeld(a) == CopyFits(pc[a], HeldExp(a), HeldRun(a), disk[HeldExp(a)], loc[a])

\* A stopped experiment is not begun anew by the goroutine that holds it.
StopHeld(a) ==
  HeldExp(a) \in stopped =>
    /\ pc[a] \notin {"plan", "ensure", "load", "save", "claim", "saveNext"}
    /\ pc[a] \in ClaimedPcs => outcome = "stopped"
    /\ pc[a] = "finish" => child[a].end = "stopped"
    /\ pc[a] \in {"release", "final"} => loc[a].status # "completed"

\* Without a collision one goroutine at a time is between the check of Start and the end of the run.
Orderly ==
  /\ \A a, b \in Owners : a = b
  /\ ClaimHeld
  /\ \A e \in Exps : RecordSound(disk[e], e)
  /\ \A a \in Owners : CopyHeld(a) /\ StopHeld(a)

\* A record nobody holds is at its end: not running, and completed only in full.
Settled(x) ==
  /\ x.status # "running" /\ Having(x, "running") = {}
  /\ x.status = "completed" => Done(x) = Indexes

\* The runs that d and x call running, the only reason for an incomplete completed record, and
\* the configuration s of the controlled server.
RunFits(l, e, i, d, x, s) ==
  /\ Having(d, "running") \subseteq IF l \in {"plan", "ensure", "load", "save"} THEN {} ELSE {i}
  /\ l \notin {"wait", "exited", "finish"} =>
       Having(x, "running") \subseteq IF l \in {"save", "claim", "launch"} THEN {i} ELSE {}
  /\ d.status = "completed" /\ Done(d) # Indexes => Attempted(d) = {} /\ l \in {"ensure", "load", "save"}
  /\ l \notin {"plan", "ensure", "saveFailed", "release", "final"} => Config[e] \in {NoConfig, s}
RunHeld(a) == RunFits(pc[a], HeldExp(a), HeldRun(a), disk[HeldExp(a)], loc[a], server)

\* What the store says of running experiments, as long as the process has not ended.
RunningHeld ==
  /\ \A e \in Exps : (\A a \in Owners : HeldExp(a) # e) => Settled(disk[e])
  /\ \A a \in Owners : RunHeld(a)

ExpInv == ExpTypes /\ (~collided => Orderly) /\ (Clean => RunningHeld)
=============================================================================
