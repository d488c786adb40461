------------------------------ MODULE OpsProofs ------------------------------
(***************************************************************************)
(* What the ops console stores of its experiments and sweeps, for any      *)
(* number of experiments, repetitions, goroutines, sweeps and units.       *)
(***************************************************************************)
EXTENDS ExperimentManager, SweepManager, DataLemmas, FiniteSetTheorems, TLAPS

-----------------------------------------------------------------------------
(* Records *)

\* Repetitions are numbered from 1.
LEMMA IndexFacts == Indexes \subseteq Nat /\ Indexes # {} /\ 0 \notin Indexes /\ Indexes \subseteq 0..Reps
  BY ExperimentManagerAssumption DEF Indexes

\* A new experiment has no run.
LEMMA FreshFacts ==
  /\ Fresh \in Records /\ NoRun.st = "none" /\ Fresh.status = "created"
  /\ Fresh.runs \in [Indexes -> [st : RunStatuses, by : {None} \cup (Exps \X Indexes)]]
  /\ \A i \in Indexes : Fresh.runs[i].st = "none"
<1>1. NoRun \in [st : RunStatuses, by : {None} \cup (Exps \X Indexes)] /\ NoRun.st = "none"
  BY DEF NoRun, RunStatuses
<1>2. [i \in Indexes |-> NoRun] \in [Indexes -> [st : RunStatuses, by : {None} \cup (Exps \X Indexes)]]
  BY <1>1
<1> QED BY <1>1, <1>2 DEF Fresh, Records, ExpStatuses

\* A run is replaced in a record.
LEMMA SetRunFacts ==
  ASSUME NEW x \in Records, NEW i \in Indexes, NEW st \in RunStatuses, NEW by \in {None} \cup (Exps \X Indexes)
  PROVE  /\ SetRun(x, i, st, by) \in Records /\ SetRun(x, i, st, by).status = x.status
         /\ SetRun(x, i, st, by).runs[i].st = st /\ SetRun(x, i, st, by).runs[i].by = by
         /\ \A j \in Indexes : j # i => SetRun(x, i, st, by).runs[j] = x.runs[j]
<1>1. /\ x.runs \in [Indexes -> [st : RunStatuses, by : {None} \cup (Exps \X Indexes)]]
      /\ [st |-> st, by |-> by] \in [st : RunStatuses, by : {None} \cup (Exps \X Indexes)]
  BY DEF Records
<1>2. SetRun(x, i, st, by) = [status |-> x.status, runs |-> [x.runs EXCEPT ![i] = [st |-> st, by |-> by]]]
  BY DEF SetRun, Records
<1>3. [x.runs EXCEPT ![i] = [st |-> st, by |-> by]] \in [Indexes -> [st : RunStatuses, by : {None} \cup (Exps \X Indexes)]]
  BY <1>1
<1>4. x.status \in ExpStatuses
  BY DEF Records
<1>5. SetRun(x, i, st, by) \in Records
  BY <1>2, <1>3, <1>4 DEF Records
<1> QED BY <1>1, <1>2, <1>5

\* The status of a record is replaced.
LEMMA SetStatusFacts ==
  ASSUME NEW x \in Records, NEW st \in ExpStatuses
  PROVE  /\ [x EXCEPT !.status = st] \in Records
         /\ [x EXCEPT !.status = st].status = st /\ [x EXCEPT !.status = st].runs = x.runs
  BY DEF Records

\* The functions of a record look at its runs only.
LEMMA SameRuns ==
  ASSUME NEW x, NEW y, x.runs = y.runs
  PROVE  /\ \A st : Having(x, st) = Having(y, st)
         /\ Attempted(x) = Attempted(y) /\ Done(x) = Done(y)
         /\ DeriveExperimentStatus(x) = DeriveExperimentStatus(y)
         /\ \A e : OwnResults(x, e) <=> OwnResults(y, e)
<1>1. \A st : Having(x, st) = Having(y, st)
  BY DEF Having
<1>2. Attempted(x) = Attempted(y) /\ Done(x) = Done(y)
  BY <1>1 DEF Attempted, Done
<1>3. \A e : OwnResults(x, e) <=> OwnResults(y, e)
  BY DEF OwnResults
<1> QED BY <1>1, <1>2, <1>3 DEF DeriveExperimentStatus

\* What each derived status says about the runs.
LEMMA DeriveFacts ==
  ASSUME NEW x
  PROVE  /\ DeriveExperimentStatus(x) \in ExpStatuses
         /\ DeriveExperimentStatus(x) = "created" => Attempted(x) = {}
         /\ DeriveExperimentStatus(x) = "running" => Having(x, "running") # {}
         /\ DeriveExperimentStatus(x) = "completed" => Done(x) = Attempted(x) /\ Having(x, "stopped") = {}
         /\ Attempted(x) # {} /\ Having(x, "running") = {} /\ Having(x, "stopped") = {} /\ Done(x) = Attempted(x)
              => DeriveExperimentStatus(x) = "completed"
  BY DEF DeriveExperimentStatus, Done, ExpStatuses

\* The next repetition to run is one never attempted.
LEMMA NextTodoFacts ==
  ASSUME NEW x
  PROVE  IF Attempted(x) = Indexes THEN NextTodoIndex(x) = 0
         ELSE NextTodoIndex(x) \in Indexes \ Attempted(x) /\ NextTodoIndex(x) > 0
<1>1. CASE Attempted(x) # Indexes
  <2>1. Indexes \ Attempted(x) # {} /\ Indexes \ Attempted(x) \subseteq Nat
    BY <1>1, IndexFacts DEF Attempted
  <2>2. NextTodoIndex(x) \in Indexes \ Attempted(x)
    BY <1>1, <2>1, MinOf DEF NextTodoIndex
  <2> QED BY <1>1, <2>2, IndexFacts DEF Indexes
<1> QED BY <1>1 DEF NextTodoIndex

\* A Start begins anew, or with the first repetition that is not completed.
LEMMA PlanFacts ==
  ASSUME NEW x
  PROVE  /\ Min(PlanStartRuns(x).todo) \in Indexes
         /\ PlanStartRuns(x).fresh \in BOOLEAN
         /\ ~PlanStartRuns(x).fresh => /\ Min(PlanStartRuns(x).todo) \notin Done(x)
                                       /\ x.status \notin {"created", "completed"}
         /\ PlanStartRuns(x).fresh => Attempted(x) = {} \/ x.status \in {"created", "completed"} \/ Done(x) = Indexes
<1> DEFINE left == Indexes \ Having(x, "completed")
           fresh == Attempted(x) = {} \/ x.status \in {"created", "completed"} \/ left = {}
<1>1. PlanStartRuns(x) = [fresh |-> fresh, todo |-> IF fresh THEN Indexes ELSE left]
  BY DEF PlanStartRuns
<1>2. left \subseteq Indexes /\ (left = {} => Having(x, "completed") = Indexes)
  BY DEF Having
<1>3. ~fresh => left # {} /\ x.status \notin {"created", "completed"}
  OBVIOUS
<1>4. fresh => Attempted(x) = {} \/ x.status \in {"created", "completed"} \/ left = {}
  OBVIOUS
<1>5. fresh \in BOOLEAN
  OBVIOUS
<1> HIDE DEF fresh
<1>6. PlanStartRuns(x).fresh = fresh /\ PlanStartRuns(x).todo = IF fresh THEN Indexes ELSE left
  BY <1>1
<1>7. CASE fresh
  BY <1>2, <1>4, <1>5, <1>6, <1>7, MinOf, IndexFacts DEF Done
<1>8. CASE ~fresh
  <2>1. PlanStartRuns(x).todo = left /\ left # {} /\ left \subseteq Nat
    BY <1>3, <1>6, <1>8, IndexFacts
  <2>2. Min(left) \in left
    BY <2>1, MinOf
  <2> QED BY <1>3, <1>5, <1>6, <1>8, <2>1, <2>2 DEF Done
<1> QED BY <1>7, <1>8

-----------------------------------------------------------------------------
(* The types of the experiment manager *)

\* Goroutines that a step leaves alone keep their types.
LEMMA OthersTyped ==
  ASSUME ExpTypes, NEW a \in Actors,
         \A b \in Actors : b # a => /\ pc'[b] = pc[b] /\ cur'[b] = cur[b] /\ idx'[b] = idx[b] /\ loc'[b] = loc[b]
                                    /\ b \in Loops => child'[b].exp = child[b].exp /\ child'[b].run = child[b].run,
         ActorTypes(a)'
  PROVE  \A b \in Actors : ActorTypes(b)'
<1> SUFFICES ASSUME NEW b \in Actors, b # a PROVE ActorTypes(b)'
  OBVIOUS
<1>1. ActorTypes(b)
  BY DEF ExpTypes
<1>2. pc[b] \in {"wait", "exited", "finish"} => b \in Loops
  BY <1>1 DEF ActorTypes
<1> QED BY <1>1, <1>2 DEF ActorTypes, HeldExp, HeldRun

\* A goroutine goes on, or returns.
LEMMA GotoFacts ==
  ASSUME ExpTypes, NEW a \in Actors, NEW l, Goto(a, l)
  PROVE  /\ pc'[a] = l /\ \A b \in Actors : b # a => pc'[b] = pc[b]
         /\ l \in CallerPcs \cup OwnerPcs => pc' \in [Actors -> CallerPcs \cup OwnerPcs]
  BY DEF ExpTypes, Goto

\* A goroutine that returns holds nothing, and the others keep what they hold.
LEMMA ReturnFacts ==
  ASSUME ExpTypes, NEW a \in Actors, Return(a)
  PROVE  /\ pc'[a] = "idle" /\ pc' \in [Actors -> CallerPcs \cup OwnerPcs] /\ cur' \in [Actors -> Exps \cup {None}]
         /\ idx' \in [Actors -> 0..Reps] /\ loc' \in [Actors -> Records]
         /\ \A b \in Actors : b # a => pc'[b] = pc[b] /\ cur'[b] = cur[b] /\ idx'[b] = idx[b] /\ loc'[b] = loc[b]
<1>1. pc'[a] = "idle" /\ pc' \in [Actors -> CallerPcs \cup OwnerPcs] /\ \A b \in Actors : b # a => pc'[b] = pc[b]
  BY GotoFacts DEF Return, CallerPcs
<1>2. cur' \in [Actors -> Exps \cup {None}] /\ \A b \in Actors : b # a => cur'[b] = cur[b]
  BY DEF Return, ExpTypes
<1>3. 0 \in 0..Reps
  BY ExperimentManagerAssumption
<1>4. idx' \in [Actors -> 0..Reps] /\ \A b \in Actors : b # a => idx'[b] = idx[b]
  BY <1>3 DEF Return, ExpTypes
<1>5. loc' \in [Actors -> Records] /\ \A b \in Actors : b # a => loc'[b] = loc[b]
  BY FreshFacts DEF Return, ExpTypes
<1> QED BY <1>1, <1>2, <1>4, <1>5

\* Start and StartRefused, StartChecked, SavePlan, EnsureServer, EnsureFails.
LEMMA StartTypes ==
  ASSUME ExpTypes, NEW c \in Callers, NEW e \in Exps,
         Start(c, e) \/ StartRefused(c) \/ StartChecked(c) \/ SavePlan(c) \/ EnsureServer(c) \/ EnsureFails(c)
  PROVE  ExpTypes'
<1>0. c \in Actors /\ ActorTypes(c) /\ loc[c] \in Records /\ cur[c] \in Exps \cup {None}
  BY DEF Actors, ExpTypes
<1>1. CASE Start(c, e)
  <2>1. pc'[c] = "check" /\ pc' \in [Actors -> CallerPcs \cup OwnerPcs] /\ \A b \in Actors : b # c => pc'[b] = pc[b]
    BY <1>0, <1>1, GotoFacts DEF Start, CallerPcs
  <2>2. /\ cur' = [cur EXCEPT ![c] = e] /\ loc' = [loc EXCEPT ![c] = disk[e]] /\ disk[e].status # "running"
        /\ UNCHANGED <<disk, active, activeRun, outcome, idx, child, crashes, collided, stopped>>
    BY <1>1 DEF Start, CanStart, mgrVars
  <2>3. /\ cur' \in [Actors -> Exps \cup {None}] /\ loc' \in [Actors -> Records] /\ cur'[c] = e /\ loc'[c] = disk[e]
        /\ \A b \in Actors : b # c => cur'[b] = cur[b] /\ loc'[b] = loc[b]
    BY <1>0, <2>2 DEF ExpTypes
  <2>4. ActorTypes(c)'
    BY <2>1, <2>2, <2>3 DEF ActorTypes, OwnerPcs, ClaimedPcs
  <2>5. \A b \in Actors : ActorTypes(b)'
    BY <1>0, <2>1, <2>2, <2>3, <2>4, OthersTyped
  <2> QED BY <2>1, <2>2, <2>3, <2>5 DEF ExpTypes
<1>2. CASE StartRefused(c)
  <2>1. Return(c) /\ UNCHANGED <<disk, active, activeRun, outcome, child, crashes, collided, stopped>>
    BY <1>2 DEF StartRefused, mgrVars, bounds
  <2>2. /\ pc'[c] = "idle" /\ pc' \in [Actors -> CallerPcs \cup OwnerPcs] /\ cur' \in [Actors -> Exps \cup {None}]
        /\ idx' \in [Actors -> 0..Reps] /\ loc' \in [Actors -> Records]
        /\ \A b \in Actors : b # c => pc'[b] = pc[b] /\ cur'[b] = cur[b] /\ idx'[b] = idx[b] /\ loc'[b] = loc[b]
    BY <1>0, <2>1, ReturnFacts
  <2>3. ActorTypes(c)'
    BY <2>2 DEF ActorTypes, OwnerPcs, ClaimedPcs
  <2>4. \A b \in Actors : ActorTypes(b)'
    BY <1>0, <2>1, <2>2, <2>3, OthersTyped
  <2> QED BY <2>1, <2>2, <2>4 DEF ExpTypes
<1>3. CASE StartChecked(c)
  <2> DEFINE plan == PlanStartRuns(loc[c])
             x == IF plan.fresh THEN [loc[c] EXCEPT !.runs = Fresh.runs] ELSE loc[c]
  <2>1. pc'[c] = "plan" /\ pc' \in [Actors -> CallerPcs \cup OwnerPcs] /\ \A b \in Actors : b # c => pc'[b] = pc[b]
    BY <1>0, <1>3, GotoFacts DEF StartChecked, OwnerPcs
  <2>2. /\ loc' = [loc EXCEPT ![c] = x] /\ idx' = [idx EXCEPT ![c] = Min(plan.todo)] /\ stopped' \subseteq stopped
        /\ collided' = (collided \/ Busy # {} \/ loc[c] # disk[cur[c]]) /\ pc[c] = "check"
        /\ UNCHANGED <<disk, active, activeRun, outcome, cur, child, crashes>>
    BY <1>3 DEF StartChecked, mgrVars, bounds
  <2>3. [loc[c] EXCEPT !.runs = Fresh.runs] \in Records
    BY <1>0, FreshFacts DEF Records
  <2>4. x \in Records
    BY <1>0, <2>3
  <2>5. Min(plan.todo) \in Indexes /\ Min(plan.todo) \in 0..Reps
    BY PlanFacts, IndexFacts
  <2> HIDE DEF x, plan
  <2>6. /\ loc' \in [Actors -> Records] /\ idx' \in [Actors -> 0..Reps] /\ idx'[c] = Min(plan.todo)
        /\ \A b \in Actors : b # c => idx'[b] = idx[b] /\ loc'[b] = loc[b]
    BY <1>0, <2>2, <2>4, <2>5 DEF ExpTypes
  <2>7. cur[c] \in Exps
    BY <1>0, <2>2 DEF ActorTypes
  <2>8. ActorTypes(c)'
    BY <2>1, <2>2, <2>5, <2>6, <2>7 DEF ActorTypes, HeldExp, HeldRun
  <2>9. \A b \in Actors : ActorTypes(b)'
    BY <1>0, <2>1, <2>2, <2>6, <2>8, OthersTyped
  <2>10. collided' \in BOOLEAN
    BY <2>2
  <2> QED BY <2>1, <2>2, <2>6, <2>9, <2>10 DEF ExpTypes
<1>4. CASE SavePlan(c)
  <2>1. /\ pc[c] = "plan" /\ disk' = [disk EXCEPT ![cur[c]] = loc[c]]
        /\ Goto(c, IF Config[cur[c]] = NoConfig THEN "load" ELSE "ensure")
        /\ UNCHANGED <<active, activeRun, outcome, cur, idx, loc, child, crashes, collided, stopped>>
    BY <1>4 DEF SavePlan, mgrVars, bounds
  <2>2. /\ pc'[c] \in {"load", "ensure"} /\ pc' \in [Actors -> CallerPcs \cup OwnerPcs]
        /\ \A b \in Actors : b # c => pc'[b] = pc[b]
    BY <1>0, <2>1, GotoFacts DEF OwnerPcs
  <2>3. disk' \in [Exps -> Records]
    BY <1>0, <2>1 DEF ExpTypes
  <2>4. ActorTypes(c)'
    BY <1>0, <2>1, <2>2 DEF ActorTypes, HeldExp, HeldRun, OwnerPcs
  <2>5. \A b \in Actors : ActorTypes(b)'
    BY <1>0, <2>1, <2>2, <2>4, OthersTyped
  <2> QED BY <2>1, <2>2, <2>3, <2>5 DEF ExpTypes
<1>5. CASE EnsureServer(c)
  <2>1. /\ pc[c] = "ensure" /\ Goto(c, "load")
        /\ UNCHANGED <<disk, active, activeRun, outcome, cur, idx, loc, child, crashes, collided, stopped>>
    BY <1>5 DEF EnsureServer, mgrVars, bounds
  <2>2. pc'[c] = "load" /\ pc' \in [Actors -> CallerPcs \cup OwnerPcs] /\ \A b \in Actors : b # c => pc'[b] = pc[b]
    BY <1>0, <2>1, GotoFacts DEF OwnerPcs
  <2>3. ActorTypes(c)'
    BY <1>0, <2>1, <2>2 DEF ActorTypes, HeldExp, HeldRun, OwnerPcs
  <2>4. \A b \in Actors : ActorTypes(b)'
    BY <1>0, <2>1, <2>2, <2>3, OthersTyped
  <2> QED BY <2>1, <2>2, <2>4 DEF ExpTypes
<1>6. CASE EnsureFails(c)
  <2>1. /\ Return(c) /\ UNCHANGED <<active, activeRun, outcome, child, crashes, collided, stopped>>
        /\ disk' = [disk EXCEPT ![cur[c]] = [loc[c] EXCEPT !.status = "failed"]]
    BY <1>6 DEF EnsureFails, mgrVars
  <2>2. /\ pc'[c] = "idle" /\ pc' \in [Actors -> CallerPcs \cup OwnerPcs] /\ cur' \in [Actors -> Exps \cup {None}]
        /\ idx' \in [Actors -> 0..Reps] /\ loc' \in [Actors -> Records]
        /\ \A b \in Actors : b # c => pc'[b] = pc[b] /\ cur'[b] = cur[b] /\ idx'[b] = idx[b] /\ loc'[b] = loc[b]
    BY <1>0, <2>1, ReturnFacts
  <2>3. [loc[c] EXCEPT !.status = "failed"] \in Records
    BY <1>0, SetStatusFacts DEF ExpStatuses
  <2>4. disk' \in [Exps -> Records]
    BY <1>0, <2>1, <2>3 DEF ExpTypes
  <2>5. ActorTypes(c)'
    BY <2>2 DEF ActorTypes, OwnerPcs, ClaimedPcs
  <2>6. \A b \in Actors : ActorTypes(b)'
    BY <1>0, <2>1, <2>2, <2>5, OthersTyped
  <2> QED BY <2>1, <2>2, <2>4, <2>6 DEF ExpTypes
<1> QED BY <1>1, <1>2, <1>3, <1>4, <1>5, <1>6

\* BeginLoad, BeginSave, Claim and the two ends of a launch that failed.
LEMMA BeginTypes ==
  ASSUME ExpTypes, NEW a \in Actors,
         BeginLoad(a) \/ BeginSave(a) \/ Claim(a) \/ LaunchFails(a) \/ SaveFailed(a)
  PROVE  ExpTypes'
<1>0. /\ ActorTypes(a) /\ loc[a] \in Records /\ cur[a] \in Exps \cup {None} /\ idx[a] \in 0..Reps
      /\ disk \in [Exps -> Records] /\ loc \in [Actors -> Records]
  BY DEF Actors, ExpTypes
<1>00. pc[a] \in {"load", "save", "claim", "launch", "saveFailed"} => cur[a] \in Exps /\ idx[a] \in Indexes
  BY <1>0 DEF ActorTypes, HeldExp, HeldRun, OwnerPcs, ClaimedPcs
<1>1. CASE BeginLoad(a)
  <2> DEFINE y == SetRun(disk[cur[a]], idx[a], "running", None)
             x == [y EXCEPT !.status = "running"]
  <2>1. /\ pc[a] = "load" /\ Goto(a, "save") /\ loc' = [loc EXCEPT ![a] = x]
        /\ UNCHANGED <<disk, active, activeRun, outcome, cur, idx, child, crashes, collided, stopped>>
    BY <1>1 DEF BeginLoad, mgrVars, bounds
  <2>2. pc'[a] = "save" /\ pc' \in [Actors -> CallerPcs \cup OwnerPcs] /\ \A b \in Actors : b # a => pc'[b] = pc[b]
    BY <2>1, GotoFacts DEF OwnerPcs
  <2>3. y \in Records
    BY <1>0, <1>00, <2>1, SetRunFacts DEF RunStatuses
  <2>4. x \in Records
    BY <2>3, SetStatusFacts DEF ExpStatuses
  <2> HIDE DEF x
  <2>5. loc' \in [Actors -> Records] /\ \A b \in Actors : b # a => loc'[b] = loc[b]
    BY <1>0, <2>1, <2>4
  <2>6. ActorTypes(a)'
    BY <1>00, <2>1, <2>2 DEF ActorTypes, HeldExp, HeldRun
  <2>7. \A b \in Actors : ActorTypes(b)'
    BY <2>1, <2>2, <2>5, <2>6, OthersTyped
  <2> QED BY <2>1, <2>2, <2>5, <2>7 DEF ExpTypes
<1>2. CASE BeginSave(a)
  <2>1. /\ pc[a] = "save" /\ Goto(a, "claim") /\ disk' = [disk EXCEPT ![cur[a]] = loc[a]]
        /\ UNCHANGED <<active, activeRun, outcome, cur, idx, loc, child, crashes, collided, stopped>>
    BY <1>2 DEF BeginSave, mgrVars, bounds
  <2>2. pc'[a] = "claim" /\ pc' \in [Actors -> CallerPcs \cup OwnerPcs] /\ \A b \in Actors : b # a => pc'[b] = pc[b]
    BY <2>1, GotoFacts DEF OwnerPcs
  <2>3. disk' \in [Exps -> Records]
    BY <1>0, <2>1
  <2>4. ActorTypes(a)'
    BY <1>00, <2>1, <2>2 DEF ActorTypes, HeldExp, HeldRun
  <2>5. \A b \in Actors : ActorTypes(b)'
    BY <2>1, <2>2, <2>4, OthersTyped
  <2> QED BY <2>1, <2>2, <2>3, <2>5 DEF ExpTypes
<1>3. CASE Claim(a)
  <2>1. /\ pc[a] = "claim" /\ Goto(a, "launch") /\ active' = cur[a] /\ activeRun' = idx[a] /\ outcome' = "completed"
        /\ UNCHANGED <<disk, cur, idx, loc, child, crashes, collided, stopped>>
    BY <1>3 DEF Claim, bounds
  <2>2. pc'[a] = "launch" /\ pc' \in [Actors -> CallerPcs \cup OwnerPcs] /\ \A b \in Actors : b # a => pc'[b] = pc[b]
    BY <2>1, GotoFacts DEF OwnerPcs, ClaimedPcs
  <2>3. ActorTypes(a)'
    BY <1>00, <2>1, <2>2 DEF ActorTypes, HeldExp, HeldRun
  <2>4. \A b \in Actors : ActorTypes(b)'
    BY <2>1, <2>2, <2>3, OthersTyped
  <2>5. active' \in Exps \cup {None} /\ activeRun' \in 0..Reps /\ activeRun' \in Indexes
    BY <1>0, <1>00, <2>1
  <2> QED BY <2>1, <2>2, <2>4, <2>5 DEF ExpTypes
<1>4. CASE LaunchFails(a)
  <2>1. /\ pc[a] = "launch" /\ Goto(a, "saveFailed") /\ active' = None /\ activeRun' = 0 /\ outcome' = "none"
        /\ loc' = [loc EXCEPT ![a] = SetRun(loc[a], idx[a], "failed", None)]
        /\ UNCHANGED <<disk, cur, idx, child, crashes, collided, stopped>>
    BY <1>4 DEF LaunchFails
  <2>2. pc'[a] = "saveFailed" /\ pc' \in [Actors -> CallerPcs \cup OwnerPcs] /\ \A b \in Actors : b # a => pc'[b] = pc[b]
    BY <2>1, GotoFacts DEF OwnerPcs
  <2>3. SetRun(loc[a], idx[a], "failed", None) \in Records
    BY <1>0, <1>00, <2>1, SetRunFacts DEF RunStatuses
  <2>4. loc' \in [Actors -> Records] /\ \A b \in Actors : b # a => loc'[b] = loc[b]
    BY <1>0, <2>1, <2>3
  <2>5. ActorTypes(a)'
    BY <1>00, <2>1, <2>2 DEF ActorTypes, HeldExp, HeldRun
  <2>6. \A b \in Actors : ActorTypes(b)'
    BY <2>1, <2>2, <2>4, <2>5, OthersTyped
  <2>7. 0 \in 0..Reps
    BY ExperimentManagerAssumption
  <2> QED BY <2>1, <2>2, <2>4, <2>6, <2>7 DEF ExpTypes
<1>5. CASE SaveFailed(a)
  <2>1. /\ pc[a] = "saveFailed" /\ Goto(a, "release") /\ disk' = [disk EXCEPT ![cur[a]] = loc[a]]
        /\ loc' = [loc EXCEPT ![a].status = DeriveExperimentStatus(loc[a])]
        /\ UNCHANGED <<active, activeRun, outcome, cur, idx, child, crashes, collided, stopped>>
    BY <1>5 DEF SaveFailed, mgrVars, bounds
  <2>2. pc'[a] = "release" /\ pc' \in [Actors -> CallerPcs \cup OwnerPcs] /\ \A b \in Actors : b # a => pc'[b] = pc[b]
    BY <2>1, GotoFacts DEF OwnerPcs
  <2>3. [loc[a] EXCEPT !.status = DeriveExperimentStatus(loc[a])] \in Records
    BY <1>0, DeriveFacts, SetStatusFacts
  <2>4. loc' \in [Actors -> Records] /\ \A b \in Actors : b # a => loc'[b] = loc[b]
    BY <1>0, <2>1, <2>3
  <2>5. disk' \in [Exps -> Records]
    BY <1>0, <2>1
  <2>6. ActorTypes(a)'
    BY <1>00, <2>1, <2>2 DEF ActorTypes, HeldExp, HeldRun
  <2>7. \A b \in Actors : ActorTypes(b)'
    BY <2>1, <2>2, <2>4, <2>6, OthersTyped
  <2> QED BY <2>1, <2>2, <2>4, <2>5, <2>7 DEF ExpTypes
<1> QED BY <1>1, <1>2, <1>3, <1>4, <1>5

\* Launch, where a caller hands over to a loop.
LEMMA LaunchFacts ==
  ASSUME ExpTypes, NEW a \in Actors, Launch(a)
  PROVE  \E g \in Loops :
           /\ a \in Loops => g = a
           /\ a \notin Loops => pc[g] = "idle" /\ g # a
           /\ pc'[g] = "wait" /\ (g # a => pc'[a] = "idle") /\ \A b \in Actors : b \notin {a, g} => pc'[b] = pc[b]
           /\ pc' \in [Actors -> CallerPcs \cup OwnerPcs]
           /\ child' \in [Loops -> [exp : Exps \cup {None}, run : 0..Reps, end : Ends]]
           /\ child'[g].exp = cur[a] /\ child'[g].run = idx[a] /\ \A h \in Loops : h # g => child'[h] = child[h]
           /\ g \in Actors
<1>0. /\ pc \in [Actors -> CallerPcs \cup OwnerPcs] /\ cur[a] \in Exps \cup {None} /\ idx[a] \in 0..Reps
      /\ child \in [Loops -> [exp : Exps \cup {None}, run : 0..Reps, end : Ends]]
  BY DEF ExpTypes
<1>1. PICK g \in Loops :
        /\ IF a \in Loops THEN g = a ELSE pc[g] = "idle"
        /\ child' = [child EXCEPT ![g] = [exp |-> cur[a], run |-> idx[a], end |-> "none"]]
        /\ pc' = [pc EXCEPT ![a] = "idle", ![g] = "wait"]
  BY DEF Launch
<1>2. g \in Actors /\ "idle" \in CallerPcs \cup OwnerPcs /\ "wait" \in CallerPcs \cup OwnerPcs
  BY DEF Actors, CallerPcs, OwnerPcs, ClaimedPcs
<1>3. [exp |-> cur[a], run |-> idx[a], end |-> "none"] \in [exp : Exps \cup {None}, run : 0..Reps, end : Ends]
  BY <1>0 DEF Ends
<1>4. /\ pc'[g] = "wait" /\ (g # a => pc'[a] = "idle") /\ \A b \in Actors : b \notin {a, g} => pc'[b] = pc[b]
      /\ pc' \in [Actors -> CallerPcs \cup OwnerPcs]
  BY <1>0, <1>1, <1>2
<1>5. /\ child' \in [Loops -> [exp : Exps \cup {None}, run : 0..Reps, end : Ends]]
      /\ child'[g].exp = cur[a] /\ child'[g].run = idx[a] /\ \A h \in Loops : h # g => child'[h] = child[h]
  BY <1>0, <1>1, <1>3
<1> QED BY <1>1, <1>2, <1>4, <1>5

\* The launch of a child keeps the types.
LEMMA LaunchTypes ==
  ASSUME ExpTypes, NEW a \in Actors, Launch(a)
  PROVE  ExpTypes'
<1>1. PICK g \in Loops :
           /\ a \in Loops => g = a
           /\ a \notin Loops => pc[g] = "idle" /\ g # a
           /\ pc'[g] = "wait" /\ (g # a => pc'[a] = "idle") /\ \A b \in Actors : b \notin {a, g} => pc'[b] = pc[b]
           /\ pc' \in [Actors -> CallerPcs \cup OwnerPcs]
           /\ child' \in [Loops -> [exp : Exps \cup {None}, run : 0..Reps, end : Ends]]
           /\ child'[g].exp = cur[a] /\ child'[g].run = idx[a] /\ \A h \in Loops : h # g => child'[h] = child[h]
           /\ g \in Actors
  BY LaunchFacts
<1>2. /\ pc[a] = "launch" /\ cur' = [cur EXCEPT ![a] = None] /\ idx' = [idx EXCEPT ![a] = 0]
      /\ loc' = [loc EXCEPT ![a] = Fresh]
      /\ UNCHANGED <<disk, active, activeRun, outcome, crashes, collided, stopped>>
  BY DEF Launch, mgrVars, bounds
<1>3. 0 \in 0..Reps
  BY ExperimentManagerAssumption
<1>4. /\ cur' \in [Actors -> Exps \cup {None}] /\ idx' \in [Actors -> 0..Reps] /\ loc' \in [Actors -> Records]
      /\ \A b \in Actors : b # a => cur'[b] = cur[b] /\ idx'[b] = idx[b] /\ loc'[b] = loc[b]
  BY <1>2, <1>3, FreshFacts DEF ExpTypes
<1>5. cur[a] \in Exps /\ idx[a] \in Indexes
  <2>1. ActorTypes(a)
    BY DEF ExpTypes
  <2> QED BY <1>2, <2>1 DEF ActorTypes, HeldExp, HeldRun, OwnerPcs, ClaimedPcs
<1>6. ActorTypes(g)'
  BY <1>1, <1>5 DEF ActorTypes, HeldExp, HeldRun
<1>7. ASSUME NEW b \in Actors, b # g PROVE ActorTypes(b)'
  <2>1. CASE b = a
    BY <1>1, <1>7, <2>1 DEF ActorTypes, OwnerPcs, ClaimedPcs
  <2>2. CASE b # a
    <3>1. ActorTypes(b) /\ pc'[b] = pc[b] /\ cur'[b] = cur[b] /\ idx'[b] = idx[b] /\ loc'[b] = loc[b]
      BY <1>1, <1>4, <1>7, <2>2 DEF ExpTypes
    <3>2. b \in Loops => child'[b] = child[b]
      BY <1>1, <1>7
    <3>3. pc[b] \in {"wait", "exited", "finish"} => b \in Loops
      BY <3>1 DEF ActorTypes
    <3> QED BY <3>1, <3>2, <3>3 DEF ActorTypes, HeldExp, HeldRun
  <2> QED BY <2>1, <2>2
<1>8. \A b \in Actors : ActorTypes(b)'
  BY <1>6, <1>7
<1> QED BY <1>1, <1>2, <1>4, <1>8 DEF ExpTypes

\* The runs a finished child leaves behind.
LEMMA RunEndFacts ==
  ASSUME ExpTypes, NEW g \in Loops, cur[g] \in Exps, idx[g] \in Indexes, child[g].exp \in Exps, child[g].run \in Indexes
  PROVE  LET by == IF RunEnd(g) = "completed" THEN <<child[g].exp, child[g].run>> ELSE None
             x == SetRun(disk[cur[g]], idx[g], RunEnd(g), by)
         IN /\ RunEnd(g) \in {"stopped", "completed", "failed"}
            /\ x \in Records /\ x.status = disk[cur[g]].status
            /\ x.runs[idx[g]].st = RunEnd(g) /\ x.runs[idx[g]].by = by
            /\ \A j \in Indexes : j # idx[g] => x.runs[j] = disk[cur[g]].runs[j]
<1>1. RunEnd(g) \in {"stopped", "completed", "failed"} /\ RunEnd(g) \in RunStatuses
  BY DEF RunEnd, RunStatuses
<1> DEFINE by == IF RunEnd(g) = "completed" THEN <<child[g].exp, child[g].run>> ELSE None
<1>2. by \in {None} \cup (Exps \X Indexes)
  OBVIOUS
<1>3. disk[cur[g]] \in Records
  BY DEF ExpTypes
<1> HIDE DEF by
<1>4. LET x == SetRun(disk[cur[g]], idx[g], RunEnd(g), by)
      IN /\ x \in Records /\ x.status = disk[cur[g]].status
         /\ x.runs[idx[g]].st = RunEnd(g) /\ x.runs[idx[g]].by = by
         /\ \A j \in Indexes : j # idx[g] => x.runs[j] = disk[cur[g]].runs[j]
  BY <1>1, <1>2, <1>3, SetRunFacts
<1> QED BY <1>1, <1>4 DEF by

\* The child's end and finishRun.
LEMMA LoopTypes ==
  ASSUME ExpTypes, NEW g \in Loops, LoopStep(g)
  PROVE  ExpTypes'
<1>0. /\ g \in Actors /\ ActorTypes(g) /\ loc[g] \in Records /\ cur[g] \in Exps \cup {None} /\ idx[g] \in 0..Reps
      /\ disk \in [Exps -> Records] /\ loc \in [Actors -> Records]
      /\ child \in [Loops -> [exp : Exps \cup {None}, run : 0..Reps, end : Ends]]
  BY DEF Actors, ExpTypes
<1>00. /\ pc[g] \in {"finish", "saveNext"} => cur[g] \in Exps /\ idx[g] \in Indexes
       /\ pc[g] \in {"wait", "exited"} => child[g].exp \in Exps /\ child[g].run \in Indexes
  BY <1>0 DEF ActorTypes, HeldExp, HeldRun, OwnerPcs, ClaimedPcs
<1>1. ASSUME NEW end \in {"report", "error", "noReport"}, ChildExit(g, end) PROVE ExpTypes'
  <2>1. /\ pc[g] = "wait" /\ child' = [child EXCEPT ![g].end = end] /\ Goto(g, "exited")
        /\ UNCHANGED <<disk, active, activeRun, outcome, cur, idx, loc, crashes, collided, stopped>>
    BY <1>1 DEF ChildExit, mgrVars, bounds
  <2>2. pc'[g] = "exited" /\ pc' \in [Actors -> CallerPcs \cup OwnerPcs] /\ \A b \in Actors : b # g => pc'[b] = pc[b]
    BY <1>0, <2>1, GotoFacts DEF OwnerPcs, ClaimedPcs
  <2>3. /\ child' \in [Loops -> [exp : Exps \cup {None}, run : 0..Reps, end : Ends]]
        /\ \A b \in Loops : child'[b].exp = child[b].exp /\ child'[b].run = child[b].run
    BY <1>0, <2>1 DEF Ends
  <2>4. ActorTypes(g)'
    BY <1>00, <2>1, <2>2, <2>3 DEF ActorTypes, HeldExp, HeldRun
  <2>5. \A b \in Actors : ActorTypes(b)'
    BY <1>0, <2>1, <2>2, <2>3, <2>4, OthersTyped
  <2> QED BY <2>1, <2>2, <2>3, <2>5 DEF ExpTypes
<1>2. CASE FinishRun(g)
  <2>1. /\ pc[g] = "exited" /\ active # None /\ cur' = [cur EXCEPT ![g] = active] /\ idx' = [idx EXCEPT ![g] = activeRun]
        /\ child' = [child EXCEPT ![g].end = IF outcome = "stopped" THEN "stopped" ELSE @] /\ Goto(g, "finish")
        /\ active' = None /\ activeRun' = 0 /\ outcome' = "none"
        /\ UNCHANGED <<disk, loc, crashes, collided, stopped>>
    BY <1>2 DEF FinishRun, bounds
  <2>2. pc'[g] = "finish" /\ pc' \in [Actors -> CallerPcs \cup OwnerPcs] /\ \A b \in Actors : b # g => pc'[b] = pc[b]
    BY <1>0, <2>1, GotoFacts DEF OwnerPcs
  <2>3. /\ child' \in [Loops -> [exp : Exps \cup {None}, run : 0..Reps, end : Ends]]
        /\ \A b \in Loops : child'[b].exp = child[b].exp /\ child'[b].run = child[b].run
    <3>1. (IF outcome = "stopped" THEN "stopped" ELSE child[g].end) \in Ends
      BY <1>0 DEF Ends
    <3> QED BY <1>0, <2>1, <3>1
  <2>4. /\ cur' \in [Actors -> Exps \cup {None}] /\ idx' \in [Actors -> 0..Reps] /\ cur'[g] = active /\ idx'[g] = activeRun
        /\ \A b \in Actors : b # g => cur'[b] = cur[b] /\ idx'[b] = idx[b]
    BY <1>0, <2>1 DEF ExpTypes
  <2>5. active \in Exps /\ activeRun \in Indexes /\ 0 \in 0..Reps
    BY <2>1, ExperimentManagerAssumption DEF ExpTypes
  <2>6. ActorTypes(g)'
    BY <1>00, <2>1, <2>2, <2>3, <2>4, <2>5 DEF ActorTypes, HeldExp, HeldRun
  <2>7. \A b \in Actors : ActorTypes(b)'
    BY <1>0, <2>1, <2>2, <2>3, <2>4, <2>6, OthersTyped
  <2> QED BY <2>1, <2>2, <2>3, <2>4, <2>5, <2>7 DEF ExpTypes
<1>3. CASE FinishUnknown(g)
  <2>1. /\ child' = [child EXCEPT ![g] = NoChild] /\ Goto(g, "idle")
        /\ UNCHANGED <<disk, active, activeRun, outcome, cur, idx, loc, crashes, collided, stopped>>
    BY <1>3 DEF FinishUnknown, mgrVars, bounds
  <2>2. pc'[g] = "idle" /\ pc' \in [Actors -> CallerPcs \cup OwnerPcs] /\ \A b \in Actors : b # g => pc'[b] = pc[b]
    BY <1>0, <2>1, GotoFacts DEF CallerPcs
  <2>3. NoChild \in [exp : Exps \cup {None}, run : 0..Reps, end : Ends]
    BY ExperimentManagerAssumption DEF NoChild, Ends
  <2>4. /\ child' \in [Loops -> [exp : Exps \cup {None}, run : 0..Reps, end : Ends]]
        /\ \A b \in Loops : b # g => child'[b] = child[b]
    BY <1>0, <2>1, <2>3
  <2>5. ActorTypes(g)'
    BY <2>2 DEF ActorTypes, OwnerPcs, ClaimedPcs
  <2>6. \A b \in Actors : ActorTypes(b)'
    BY <1>0, <2>1, <2>2, <2>4, <2>5, OthersTyped
  <2> QED BY <2>1, <2>2, <2>4, <2>6 DEF ExpTypes
<1>4. CASE Finish(g)
  <2> DEFINE by == IF RunEnd(g) = "completed" THEN <<child[g].exp, child[g].run>> ELSE None
             x == SetRun(disk[cur[g]], idx[g], RunEnd(g), by)
             more == NextTodoIndex(x) > 0 /\ RunEnd(g) # "stopped"
             st == IF more THEN "running" ELSE DeriveExperimentStatus(x)
             y == [x EXCEPT !.status = st]
  <2>1. /\ pc[g] = "finish" /\ loc' = [loc EXCEPT ![g] = y] /\ child' = [child EXCEPT ![g] = NoChild]
        /\ Goto(g, IF more THEN "saveNext" ELSE "release")
        /\ UNCHANGED <<disk, active, activeRun, outcome, cur, idx, crashes, collided, stopped>>
    BY <1>4 DEF Finish, mgrVars, bounds
  <2>2. x \in Records
    BY <1>0, <1>00, <2>1, RunEndFacts DEF ActorTypes
  <2>3. st \in ExpStatuses
    BY DeriveFacts DEF ExpStatuses
  <2>4. more => Attempted(x) # Indexes
    BY NextTodoFacts
  <2> HIDE DEF x, more, st
  <2>5. y \in Records /\ y.runs = x.runs
    BY <2>2, <2>3, SetStatusFacts
  <2>6. more => Attempted(y) # Indexes
    BY <2>4, <2>5, SameRuns
  <2> HIDE DEF y
  <2>7. /\ pc' \in [Actors -> CallerPcs \cup OwnerPcs] /\ \A b \in Actors : b # g => pc'[b] = pc[b]
        /\ pc'[g] = IF more THEN "saveNext" ELSE "release"
    BY <1>0, <2>1, GotoFacts DEF OwnerPcs
  <2>8. NoChild \in [exp : Exps \cup {None}, run : 0..Reps, end : Ends]
    BY ExperimentManagerAssumption DEF NoChild, Ends
  <2>9. /\ child' \in [Loops -> [exp : Exps \cup {None}, run : 0..Reps, end : Ends]]
        /\ \A b \in Loops : b # g => child'[b] = child[b]
    BY <1>0, <2>1, <2>8
  <2>10. loc' \in [Actors -> Records] /\ loc'[g] = y /\ \A b \in Actors : b # g => loc'[b] = loc[b]
    BY <1>0, <2>1, <2>5
  <2>11. ActorTypes(g)'
    BY <1>00, <2>1, <2>6, <2>7, <2>10 DEF ActorTypes, HeldExp, HeldRun
  <2>12. \A b \in Actors : ActorTypes(b)'
    BY <1>0, <2>1, <2>7, <2>9, <2>10, <2>11, OthersTyped
  <2> QED BY <2>1, <2>7, <2>9, <2>10, <2>12 DEF ExpTypes
<1>5. CASE SaveNext(g)
  <2>1. /\ pc[g] = "saveNext" /\ Goto(g, "load") /\ disk' = [disk EXCEPT ![cur[g]] = loc[g]]
        /\ idx' = [idx EXCEPT ![g] = NextTodoIndex(loc[g])]
        /\ UNCHANGED <<active, activeRun, outcome, cur, loc, child, crashes, collided, stopped>>
    BY <1>5 DEF SaveNext, mgrVars, bounds
  <2>2. pc'[g] = "load" /\ pc' \in [Actors -> CallerPcs \cup OwnerPcs] /\ \A b \in Actors : b # g => pc'[b] = pc[b]
    BY <1>0, <2>1, GotoFacts DEF OwnerPcs
  <2>3. NextTodoIndex(loc[g]) \in Indexes /\ NextTodoIndex(loc[g]) \in 0..Reps
    BY <1>0, <2>1, NextTodoFacts, IndexFacts DEF ActorTypes
  <2>4. /\ idx' \in [Actors -> 0..Reps] /\ idx'[g] = NextTodoIndex(loc[g])
        /\ \A b \in Actors : b # g => idx'[b] = idx[b]
    BY <1>0, <2>1, <2>3 DEF ExpTypes
  <2>5. disk' \in [Exps -> Records]
    BY <1>0, <2>1
  <2>6. ActorTypes(g)'
    BY <1>00, <2>1, <2>2, <2>3, <2>4 DEF ActorTypes, HeldExp, HeldRun
  <2>7. \A b \in Actors : ActorTypes(b)'
    BY <1>0, <2>1, <2>2, <2>4, <2>6, OthersTyped
  <2> QED BY <2>1, <2>2, <2>4, <2>5, <2>7 DEF ExpTypes
<1> QED BY <1>1, <1>2, <1>3, <1>4, <1>5 DEF LoopStep

\* Finalize, Stop, CancelChild and the end of the process.
LEMMA EndTypes ==
  ASSUME ExpTypes, NEW a \in Actors,
         Release(a) \/ SaveFinal(a) \/ (a \in Callers /\ (Stop(a) \/ CancelChild(a)))
  PROVE  ExpTypes'
<1>0. /\ ActorTypes(a) /\ loc[a] \in Records /\ cur[a] \in Exps \cup {None} /\ idx[a] \in 0..Reps
      /\ disk \in [Exps -> Records] /\ loc \in [Actors -> Records]
      /\ child \in [Loops -> [exp : Exps \cup {None}, run : 0..Reps, end : Ends]]
  BY DEF Actors, ExpTypes
<1>1. CASE Release(a)
  <2>1. /\ pc[a] = "release" /\ Goto(a, "final")
        /\ UNCHANGED <<disk, active, activeRun, outcome, cur, idx, loc, child, crashes, collided, stopped>>
    BY <1>1 DEF Release, mgrVars, bounds
  <2>2. pc'[a] = "final" /\ pc' \in [Actors -> CallerPcs \cup OwnerPcs] /\ \A b \in Actors : b # a => pc'[b] = pc[b]
    BY <2>1, GotoFacts DEF OwnerPcs
  <2>3. ActorTypes(a)'
    BY <1>0, <2>1, <2>2 DEF ActorTypes, HeldExp, HeldRun, OwnerPcs
  <2>4. \A b \in Actors : ActorTypes(b)'
    BY <2>1, <2>2, <2>3, OthersTyped
  <2> QED BY <2>1, <2>2, <2>4 DEF ExpTypes
<1>2. CASE SaveFinal(a)
  <2>1. /\ Return(a) /\ disk' = [disk EXCEPT ![cur[a]] = loc[a]]
        /\ UNCHANGED <<active, activeRun, outcome, child, crashes, collided, stopped>>
    BY <1>2 DEF SaveFinal, mgrVars, bounds
  <2>2. /\ pc'[a] = "idle" /\ pc' \in [Actors -> CallerPcs \cup OwnerPcs] /\ cur' \in [Actors -> Exps \cup {None}]
        /\ idx' \in [Actors -> 0..Reps] /\ loc' \in [Actors -> Records]
        /\ \A b \in Actors : b # a => pc'[b] = pc[b] /\ cur'[b] = cur[b] /\ idx'[b] = idx[b] /\ loc'[b] = loc[b]
    BY <2>1, ReturnFacts
  <2>3. disk' \in [Exps -> Records]
    BY <1>0, <2>1
  <2>4. ActorTypes(a)'
    BY <2>2 DEF ActorTypes, OwnerPcs, ClaimedPcs
  <2>5. \A b \in Actors : ActorTypes(b)'
    BY <2>1, <2>2, <2>4, OthersTyped
  <2> QED BY <2>1, <2>2, <2>3, <2>5 DEF ExpTypes
<1>3. CASE Stop(a)
  <2>1. /\ active # None /\ outcome' = "stopped" /\ stopped' = stopped \cup {active} /\ Goto(a, "cancel")
        /\ UNCHANGED <<disk, active, activeRun, cur, idx, loc, child, crashes, collided>>
    BY <1>3 DEF Stop
  <2>2. pc'[a] = "cancel" /\ pc' \in [Actors -> CallerPcs \cup OwnerPcs] /\ \A b \in Actors : b # a => pc'[b] = pc[b]
    BY <2>1, GotoFacts DEF CallerPcs
  <2>3. ActorTypes(a)'
    BY <2>2 DEF ActorTypes, OwnerPcs, ClaimedPcs
  <2>4. \A b \in Actors : ActorTypes(b)'
    BY <2>1, <2>2, <2>3, OthersTyped
  <2>5. stopped' \subseteq Exps
    BY <2>1 DEF ExpTypes
  <2> QED BY <2>1, <2>2, <2>4, <2>5 DEF ExpTypes
<1>4. CASE CancelChild(a)
  <2>1. /\ child' = [g \in Loops |-> IF g \in Waiting THEN [child[g] EXCEPT !.end = "cancelled"] ELSE child[g]]
        /\ Goto(a, "idle") /\ UNCHANGED <<disk, active, activeRun, outcome, cur, idx, loc, crashes, collided, stopped>>
    BY <1>4 DEF CancelChild, mgrVars, bounds
  <2>2. pc'[a] = "idle" /\ pc' \in [Actors -> CallerPcs \cup OwnerPcs] /\ \A b \in Actors : b # a => pc'[b] = pc[b]
    BY <2>1, GotoFacts DEF CallerPcs
  <2>3. \A g \in Loops : /\ child'[g] \in [exp : Exps \cup {None}, run : 0..Reps, end : Ends]
                         /\ child'[g].exp = child[g].exp /\ child'[g].run = child[g].run
    BY <1>0, <2>1 DEF Ends
  <2>4. child' \in [Loops -> [exp : Exps \cup {None}, run : 0..Reps, end : Ends]]
    BY <2>1, <2>3
  <2>5. ActorTypes(a)'
    BY <2>2 DEF ActorTypes, OwnerPcs, ClaimedPcs
  <2>6. \A b \in Actors : ActorTypes(b)'
    BY <2>1, <2>2, <2>3, <2>5, OthersTyped
  <2> QED BY <2>1, <2>2, <2>4, <2>6 DEF ExpTypes
<1> QED BY <1>1, <1>2, <1>3, <1>4

\* The end of the process keeps the types.
LEMMA CrashTypes ==
  ASSUME ExpTypes, Crash
  PROVE  ExpTypes'
<1>1. /\ pc' = [b \in Actors |-> "idle"] /\ cur' = [b \in Actors |-> None] /\ idx' = [b \in Actors |-> 0]
      /\ loc' = [b \in Actors |-> Fresh] /\ child' = [g \in Loops |-> NoChild] /\ crashes' = crashes + 1
      /\ active' = None /\ activeRun' = 0 /\ outcome' = "none" /\ UNCHANGED <<disk, collided, stopped>>
  BY DEF Crash
<1>2. NoChild \in [exp : Exps \cup {None}, run : 0..Reps, end : Ends] /\ 0 \in 0..Reps
  BY ExperimentManagerAssumption DEF NoChild, Ends
<1>3. /\ pc' \in [Actors -> CallerPcs \cup OwnerPcs] /\ cur' \in [Actors -> Exps \cup {None}]
      /\ idx' \in [Actors -> 0..Reps] /\ loc' \in [Actors -> Records]
  BY <1>1, <1>2, FreshFacts DEF CallerPcs
<1>4. child' \in [Loops -> [exp : Exps \cup {None}, run : 0..Reps, end : Ends]]
  BY <1>1, <1>2
<1>5. \A b \in Actors : ActorTypes(b)'
  BY <1>1 DEF ActorTypes, OwnerPcs, ClaimedPcs
<1>6. crashes' \in Nat
  BY <1>1 DEF ExpTypes
<1> QED BY <1>1, <1>2, <1>3, <1>4, <1>5, <1>6 DEF ExpTypes

\* The initial state is well typed.
LEMMA ExpTypesInit == Init => ExpTypes
<1> SUFFICES ASSUME Init PROVE ExpTypes
  OBVIOUS
<1>1. NoChild \in [exp : Exps \cup {None}, run : 0..Reps, end : Ends] /\ 0 \in 0..Reps
  BY ExperimentManagerAssumption DEF NoChild, Ends
<1>2. pc \in [Actors -> CallerPcs \cup OwnerPcs] /\ \A a \in Actors : pc[a] = "idle"
  BY DEF Init, CallerPcs
<1>3. /\ cur \in [Actors -> Exps \cup {None}] /\ idx \in [Actors -> 0..Reps]
      /\ child \in [Loops -> [exp : Exps \cup {None}, run : 0..Reps, end : Ends]]
  BY <1>1 DEF Init
<1>4. disk \in [Exps -> Records] /\ loc \in [Actors -> Records]
  BY FreshFacts DEF Init
<1>5. \A a \in Actors : ActorTypes(a)
  BY <1>2 DEF ActorTypes, OwnerPcs, ClaimedPcs
<1> QED BY <1>1, <1>2, <1>3, <1>4, <1>5 DEF Init, ExpTypes

\* Every step keeps the types.
LEMMA ExpTypesStep ==
  ASSUME ExpTypes, [Next]_vars
  PROVE  ExpTypes'
<1>1. ASSUME NEW c \in Callers, NEW e \in Exps, Start(c, e) PROVE ExpTypes'
  BY <1>1, StartTypes
<1>2. ASSUME NEW c \in Callers, Stop(c) PROVE ExpTypes'
  BY <1>2, EndTypes DEF Actors
<1>3. ASSUME NEW a \in Actors, Step(a) PROVE ExpTypes'
  <2>1. CASE BeginRun(a)
    BY <2>1, BeginTypes, LaunchTypes DEF BeginRun
  <2>2. CASE Finalize(a)
    BY <2>2, EndTypes DEF Finalize
  <2>3. CASE a \in Callers /\ CallerStep(a)
    <3>1. CASE CancelChild(a)
      BY <2>3, <3>1, EndTypes
    <3>2. CASE ~CancelChild(a)
      <4>1. pc[a] \in {"check", "plan", "ensure"} /\ ActorTypes(a)
        BY <2>3, <3>2 DEF CallerStep, StartRefused, StartChecked, SavePlan, EnsureServer, EnsureFails, ExpTypes
      <4>2. cur[a] \in Exps
        BY <4>1 DEF ActorTypes, OwnerPcs, HeldExp
      <4> QED BY <2>3, <3>2, <4>2, StartTypes DEF CallerStep
    <3> QED BY <3>1, <3>2
  <2>4. CASE a \in Loops /\ LoopStep(a)
    BY <2>4, LoopTypes
  <2> QED BY <1>3, <2>1, <2>2, <2>3, <2>4 DEF Step
<1>4. CASE UNCHANGED vars
  BY <1>4 DEF vars, mgrVars, bounds, ExpTypes, ActorTypes, HeldExp, HeldRun, Attempted, Having
<1> QED BY <1>1, <1>2, <1>3, <1>4, CrashTypes DEF Next

----------------------------------------------------------------------------
(* One owner at a time: the steps that keep Orderly and RunningHeld.       *)

\* Completed repetitions are attempted ones.
LEMMA DoneFacts ==
  ASSUME NEW x
  PROVE  /\ Done(x) \subseteq Attempted(x) /\ Attempted(x) \subseteq Indexes
         /\ \A i \in Indexes : i \in Done(x) <=> x.runs[i].st = "completed"
         /\ \A i \in Indexes : i \in Attempted(x) <=> x.runs[i].st # "none"
         /\ Done(x) = Indexes => Having(x, "running") = {} /\ Having(x, "stopped") = {} /\ Attempted(x) = Indexes
  BY DEF Done, Attempted, Having

\* Replacing one repetition that has not completed keeps the completed ones.
LEMMA OneRunChanged ==
  ASSUME NEW x, NEW y, NEW i \in Indexes, NEW e, \A j \in Indexes : j # i => y.runs[j] = x.runs[j],
         OwnResults(x, e), x.runs[i].st # "completed", y.runs[i].st = "completed" => y.runs[i].by = <<e, i>>
  PROVE  /\ OwnResults(y, e) /\ Done(x) \subseteq Done(y)
         /\ y.runs[i].st # "completed" => Done(y) # Indexes
         /\ y.runs[i].st # "none" => Attempted(y) # {}
         /\ Having(y, "running") \subseteq Having(x, "running") \cup {i}
         /\ y.runs[i].st # "running" => Having(y, "running") \subseteq Having(x, "running") \ {i}
<1>1. OwnResults(y, e)
  <2> SUFFICES ASSUME NEW j \in Indexes, y.runs[j].st = "completed" PROVE y.runs[j].by = <<e, j>>
    BY DEF OwnResults
  <2>1. CASE j = i
    BY <2>1
  <2>2. CASE j # i
    BY <2>2 DEF OwnResults
  <2> QED BY <2>1, <2>2
<1>2. Done(x) \subseteq Done(y)
  BY DEF Done, Having
<1>3. y.runs[i].st # "completed" => Done(y) # Indexes
  BY DEF Done, Having
<1>4. y.runs[i].st # "none" => Attempted(y) # {}
  BY DEF Attempted, Having
<1>5. /\ Having(y, "running") \subseteq Having(x, "running") \cup {i}
      /\ y.runs[i].st # "running" => Having(y, "running") \subseteq Having(x, "running") \ {i}
  BY DEF Having
<1> QED BY <1>1, <1>2, <1>3, <1>4, <1>5

\* Without a collision the owner of an experiment is alone.
LEMMA SoleOwner ==
  ASSUME ExpTypes, Orderly, NEW a \in Actors, pc[a] \in OwnerPcs
  PROVE  /\ \A b \in Actors : b # a => pc[b] \notin OwnerPcs
         /\ HeldExp(a) \in Exps /\ HeldRun(a) \in Indexes
         /\ \A e \in Exps : RecordSound(disk[e], e)
         /\ CopyHeld(a) /\ StopHeld(a)
         /\ active # None => pc[a] \in ClaimedPcs
         /\ pc[a] \in ClaimedPcs => active = HeldExp(a) /\ activeRun = HeldRun(a)
         /\ pc[a] = "finish" => child[a].exp = cur[a] /\ child[a].run = idx[a]
         /\ RunningHeld => RunHeld(a) /\ \A e \in Exps : e # HeldExp(a) => Settled(disk[e])
<1>1. a \in Owners
  BY DEF Owners
<1>2. \A b \in Actors : pc[b] \in OwnerPcs => b = a
  BY <1>1 DEF Orderly, Owners
<1>3. HeldExp(a) \in Exps /\ HeldRun(a) \in Indexes
  BY DEF ExpTypes, ActorTypes
<1>4. /\ \A e \in Exps : RecordSound(disk[e], e)
      /\ CopyHeld(a) /\ StopHeld(a)
  BY <1>1 DEF Orderly
<1>5. /\ active # None => pc[a] \in ClaimedPcs
      /\ pc[a] \in ClaimedPcs => active = HeldExp(a) /\ activeRun = HeldRun(a)
      /\ pc[a] = "finish" => child[a].exp = cur[a] /\ child[a].run = idx[a]
  BY <1>1 DEF Orderly, ClaimHeld
<1>6. RunningHeld => RunHeld(a) /\ \A e \in Exps : e # HeldExp(a) => Settled(disk[e])
  BY <1>1 DEF RunningHeld, Orderly
<1> QED BY <1>2, <1>3, <1>4, <1>5, <1>6

\* Only a may own an experiment after the step, and only the record of e0 has changed.
LEMMA SoleStep ==
  ASSUME NEW a \in Actors, NEW e0 \in Exps,
         \A b \in Actors : b # a => pc'[b] \notin OwnerPcs,
         \A e \in Exps : RecordSound(disk[e], e),
         \A e \in Exps : e # e0 => disk'[e] = disk[e],
         RecordSound(disk'[e0], e0),
         active' # None => pc'[a] \in ClaimedPcs,
         pc'[a] \in ClaimedPcs => active' = HeldExp(a)' /\ activeRun' = HeldRun(a)',
         pc'[a] = "finish" => child'[a].exp = cur'[a] /\ child'[a].run = idx'[a],
         pc'[a] \in OwnerPcs => CopyHeld(a)' /\ StopHeld(a)'
  PROVE  Orderly'
<1>1. Owners' \subseteq {a} /\ (pc'[a] \in OwnerPcs <=> a \in Owners')
  BY DEF Owners
<1>2. \A e \in Exps : RecordSound(disk[e], e)'
  BY DEF RecordSound, OwnResults
<1>3. ClaimHeld'
  BY <1>1 DEF ClaimHeld, OwnerPcs
<1>4. \A b \in Owners' : CopyHeld(b)' /\ StopHeld(b)'
  BY <1>1
<1> QED BY <1>1, <1>2, <1>3, <1>4 DEF Orderly

\* A step of the sole owner, which touches one record, keeps RunningHeld.
LEMMA SoleRun ==
  ASSUME NEW a \in Actors, NEW e0 \in Exps,
         \A b \in Actors : b # a => pc'[b] \notin OwnerPcs,
         \A e \in Exps : e # e0 => Settled(disk[e]),
         \A e \in Exps : e # e0 => disk'[e] = disk[e],
         pc'[a] \in OwnerPcs => HeldExp(a)' = e0 /\ RunHeld(a)',
         pc'[a] \notin OwnerPcs => Settled(disk'[e0])
  PROVE  RunningHeld'
<1>1. Owners' \subseteq {a} /\ (pc'[a] \in OwnerPcs <=> a \in Owners')
  BY DEF Owners
<1>2. \A b \in Owners' : RunHeld(b)'
  BY <1>1
<1>3. \A e \in Exps : (\A b \in Owners' : HeldExp(b)' # e) => Settled(disk'[e])
  BY <1>1
<1>4. \A e \in Exps : (\A b \in Owners' : HeldExp(b)' # e) => Settled(disk[e])'
  BY <1>3 DEF Settled, Having, Done
<1> QED BY <1>2, <1>4 DEF RunningHeld


\* The owner a of e goes on to l, with repetition i, record d and copy x.
LEMMA OwnerGoesOn ==
  ASSUME ExpTypes, Orderly, NEW a \in Actors, pc[a] \in OwnerPcs,
         \A b \in Actors : b # a => pc'[b] = pc[b],
         NEW l \in OwnerPcs, NEW e \in Exps, NEW i, NEW d, NEW x, e = HeldExp(a),
         pc'[a] = l, HeldExp(a)' = e, HeldRun(a)' = i, disk'[e] = d, loc'[a] = x,
         \A f \in Exps : f # e => disk'[f] = disk[f],
         active' # None => l \in ClaimedPcs,
         l \in ClaimedPcs => active' = e /\ activeRun' = i,
         l = "finish" => child'[a].exp = e /\ child'[a].run = i /\ cur'[a] = e /\ idx'[a] = i,
         RecordSound(d, e), CopyFits(l, e, i, d, x), StopHeld(a)',
         RunHeld(a) => RunFits(l, e, i, d, x, server')
  PROVE  Orderly' /\ (RunningHeld => RunningHeld')
<1>1. /\ \A b \in Actors : b # a => pc[b] \notin OwnerPcs
      /\ \A f \in Exps : RecordSound(disk[f], f)
      /\ RunningHeld => RunHeld(a) /\ \A f \in Exps : f # e => Settled(disk[f])
  BY SoleOwner
<1>2. CopyHeld(a)'
  BY DEF CopyHeld
<1>3. RunHeld(a) => RunHeld(a)'
  BY DEF RunHeld
<1>4. \A b \in Actors : b # a => pc'[b] \notin OwnerPcs
  BY <1>1
<1>5. Orderly'
  BY <1>1, <1>2, <1>4, SoleStep
<1>6. ASSUME RunningHeld PROVE RunningHeld'
  <2>1. /\ \A f \in Exps : f # e => Settled(disk[f])
        /\ pc'[a] \in OwnerPcs => HeldExp(a)' = e /\ RunHeld(a)'
        /\ pc'[a] \notin OwnerPcs => Settled(disk'[e])
    BY <1>1, <1>3, <1>6
  <2> QED BY <1>4, <2>1, SoleRun
<1> QED BY <1>5, <1>6

\* The owner a of e returns, leaving the record d.
LEMMA OwnerReturns ==
  ASSUME ExpTypes, Orderly, NEW a \in Actors, pc[a] \in OwnerPcs,
         \A b \in Actors : b # a => pc'[b] = pc[b],
         NEW e \in Exps, NEW d, e = HeldExp(a), pc'[a] = "idle", disk'[e] = d,
         \A f \in Exps : f # e => disk'[f] = disk[f],
         active' = None, RecordSound(d, e), RunHeld(a) => Settled(d)
  PROVE  Orderly' /\ (RunningHeld => RunningHeld')
<1>0. "idle" \notin OwnerPcs /\ "idle" \notin ClaimedPcs
  BY DEF OwnerPcs, ClaimedPcs
<1>1. /\ \A b \in Actors : b # a => pc[b] \notin OwnerPcs
      /\ \A f \in Exps : RecordSound(disk[f], f)
      /\ RunningHeld => RunHeld(a) /\ \A f \in Exps : f # e => Settled(disk[f])
  BY SoleOwner
<1>2. \A b \in Actors : b # a => pc'[b] \notin OwnerPcs
  BY <1>1
<1>3. Orderly'
  BY <1>0, <1>1, <1>2, SoleStep
<1>4. ASSUME RunningHeld PROVE RunningHeld'
  <2>1. \A f \in Exps : f # e => Settled(disk[f])
    BY <1>1, <1>4
  <2>2. Settled(disk'[e])
    BY <1>1, <1>4
  <2> QED BY <1>0, <1>2, <2>1, <2>2, SoleRun
<1> QED BY <1>3, <1>4

\* A step of a goroutine that owns nothing, before and after, and of nothing the owner looks at.
LEMMA Bystander ==
  ASSUME ExpTypes, Orderly, NEW c \in Actors, pc[c] \notin OwnerPcs, pc'[c] \notin OwnerPcs,
         \A b \in Actors : b # c => pc'[b] = pc[b] /\ cur'[b] = cur[b] /\ idx'[b] = idx[b] /\ loc'[b] = loc[b],
         UNCHANGED <<disk, server, active, activeRun>>,
         \A g \in Loops : /\ child'[g].exp = child[g].exp /\ child'[g].run = child[g].run
                          /\ pc[g] # "wait" => child'[g].end = child[g].end,
         \A a \in Owners : StopHeld(a)'
  PROVE  Orderly' /\ (RunningHeld => RunningHeld')
<1>1. Owners' = Owners
  BY DEF Owners
<1>2. \A a \in Owners : /\ a \in Actors /\ pc'[a] = pc[a] /\ cur'[a] = cur[a] /\ idx'[a] = idx[a] /\ loc'[a] = loc[a]
                        /\ pc[a] \in {"wait", "exited", "finish"} => a \in Loops
  BY DEF Owners, ExpTypes, ActorTypes
<1>3. \A a \in Owners : HeldExp(a)' = HeldExp(a) /\ HeldRun(a)' = HeldRun(a)
  BY <1>2 DEF HeldExp, HeldRun
<1>4. ClaimHeld'
  BY <1>1, <1>2, <1>3 DEF ClaimHeld, Orderly
<1>5. \A a \in Owners : CopyHeld(a)'
  BY <1>2, <1>3 DEF CopyHeld, Orderly
<1>6. Orderly'
  BY <1>1, <1>4, <1>5 DEF Orderly
<1>7. ASSUME RunningHeld PROVE RunningHeld'
  <2>1. \A a \in Owners : RunHeld(a)'
    BY <1>2, <1>3, <1>7 DEF RunHeld, RunningHeld
  <2> QED BY <1>1, <1>3, <1>7, <2>1 DEF RunningHeld
<1> QED BY <1>6, <1>7


\* The steps of callers that own nothing keep the order.
LEMMA BystanderSteps ==
  ASSUME ExpTypes, Orderly, NEW c \in Callers,
         (\E e \in Exps : Start(c, e)) \/ StartRefused(c) \/ Stop(c) \/ CancelChild(c)
  PROVE  Orderly' /\ (RunningHeld => RunningHeld')
<1>0. /\ c \in Actors /\ \A l \in {"idle", "check", "cancel"} : l \notin OwnerPcs
      /\ \A a \in Owners : StopHeld(a) /\ a \in Actors /\ pc[a] \in OwnerPcs /\ ActorTypes(a)
      /\ child \in [Loops -> [exp : Exps \cup {None}, run : 0..Reps, end : Ends]]
  BY DEF Actors, OwnerPcs, ClaimedPcs, Owners, Orderly, ExpTypes
<1>1. ASSUME NEW e \in Exps, Start(c, e) PROVE Orderly' /\ (RunningHeld => RunningHeld')
  <2>1. /\ pc[c] = "idle" /\ Goto(c, "check") /\ cur' = [cur EXCEPT ![c] = e] /\ loc' = [loc EXCEPT ![c] = disk[e]]
        /\ UNCHANGED <<disk, active, activeRun, outcome, server, idx, child, stopped>>
    BY <1>1 DEF Start, mgrVars
  <2>2. /\ pc'[c] = "check" /\ \A b \in Actors : b # c => pc'[b] = pc[b]
    BY <1>0, <2>1, GotoFacts
  <2>3. \A b \in Actors : b # c => cur'[b] = cur[b] /\ loc'[b] = loc[b] /\ idx'[b] = idx[b]
    BY <2>1 DEF ExpTypes
  <2>4. \A a \in Owners : StopHeld(a)'
    BY <1>0, <2>1, <2>2, <2>3 DEF StopHeld, HeldExp
  <2> QED BY <1>0, <2>1, <2>2, <2>3, <2>4, Bystander
<1>2. CASE StartRefused(c)
  <2>1. pc[c] = "check" /\ Return(c) /\ UNCHANGED <<disk, active, activeRun, outcome, server, child, stopped>>
    BY <1>2 DEF StartRefused, mgrVars
  <2>2. /\ pc'[c] = "idle"
        /\ \A b \in Actors : b # c => pc'[b] = pc[b] /\ cur'[b] = cur[b] /\ idx'[b] = idx[b] /\ loc'[b] = loc[b]
    BY <1>0, <2>1, ReturnFacts
  <2>3. \A a \in Owners : StopHeld(a)'
    BY <1>0, <2>1, <2>2 DEF StopHeld, HeldExp
  <2> QED BY <1>0, <2>1, <2>2, <2>3, Bystander
<1>3. CASE Stop(c)
  <2>1. /\ pc[c] = "idle" /\ Goto(c, "cancel") /\ active # None /\ outcome' = "stopped" /\ stopped' = stopped \cup {active}
        /\ UNCHANGED <<disk, active, activeRun, server, cur, idx, loc, child>>
    BY <1>3 DEF Stop
  <2>2. /\ pc'[c] = "cancel" /\ \A b \in Actors : b # c => pc'[b] = pc[b]
    BY <1>0, <2>1, GotoFacts
  <2>3. \A a \in Owners : pc[a] \in ClaimedPcs
    BY <1>0, <2>1, SoleOwner
  <2>4. \A a \in Owners : StopHeld(a)'
    BY <1>0, <2>1, <2>2, <2>3 DEF StopHeld, ClaimedPcs
  <2> QED BY <1>0, <2>1, <2>2, <2>4, Bystander
<1>4. CASE CancelChild(c)
  <2>1. /\ pc[c] = "cancel" /\ Goto(c, "idle")
        /\ child' = [g \in Loops |-> IF g \in Waiting THEN [child[g] EXCEPT !.end = "cancelled"] ELSE child[g]]
        /\ UNCHANGED <<disk, active, activeRun, outcome, server, cur, idx, loc, stopped>>
    BY <1>4 DEF CancelChild, mgrVars
  <2>2. /\ pc'[c] = "idle" /\ \A b \in Actors : b # c => pc'[b] = pc[b]
    BY <1>0, <2>1, GotoFacts
  <2>3. \A g \in Loops : /\ child'[g].exp = child[g].exp /\ child'[g].run = child[g].run
                         /\ pc[g] # "wait" => child'[g].end = child[g].end
    BY <1>0, <2>1 DEF Waiting
  <2>4. ASSUME NEW a \in Owners PROVE StopHeld(a)'
    <3>1. /\ a \in Actors /\ pc'[a] = pc[a] /\ StopHeld(a)
          /\ pc[a] \in {"wait", "exited", "finish"} => a \in Loops
      BY <1>0, <2>1, <2>2 DEF ActorTypes
    <3>2. HeldExp(a)' = HeldExp(a)
      BY <2>1, <2>3, <3>1 DEF HeldExp
    <3> QED BY <2>1, <2>3, <3>1, <3>2 DEF StopHeld
  <2> QED BY <1>0, <2>1, <2>2, <2>3, <2>4, Bystander
<1> QED BY <1>1, <1>2, <1>3, <1>4


\* Start passes its check, and nobody owns an experiment: no collision.
LEMMA StartCheckedOrderly ==
  ASSUME ExpTypes, Orderly, NEW c \in Callers, StartChecked(c), ~collided'
  PROVE  Orderly' /\ (RunningHeld => RunningHeld')
<1> DEFINE e == cur[c]
           plan == PlanStartRuns(loc[c])
           x == IF plan.fresh THEN [loc[c] EXCEPT !.runs = Fresh.runs] ELSE loc[c]
           i == Min(plan.todo)
<1>0. c \in Actors /\ ActorTypes(c) /\ loc[c] \in Records
  BY DEF Actors, ExpTypes
<1>1. /\ pc[c] = "check" /\ active = None /\ Busy = {} /\ loc[c] = disk[e] /\ Goto(c, "plan")
      /\ loc' = [loc EXCEPT ![c] = x] /\ idx' = [idx EXCEPT ![c] = i] /\ stopped' = stopped \ {e}
      /\ UNCHANGED <<disk, active, activeRun, outcome, server, cur, child>>
  <2>1. ~(collided \/ Busy # {} \/ loc[c] # disk[cur[c]])
    BY DEF StartChecked
  <2> QED BY <2>1 DEF StartChecked, mgrVars
<1>2. e \in Exps
  BY <1>0, <1>1 DEF ActorTypes
<1>3. pc'[c] = "plan" /\ \A b \in Actors : b # c => pc'[b] = pc[b]
  BY <1>0, <1>1, GotoFacts
<1>4. loc'[c] = x /\ idx'[c] = i
  BY <1>0, <1>1 DEF ExpTypes
<1>5. \A b \in Actors : pc[b] \notin OwnerPcs
  <2> SUFFICES ASSUME NEW b \in Actors, pc[b] \in OwnerPcs PROVE FALSE
    OBVIOUS
  <2>1. pc[b] \in {"wait", "exited"}
    BY <1>1 DEF Busy, OwnerPcs, ClaimedPcs
  <2>2. active = HeldExp(b) /\ HeldExp(b) \in Exps
    BY <2>1, SoleOwner DEF ClaimedPcs
  <2> QED BY <1>1, <2>2, ExperimentManagerAssumption
<1>6. /\ i \in Indexes /\ plan.fresh \in BOOLEAN
      /\ ~plan.fresh => i \notin Done(loc[c]) /\ loc[c].status \notin {"created", "completed"}
      /\ plan.fresh => Attempted(loc[c]) = {} \/ loc[c].status \in {"created", "completed"} \/ Done(loc[c]) = Indexes
  BY PlanFacts
<1>7. RecordSound(disk[e], e) /\ \A f \in Exps : RecordSound(disk[f], f)
  BY <1>2 DEF Orderly
<1> HIDE DEF i, plan
<1>8. ASSUME plan.fresh
      PROVE  CopyFits("plan", e, i, disk[e], x) /\ (Having(disk[e], "running") = {} => Having(x, "running") = {})
  <2>1. x = [loc[c] EXCEPT !.runs = Fresh.runs]
    BY <1>8
  <2>2. x.runs = Fresh.runs /\ x.status = loc[c].status
    BY <1>0, <2>1 DEF Records
  <2> HIDE DEF x
  <2>3. \A j \in Indexes : x.runs[j].st = "none"
    BY <2>2, FreshFacts
  <2>4. Attempted(x) = {} /\ Done(x) = {} /\ OwnResults(x, e) /\ Having(x, "running") = {}
    BY <2>3 DEF Attempted, Done, Having, OwnResults
  <2>5. disk[e].status = "completed" \/ Done(disk[e]) \subseteq Done(x)
    BY <1>1, <1>6, <1>7, <1>8, <2>4, DoneFacts DEF RecordSound
  <2>6. CopyFits("plan", e, i, disk[e], x)
    BY <1>6, <2>3, <2>4, <2>5 DEF CopyFits
  <2> QED BY <2>4, <2>6
<1>9. ASSUME ~plan.fresh
      PROVE  CopyFits("plan", e, i, disk[e], x) /\ (Having(disk[e], "running") = {} => Having(x, "running") = {})
  <2>1. x = disk[e]
    BY <1>1, <1>9
  <2> HIDE DEF x
  <2>2. x.runs[i].st # "completed"
    BY <1>1, <1>6, <1>9, <2>1, DoneFacts
  <2>3. CopyFits("plan", e, i, disk[e], x)
    BY <1>1, <1>6, <1>7, <1>9, <2>1, <2>2 DEF CopyFits, RecordSound
  <2> QED BY <2>1, <2>3
<1> HIDE DEF x
<1>10. CopyFits("plan", e, i, disk[e], x) /\ (Having(disk[e], "running") = {} => Having(x, "running") = {})
  BY <1>6, <1>8, <1>9
<1>11. HeldExp(c)' = e /\ HeldRun(c)' = i
  BY <1>1, <1>3, <1>4 DEF HeldExp, HeldRun
<1>12. CopyHeld(c)'
  BY <1>1, <1>3, <1>4, <1>10, <1>11 DEF CopyHeld
<1>13. StopHeld(c)'
  BY <1>1, <1>3, <1>11 DEF StopHeld, ClaimedPcs
<1>14. \A b \in Actors : b # c => pc'[b] \notin OwnerPcs
  BY <1>3, <1>5
<1>15. "plan" \notin ClaimedPcs /\ "plan" \in OwnerPcs
  BY DEF ClaimedPcs, OwnerPcs
<1>16. Orderly'
  BY <1>0, <1>1, <1>2, <1>3, <1>7, <1>12, <1>13, <1>14, <1>15, SoleStep
<1>17. ASSUME RunningHeld PROVE RunningHeld'
  <2>1. \A f \in Exps : Settled(disk[f])
    BY <1>5, <1>17 DEF RunningHeld, Owners
  <2>2. Having(disk[e], "running") = {} /\ (disk[e].status = "completed" => Done(disk[e]) = Indexes)
    BY <1>2, <2>1 DEF Settled
  <2>3. RunFits("plan", e, i, disk[e], x, server')
    BY <1>10, <2>2 DEF RunFits
  <2>4. RunHeld(c)'
    BY <1>1, <1>3, <1>4, <1>11, <2>3 DEF RunHeld
  <2> QED BY <1>0, <1>1, <1>2, <1>3, <1>11, <1>14, <1>15, <2>1, <2>4, SoleRun
<1> QED BY <1>16, <1>17

\* The steps of a Start that has passed its check keep the order.
LEMMA CallerOrderly ==
  ASSUME ExpTypes, Orderly, NEW c \in Callers, SavePlan(c) \/ EnsureServer(c) \/ EnsureFails(c)
  PROVE  Orderly' /\ (RunningHeld => RunningHeld')
<1> DEFINE e == cur[c]
           i == idx[c]
           x == loc[c]
<1>0. /\ c \in Actors /\ ActorTypes(c) /\ disk \in [Exps -> Records] /\ loc[c] \in Records
      /\ pc[c] \in {"plan", "ensure"} /\ pc[c] \in OwnerPcs /\ \A l \in {"ensure", "load"} : l \in OwnerPcs /\ l \notin ClaimedPcs
  BY DEF Actors, ExpTypes, SavePlan, EnsureServer, EnsureFails, OwnerPcs, ClaimedPcs
<1>1. HeldExp(c) = e /\ HeldRun(c) = i /\ e \in Exps /\ i \in Indexes
  BY <1>0 DEF ActorTypes, HeldExp, HeldRun
<1>2. CopyFits(pc[c], e, i, disk[e], x) /\ e \notin stopped /\ RecordSound(disk[e], e) /\ active = None
  BY <1>0, <1>1, SoleOwner DEF CopyHeld, StopHeld, ClaimedPcs
<1>3. RunHeld(c) => RunFits(pc[c], e, i, disk[e], x, server)
  BY <1>1 DEF RunHeld
<1>4. CASE SavePlan(c)
  <2> DEFINE l == IF Config[e] = NoConfig THEN "load" ELSE "ensure"
  <2>1. /\ pc[c] = "plan" /\ disk' = [disk EXCEPT ![e] = x] /\ Goto(c, l)
        /\ UNCHANGED <<active, activeRun, outcome, server, cur, idx, loc, child, stopped>>
    BY <1>4 DEF SavePlan, mgrVars
  <2>2. pc'[c] = l /\ \A b \in Actors : b # c => pc'[b] = pc[b]
    BY <1>0, <2>1, GotoFacts
  <2>3. l \in {"load", "ensure"} /\ (l = "load" => Config[e] = NoConfig)
    OBVIOUS
  <2> HIDE DEF l
  <2>4. disk'[e] = x /\ \A f \in Exps : f # e => disk'[f] = disk[f]
    BY <1>0, <1>1, <2>1
  <2>5. HeldExp(c)' = e /\ HeldRun(c)' = i
    BY <2>1, <2>2, <2>3 DEF HeldExp, HeldRun
  <2>6. /\ OwnResults(x, e) /\ x.runs[i].st # "completed"
        /\ x.status \in {"created", "completed"} => Attempted(x) = {}
    BY <1>2, <2>1 DEF CopyFits
  <2>7. Done(x) # Indexes /\ RecordSound(x, e)
    BY <1>1, <2>6, DoneFacts DEF RecordSound
  <2>8. CopyFits(l, e, i, x, x)
    BY <2>3, <2>6 DEF CopyFits
  <2>9. StopHeld(c)'
    BY <1>2, <2>1, <2>5 DEF StopHeld
  <2>10. RunHeld(c) => RunFits(l, e, i, x, x, server')
    BY <1>3, <2>1, <2>3, <2>6 DEF RunFits
  <2> HIDE DEF e, i, x
  <2> QED BY <1>0, <1>1, <1>2, <2>1, <2>2, <2>3, <2>4, <2>5, <2>7, <2>8, <2>9, <2>10, OwnerGoesOn DEF x
<1>5. CASE EnsureServer(c)
  <2>1. /\ pc[c] = "ensure" /\ server' = Config[e] /\ Goto(c, "load")
        /\ UNCHANGED <<disk, active, activeRun, outcome, cur, idx, loc, child, stopped>>
    BY <1>5 DEF EnsureServer, mgrVars
  <2>2. pc'[c] = "load" /\ \A b \in Actors : b # c => pc'[b] = pc[b]
    BY <1>0, <2>1, GotoFacts
  <2>3. HeldExp(c)' = e /\ HeldRun(c)' = i
    BY <2>1, <2>2 DEF HeldExp, HeldRun
  <2>4. CopyFits("load", e, i, disk[e], x)
    BY <1>2, <2>1 DEF CopyFits
  <2>5. StopHeld(c)'
    BY <1>2, <2>1, <2>3 DEF StopHeld
  <2>6. RunHeld(c) => RunFits("load", e, i, disk[e], x, server')
    BY <1>3, <2>1 DEF RunFits
  <2> HIDE DEF e, i, x
  <2> QED BY <1>0, <1>1, <1>2, <2>1, <2>2, <2>3, <2>4, <2>5, <2>6, OwnerGoesOn DEF x
<1>6. CASE EnsureFails(c)
  <2> DEFINE d == [x EXCEPT !.status = "failed"]
  <2>1. pc[c] = "ensure" /\ disk' = [disk EXCEPT ![e] = d] /\ Return(c) /\ UNCHANGED active
    BY <1>6 DEF EnsureFails, mgrVars
  <2>2. pc'[c] = "idle" /\ \A b \in Actors : b # c => pc'[b] = pc[b]
    BY <1>0, <2>1, ReturnFacts
  <2>3. d.status = "failed" /\ d.runs = x.runs
    BY <1>0, SetStatusFacts DEF ExpStatuses
  <2>4. disk'[e] = d /\ \A f \in Exps : f # e => disk'[f] = disk[f]
    BY <1>0, <1>1, <2>1
  <2> HIDE DEF d
  <2>5. disk[e] = x /\ x.runs[i].st # "completed"
    BY <1>2, <2>1 DEF CopyFits
  <2>6. OwnResults(d, e) /\ Done(d) = Done(x) /\ Done(x) # Indexes /\ Having(d, "running") = Having(x, "running")
    BY <1>1, <1>2, <2>3, <2>5, SameRuns, DoneFacts DEF RecordSound
  <2>7. RecordSound(d, e)
    BY <2>3, <2>6 DEF RecordSound
  <2>8. RunHeld(c) => Settled(d)
    BY <1>3, <2>1, <2>3, <2>6 DEF RunFits, Settled
  <2> HIDE DEF e, i, x
  <2> QED BY <1>0, <1>1, <1>2, <2>1, <2>2, <2>4, <2>7, <2>8, OwnerReturns
<1> QED BY <1>4, <1>5, <1>6


\* The steps that begin a run keep the order.
LEMMA BeginOrderly ==
  ASSUME ExpTypes, Orderly, NEW a \in Actors,
         BeginLoad(a) \/ BeginSave(a) \/ Claim(a) \/ LaunchFails(a) \/ SaveFailed(a)
  PROVE  Orderly' /\ (RunningHeld => RunningHeld')
<1> DEFINE e == cur[a]
           i == idx[a]
           x == loc[a]
<1>0. /\ ActorTypes(a) /\ disk \in [Exps -> Records] /\ loc \in [Actors -> Records] /\ loc[a] \in Records
      /\ pc[a] \in {"load", "save", "claim", "launch", "saveFailed"} /\ pc[a] \in OwnerPcs
      /\ \A l \in {"save", "claim", "saveFailed", "release"} : l \in OwnerPcs /\ l \notin ClaimedPcs
      /\ "launch" \in OwnerPcs /\ "launch" \in ClaimedPcs /\ (pc[a] \in ClaimedPcs => pc[a] = "launch")
  BY DEF ExpTypes, BeginLoad, BeginSave, Claim, LaunchFails, SaveFailed, OwnerPcs, ClaimedPcs
<1>1. HeldExp(a) = e /\ HeldRun(a) = i /\ e \in Exps /\ i \in Indexes
  BY <1>0 DEF ActorTypes, HeldExp, HeldRun
<1>2. /\ CopyFits(pc[a], e, i, disk[e], x) /\ RecordSound(disk[e], e) /\ StopHeld(a)
      /\ active # None => pc[a] = "launch"
  BY <1>0, <1>1, SoleOwner DEF CopyHeld
<1>3. RunHeld(a) => RunFits(pc[a], e, i, disk[e], x, server)
  BY <1>1 DEF RunHeld
<1>4. disk[e] \in Records
  BY <1>0, <1>1
<1>5. CASE BeginLoad(a)
  <2> DEFINE y == SetRun(disk[e], i, "running", None)
             z == [y EXCEPT !.status = "running"]
  <2>1. /\ pc[a] = "load" /\ loc' = [loc EXCEPT ![a] = z] /\ Goto(a, "save")
        /\ UNCHANGED <<disk, active, activeRun, outcome, server, cur, idx, child, stopped>>
    BY <1>5 DEF BeginLoad, mgrVars
  <2>2. pc'[a] = "save" /\ \A b \in Actors : b # a => pc'[b] = pc[b]
    BY <2>1, GotoFacts
  <2>3. y \in Records /\ y.runs[i].st = "running" /\ \A j \in Indexes : j # i => y.runs[j] = disk[e].runs[j]
    BY <1>1, <1>4, SetRunFacts DEF RunStatuses
  <2> HIDE DEF y
  <2>4. z.status = "running" /\ z.runs = y.runs
    BY <2>3, SetStatusFacts DEF ExpStatuses
  <2>5. loc'[a] = z
    BY <1>0, <2>1
  <2> HIDE DEF z
  <2>6. HeldExp(a)' = e /\ HeldRun(a)' = i
    BY <2>1, <2>2 DEF HeldExp, HeldRun
  <2>7. disk[e] = x /\ disk[e].runs[i].st # "completed" /\ OwnResults(disk[e], e)
    BY <1>2, <2>1 DEF CopyFits, RecordSound
  <2>8. OwnResults(z, e) /\ Done(disk[e]) \subseteq Done(z) /\ Having(z, "running") \subseteq Having(disk[e], "running") \cup {i}
    BY <1>1, <2>3, <2>4, <2>7, OneRunChanged
  <2>9. CopyFits("save", e, i, disk[e], z)
    BY <2>3, <2>4, <2>8 DEF CopyFits
  <2>10. StopHeld(a)'
    BY <1>1, <1>2, <2>1, <2>6 DEF StopHeld
  <2>11. RunHeld(a) => RunFits("save", e, i, disk[e], z, server')
    BY <1>3, <2>1, <2>8 DEF RunFits
  <2> HIDE DEF e, i, x
  <2> QED BY <1>0, <1>1, <1>2, <2>1, <2>2, <2>5, <2>6, <2>9, <2>10, <2>11, OwnerGoesOn
<1>6. CASE BeginSave(a)
  <2>1. /\ pc[a] = "save" /\ disk' = [disk EXCEPT ![e] = x] /\ Goto(a, "claim")
        /\ UNCHANGED <<active, activeRun, outcome, server, cur, idx, loc, child, stopped>>
    BY <1>6 DEF BeginSave, mgrVars
  <2>2. pc'[a] = "claim" /\ \A b \in Actors : b # a => pc'[b] = pc[b]
    BY <2>1, GotoFacts
  <2>3. disk'[e] = x /\ \A f \in Exps : f # e => disk'[f] = disk[f]
    BY <1>0, <1>1, <2>1
  <2>4. HeldExp(a)' = e /\ HeldRun(a)' = i
    BY <2>1, <2>2 DEF HeldExp, HeldRun
  <2>5. OwnResults(x, e) /\ x.status = "running" /\ x.runs[i].st = "running"
    BY <1>2, <2>1 DEF CopyFits
  <2>6. RecordSound(x, e)
    BY <1>1, <2>5, DoneFacts DEF RecordSound
  <2>7. CopyFits("claim", e, i, x, x)
    BY <2>5 DEF CopyFits
  <2>8. StopHeld(a)'
    BY <1>1, <1>2, <2>1, <2>4 DEF StopHeld
  <2>9. RunHeld(a) => RunFits("claim", e, i, x, x, server')
    BY <1>3, <2>1, <2>5 DEF RunFits
  <2> HIDE DEF e, i, x
  <2> QED BY <1>0, <1>1, <1>2, <2>1, <2>2, <2>3, <2>4, <2>6, <2>7, <2>8, <2>9, OwnerGoesOn DEF x
<1>7. CASE Claim(a)
  <2>1. /\ pc[a] = "claim" /\ active' = e /\ activeRun' = i /\ outcome' = "completed" /\ Goto(a, "launch")
        /\ UNCHANGED <<disk, server, cur, idx, loc, child, stopped>>
    BY <1>7 DEF Claim
  <2>2. pc'[a] = "launch" /\ \A b \in Actors : b # a => pc'[b] = pc[b]
    BY <2>1, GotoFacts
  <2>3. HeldExp(a)' = e /\ HeldRun(a)' = i
    BY <2>1, <2>2 DEF HeldExp, HeldRun
  <2>4. CopyFits("launch", e, i, disk[e], x)
    BY <1>2, <2>1 DEF CopyFits
  <2>5. StopHeld(a)'
    BY <1>1, <1>2, <2>1, <2>3 DEF StopHeld
  <2>6. RunHeld(a) => RunFits("launch", e, i, disk[e], x, server')
    BY <1>3, <2>1 DEF RunFits
  <2> HIDE DEF e, i, x
  <2> QED BY <1>0, <1>1, <1>2, <2>1, <2>2, <2>3, <2>4, <2>5, <2>6, OwnerGoesOn DEF x
<1>8. CASE LaunchFails(a)
  <2> DEFINE z == SetRun(x, i, "failed", None)
  <2>1. /\ pc[a] = "launch" /\ active' = None /\ loc' = [loc EXCEPT ![a] = z] /\ Goto(a, "saveFailed")
        /\ UNCHANGED <<disk, server, cur, idx, child, stopped>>
    BY <1>8 DEF LaunchFails
  <2>2. pc'[a] = "saveFailed" /\ \A b \in Actors : b # a => pc'[b] = pc[b]
    BY <2>1, GotoFacts
  <2>3. z.status = x.status /\ z.runs[i].st = "failed" /\ \A j \in Indexes : j # i => z.runs[j] = x.runs[j]
    BY <1>0, <1>1, SetRunFacts DEF RunStatuses
  <2>4. loc'[a] = z
    BY <1>0, <2>1
  <2> HIDE DEF z
  <2>5. HeldExp(a)' = e /\ HeldRun(a)' = i
    BY <2>1, <2>2 DEF HeldExp, HeldRun
  <2>6. disk[e] = x /\ x.status = "running" /\ x.runs[i].st = "running" /\ OwnResults(x, e)
    BY <1>2, <2>1 DEF CopyFits, RecordSound
  <2>7. OwnResults(z, e) /\ Done(x) \subseteq Done(z) /\ Having(z, "running") \subseteq Having(x, "running") \ {i}
    BY <1>1, <2>3, <2>6, OneRunChanged
  <2>8. CopyFits("saveFailed", e, i, disk[e], z)
    BY <2>3, <2>6, <2>7 DEF CopyFits
  <2>9. StopHeld(a)'
    BY <2>2 DEF StopHeld, ClaimedPcs
  <2>10. RunHeld(a) => RunFits("saveFailed", e, i, disk[e], z, server')
    <3>1. RunHeld(a) => Having(disk[e], "running") \subseteq {i} /\ ~(disk[e].status = "completed")
      BY <1>3, <2>1, <2>6 DEF RunFits
    <3>2. RunHeld(a) => Having(z, "running") = {}
      BY <2>6, <2>7, <3>1
    <3> QED BY <3>1, <3>2 DEF RunFits
  <2> HIDE DEF e, i, x
  <2> QED BY <1>0, <1>1, <1>2, <2>1, <2>2, <2>4, <2>5, <2>8, <2>9, <2>10, OwnerGoesOn
<1>9. CASE SaveFailed(a)
  <2> DEFINE z == [x EXCEPT !.status = DeriveExperimentStatus(x)]
  <2>1. /\ pc[a] = "saveFailed" /\ disk' = [disk EXCEPT ![e] = x] /\ Goto(a, "release")
        /\ loc' = [loc EXCEPT ![a].status = DeriveExperimentStatus(loc[a])]
        /\ UNCHANGED <<active, activeRun, outcome, server, cur, idx, child, stopped>>
    BY <1>9 DEF SaveFailed, mgrVars
  <2>2. pc'[a] = "release" /\ \A b \in Actors : b # a => pc'[b] = pc[b]
    BY <2>1, GotoFacts
  <2>3. z.status = DeriveExperimentStatus(x) /\ z.runs = x.runs
    BY <1>0, DeriveFacts, SetStatusFacts
  <2>4. loc'[a] = z
    BY <1>0, <2>1
  <2>5. disk'[e] = x /\ \A f \in Exps : f # e => disk'[f] = disk[f]
    BY <1>0, <1>1, <2>1
  <2> HIDE DEF z
  <2>6. HeldExp(a)' = e /\ HeldRun(a)' = i
    BY <2>1, <2>2 DEF HeldExp, HeldRun
  <2>7. OwnResults(x, e) /\ x.status = "running" /\ x.runs[i].st = "failed"
    BY <1>2, <2>1 DEF CopyFits
  <2>8. i \in Attempted(x) /\ i \notin Done(x)
    BY <1>1, <2>7, DoneFacts
  <2>9. RecordSound(x, e)
    BY <1>1, <2>7, <2>8 DEF RecordSound
  <2>10. DeriveExperimentStatus(x) # "completed"
    BY <2>8, DeriveFacts
  <2>11. /\ OwnResults(z, e) /\ Done(z) = Done(x) /\ Attempted(z) # {} /\ Having(z, "running") = Having(x, "running")
         /\ DeriveExperimentStatus(z) = DeriveExperimentStatus(x)
    BY <2>3, <2>7, <2>8, SameRuns
  <2>12. CopyFits("release", e, i, x, z)
    BY <2>3, <2>10, <2>11 DEF CopyFits
  <2>13. StopHeld(a)'
    BY <2>2, <2>3, <2>4, <2>10 DEF StopHeld, ClaimedPcs
  <2>14. RunHeld(a) => RunFits("release", e, i, x, z, server')
    BY <1>3, <2>1, <2>7, <2>11 DEF RunFits
  <2> HIDE DEF e, i, x
  <2> QED BY <1>0, <1>1, <1>2, <2>1, <2>2, <2>4, <2>5, <2>6, <2>9, <2>12, <2>13, <2>14, OwnerGoesOn
<1> QED BY <1>5, <1>6, <1>7, <1>8, <1>9


\* The claim passes from the goroutine that launched the child to the one that waits for it.
LEMMA LaunchOrderly ==
  ASSUME ExpTypes, Orderly, NEW a \in Actors, Launch(a)
  PROVE  Orderly' /\ (RunningHeld => RunningHeld')
<1> DEFINE e == cur[a]
           i == idx[a]
<1>1. PICK g \in Loops :
           /\ a \in Loops => g = a
           /\ a \notin Loops => pc[g] = "idle" /\ g # a
           /\ pc'[g] = "wait" /\ (g # a => pc'[a] = "idle") /\ \A b \in Actors : b \notin {a, g} => pc'[b] = pc[b]
           /\ pc' \in [Actors -> CallerPcs \cup OwnerPcs]
           /\ child' \in [Loops -> [exp : Exps \cup {None}, run : 0..Reps, end : Ends]]
           /\ child'[g].exp = cur[a] /\ child'[g].run = idx[a] /\ \A h \in Loops : h # g => child'[h] = child[h]
           /\ g \in Actors
  BY LaunchFacts
<1>2. /\ pc[a] = "launch" /\ pc[a] \in OwnerPcs /\ pc[a] \in ClaimedPcs /\ ActorTypes(a)
      /\ UNCHANGED <<disk, active, activeRun, outcome, server, stopped>>
  BY DEF Launch, OwnerPcs, ClaimedPcs, mgrVars, ExpTypes
<1>3. HeldExp(a) = e /\ HeldRun(a) = i /\ e \in Exps /\ i \in Indexes
  BY <1>2 DEF ActorTypes, HeldExp, HeldRun
<1>4. /\ CopyFits("launch", e, i, disk[e], loc[a]) /\ StopHeld(a) /\ active = e /\ activeRun = i
      /\ \A f \in Exps : RecordSound(disk[f], f)
      /\ \A b \in Actors : b # a => pc[b] \notin OwnerPcs
      /\ RunningHeld => RunHeld(a) /\ \A f \in Exps : f # e => Settled(disk[f])
  BY <1>2, <1>3, SoleOwner DEF CopyHeld
<1>5. HeldExp(g)' = e /\ HeldRun(g)' = i
  BY <1>1 DEF HeldExp, HeldRun
<1>6. \A b \in Actors : b # g => pc'[b] \notin OwnerPcs
  BY <1>1, <1>4 DEF OwnerPcs, ClaimedPcs
<1>7. CopyFits("wait", e, i, disk[e], loc'[g])
  BY <1>4 DEF CopyFits
<1>8. CopyHeld(g)'
  BY <1>1, <1>2, <1>5, <1>7 DEF CopyHeld
<1>9. StopHeld(g)'
  BY <1>1, <1>2, <1>3, <1>4, <1>5 DEF StopHeld
<1>10. "wait" \in OwnerPcs /\ "wait" \in ClaimedPcs
  BY DEF OwnerPcs, ClaimedPcs
<1> HIDE DEF e, i
<1>11. Orderly'
  <2>1. pc'[g] \in ClaimedPcs /\ active' = HeldExp(g)' /\ activeRun' = HeldRun(g)' /\ pc'[g] # "finish"
    BY <1>1, <1>2, <1>4, <1>5, <1>10
  <2>2. \A f \in Exps : disk'[f] = disk[f]
    BY <1>2
  <2> QED BY <1>1, <1>3, <1>4, <1>6, <1>8, <1>9, <2>1, <2>2, SoleStep
<1>12. ASSUME RunningHeld PROVE RunningHeld'
  <2>1. RunFits("launch", e, i, disk[e], loc[a], server) /\ \A f \in Exps : f # e => Settled(disk[f])
    BY <1>2, <1>3, <1>4, <1>12 DEF RunHeld
  <2>2. RunFits("wait", e, i, disk[e], loc'[g], server)
    BY <2>1 DEF RunFits
  <2>3. RunHeld(g)'
    BY <1>1, <1>2, <1>5, <2>2 DEF RunHeld
  <2>4. \A f \in Exps : disk'[f] = disk[f]
    BY <1>2
  <2> QED BY <1>1, <1>3, <1>5, <1>6, <1>10, <2>1, <2>3, <2>4, SoleRun
<1> QED BY <1>11, <1>12

\* The steps of the loop that waits for a child keep the order.
LEMMA LoopOrderly ==
  ASSUME ExpTypes, Orderly, NEW g \in Loops, LoopStep(g)
  PROVE  Orderly' /\ (RunningHeld => RunningHeld')
<1> DEFINE e == HeldExp(g)
           i == HeldRun(g)
<1>0. /\ g \in Actors /\ ActorTypes(g) /\ disk \in [Exps -> Records] /\ loc \in [Actors -> Records] /\ loc[g] \in Records
      /\ child \in [Loops -> [exp : Exps \cup {None}, run : 0..Reps, end : Ends]]
      /\ cur \in [Actors -> Exps \cup {None}] /\ idx \in [Actors -> 0..Reps]
      /\ pc[g] \in {"wait", "exited", "finish", "saveNext"} /\ pc[g] \in OwnerPcs
      /\ \A l \in {"exited", "finish", "saveNext", "release", "load"} : l \in OwnerPcs
      /\ \A l \in {"finish", "saveNext", "release", "load"} : l \notin ClaimedPcs
      /\ "wait" \in ClaimedPcs /\ "exited" \in ClaimedPcs
  BY DEF Actors, ExpTypes, LoopStep, ChildExit, FinishRun, FinishUnknown, Finish, SaveNext, OwnerPcs, ClaimedPcs
<1>1. /\ pc[g] \in {"wait", "exited"} => e = child[g].exp /\ i = child[g].run
      /\ pc[g] \in {"finish", "saveNext"} => e = cur[g] /\ i = idx[g]
      /\ e \in Exps /\ i \in Indexes
  BY <1>0 DEF ActorTypes, HeldExp, HeldRun
<1>2. /\ CopyFits(pc[g], e, i, disk[e], loc[g]) /\ RecordSound(disk[e], e) /\ StopHeld(g)
      /\ active # None => pc[g] \in ClaimedPcs
      /\ pc[g] \in ClaimedPcs => active = e /\ activeRun = i
      /\ pc[g] = "finish" => child[g].exp = e /\ child[g].run = i
  BY <1>0, <1>1, SoleOwner DEF CopyHeld
<1>3. RunHeld(g) => RunFits(pc[g], e, i, disk[e], loc[g], server)
  BY DEF RunHeld
<1>4. disk[e] \in Records /\ e # None
  BY <1>0, <1>1, ExperimentManagerAssumption
<1>5. ASSUME NEW end \in {"report", "error", "noReport"}, ChildExit(g, end)
      PROVE  Orderly' /\ (RunningHeld => RunningHeld')
  <2>1. /\ pc[g] = "wait" /\ child' = [child EXCEPT ![g].end = end] /\ Goto(g, "exited")
        /\ UNCHANGED <<disk, active, activeRun, outcome, server, cur, idx, loc, stopped>>
    BY <1>5 DEF ChildExit, mgrVars
  <2>2. pc'[g] = "exited" /\ \A b \in Actors : b # g => pc'[b] = pc[b]
    BY <1>0, <2>1, GotoFacts
  <2>3. child'[g].exp = child[g].exp /\ child'[g].run = child[g].run
    BY <1>0, <2>1
  <2>4. HeldExp(g)' = e /\ HeldRun(g)' = i
    BY <1>1, <2>1, <2>2, <2>3 DEF HeldExp, HeldRun
  <2>5. CopyFits("exited", e, i, disk[e], loc[g])
    BY <1>2, <2>1 DEF CopyFits
  <2>6. StopHeld(g)'
    BY <1>0, <1>2, <2>1, <2>2, <2>4 DEF StopHeld
  <2>7. RunHeld(g) => RunFits("exited", e, i, disk[e], loc[g], server')
    BY <1>3, <2>1 DEF RunFits
  <2>8. active' = e /\ activeRun' = i
    BY <1>0, <1>2, <2>1
  <2> HIDE DEF e, i
  <2> QED BY <1>0, <1>1, <1>2, <2>1, <2>2, <2>4, <2>5, <2>6, <2>7, <2>8, OwnerGoesOn DEF e
<1>6. CASE FinishRun(g)
  <2>1. /\ pc[g] = "exited" /\ cur' = [cur EXCEPT ![g] = active] /\ idx' = [idx EXCEPT ![g] = activeRun]
        /\ child' = [child EXCEPT ![g].end = IF outcome = "stopped" THEN "stopped" ELSE child[g].end]
        /\ active' = None /\ Goto(g, "finish")
        /\ UNCHANGED <<disk, server, loc, stopped>>
    BY <1>6 DEF FinishRun
  <2>2. pc'[g] = "finish" /\ \A b \in Actors : b # g => pc'[b] = pc[b]
    BY <1>0, <2>1, GotoFacts
  <2>3. /\ child'[g].exp = e /\ child'[g].run = i
        /\ child'[g].end = IF outcome = "stopped" THEN "stopped" ELSE child[g].end
    BY <1>0, <1>1, <2>1
  <2>4. cur'[g] = e /\ idx'[g] = i
    BY <1>0, <1>2, <2>1
  <2>5. HeldExp(g)' = e /\ HeldRun(g)' = i
    BY <2>2, <2>4 DEF HeldExp, HeldRun
  <2>6. CopyFits("finish", e, i, disk[e], loc[g])
    BY <1>2, <2>1 DEF CopyFits
  <2>7. StopHeld(g)'
    BY <1>0, <1>2, <2>1, <2>2, <2>3, <2>5 DEF StopHeld
  <2>8. RunHeld(g) => RunFits("finish", e, i, disk[e], loc[g], server')
    BY <1>3, <2>1 DEF RunFits
  <2> HIDE DEF e, i
  <2> QED BY <1>0, <1>1, <1>2, <2>1, <2>2, <2>3, <2>4, <2>5, <2>6, <2>7, <2>8, OwnerGoesOn DEF e
<1>7. CASE FinishUnknown(g)
  BY <1>0, <1>2, <1>4, <1>7 DEF FinishUnknown
<1>8. CASE Finish(g)
  <2> DEFINE by == IF RunEnd(g) = "completed" THEN <<child[g].exp, child[g].run>> ELSE None
             y == SetRun(disk[cur[g]], idx[g], RunEnd(g), by)
             more == NextTodoIndex(y) > 0 /\ RunEnd(g) # "stopped"
             z == [y EXCEPT !.status = IF more THEN "running" ELSE DeriveExperimentStatus(y)]
             l == IF more THEN "saveNext" ELSE "release"
  <2>1. /\ pc[g] = "finish" /\ loc' = [loc EXCEPT ![g] = z] /\ Goto(g, l)
        /\ UNCHANGED <<disk, active, activeRun, outcome, server, cur, idx, stopped>>
    BY <1>8 DEF Finish, mgrVars
  <2>2. pc'[g] = l /\ \A b \in Actors : b # g => pc'[b] = pc[b]
    BY <1>0, <2>1, GotoFacts
  <2>3. cur[g] = e /\ idx[g] = i /\ child[g].exp = e /\ child[g].run = i
    BY <1>1, <1>2, <2>1
  <2>4. /\ RunEnd(g) \in {"stopped", "completed", "failed"} /\ y \in Records /\ y.runs[i].st = RunEnd(g)
        /\ y.runs[i].by = by /\ \A j \in Indexes : j # i => y.runs[j] = disk[e].runs[j]
    <3> HIDE DEF e, i
    <3> QED BY <1>1, <2>3, RunEndFacts
  <2>5. RunEnd(g) = "completed" => y.runs[i].by = <<e, i>>
    BY <2>3, <2>4
  <2>6. child[g].end = "stopped" => RunEnd(g) = "stopped"
    BY DEF RunEnd
  <2> HIDE DEF y, by
  <2>7. IF Attempted(y) = Indexes THEN NextTodoIndex(y) = 0
        ELSE NextTodoIndex(y) \in Indexes \ Attempted(y) /\ NextTodoIndex(y) > 0
    BY NextTodoFacts
  <2>8. more => Attempted(y) # Indexes /\ RunEnd(g) # "stopped"
    BY <2>7
  <2>9. ~more => Attempted(y) = Indexes \/ RunEnd(g) = "stopped"
    BY <2>7
  <2>10. z.status = (IF more THEN "running" ELSE DeriveExperimentStatus(y)) /\ z.runs = y.runs
    <3>1. (IF more THEN "running" ELSE DeriveExperimentStatus(y)) \in ExpStatuses
      BY DeriveFacts DEF ExpStatuses
    <3> HIDE DEF more
    <3> QED BY <2>4, <3>1, SetStatusFacts
  <2>11. loc'[g] = z
    BY <1>0, <2>1
  <2>12. l = (IF more THEN "saveNext" ELSE "release")
    OBVIOUS
  <2> HIDE DEF z, more, l
  <2>13. HeldExp(g)' = e /\ HeldRun(g)' = i
    BY <2>1, <2>2, <2>3, <2>12 DEF HeldExp, HeldRun
  <2>14. disk[e].status = "running" /\ disk[e].runs[i].st = "running" /\ OwnResults(disk[e], e)
    BY <1>2, <2>1 DEF CopyFits, RecordSound
  <2>15. /\ OwnResults(y, e) /\ Done(disk[e]) \subseteq Done(y) /\ Attempted(y) # {}
         /\ Having(y, "running") \subseteq Having(disk[e], "running") \ {i}
    <3> HIDE DEF e, i
    <3> QED BY <1>1, <2>4, <2>5, <2>14, OneRunChanged
  <2>16. /\ OwnResults(z, e) /\ Done(z) = Done(y) /\ Attempted(z) = Attempted(y)
         /\ Having(z, "running") = Having(y, "running") /\ DeriveExperimentStatus(z) = DeriveExperimentStatus(y)
    BY <2>10, <2>15, SameRuns
  <2>17. RunEnd(g) = "stopped" => Having(y, "stopped") # {}
    BY <1>1, <2>4 DEF Having
  <2>18. DeriveExperimentStatus(y) = "completed" => Done(y) = Attempted(y) /\ RunEnd(g) # "stopped"
    BY <2>17, DeriveFacts
  <2>19. CopyFits(l, e, i, disk[e], z)
    BY <2>9, <2>10, <2>12, <2>15, <2>16, <2>18 DEF CopyFits
  <2>20. StopHeld(g)'
    BY <1>2, <2>1, <2>2, <2>3, <2>6, <2>8, <2>10, <2>11, <2>12, <2>13, <2>18 DEF StopHeld, ClaimedPcs
  <2>21. RunHeld(g) => RunFits(l, e, i, disk[e], z, server')
    <3>1. RunHeld(g) => Having(disk[e], "running") \subseteq {i} /\ Config[e] \in {NoConfig, server}
      BY <1>3, <2>1 DEF RunFits
    <3>2. RunHeld(g) => Having(z, "running") = {}
      BY <2>15, <2>16, <3>1
    <3> QED BY <2>1, <2>12, <2>14, <3>1, <3>2 DEF RunFits
  <2>22. l \in OwnerPcs /\ l \notin ClaimedPcs /\ l # "finish" /\ active' = None
    BY <1>0, <1>2, <2>1, <2>12
  <2>23. \A f \in Exps : disk'[f] = disk[f]
    BY <2>1
  <2> HIDE DEF e, i
  <2> QED BY <1>0, <1>1, <1>2, <2>1, <2>2, <2>11, <2>13, <2>19, <2>20, <2>21, <2>22, <2>23, OwnerGoesOn DEF e
<1>9. CASE SaveNext(g)
  <2> DEFINE x == loc[g]
             n == NextTodoIndex(x)
  <2>1. /\ pc[g] = "saveNext" /\ disk' = [disk EXCEPT ![e] = x] /\ idx' = [idx EXCEPT ![g] = n] /\ Goto(g, "load")
        /\ UNCHANGED <<active, activeRun, outcome, server, cur, loc, child, stopped>>
    BY <1>1, <1>9 DEF SaveNext, mgrVars
  <2>2. pc'[g] = "load" /\ \A b \in Actors : b # g => pc'[b] = pc[b]
    BY <1>0, <2>1, GotoFacts
  <2>3. Attempted(x) # Indexes
    BY <1>0, <2>1 DEF ActorTypes
  <2>4. n \in Indexes \ Attempted(x)
    BY <2>3, NextTodoFacts
  <2>5. idx'[g] = n /\ cur'[g] = e
    BY <1>0, <1>1, <2>1
  <2> HIDE DEF n
  <2>6. disk'[e] = x /\ \A f \in Exps : f # e => disk'[f] = disk[f]
    BY <1>0, <1>1, <2>1
  <2>7. HeldExp(g)' = e /\ HeldRun(g)' = n
    BY <2>2, <2>5 DEF HeldExp, HeldRun
  <2>8. OwnResults(x, e) /\ x.status = "running"
    BY <1>2, <2>1 DEF CopyFits
  <2>9. n \notin Done(x) /\ x.runs[n].st # "completed"
    BY <2>4, DoneFacts
  <2>10. RecordSound(x, e)
    BY <2>4, <2>8, <2>9 DEF RecordSound
  <2>11. CopyFits("load", e, n, x, x)
    BY <2>9 DEF CopyFits
  <2>12. StopHeld(g)'
    BY <1>2, <2>1, <2>7 DEF StopHeld
  <2>13. RunHeld(g) => RunFits("load", e, n, x, x, server')
    BY <1>3, <2>1, <2>8 DEF RunFits
  <2>14. active' = None
    BY <1>2, <2>1 DEF ClaimedPcs
  <2> HIDE DEF e, i, x
  <2> QED BY <1>0, <1>1, <1>2, <2>1, <2>2, <2>6, <2>7, <2>10, <2>11, <2>12, <2>13, <2>14, OwnerGoesOn DEF e, x
<1> QED BY <1>5, <1>6, <1>7, <1>8, <1>9 DEF LoopStep


\* The last save of a session keeps the order.
LEMMA FinalizeOrderly ==
  ASSUME ExpTypes, Orderly, NEW a \in Actors, Finalize(a)
  PROVE  Orderly' /\ (RunningHeld => RunningHeld')
<1> DEFINE e == cur[a]
           i == idx[a]
           x == loc[a]
<1>0. /\ ActorTypes(a) /\ disk \in [Exps -> Records] /\ loc[a] \in Records
      /\ pc[a] \in {"release", "final"} /\ pc[a] \in OwnerPcs /\ pc[a] \notin ClaimedPcs
      /\ "final" \in OwnerPcs /\ "final" \notin ClaimedPcs
  BY DEF ExpTypes, Finalize, Release, SaveFinal, OwnerPcs, ClaimedPcs
<1>1. HeldExp(a) = e /\ HeldRun(a) = i /\ e \in Exps /\ i \in Indexes
  BY <1>0 DEF ActorTypes, HeldExp, HeldRun
<1>2. CopyFits(pc[a], e, i, disk[e], x) /\ RecordSound(disk[e], e) /\ StopHeld(a) /\ active = None
  BY <1>0, <1>1, SoleOwner DEF CopyHeld
<1>3. RunHeld(a) => RunFits(pc[a], e, i, disk[e], x, server)
  BY <1>1 DEF RunHeld
<1>4. CASE Release(a)
  <2>1. /\ pc[a] = "release" /\ Goto(a, "final")
        /\ UNCHANGED <<disk, active, activeRun, outcome, cur, idx, loc, child, stopped>>
    BY <1>4 DEF Release, mgrVars
  <2>2. pc'[a] = "final" /\ \A b \in Actors : b # a => pc'[b] = pc[b]
    BY <2>1, GotoFacts
  <2>3. HeldExp(a)' = e /\ HeldRun(a)' = i
    BY <2>1, <2>2 DEF HeldExp, HeldRun
  <2>4. CopyFits("final", e, i, disk[e], x)
    BY <1>2, <2>1 DEF CopyFits
  <2>5. StopHeld(a)'
    BY <1>1, <1>2, <2>1, <2>2, <2>3 DEF StopHeld, ClaimedPcs
  <2>6. RunHeld(a) => RunFits("final", e, i, disk[e], x, server')
    BY <1>3, <2>1 DEF RunFits
  <2> HIDE DEF e, i, x
  <2> QED BY <1>0, <1>1, <1>2, <2>1, <2>2, <2>3, <2>4, <2>5, <2>6, OwnerGoesOn DEF x
<1>5. CASE SaveFinal(a)
  <2>1. pc[a] = "final" /\ disk' = [disk EXCEPT ![e] = x] /\ Return(a) /\ UNCHANGED active
    BY <1>5 DEF SaveFinal, mgrVars
  <2>2. pc'[a] = "idle" /\ \A b \in Actors : b # a => pc'[b] = pc[b]
    BY <2>1, ReturnFacts
  <2>3. disk'[e] = x /\ \A f \in Exps : f # e => disk'[f] = disk[f]
    BY <1>0, <1>1, <2>1
  <2>4. /\ OwnResults(x, e) /\ Attempted(x) # {} /\ x.status = DeriveExperimentStatus(x)
        /\ x.status = "completed" => Done(x) = Indexes
    BY <1>2, <2>1 DEF CopyFits
  <2>5. x.status # "created" /\ (Done(x) = Indexes => x.status = "completed")
    BY <2>4, DeriveFacts, DoneFacts
  <2>6. RecordSound(x, e)
    BY <2>4, <2>5 DEF RecordSound
  <2>7. RunHeld(a) => Having(x, "running") = {}
    BY <1>3, <2>1 DEF RunFits
  <2>8. RunHeld(a) => Settled(x)
    BY <2>4, <2>7, DeriveFacts DEF Settled
  <2> HIDE DEF e, i, x
  <2> QED BY <1>0, <1>1, <1>2, <2>1, <2>2, <2>3, <2>6, <2>8, OwnerReturns
<1> QED BY <1>4, <1>5 DEF Finalize

\* The end of the process leaves no owner.
LEMMA CrashOrderly ==
  ASSUME ExpTypes, Orderly, Crash
  PROVE  Orderly'
<1>1. pc' = [b \in Actors |-> "idle"] /\ active' = None /\ UNCHANGED disk
  BY DEF Crash
<1>2. Owners' = {}
  BY <1>1 DEF Owners, OwnerPcs, ClaimedPcs
<1> QED BY <1>1, <1>2 DEF Orderly, ClaimHeld

\* Every step keeps the invariant.
LEMMA ExpStep ==
  ASSUME ExpInv, [Next]_vars
  PROVE  ExpInv'
<1>1. ExpTypes /\ ExpTypes' /\ (~collided => Orderly) /\ (Clean => RunningHeld)
  BY ExpTypesStep DEF ExpInv
<1>2. \A c \in Callers : c \in Actors
  BY DEF Actors
<1>3. CASE Crash
  <2>1. collided' = collided /\ crashes' = crashes + 1 /\ crashes \in Nat
    BY <1>1, <1>3 DEF Crash, ExpTypes
  <2>2. ~Clean'
    BY <2>1 DEF Clean
  <2> QED BY <1>1, <1>3, <2>1, <2>2, CrashOrderly DEF ExpInv
<1>4. CASE UNCHANGED vars
  <2>1. UNCHANGED <<disk, active, activeRun, server, outcome, pc, cur, idx, loc, child, crashes, collided, stopped>>
    BY <1>4 DEF vars, mgrVars, bounds
  <2>2. \A a : HeldExp(a)' = HeldExp(a) /\ HeldRun(a)' = HeldRun(a)
    BY <2>1 DEF HeldExp, HeldRun
  <2>3. Owners' = Owners
    BY <2>1 DEF Owners
  <2>4. \A a : (CopyHeld(a)' <=> CopyHeld(a)) /\ (RunHeld(a)' <=> RunHeld(a)) /\ (StopHeld(a)' <=> StopHeld(a))
    BY <2>1, <2>2 DEF CopyHeld, RunHeld, StopHeld
  <2>5. Orderly => Orderly'
    BY <2>1, <2>2, <2>3, <2>4 DEF Orderly, ClaimHeld
  <2>6. RunningHeld => RunningHeld'
    BY <2>1, <2>2, <2>3, <2>4 DEF RunningHeld
  <2> QED BY <1>1, <2>1, <2>5, <2>6 DEF ExpInv, Clean
<1>5. ASSUME NEW c \in Callers, StartChecked(c) PROVE ExpInv'
  <2>1. crashes' = crashes /\ (~collided' => ~collided)
    BY <1>1, <1>5 DEF StartChecked, bounds, ExpTypes
  <2>2. ~collided' => Orderly' /\ (RunningHeld => RunningHeld')
    BY <1>1, <1>5, <2>1, StartCheckedOrderly
  <2> QED BY <1>1, <2>1, <2>2 DEF ExpInv, Clean
<1>6. ASSUME NEW c \in Callers, (\E e \in Exps : Start(c, e)) \/ StartRefused(c) \/ Stop(c) \/ CancelChild(c) PROVE ExpInv'
  <2>1. crashes' = crashes /\ collided' = collided
    BY <1>6 DEF Start, StartRefused, Stop, CancelChild, bounds
  <2>2. Orderly => Orderly' /\ (RunningHeld => RunningHeld')
    BY <1>1, <1>6, BystanderSteps
  <2> QED BY <1>1, <2>1, <2>2 DEF ExpInv, Clean
<1>7. ASSUME NEW c \in Callers, SavePlan(c) \/ EnsureServer(c) \/ EnsureFails(c) PROVE ExpInv'
  <2>1. crashes' = crashes /\ collided' = collided
    BY <1>7 DEF SavePlan, EnsureServer, EnsureFails, bounds
  <2>2. Orderly => Orderly' /\ (RunningHeld => RunningHeld')
    BY <1>1, <1>7, CallerOrderly
  <2> QED BY <1>1, <2>1, <2>2 DEF ExpInv, Clean
<1>8. ASSUME NEW a \in Actors, BeginRun(a) PROVE ExpInv'
  <2>1. crashes' = crashes /\ collided' = collided
    BY <1>8 DEF BeginRun, BeginLoad, BeginSave, Claim, Launch, LaunchFails, SaveFailed, bounds
  <2>2. Orderly => Orderly' /\ (RunningHeld => RunningHeld')
    BY <1>1, <1>8, BeginOrderly, LaunchOrderly DEF BeginRun
  <2> QED BY <1>1, <2>1, <2>2 DEF ExpInv, Clean
<1>9. ASSUME NEW a \in Actors, Finalize(a) PROVE ExpInv'
  <2>1. crashes' = crashes /\ collided' = collided
    BY <1>9 DEF Finalize, Release, SaveFinal, bounds
  <2>2. Orderly => Orderly' /\ (RunningHeld => RunningHeld')
    BY <1>1, <1>9, FinalizeOrderly
  <2> QED BY <1>1, <2>1, <2>2 DEF ExpInv, Clean
<1>10. ASSUME NEW g \in Loops, LoopStep(g) PROVE ExpInv'
  <2>1. crashes' = crashes /\ collided' = collided
    BY <1>10 DEF LoopStep, ChildExit, FinishRun, FinishUnknown, Finish, SaveNext, bounds
  <2>2. Orderly => Orderly' /\ (RunningHeld => RunningHeld')
    BY <1>1, <1>10, LoopOrderly
  <2> QED BY <1>1, <2>1, <2>2 DEF ExpInv, Clean
<1>11. ASSUME NEW a \in Actors, Step(a) PROVE ExpInv'
  BY <1>5, <1>6, <1>7, <1>8, <1>9, <1>10, <1>11 DEF Step, CallerStep
<1> QED BY <1>3, <1>4, <1>6, <1>11 DEF Next

\* The invariant holds at the start.
LEMMA ExpStart == Init => ExpInv
<1> SUFFICES ASSUME Init PROVE ExpInv
  OBVIOUS
<1>1. Owners = {}
  BY DEF Init, Owners, OwnerPcs, ClaimedPcs
<1>2. ASSUME NEW e \in Exps PROVE RecordSound(disk[e], e) /\ Settled(disk[e])
  <2>1. disk[e] = Fresh
    BY DEF Init
  <2>2. \A i \in Indexes : disk[e].runs[i].st = "none"
    BY <2>1, FreshFacts
  <2>3. Done(disk[e]) = {} /\ Having(disk[e], "running") = {} /\ OwnResults(disk[e], e) /\ disk[e].status = "created"
    BY <2>1, <2>2, FreshFacts DEF Done, Having, OwnResults
  <2> QED BY <2>3, IndexFacts DEF RecordSound, Settled
<1>3. Orderly
  BY <1>1, <1>2 DEF Orderly, ClaimHeld, Init
<1>4. RunningHeld
  BY <1>1, <1>2 DEF RunningHeld
<1> QED BY <1>3, <1>4, ExpTypesInit DEF ExpInv

\* The invariant holds in every reachable state.
LEMMA ExpInvariant == Spec => []ExpInv
  BY ExpStart, ExpStep, PTL DEF Spec


\* Who owns an experiment has it in hand, as StoreTruthful understands it.
LEMMA OwnedInHand ==
  ASSUME ExpTypes, Orderly, NEW a \in Owners
  PROVE  InHand(HeldExp(a))
<1>1. a \in Actors /\ pc[a] \in OwnerPcs /\ (pc[a] \in {"wait", "exited"} => a \in Loops)
  BY DEF Owners, ExpTypes, ActorTypes
<1>2. CASE pc[a] \in {"wait", "exited"}
  BY <1>1, <1>2 DEF Orderly, ClaimHeld, ClaimedPcs, InHand
<1>3. CASE pc[a] \notin {"wait", "exited"}
  <2>1. HeldExp(a) = cur[a] /\ pc[a] # "check"
    BY <1>1, <1>3 DEF HeldExp, OwnerPcs, ClaimedPcs
  <2> QED BY <1>1, <2>1 DEF InHand
<1> QED BY <1>2, <1>3

\* The invariant says that the store is truthful.
LEMMA TruthfulFromInv ==
  ASSUME ExpInv
  PROVE  StoreTruthful
<1>1. ExpTypes /\ (~collided => Orderly) /\ (Clean => ~collided /\ RunningHeld)
  BY DEF ExpInv, Clean
<1>2. RunningIsOwned
  <2> SUFFICES ASSUME Clean, NEW e \in Exps, disk[e].status = "running" PROVE InHand(e)
    BY DEF RunningIsOwned
  <2>1. ~Settled(disk[e])
    BY DEF Settled
  <2>2. PICK a \in Owners : HeldExp(a) = e
    BY <1>1, <2>1 DEF RunningHeld
  <2> QED BY <1>1, <2>2, OwnedInHand
<1>3. ResultIsOwn
  BY <1>1 DEF ResultIsOwn, Orderly, RecordSound, OwnResults
<1>4. CompletedMeansAll
  <2> SUFFICES ASSUME Clean, NEW e \in Exps, disk[e].status = "completed", Done(disk[e]) # Indexes
               PROVE  Attempted(disk[e]) = {} /\ InHand(e)
    BY DEF CompletedMeansAll, Done
  <2>1. ~Settled(disk[e])
    BY DEF Settled
  <2>2. PICK a \in Owners : HeldExp(a) = e
    BY <1>1, <2>1 DEF RunningHeld
  <2>3. RunFits(pc[a], e, HeldRun(a), disk[e], loc[a], server)
    BY <1>1, <2>2 DEF RunningHeld, RunHeld
  <2>4. Attempted(disk[e]) = {}
    BY <2>3 DEF RunFits
  <2> QED BY <1>1, <2>2, <2>4, OwnedInHand
<1>5. ServerMatches
  <2> SUFFICES ASSUME Clean, NEW g \in Waiting, Config[child[g].exp] # NoConfig PROVE server = Config[child[g].exp]
    BY DEF ServerMatches
  <2>1. pc[g] = "wait" /\ g \in Owners
    BY DEF Waiting, Owners, Actors, OwnerPcs, ClaimedPcs
  <2>2. HeldExp(g) = child[g].exp
    BY <2>1 DEF HeldExp
  <2>3. RunFits("wait", child[g].exp, HeldRun(g), disk[child[g].exp], loc[g], server)
    BY <1>1, <2>1, <2>2 DEF RunningHeld, RunHeld
  <2> QED BY <2>3 DEF RunFits
<1> QED BY <1>2, <1>3, <1>4, <1>5 DEF StoreTruthful

\* The invariant says that a stop sticks.
LEMMA StopSticksFromInv ==
  ASSUME ExpInv
  PROVE  StopSticks
<1> SUFFICES ASSUME ~collided, NEW e \in stopped, NEW g \in Loops, cur[g] = e
             PROVE  /\ pc[g] \notin {"saveNext", "load", "save", "claim"}
                    /\ ~(pc[g] \in {"release", "final"} /\ loc[g].status = "completed")
  BY DEF StopSticks
<1>1. ExpTypes /\ Orderly /\ g \in Actors
  BY DEF ExpInv, Actors
<1>2. CASE pc[g] \in {"saveNext", "load", "save", "claim", "release", "final"}
  <2>1. HeldExp(g) = e /\ g \in Owners
    BY <1>1, <1>2 DEF HeldExp, Owners, OwnerPcs
  <2>2. StopHeld(g)
    BY <1>1, <2>1 DEF Orderly
  <2> QED BY <2>1, <2>2 DEF StopHeld
<1> QED BY <1>2

\* A step that saves the owner's copy keeps the completed repetitions.
LEMMA SaveKeeps ==
  ASSUME ExpTypes, Orderly, NEW a \in Actors, pc[a] \in {"plan", "ensure", "save", "saveFailed", "saveNext", "final"},
         NEW y, y.runs = loc[a].runs, disk' = [disk EXCEPT ![cur[a]] = y], NEW e \in Exps, disk[e].status # "completed"
  PROVE  Having(disk[e], "completed") \subseteq Having(disk'[e], "completed")
<1>1. pc[a] \in OwnerPcs /\ ActorTypes(a) /\ disk \in [Exps -> Records]
  BY DEF OwnerPcs, ExpTypes
<1>2. HeldExp(a) = cur[a] /\ cur[a] \in Exps
  BY <1>1 DEF HeldExp, ActorTypes
<1>3. CopyFits(pc[a], cur[a], HeldRun(a), disk[cur[a]], loc[a])
  BY <1>1, <1>2, SoleOwner DEF CopyHeld
<1>4. disk[cur[a]].status = "completed" \/ Done(disk[cur[a]]) \subseteq Done(loc[a])
  BY <1>3 DEF CopyFits
<1>5. Done(y) = Done(loc[a])
  BY SameRuns
<1>6. CASE e = cur[a]
  BY <1>1, <1>2, <1>4, <1>5, <1>6 DEF Done
<1>7. CASE e # cur[a]
  BY <1>1, <1>7
<1> QED BY <1>6, <1>7

\* No save loses a completed repetition of an open experiment.
LEMMA KeepsStep ==
  ASSUME ExpInv, [Next]_vars, ~collided, NEW e \in Exps, disk[e].status # "completed"
  PROVE  Having(disk[e], "completed") \subseteq Having(disk'[e], "completed")
<1>1. ExpTypes /\ Orderly
  BY DEF ExpInv
<1>2. CASE disk' = disk
  BY <1>2
<1>3. CASE disk' # disk
  <2>1. PICK a \in Actors :
          \/ SavePlan(a) \/ EnsureFails(a) \/ BeginSave(a) \/ SaveFailed(a) \/ SaveNext(a) \/ SaveFinal(a)
    <3>1. ASSUME NEW a \in Actors, Step(a)
          PROVE  SavePlan(a) \/ EnsureFails(a) \/ BeginSave(a) \/ SaveFailed(a) \/ SaveNext(a) \/ SaveFinal(a)
      <4>1. CASE BeginRun(a)
        BY <1>3, <4>1 DEF BeginRun, BeginLoad, Claim, Launch, LaunchFails
      <4>2. CASE Finalize(a)
        BY <1>3, <4>2 DEF Finalize, Release
      <4>3. CASE CallerStep(a)
        BY <1>3, <4>3 DEF CallerStep, StartRefused, StartChecked, EnsureServer, CancelChild
      <4>4. CASE LoopStep(a)
        BY <1>3, <4>4 DEF LoopStep, ChildExit, FinishRun, FinishUnknown, Finish
      <4> QED BY <3>1, <4>1, <4>2, <4>3, <4>4 DEF Step
    <3>2. ~Crash /\ ~UNCHANGED vars /\ \A c \in Callers : ~Stop(c) /\ \A f \in Exps : ~Start(c, f)
      BY <1>3 DEF Crash, vars, Stop, Start
    <3> QED BY <3>1, <3>2 DEF Next
  <2>2. loc[a] \in Records
    BY <1>1 DEF ExpTypes
  <2>3. CASE EnsureFails(a)
    <3>1. [loc[a] EXCEPT !.status = "failed"].runs = loc[a].runs
      BY <2>2, SetStatusFacts DEF ExpStatuses
    <3>2. pc[a] = "ensure" /\ disk' = [disk EXCEPT ![cur[a]] = [loc[a] EXCEPT !.status = "failed"]]
      BY <2>3 DEF EnsureFails
    <3> DEFINE y == [loc[a] EXCEPT !.status = "failed"]
    <3> HIDE DEF y
    <3> QED BY <1>1, <3>1, <3>2, SaveKeeps DEF y
  <2>4. CASE ~EnsureFails(a)
    <3>1. /\ disk' = [disk EXCEPT ![cur[a]] = loc[a]]
          /\ pc[a] \in {"plan", "save", "saveFailed", "saveNext", "final"}
      BY <2>1, <2>4 DEF SavePlan, BeginSave, SaveFailed, SaveNext, SaveFinal
    <3> QED BY <1>1, <3>1, SaveKeeps
  <2> QED BY <2>3, <2>4
<1> QED BY <1>2, <1>3

\* For any number of experiments, repetitions, HTTP callers and load test goroutines: what the
\* store says of experiments is what happened (experiment_manager.go:504 and 612, run.go:87).
THEOREM StoreTruthfulHolds == Spec => []StoreTruthful
  BY ExpInvariant, TruthfulFromInv, PTL

\* After an accepted Stop no further repetition begins and the last one is not stored as
\* completed (experiment_manager.go:572), whatever the interleaving of Stop with the child's end.
THEOREM StopSticksHolds == Spec => []StopSticks
  BY ExpInvariant, StopSticksFromInv, PTL

\* No save of any goroutine's copy loses a completed repetition, unless a completed experiment is
\* executed anew (planStartRuns, experiment_manager.go:352).
THEOREM KeepsCompletedHolds == Spec => KeepsCompleted
<1> DEFINE Kept == ~collided => \A e \in Exps : disk[e].status # "completed" =>
                     Having(disk[e], "completed") \subseteq Having(disk'[e], "completed")
<1>1. ExpInv /\ [Next]_vars => [Kept]_vars
  BY KeepsStep
<1>2. KeepsCompleted <=> [][Kept]_vars
  BY PTL DEF KeepsCompleted
<1> QED BY <1>1, <1>2, ExpInvariant, PTL DEF Spec

----------------------------------------------------------------------------
(* Sweeps: the plan                                                        *)

\* A product of counts is cut into rows of n: the place in a row and the row of place c.
LEMMA RowAndPlace ==
  ASSUME NEW n \in Nat, NEW m \in Nat, NEW c \in 1..(m * n)
  PROVE  /\ n > 0
         /\ ((c - 1) \div n) + 1 \in 1..m /\ ((c - 1) % n) + 1 \in 1..n
<1>1. n # 0
  BY SMT
<1> DEFINE d == (c - 1) \div n
           r == (c - 1) % n
<1>2. r \in 0..(n - 1) /\ d \in Int /\ c - 1 = n * d + r
  BY <1>1, ModSmall
<1>3. m * n \in Nat /\ c \in Int /\ 1 <= c /\ c <= m * n
  OBVIOUS
<1> HIDE DEF d, r
<1>4. d >= 0
  <2>1. SUFFICES ASSUME d <= -1 PROVE FALSE
    BY <1>2
  <2>2. n * d <= n * (-1)
    BY <1>1, <1>2, <2>1
  <2> QED BY <1>2, <1>3, <2>2
<1>5. d < m
  <2>1. SUFFICES ASSUME d >= m PROVE FALSE
    BY <1>2
  <2>2. n * d >= n * m
    BY <1>2, <2>1
  <2> QED BY <1>2, <1>3, <2>2
<1> QED BY <1>1, <1>2, <1>4, <1>5 DEF d, r

\* The configurations of the first k parameters are a sequence, for every k.
LEMMA CartesianIsList == Len(Cartesian(Params)) \in Nat
<1> DEFINE L == Len(Params)
           size(k) == Len(Params[k].values)
           Split(prev, k) == [c \in 1..(Len(prev) * size(k)) |->
                                prev[((c - 1) \div size(k)) + 1]
                                  \o Labelled(Params[k].name, Params[k].values[((c - 1) % size(k)) + 1])]
           At0(g, k) == g[k] = IF k = 0 THEN <<DefaultLabel>> ELSE Split(g[k - 1], k)
           IsF(g) == g = [k \in 0..L |-> IF k = 0 THEN <<DefaultLabel>> ELSE Split(g[k - 1], k)]
           S == {m \in Nat : \E g : \A k \in 0..m : At0(g, k)}
           combos == CHOOSE g : IsF(g)
<1>1. Cartesian(Params) = combos[L]
  BY DEF Cartesian
<1>2. L \in Nat /\ \A k \in 1..L : size(k) \in Nat
  BY SweepAssumption, LenProperties
<1> HIDE DEF L, Split
<1>3. 0 \in S
  <2> DEFINE g == [k \in {0} |-> <<DefaultLabel>>]
  <2>1. \A k \in 0..0 : At0(g, k)
    OBVIOUS
  <2> QED BY <2>1
<1>4. ASSUME NEW m \in Nat, m \in S PROVE m + 1 \in S
  <2>1. PICK g : \A k \in 0..m : At0(g, k)
    BY <1>4
  <2> DEFINE h == [k \in 0..(m + 1) |-> IF k = m + 1 THEN Split(g[m], m + 1) ELSE g[k]]
  <2>2. h[m + 1] = Split(g[m], m + 1) /\ \A k \in 0..m : h[k] = g[k]
    OBVIOUS
  <2> HIDE DEF h
  <2>3. ASSUME NEW k \in 0..(m + 1) PROVE At0(h, k)
    <3>1. CASE k = m + 1
      <4>1. k # 0 /\ k - 1 = m /\ h[m] = g[m]
        BY <2>2, <3>1
      <4> QED BY <2>2, <3>1, <4>1
    <3>2. CASE k \in 1..m
      <4>1. k # 0 /\ k \in 0..m /\ k - 1 \in 0..m
        BY <3>2
      <4>2. h[k] = g[k] /\ h[k - 1] = g[k - 1] /\ At0(g, k)
        BY <2>1, <2>2, <4>1
      <4> QED BY <4>1, <4>2
    <3>3. CASE k = 0
      <4>1. h[0] = g[0] /\ At0(g, 0)
        BY <2>1, <2>2
      <4> QED BY <3>3, <4>1
    <3> QED BY <3>1, <3>2, <3>3
  <2> QED BY <2>3
<1>5. PICK g : \A k \in 0..L : At0(g, k)
  <2>1. Nat \subseteq S
    BY <1>3, <1>4, AllNumbers
  <2> QED BY <1>2, <2>1
<1>6. IsF(combos)
  <2> DEFINE h == [k \in 0..L |-> g[k]]
  <2>1. \A k \in 0..L : h[k] = IF k = 0 THEN <<DefaultLabel>> ELSE Split(h[k - 1], k)
    <3> TAKE k \in 0..L
    <3>1. k # 0 => k - 1 \in 0..L
      BY <1>2
    <3> QED BY <1>5, <3>1
  <2>2. IsF(h)
    <3>1. h = [k \in 0..L |-> h[k]]
      OBVIOUS
    <3> HIDE DEF h
    <3> QED BY <2>1, <3>1
  <2> QED BY <2>2
<1> HIDE DEF combos
<1> DEFINE T == {k \in Nat : k <= L => Len(combos[k]) \in Nat}
<1>7. 0 \in T
  <2>1. combos[0] = <<DefaultLabel>>
    BY <1>2, <1>6
  <2> QED BY <2>1
<1>8. ASSUME NEW k \in Nat, k \in T PROVE k + 1 \in T
  <2>1. SUFFICES ASSUME k + 1 <= L PROVE Len(combos[k + 1]) \in Nat
    OBVIOUS
  <2>2. Len(combos[k]) \in Nat /\ size(k + 1) \in Nat /\ k + 1 \in 0..L /\ (k + 1) - 1 = k /\ k + 1 # 0
    BY <1>2, <1>8, <2>1
  <2>3. combos[k + 1] = Split(combos[k], k + 1)
    BY <1>6, <2>2
  <2>4. Len(combos[k]) * size(k + 1) \in Nat
    BY <2>2, ProductIsCount
  <2>5. DOMAIN Split(combos[k], k + 1) = 1..(Len(combos[k]) * size(k + 1))
    BY DEF Split
  <2> HIDE DEF size
  <2>6. Len(Split(combos[k], k + 1)) = Len(combos[k]) * size(k + 1)
    <3> DEFINE q == Split(combos[k], k + 1)
               V == {q[i] : i \in DOMAIN q}
               n == Len(combos[k]) * size(k + 1)
    <3>1. q = [i \in 1..n |-> q[i]]
      BY <2>5 DEF Split
    <3> HIDE DEF q, n
    <3>2. q \in [1..n -> V]
      BY <2>5, <3>1 DEF q, n
    <3>3. n \in Nat
      BY <2>4 DEF n
    <3>4. Len(q) = n
      <4> HIDE DEF V
      <4> QED BY <3>2, <3>3, FunctionIsSeq
    <3> QED BY <3>4 DEF q, n
  <2> QED BY <2>3, <2>4, <2>6
<1>9. Nat \subseteq T
  BY <1>7, <1>8, AllNumbers
<1> QED BY <1>1, <1>2, <1>9

\* The units are numbered from 1; each is one configuration in one of the request's regimes.
LEMMA UnitFacts ==
  /\ Units \subseteq Nat /\ 0 \notin Units
  /\ \A u \in Units : Plan[u].regime \in Range(Regimes) /\ Plan[u].cfg \in Nat
<1> DEFINE m == Len(Cartesian(Params))
           n == Len(Regimes)
           c(u) == ((u - 1) \div n) + 1
<1>1. Plan = [u \in 1..(m * n) |-> [cfg |-> c(u), label |-> Cartesian(Params)[c(u)], regime |-> Regimes[((u - 1) % n) + 1]]]
  BY DEF Plan, BuildSweepPlan
<1>2. m \in Nat /\ n \in Nat /\ DOMAIN Regimes = 1..n
  BY CartesianIsList, SweepAssumption, LenProperties
<1> HIDE DEF m, n
<1>3. m * n \in Nat
  BY <1>2, ProductIsCount
<1>4. Units = 1..(m * n)
  BY <1>1 DEF Units
<1>5. ASSUME NEW u \in Units PROVE Plan[u].regime \in Range(Regimes) /\ Plan[u].cfg \in Nat
  <2>1. c(u) \in 1..m /\ ((u - 1) % n) + 1 \in 1..n
    BY <1>2, <1>4, RowAndPlace
  <2>2. Plan[u].cfg = c(u) /\ Plan[u].regime = Regimes[((u - 1) % n) + 1]
    BY <1>1, <1>4
  <2> QED BY <1>2, <2>1, <2>2 DEF Range
<1> QED BY <1>3, <1>4, <1>5

\* No two units of a request that names no regime twice share a row (BuildSweepPlan, appendUnitResult):
\* the configuration and the regime of a unit tell it from all others.
THEOREM UnitsApart ==
  ASSUME \A i, j \in DOMAIN Regimes : Regimes[i] = Regimes[j] => i = j
  PROVE  \A u \in Units : SameRow(u) = {u}
<1> DEFINE m == Len(Cartesian(Params))
           n == Len(Regimes)
           c(u) == ((u - 1) \div n) + 1
           r(u) == ((u - 1) % n) + 1
<1>1. Plan = [u \in 1..(m * n) |-> [cfg |-> c(u), label |-> Cartesian(Params)[c(u)], regime |-> Regimes[r(u)]]]
  BY DEF Plan, BuildSweepPlan
<1>2. m \in Nat /\ n \in Nat /\ DOMAIN Regimes = 1..n
  BY CartesianIsList, SweepAssumption, LenProperties
<1> HIDE DEF m, n
<1>3. m * n \in Nat /\ Units = 1..(m * n)
  BY <1>1, <1>2, ProductIsCount DEF Units
<1>4. SUFFICES ASSUME NEW u \in Units, NEW v \in SameRow(u) PROVE u = v
  BY DEF SameRow
<1>5. v \in Units /\ c(v) = c(u) /\ Regimes[r(v)] = Regimes[r(u)]
  BY <1>1, <1>3, <1>4 DEF SameRow
<1>6. n > 0 /\ r(u) \in 1..n /\ r(v) \in 1..n
  BY <1>2, <1>3, <1>5, RowAndPlace
<1>7. r(u) = r(v)
  BY <1>2, <1>5, <1>6
<1>8. u \in Int /\ v \in Int
  BY <1>3, <1>5
<1>9. /\ u - 1 = n * ((u - 1) \div n) + ((u - 1) % n) /\ v - 1 = n * ((v - 1) \div n) + ((v - 1) % n)
      /\ (u - 1) \div n \in Int /\ (v - 1) \div n \in Int
      /\ (u - 1) % n \in Int /\ (v - 1) % n \in Int
  BY <1>2, <1>6, <1>8, ModSmall
<1>10. (u - 1) % n = (v - 1) % n /\ (u - 1) \div n = (v - 1) \div n
  BY <1>5, <1>7, <1>9
<1>11. u - 1 = v - 1
  BY <1>9, <1>10
<1> QED BY <1>8, <1>11

----------------------------------------------------------------------------
(* Sweeps: rows, units and reports                                         *)

\* What a unit's row says.
LEMMA UnitRowFacts ==
  ASSUME SweepTypes, NEW u \in Units, NEW e \in {NoExp} \cup SweepExps
  PROVE  /\ UnitRow(u, e) \in ResultRows /\ SameKey(Plan[u], UnitRow(u, e))
         /\ UnitRow(u, e).exp = e /\ UnitRow(u, e).best = FALSE
         /\ e = NoExp => UnitRow(u, e).thr = 0 /\ UnitRow(u, e).p99 = 0 /\ UnitRow(u, e).dlv = 0
         /\ e # NoExp => /\ UnitRow(u, e).status = expFile[e].st
                         /\ UnitRow(u, e).thr = expFile[e].thr /\ UnitRow(u, e).p99 = expFile[e].p99
                         /\ UnitRow(u, e).dlv = expFile[e].dlv
<1> DEFINE x == IF e = NoExp THEN Unmeasured("none") ELSE expFile[e]
<1>1. x \in Measured
  BY DEF SweepTypes, Measured, Unmeasured, StatusesOfExps
<1>2. UnitRow(u, e) = [regime |-> Plan[u].regime, label |-> Plan[u].label, cfg |-> Plan[u].cfg, exp |-> e,
      status |-> x.st, thr |-> x.thr, p99 |-> x.p99, dlv |-> x.dlv, best |-> FALSE]
  BY DEF UnitRow
<1>3. /\ e = NoExp => x.thr = 0 /\ x.p99 = 0 /\ x.dlv = 0
      /\ e # NoExp => x = expFile[e]
  BY DEF Unmeasured
<1> HIDE DEF x
<1>4. x.st \in StatusesOfExps /\ x.thr \in Nat /\ x.p99 \in Nat /\ x.dlv \in Nat
  BY <1>1 DEF Measured
<1>5. Plan[u].regime \in Range(Regimes) /\ Plan[u].cfg \in Nat /\ Plan[u].label \in {Plan[v].label : v \in Units}
  BY UnitFacts
<1>6. UnitRow(u, e) \in ResultRows
  BY <1>2, <1>4, <1>5 DEF ResultRows
<1> QED BY <1>2, <1>3, <1>6 DEF SameKey

\* A row is put in the place of the row of its key, or at the end.
LEMMA AppendRowFacts ==
  ASSUME NEW R, NEW results \in Seq(R), NEW row \in R,
         \A i, j \in DOMAIN results : SameKey(results[i], results[j]) => i = j
  PROVE  LET new == AppendUnitResult(results, row)
         IN /\ new \in Seq(R)
            /\ \A i, j \in DOMAIN new : SameKey(new[i], new[j]) => i = j
            /\ \E i \in DOMAIN new : new[i] = row
            /\ \A i \in DOMAIN new : new[i] = row \/ (i \in DOMAIN results /\ new[i] = results[i] /\ ~SameKey(results[i], row))
            /\ \A i \in DOMAIN results : i \in DOMAIN new /\ (new[i] = results[i] \/ (new[i] = row /\ SameKey(results[i], row)))
<1> DEFINE old == {i \in DOMAIN results : results[i].regime = row.regime /\ results[i].cfg = row.cfg}
           new == AppendUnitResult(results, row)
<1>1. old = {i \in DOMAIN results : SameKey(results[i], row)}
  BY DEF SameKey
<1>2. Len(results) \in Nat /\ DOMAIN results = 1..Len(results)
  BY LenProperties
<1>3. CASE old = {}
  <2>1. new = Append(results, row)
    BY <1>3 DEF AppendUnitResult
  <2>2. /\ new \in Seq(R) /\ DOMAIN new = 1..(Len(results) + 1)
        /\ new[Len(results) + 1] = row /\ \A i \in DOMAIN results : new[i] = results[i]
    BY <1>2, <2>1, AppendProperties
  <2> HIDE DEF new
  <2>3. \A i \in DOMAIN results : ~SameKey(results[i], row)
    BY <1>1, <1>3
  <2>4. \A i \in DOMAIN new : i \in DOMAIN results \/ i = Len(results) + 1
    BY <1>2, <2>2
  <2>5. \A i \in DOMAIN results : i # Len(results) + 1 /\ i \in DOMAIN new
    BY <1>2, <2>2
  <2>6. Len(results) + 1 \in DOMAIN new
    BY <1>2, <2>2
  <2>7. ASSUME NEW i \in DOMAIN new, NEW j \in DOMAIN new, SameKey(new[i], new[j]) PROVE i = j
    <3>1. CASE i \in DOMAIN results /\ j \in DOMAIN results
      BY <2>2, <2>7, <3>1
    <3>2. CASE i \in DOMAIN results /\ j = Len(results) + 1
      BY <2>2, <2>3, <2>7, <3>2
    <3>3. CASE j \in DOMAIN results /\ i = Len(results) + 1
      BY <2>2, <2>3, <2>7, <3>3 DEF SameKey
    <3> QED BY <2>4, <3>1, <3>2, <3>3
  <2> QED BY <2>2, <2>3, <2>4, <2>5, <2>6, <2>7 DEF new
<1>4. CASE old # {}
  <2>1. old \subseteq Nat
    BY <1>2
  <2>2. Min(old) \in old
    BY <1>4, <2>1, MinOf
  <2> DEFINE k == Min(old)
  <2>3. new = [results EXCEPT ![k] = row] /\ k \in DOMAIN results /\ SameKey(results[k], row)
    BY <1>1, <1>4, <2>2 DEF AppendUnitResult
  <2> HIDE DEF k, old
  <2>4. /\ new \in Seq(R) /\ DOMAIN new = DOMAIN results /\ new[k] = row
        /\ \A i \in DOMAIN results : i # k => new[i] = results[i]
    BY <2>3, ExceptSeq
  <2> HIDE DEF new
  <2>5. \A i \in DOMAIN results : SameKey(results[i], row) => i = k
    BY <2>3 DEF SameKey
  <2>6. ASSUME NEW i \in DOMAIN new, NEW j \in DOMAIN new, SameKey(new[i], new[j]) PROVE i = j
    <3>1. CASE i # k /\ j # k
      BY <2>4, <2>6, <3>1
    <3>2. CASE i # k /\ j = k
      BY <2>4, <2>5, <2>6, <3>2
    <3>3. CASE i = k /\ j # k
      BY <2>4, <2>5, <2>6, <3>3 DEF SameKey
    <3> QED BY <3>1, <3>2, <3>3
  <2> QED BY <2>3, <2>4, <2>5, <2>6 DEF new
<1> QED BY <1>3, <1>4

\* A row goes on showing its unit while the unit stays done and its experiment, once over, is left
\* alone; the flag of the row is not part of what it shows.
LEMMA ShowsKept ==
  ASSUME NEW unit, NEW unit2, NEW e, NEW x, NEW x2, NEW cut, NEW cut2, NEW r, NEW r2,
         Shows(unit, e, x, cut, r), unit2.done, unit2.status = unit.status, cut => cut2,
         x2 = x \/ x.st \notin Terminal,
         r2.exp = r.exp, r2.status = r.status, r2.thr = r.thr, r2.p99 = r.p99, r2.dlv = r.dlv
  PROVE  Shows(unit2, e, x2, cut2, r2)
  BY DEF Shows

\* Rows of one sweep, its file f, its experiments x(u) and the units in cut.
RowsOf(s, f, x, cut) ==
  /\ \A i, j \in DOMAIN f.results : SameKey(f.results[i], f.results[j]) => i = j
  /\ \A i \in DOMAIN f.results :
       \E v \in Units : /\ SameKey(Plan[v], f.results[i])
                        /\ Shows(f.units[v], <<s, v>>, x[<<s, v>>], <<s, v>> \in cut, f.results[i])
  /\ \A u \in Units : f.units[u].done => \E i \in DOMAIN f.results : SameKey(Plan[u], f.results[i])

\* The rows of all sweeps, now and after a step.
LEMMA RowsOwnUnfolds ==
  /\ RowsOwn <=> \A s \in Sweeps : RowsOf(s, sweepFile[s], expFile, interrupted)
  /\ RowsOwn' <=> \A s \in Sweeps : RowsOf(s, sweepFile'[s], expFile', interrupted')
<1>1. RowsOwn <=> \A s \in Sweeps : RowsOf(s, sweepFile[s], expFile, interrupted)
  BY Zenon DEF RowsOwn, RowsOf, ShowsUnit
<1>2. RowsOwn' <=> \A s \in Sweeps : RowsOf(s, sweepFile'[s], expFile', interrupted')
  BY Zenon DEF RowsOwn, RowsOf, ShowsUnit
<1> QED BY <1>1, <1>2

\* The rows of a sweep stay its own when a step changes at most their flags, keeps what is known of
\* the units that are done and leaves their finished experiments alone.
LEMMA RowsKept ==
  ASSUME NEW s, NEW f, NEW g, NEW x, NEW y, NEW cut, NEW cut2, RowsOf(s, f, x, cut), cut \subseteq cut2,
         DOMAIN g.results = DOMAIN f.results,
         \A i \in DOMAIN f.results :
            /\ g.results[i].regime = f.results[i].regime /\ g.results[i].cfg = f.results[i].cfg
            /\ g.results[i].exp = f.results[i].exp /\ g.results[i].status = f.results[i].status
            /\ g.results[i].thr = f.results[i].thr /\ g.results[i].p99 = f.results[i].p99
            /\ g.results[i].dlv = f.results[i].dlv,
         \A u \in Units :
            /\ g.units[u].done = f.units[u].done /\ g.units[u].status = f.units[u].status
            /\ f.units[u].done => y[<<s, u>>] = x[<<s, u>>] \/ x[<<s, u>>].st \notin Terminal
  PROVE  RowsOf(s, g, y, cut2)
<1>1. \A i, j \in DOMAIN g.results : SameKey(g.results[i], g.results[j]) => i = j
  BY DEF RowsOf, SameKey
<1>2. ASSUME NEW u \in Units, g.units[u].done PROVE \E i \in DOMAIN g.results : SameKey(Plan[u], g.results[i])
  <2>1. f.units[u].done
    BY <1>2, Zenon
  <2>2. PICK i \in DOMAIN f.results : SameKey(Plan[u], f.results[i])
    BY <2>1, Zenon DEF RowsOf
  <2>3. SameKey(Plan[u], g.results[i])
    BY <2>2 DEF SameKey
  <2> QED BY <2>2, <2>3
<1>3. ASSUME NEW i \in DOMAIN g.results
      PROVE  \E v \in Units : /\ SameKey(Plan[v], g.results[i])
                              /\ Shows(g.units[v], <<s, v>>, y[<<s, v>>], <<s, v>> \in cut2, g.results[i])
  <2>1. PICK v \in Units : /\ SameKey(Plan[v], f.results[i])
                           /\ Shows(f.units[v], <<s, v>>, x[<<s, v>>], <<s, v>> \in cut, f.results[i])
    BY DEF RowsOf
  <2>2. f.units[v].done
    BY <2>1 DEF Shows
  <2>3. Shows(g.units[v], <<s, v>>, y[<<s, v>>], <<s, v>> \in cut2, g.results[i])
    <3>1. g.units[v].done /\ g.units[v].status = f.units[v].status
      BY <2>2
    <3>2. y[<<s, v>>] = x[<<s, v>>] \/ x[<<s, v>>].st \notin Terminal
      BY <2>2
    <3>3. <<s, v>> \in cut => <<s, v>> \in cut2
      OBVIOUS
    <3>4. /\ g.results[i].exp = f.results[i].exp /\ g.results[i].status = f.results[i].status
          /\ g.results[i].thr = f.results[i].thr /\ g.results[i].p99 = f.results[i].p99
          /\ g.results[i].dlv = f.results[i].dlv
      OBVIOUS
    <3> DEFINE u1 == f.units[v]
               u2 == g.units[v]
               e == <<s, v>>
               x1 == x[<<s, v>>]
               x2 == y[<<s, v>>]
               b1 == <<s, v>> \in cut
               b2 == <<s, v>> \in cut2
               r1 == f.results[i]
               r2 == g.results[i]
    <3> HIDE DEF u1, u2, e, x1, x2, b1, b2, r1, r2
    <3>5. Shows(u1, e, x1, b1, r1)
      BY <2>1 DEF u1, e, x1, b1, r1
    <3>6. u2.done /\ u2.status = u1.status /\ (b1 => b2) /\ (x2 = x1 \/ x1.st \notin Terminal)
      BY <3>1, <3>2, <3>3 DEF u1, u2, x1, x2, b1, b2
    <3>7. r2.exp = r1.exp /\ r2.status = r1.status /\ r2.thr = r1.thr /\ r2.p99 = r1.p99 /\ r2.dlv = r1.dlv
      BY <3>4 DEF r1, r2
    <3>8. Shows(u2, e, x2, b2, r2)
      BY <3>5, <3>6, <3>7, ShowsKept
    <3> QED BY <3>8 DEF u2, e, x2, b2, r2
  <2>4. SameKey(Plan[v], g.results[i])
    BY <2>1 DEF SameKey
  <2> QED BY <2>3, <2>4
<1> QED BY <1>1, <1>2, <1>3 DEF RowsOf

\* A unit that was pending is over, and its row is recorded: the rows stay the units' own.
LEMMA RowAdded ==
  ASSUME NEW s, NEW f, NEW g, NEW x, NEW y, NEW cut, RowsOf(s, f, x, cut),
         NEW R, f.results \in Seq(R), NEW row \in R, NEW u \in Units, ~f.units[u].done,
         g.results = AppendUnitResult(f.results, row), SameKey(Plan[u], row),
         Shows(g.units[u], <<s, u>>, y[<<s, u>>], <<s, u>> \in cut, row),
         \A v \in Units : v # u => g.units[v] = f.units[v] /\ y[<<s, v>>] = x[<<s, v>>]
  PROVE  RowsOf(s, g, y, cut)
<1> DEFINE new == AppendUnitResult(f.results, row)
<1>0. \A i, j \in DOMAIN f.results : SameKey(f.results[i], f.results[j]) => i = j
  BY DEF RowsOf
<1>1. /\ \A i, j \in DOMAIN new : SameKey(new[i], new[j]) => i = j
      /\ \E i \in DOMAIN new : new[i] = row
      /\ \A i \in DOMAIN new : new[i] = row \/ (i \in DOMAIN f.results /\ new[i] = f.results[i] /\ ~SameKey(f.results[i], row))
      /\ \A i \in DOMAIN f.results : i \in DOMAIN new /\ (new[i] = f.results[i] \/ (new[i] = row /\ SameKey(f.results[i], row)))
  <2> DEFINE rs == f.results
  <2>1. rs \in Seq(R) /\ \A i, j \in DOMAIN rs : SameKey(rs[i], rs[j]) => i = j
    BY <1>0
  <2>2. new = AppendUnitResult(rs, row)
    OBVIOUS
  <2> HIDE DEF rs, new
  <2>3. /\ \A i, j \in DOMAIN new : SameKey(new[i], new[j]) => i = j
        /\ \E i \in DOMAIN new : new[i] = row
        /\ \A i \in DOMAIN new : new[i] = row \/ (i \in DOMAIN rs /\ new[i] = rs[i] /\ ~SameKey(rs[i], row))
        /\ \A i \in DOMAIN rs : i \in DOMAIN new /\ (new[i] = rs[i] \/ (new[i] = row /\ SameKey(rs[i], row)))
    BY <2>1, <2>2, AppendRowFacts
  <2> QED BY <2>3 DEF rs
<1> HIDE DEF new
<1>2. g.results = new
  BY DEF new
<1>3. ASSUME NEW v \in Units, g.units[v].done PROVE \E i \in DOMAIN new : SameKey(Plan[v], new[i])
  <2>1. CASE v = u
    BY <1>1, <2>1
  <2>2. CASE v # u
    <3>1. PICK i \in DOMAIN f.results : SameKey(Plan[v], f.results[i])
      BY <1>3, <2>2 DEF RowsOf
    <3>2. i \in DOMAIN new /\ SameKey(Plan[v], new[i])
      BY <1>1, <3>1 DEF SameKey
    <3> QED BY <3>2
  <2> QED BY <2>1, <2>2
<1>4. ASSUME NEW i \in DOMAIN new
      PROVE  \E v \in Units : /\ SameKey(Plan[v], new[i])
                              /\ Shows(g.units[v], <<s, v>>, y[<<s, v>>], <<s, v>> \in cut, new[i])
  <2>1. CASE new[i] = row
    BY <2>1
  <2>2. CASE new[i] # row
    <3>1. i \in DOMAIN f.results /\ new[i] = f.results[i]
      BY <1>1, <2>2
    <3>2. PICK v \in Units : /\ SameKey(Plan[v], f.results[i])
                             /\ Shows(f.units[v], <<s, v>>, x[<<s, v>>], <<s, v>> \in cut, f.results[i])
      BY <3>1 DEF RowsOf
    <3>3. f.units[v].done
      BY <3>2 DEF Shows
    <3>4. v # u
      BY <3>3
    <3>5. g.units[v] = f.units[v] /\ y[<<s, v>>] = x[<<s, v>>]
      BY <3>4
    <3>6. Shows(g.units[v], <<s, v>>, y[<<s, v>>], <<s, v>> \in cut, new[i])
      BY <3>1, <3>2, <3>5
    <3> QED BY <3>1, <3>2, <3>6
  <2> QED BY <2>1, <2>2
<1> QED BY <1>1, <1>2, <1>3, <1>4 DEF RowsOf

\* A report built from the rows fits them.
LEMMA BuiltFits ==
  ASSUME NEW rows, \A i \in DOMAIN rows : rows[i].regime \in Range(Regimes),
         NEW tunable, NEW rep \in BuildCrossRegimeReports(rows, Regimes, tunable)
  PROVE  ReportFits(rows, rep)
<1> DEFINE present == {i \in DOMAIN Regimes : FilterByRegime(rows, Regimes[i]) # {}}
           ranked == [i \in present |-> PickBest(rows, Regimes[i])]
           allBests == {f \in [present -> UNION {ranked[i] : i \in present}] :
                          \A i \in present : f[i] \in ranked[i]}
<1>1. PICK f \in allBests : LET best == BestPerRegime(Regimes, f)
                            IN rep = ReportOf(best, AnalyzeDomination(best, f), rows, tunable)
  BY DEF BuildCrossRegimeReports
<1>2. DOMAIN f = present /\ \A i \in present : f[i] \in PickBest(rows, Regimes[i])
  BY <1>1
<1> DEFINE best == BestPerRegime(Regimes, f)
           places(rg) == {i \in present : Regimes[i] = rg}
<1>3. /\ DOMAIN best = {Regimes[i] : i \in present}
      /\ \A rg \in DOMAIN best : best[rg] = f[Max(places(rg))]
  BY <1>2 DEF BestPerRegime
<1>4. rep.best = best /\ rep.go = EvaluateGate(best, AnalyzeDomination(best, f), rows, tunable)
  BY <1>1 DEF ReportOf
<1> HIDE DEF best
<1>5. ASSUME NEW rg \in DOMAIN best
      PROVE  Max(places(rg)) \in places(rg) /\ best[rg] \in PickBest(rows, rg)
  <2>1. Len(Regimes) \in Nat /\ present \subseteq 0..Len(Regimes)
    BY SweepAssumption, LenProperties
  <2>2. places(rg) # {} /\ places(rg) \subseteq 0..Len(Regimes)
    BY <1>3, <2>1
  <2>3. Max(places(rg)) \in places(rg)
    <3> DEFINE S == places(rg)
    <3> HIDE DEF S
    <3>1. Max(S) \in S
      BY <2>1, <2>2, MaxOf DEF S
    <3> QED BY <3>1 DEF S
  <2> QED BY <1>2, <1>3, <2>3
<1>6. ASSUME NEW i \in DOMAIN rows, NEW rg, rg = rows[i].regime
      PROVE  /\ rg \in DOMAIN best
             /\ \E j \in FilterByRegime(rows, rg) : best[rg] = RankedOf(rows[j])
             /\ i \in ByConfig(rows, rg) => ~Before(RankedOf(rows[i]), best[rg])
  <2>1. i \in FilterByRegime(rows, rg)
    BY <1>6 DEF FilterByRegime
  <2>2. PICK k \in DOMAIN Regimes : Regimes[k] = rg
    BY <1>6 DEF Range
  <2>3. k \in present
    BY <2>1, <2>2
  <2>4. rg \in DOMAIN best
    BY <1>3, <2>2, <2>3
  <2>5. best[rg] \in RankConfigs(rows, rg) /\ \A r \in RankConfigs(rows, rg) : ~Before(r, best[rg])
    BY <1>5, <2>4 DEF PickBest
  <2>6. \E j \in ByConfig(rows, rg) : best[rg] = RankedOf(rows[j])
    BY <2>5 DEF RankConfigs
  <2>7. ByConfig(rows, rg) \subseteq FilterByRegime(rows, rg)
    BY DEF ByConfig
  <2>8. i \in ByConfig(rows, rg) => RankedOf(rows[i]) \in RankConfigs(rows, rg)
    BY DEF RankConfigs
  <2> QED BY <2>4, <2>5, <2>6, <2>7, <2>8
<1>7. ASSUME rep.go
      PROVE  /\ \A rg \in DOMAIN best : best[rg].feasible
             /\ \/ \E r1, r2 \in DOMAIN best : best[r1].label # best[r2].label
                \/ \E i, j \in DOMAIN Regimes : i # j /\ Regimes[i] = Regimes[j]
  <2>1. \A rg \in DOMAIN best : best[rg].feasible
    BY <1>4, <1>7 DEF EvaluateGate, HasLowVariance
  <2>2. AnalyzeDomination(best, f).shifts
    BY <1>4, <1>7 DEF EvaluateGate
  <2>3. ~ /\ \A i \in present : f[i].feasible
          /\ \A i, j \in present : f[i].label = f[j].label
    BY <1>2, <2>2 DEF AnalyzeDomination
  <2>4. SUFFICES ASSUME \A i, j \in DOMAIN Regimes : Regimes[i] = Regimes[j] => i = j
                 PROVE  \E r1, r2 \in DOMAIN best : best[r1].label # best[r2].label
    BY <2>1
  <2>5. ASSUME NEW i \in present PROVE Regimes[i] \in DOMAIN best /\ best[Regimes[i]] = f[i]
    <3>1. Regimes[i] \in DOMAIN best
      BY <1>3
    <3>2. Max(places(Regimes[i])) \in places(Regimes[i])
      BY <1>5, <3>1
    <3>3. Max(places(Regimes[i])) = i
      BY <2>4, <3>2
    <3> QED BY <1>3, <3>1, <3>3
  <2>6. \A i \in present : f[i].feasible
    BY <2>1, <2>5
  <2>7. PICK i \in present, j \in present : f[i].label # f[j].label
    BY <2>3, <2>6
  <2> QED BY <2>5, <2>7
<1> QED BY <1>4, <1>6, <1>7 DEF ReportFits

\* A sweep without a row has nothing to report.
LEMMA EmptyFits ==
  ASSUME NEW rows, DOMAIN rows = {}
  PROVE  ReportFits(rows, NoReport)
  BY DEF ReportFits, NoReport

\* Flags change nothing of what a report is about.
LEMMA FlaggedFits ==
  ASSUME NEW results \in Seq(ResultRows), NEW rep, ReportFits(results, rep)
  PROVE  /\ ReportFits(FlagBest(results, rep), rep)
         /\ FlagBest(results, rep) \in Seq(ResultRows)
         /\ DOMAIN FlagBest(results, rep) = DOMAIN results
         /\ \A i \in DOMAIN results :
              LET q == FlagBest(results, rep)[i]
                  r == results[i]
              IN /\ q.regime = r.regime /\ q.cfg = r.cfg /\ q.exp = r.exp /\ q.status = r.status
                 /\ q.thr = r.thr /\ q.p99 = r.p99 /\ q.dlv = r.dlv
<1> DEFINE new == FlagBest(results, rep)
           flag(i) == results[i].best \/ (results[i].regime \in DOMAIN rep.best /\ rep.best[results[i].regime].label = results[i].label)
<1>1. new = [i \in DOMAIN results |-> [results[i] EXCEPT !.best = flag(i)]]
  BY DEF FlagBest
<1>2. DOMAIN new = DOMAIN results /\ Len(results) \in Nat /\ DOMAIN results = 1..Len(results)
      /\ \A i \in DOMAIN results : results[i] \in ResultRows
  BY <1>1, LenProperties, ElementOfSeq
<1>3. ASSUME NEW i \in DOMAIN results
      PROVE  /\ new[i] \in ResultRows
             /\ new[i].regime = results[i].regime /\ new[i].cfg = results[i].cfg /\ new[i].exp = results[i].exp
             /\ new[i].status = results[i].status /\ new[i].thr = results[i].thr /\ new[i].p99 = results[i].p99
             /\ new[i].dlv = results[i].dlv /\ new[i].label = results[i].label
  <2>1. results[i] \in ResultRows /\ new[i] = [results[i] EXCEPT !.best = flag(i)]
    BY <1>1, <1>2
  <2>2. flag(i) \in BOOLEAN
    BY <2>1 DEF ResultRows
  <2> HIDE DEF flag, new
  <2> QED BY <2>1, <2>2 DEF ResultRows
<1> HIDE DEF new
<1>4. new \in Seq(ResultRows)
  <2>1. new \in [1..Len(results) -> ResultRows]
    BY <1>1, <1>2, <1>3 DEF new
  <2> QED BY <1>2, <2>1, FunctionIsSeq
<1>5. \A rg : FilterByRegime(new, rg) = FilterByRegime(results, rg)
  BY <1>2, <1>3 DEF FilterByRegime
<1>6. \A rg : ByConfig(new, rg) = ByConfig(results, rg)
  <2> SUFFICES ASSUME NEW rg PROVE ByConfig(new, rg) = ByConfig(results, rg)
    OBVIOUS
  <2>1. \A i \in FilterByRegime(results, rg) : i \in DOMAIN results
    BY DEF FilterByRegime
  <2> QED BY <1>3, <1>5, <2>1 DEF ByConfig
<1>7. \A i \in DOMAIN results : RankedOf(new[i]) = RankedOf(results[i])
  BY <1>3 DEF RankedOf, Feasible
<1>8. ReportFits(new, rep)
  <2> DEFINE best == rep.best
  <2>1. ASSUME NEW i \in DOMAIN new, NEW rg, rg = new[i].regime
        PROVE  /\ rg \in DOMAIN best
               /\ \E j \in FilterByRegime(new, rg) : best[rg] = RankedOf(new[j])
               /\ i \in ByConfig(new, rg) => ~Before(RankedOf(new[i]), best[rg])
    <3>1. i \in DOMAIN results /\ rg = results[i].regime
      BY <1>2, <1>3, <2>1
    <3>2. /\ rg \in DOMAIN best
          /\ \E j \in FilterByRegime(results, rg) : best[rg] = RankedOf(results[j])
          /\ i \in ByConfig(results, rg) => ~Before(RankedOf(results[i]), best[rg])
      BY <3>1, Zenon DEF ReportFits
    <3>3. \A j \in FilterByRegime(results, rg) : RankedOf(new[j]) = RankedOf(results[j])
      BY <1>7 DEF FilterByRegime
    <3> QED BY <1>5, <1>6, <1>7, <3>1, <3>2, <3>3
  <2>2. rep.go => /\ \A rg \in DOMAIN best : best[rg].feasible
                  /\ \/ \E r1, r2 \in DOMAIN best : best[r1].label # best[r2].label
                     \/ \E i, j \in DOMAIN Regimes : i # j /\ Regimes[i] = Regimes[j]
    BY Zenon DEF ReportFits
  <2> QED BY <2>1, <2>2, Zenon DEF ReportFits
<1> QED BY <1>2, <1>3, <1>4, <1>8 DEF new

----------------------------------------------------------------------------
(* Sweeps: the steps                                                       *)

\* What the experiments of the units and the reports have to satisfy, sweep by sweep.
SweepSettled(s, f, x, cut) ==
  /\ RowsOf(s, f, x, cut)
  /\ f.status \in {"stopped", "completed"} => ReportFits(f.results, f.report)
  /\ \A u \in Units : x[<<s, u>>].st # "none" => f.units[u].exp

\* The invariant apart from the types and the goroutine, sweep by sweep.
LEMMA SettledUnfolds ==
  /\ SweepInv => \A s \in Sweeps : SweepSettled(s, sweepFile[s], expFile, interrupted)
  /\ /\ SweepTypes' /\ RunnerOwn'
     /\ (emActive \in SweepExps => expFile[emActive].st = "running")'
     /\ \A s \in Sweeps : SweepSettled(s, sweepFile'[s], expFile', interrupted')
     => SweepInv'
<1>1. SweepInv => \A s \in Sweeps : SweepSettled(s, sweepFile[s], expFile, interrupted)
  BY RowsOwnUnfolds, Zenon DEF SweepInv, SweepSettled, ExperimentsOwn, ReportSound
<1>2. ASSUME SweepTypes', RunnerOwn', (emActive \in SweepExps => expFile[emActive].st = "running")',
             \A s \in Sweeps : SweepSettled(s, sweepFile'[s], expFile', interrupted')
      PROVE  SweepInv'
  <2>1. RowsOwn'
    BY <1>2, RowsOwnUnfolds, Zenon DEF SweepSettled
  <2>2. ReportSound'
    BY <1>2, Zenon DEF SweepSettled, ReportSound
  <2>3. ExperimentsOwn'
    BY <1>2, Zenon DEF SweepSettled, ExperimentsOwn
  <2> QED BY <1>2, <2>1, <2>2, <2>3, Zenon DEF SweepInv
<1> QED BY <1>1, <1>2

\* Steps that change no file: what is stored stays settled, also when one more wait was cut short.
LEMMA SettledKept ==
  ASSUME NEW s, NEW f, NEW x, NEW cut, NEW cut2, SweepSettled(s, f, x, cut), cut \subseteq cut2
  PROVE  SweepSettled(s, f, x, cut2)
<1>1. RowsOf(s, f, x, cut)
  BY DEF SweepSettled
<1>2. RowsOf(s, f, x, cut2)
  BY <1>1, RowsKept, Zenon
<1> QED BY <1>2, Zenon DEF SweepSettled

\* The experiment of the unit in hand, while the goroutine works on one.
LEMMA ExpInHand ==
  ASSUME SweepTypes, RunnerOwn, runner.pc \in {"ensure", "start", "failed", "poll", "record"}
  PROVE  /\ sweepActive \in Sweeps /\ runner.u \in Units /\ Exp \in SweepExps
         /\ Exp = <<sweepActive, runner.u>> /\ Exp # NoExp
         /\ sweepFile[sweepActive].units[runner.u].done = FALSE
         /\ sweepFile[sweepActive].status = "running"
<1>1. sweepActive \in Sweeps
  BY DEF SweepTypes, RunnerOwn, At
<1>2. runner.u \in PendingUnits(sweepActive) /\ sweepFile[sweepActive].status = "running"
  BY DEF RunnerOwn
<1>3. sweepFile[sweepActive].units \in [Units -> UnitRecords]
  BY <1>1 DEF SweepTypes, StoredSweep
<1>4. runner.u \in Units /\ ~sweepFile[sweepActive].units[runner.u].done
  BY <1>2 DEF PendingUnits
<1>5. sweepFile[sweepActive].units[runner.u].done \in BOOLEAN
  BY <1>3, <1>4 DEF UnitRecords
<1> QED BY <1>1, <1>2, <1>4, <1>5, SweepAssumption DEF Exp, SweepExps

\* Start, Stop, and the steps of the goroutine that store nothing.
LEMMA QuietSteps ==
  ASSUME SweepInv,
         \/ \E s \in Sweeps : SweepStop(s)
         \/ SweepStopExperiment \/ NextUnit \/ FindExperiment \/ Poll \/ PollStopped \/ LeaveSweep
         \/ CreateFails \/ StartRefusedByManager \/ OtherStart \/ UserStop \/ SweepCrash
  PROVE  SweepInv'
<1> USE DEF At
<1>0. SweepTypes /\ RunnerOwn /\ (emActive \in SweepExps => expFile[emActive].st = "running")
  BY DEF SweepInv, ExperimentsOwn
<1>1. sweepFile' = sweepFile /\ expFile' = expFile
  BY DEF SweepStop, SweepStopExperiment, NextUnit, FindExperiment, Poll, PollStopped, LeaveSweep,
         CreateFails, StartRefusedByManager, EnsureFailed, OtherStart, UserStop, SweepCrash, SweepSideOnly, RunnerOnly
<1>2. interrupted \subseteq interrupted'
  BY DEF SweepStop, SweepStopExperiment, NextUnit, FindExperiment, Poll, PollStopped, LeaveSweep,
         CreateFails, StartRefusedByManager, EnsureFailed, OtherStart, UserStop, SweepCrash, SweepSideOnly, RunnerOnly
<1>3. \A s \in Sweeps : SweepSettled(s, sweepFile'[s], expFile', interrupted')
  BY <1>1, <1>2, SettledUnfolds, SettledKept
<1>4. SweepTypes' /\ RunnerOwn' /\ (emActive \in SweepExps => expFile[emActive].st = "running")'
  <2>1. CASE \E s \in Sweeps : SweepStop(s)
    BY <1>0, <2>1 DEF SweepStop, SweepTypes, RunnerOwn, PendingUnits, Exp
  <2>2. CASE SweepStopExperiment
    BY <1>0, <2>2 DEF SweepStopExperiment, EmStop, SweepTypes, RunnerOwn, PendingUnits, Exp
  <2>3. CASE NextUnit
    <3> DEFINE pend == PendingUnits(sweepActive)
    <3>1. sweepActive \in Sweeps /\ sweepFile[sweepActive].status = "running"
      BY <1>0, <2>3 DEF NextUnit, SweepTypes, RunnerOwn
    <3>2. pend # {} => Min(pend) \in pend
      BY UnitFacts, MinOf DEF PendingUnits
    <3>3. pend \subseteq Units /\ pend = {u \in Units : ~sweepFile[sweepActive].units[u].done}
      BY DEF PendingUnits
    <3>4. /\ UNCHANGED <<sweepFile, sweepActive, sweepStopReq, stopper, expFile, emActive, emStopping, interrupted>>
          /\ sweepStopReq \in BOOLEAN /\ runner.pc = "check"
      BY <1>0, <2>3 DEF NextUnit, RunnerOnly, SweepTypes
    <3>5. CASE sweepStopReq \/ pend = {}
      <4>1. runner' = [runner EXCEPT !.pc = "finish", !.last = IF sweepStopReq THEN "stopped" ELSE "completed"]
        BY <2>3, <3>5, Zenon DEF NextUnit
      <4> QED BY <1>0, <3>1, <3>4, <4>1, SweepAssumption DEF SweepTypes, RunnerOwn, StatusesOfExps, Terminal
    <3>6. CASE ~(sweepStopReq \/ pend = {})
      <4>1. runner' = [pc |-> "ensure", u |-> Min(pend), last |-> "none"]
        BY <2>3, <3>6, Zenon DEF NextUnit
      <4> HIDE DEF pend
      <4>2. Min(pend) \in Units /\ runner'.u \in pend /\ runner'.pc = "ensure"
        BY <3>2, <3>3, <3>6, <4>1
      <4>3. SweepTypes'
        BY <1>0, <3>4, <4>1, <4>2 DEF SweepTypes, StatusesOfExps
      <4>4. runner'.u \in PendingUnits(sweepActive)'
        BY <3>3, <3>4, <4>2 DEF PendingUnits
      <4>5. RunnerOwn'
        BY <3>1, <3>4, <4>2, <4>4, SweepAssumption DEF RunnerOwn
      <4> QED BY <1>0, <3>4, <4>3, <4>5
    <3> QED BY <3>5, <3>6
  <2>4. CASE FindExperiment
    BY <1>0, <2>4 DEF FindExperiment, RunnerOnly, SweepTypes, RunnerOwn, PendingUnits, Exp
  <2>5. CASE Poll
    <3>1. /\ sweepActive \in Sweeps /\ runner.u \in Units /\ Exp \in SweepExps
          /\ Exp = <<sweepActive, runner.u>> /\ expFile[Exp].st \in StatusesOfExps
      BY <1>0, <2>5, ExpInHand DEF Poll, SweepTypes, Measured
    <3> QED BY <1>0, <2>5, <3>1, SweepAssumption DEF Poll, RunnerOnly, SweepTypes, RunnerOwn, PendingUnits, Exp
  <2>6. CASE PollStopped
    <3>1. sweepActive \in Sweeps /\ Exp \in SweepExps /\ Exp = <<sweepActive, runner.u>>
      BY <1>0, <2>6, ExpInHand DEF PollStopped
    <3> QED BY <1>0, <2>6, <3>1, SweepAssumption DEF PollStopped, RunnerOnly, SweepTypes, RunnerOwn, PendingUnits, Exp
  <2>7. CASE LeaveSweep
    BY <1>0, <2>7, SweepAssumption DEF LeaveSweep, IdleRunner, StatusesOfExps, SweepTypes, RunnerOwn, PendingUnits, Exp
  <2>8. CASE OtherStart
    BY <1>0, <2>8, SweepAssumption DEF OtherStart, SweepSideOnly, SweepTypes, RunnerOwn, PendingUnits, Exp
  <2>9. CASE UserStop
    BY <1>0, <2>9 DEF UserStop, SweepSideOnly, SweepTypes, RunnerOwn, PendingUnits, Exp
  <2>10. CASE SweepCrash
    BY <1>0, <2>10, SweepAssumption DEF SweepCrash, IdleRunner, StatusesOfExps, SweepTypes, RunnerOwn, PendingUnits, Exp
  <2>11. CASE CreateFails \/ StartRefusedByManager
    <3>1. /\ runner.pc \in {"ensure", "start"} /\ runner' = [runner EXCEPT !.pc = "failed"] /\ expFile' = expFile
          /\ UNCHANGED <<sweepFile, sweepActive, sweepStopReq, stopper, emActive, emStopping, interrupted>>
      BY <2>11 DEF CreateFails, StartRefusedByManager, EnsureFailed, RunnerOnly
    <3> QED BY <1>0, <3>1 DEF SweepTypes, RunnerOwn, PendingUnits, Exp
  <2> QED BY <2>1, <2>2, <2>3, <2>4, <2>5, <2>6, <2>7, <2>8, <2>9, <2>10, <2>11
<1> QED BY <1>3, <1>4, SettledUnfolds

\* What is stored of a sweep whose file changes at most in its status, its report or the experiments
\* known to its units, while experiments that are over stay as they are.
LEMMA SettledMoved ==
  ASSUME NEW s, NEW f, NEW g, NEW x, NEW y, NEW cut, SweepSettled(s, f, x, cut),
         g.results = f.results,
         \A u \in Units : /\ g.units[u].done = f.units[u].done /\ g.units[u].status = f.units[u].status
                          /\ f.units[u].exp => g.units[u].exp
                          /\ f.units[u].done => y[<<s, u>>] = x[<<s, u>>] \/ x[<<s, u>>].st \notin Terminal
                          /\ y[<<s, u>>].st # "none" => x[<<s, u>>].st # "none" \/ g.units[u].exp,
         g.status \in {"stopped", "completed"} => g.status = f.status /\ g.report = f.report
  PROVE  SweepSettled(s, g, y, cut)
<1>1. RowsOf(s, f, x, cut)
  BY DEF SweepSettled
<1>2. RowsOf(s, g, y, cut)
  BY <1>1, RowsKept, ZenonT(60)
<1>3. g.status \in {"stopped", "completed"} => ReportFits(g.results, g.report)
  BY DEF SweepSettled
<1>4. \A u \in Units : y[<<s, u>>].st # "none" => g.units[u].exp
  BY DEF SweepSettled
<1> QED BY <1>2, <1>3, <1>4, Zenon DEF SweepSettled

\* One field of a stored sweep changes: its status, or the experiment known to a unit.
LEMMA StatusStored ==
  ASSUME NEW f, StoredSweep(f), NEW st \in {"created", "running", "stopped", "completed"}
  PROVE  /\ StoredSweep([f EXCEPT !.status = st])
         /\ [f EXCEPT !.status = st].status = st /\ [f EXCEPT !.status = st].results = f.results
         /\ [f EXCEPT !.status = st].units = f.units /\ [f EXCEPT !.status = st].report = f.report
<1> DEFINE a == f.status
           b == f.results
           c == f.report
           d == f.units
<1>1. f = [status |-> a, results |-> b, report |-> c, units |-> d] /\ b \in Seq(ResultRows) /\ d \in [Units -> UnitRecords]
  BY DEF StoredSweep
<1> HIDE DEF a, b, c, d
<1>2. [f EXCEPT !.status = st] = [status |-> st, results |-> b, report |-> c, units |-> d]
  BY <1>1
<1> QED BY <1>1, <1>2 DEF StoredSweep, a, b, c, d

\* The units of a stored sweep, or its units and rows, are replaced.
LEMMA FieldChange ==
  ASSUME NEW f, f = [status |-> f.status, results |-> f.results, report |-> f.report, units |-> f.units],
         NEW U, NEW R
  PROVE  /\ [f EXCEPT !.units = U] = [status |-> f.status, results |-> f.results, report |-> f.report, units |-> U]
         /\ [f EXCEPT !.units = U, !.results = R]
              = [status |-> f.status, results |-> R, report |-> f.report, units |-> U]
<1> DEFINE a == f.status
           b == f.results
           c == f.report
           d == f.units
<1>1. f = [status |-> a, results |-> b, report |-> c, units |-> d]
  OBVIOUS
<1> HIDE DEF a, b, c, d
<1> DEFINE h == [f EXCEPT !.units = U]
<1>2. h = [status |-> a, results |-> b, report |-> c, units |-> U]
  BY <1>1
<1>3. [f EXCEPT !.units = U, !.results = R] = [h EXCEPT !.results = R]
  OBVIOUS
<1> HIDE DEF h
<1>4. [h EXCEPT !.results = R] = [status |-> a, results |-> R, report |-> c, units |-> U]
  BY <1>2
<1> QED BY <1>2, <1>3, <1>4 DEF h, a, b, c, d

\* Start: the sweep is stored as running and its goroutine begins.
LEMMA StartSweepStep ==
  ASSUME SweepInv, NEW s \in Sweeps, SweepStart(s)
  PROVE  SweepInv'
<1> USE DEF At
<1>0. SweepTypes /\ RunnerOwn /\ (emActive \in SweepExps => expFile[emActive].st = "running")
  BY DEF SweepInv, ExperimentsOwn
<1>1. /\ sweepFile' = [sweepFile EXCEPT ![s].status = "running"]
      /\ sweepActive' = s /\ sweepStopReq' = FALSE /\ runner' = [IdleRunner EXCEPT !.pc = "check"]
      /\ UNCHANGED <<stopper, expFile, emActive, emStopping, interrupted>>
  BY DEF SweepStart
<1>2. /\ sweepFile'[s] = [sweepFile[s] EXCEPT !.status = "running"]
      /\ \A t \in Sweeps : t # s => sweepFile'[t] = sweepFile[t]
      /\ sweepFile' = [t \in Sweeps |-> sweepFile'[t]]
  BY <1>0, <1>1 DEF SweepTypes
<1>3. /\ StoredSweep(sweepFile'[s]) /\ sweepFile'[s].status = "running"
      /\ sweepFile'[s].results = sweepFile[s].results /\ sweepFile'[s].units = sweepFile[s].units
  <2> DEFINE f == sweepFile[s]
  <2>1. StoredSweep(f) /\ sweepFile'[s] = [f EXCEPT !.status = "running"]
    BY <1>0, <1>2 DEF SweepTypes
  <2> HIDE DEF f
  <2>2. /\ StoredSweep([f EXCEPT !.status = "running"]) /\ [f EXCEPT !.status = "running"].status = "running"
        /\ [f EXCEPT !.status = "running"].results = f.results /\ [f EXCEPT !.status = "running"].units = f.units
    BY <2>1, StatusStored
  <2> QED BY <2>1, <2>2 DEF f
<1>4. SweepTypes'
  BY <1>0, <1>1, <1>2, <1>3 DEF SweepTypes, IdleRunner, StatusesOfExps
<1>5. RunnerOwn'
  BY <1>1, <1>3, SweepAssumption DEF RunnerOwn, IdleRunner
<1>6. ASSUME NEW t \in Sweeps PROVE SweepSettled(t, sweepFile'[t], expFile', interrupted')
  <2>1. SweepSettled(t, sweepFile[t], expFile, interrupted)
    BY SettledUnfolds
  <2>2. CASE t # s
    BY <1>1, <1>2, <2>1, <2>2
  <2>3. CASE t = s
    <3> DEFINE f == sweepFile[s]
               g == sweepFile'[s]
    <3>1. g.results = f.results /\ g.units = f.units /\ g.status \notin {"stopped", "completed"}
      BY <1>3
    <3>2. SweepSettled(s, f, expFile, interrupted)
      BY <2>1, <2>3
    <3> HIDE DEF f, g
    <3>3. SweepSettled(s, g, expFile, interrupted)
      BY <3>1, <3>2, SettledMoved, Zenon
    <3> QED BY <1>1, <2>3, <3>3 DEF g
  <2> QED BY <2>2, <2>3
<1> QED BY <1>0, <1>1, <1>4, <1>5, <1>6, SettledUnfolds

\* An experiment is created for the unit in hand, or started.
LEMMA ExperimentSteps ==
  ASSUME SweepInv, CreateExperiment \/ StartExperiment \/ LaunchFailsAtOnce
  PROVE  SweepInv'
<1> USE DEF At
<1>0. SweepTypes /\ RunnerOwn /\ ExperimentsOwn
  BY DEF SweepInv
<1> DEFINE a == sweepActive
           u == runner.u
           f == sweepFile[a]
<1>1. runner.pc \in {"ensure", "start"}
  BY DEF CreateExperiment, StartExperiment, LaunchFailsAtOnce
<1>2. a \in Sweeps /\ u \in Units /\ Exp \in SweepExps /\ Exp = <<a, u>> /\ Exp # NoExp /\ f.units[u].done = FALSE /\ f.status = "running"
  BY <1>0, <1>1, ExpInHand
<1>3. StoredSweep(f)
  BY <1>0, <1>2 DEF SweepTypes
<1>4. CASE CreateExperiment
  <2>1. /\ expFile' = [expFile EXCEPT ![Exp].st = "created"]
        /\ sweepFile' = [sweepFile EXCEPT ![a].units[u].exp = TRUE]
        /\ runner' = [runner EXCEPT !.pc = "start"] /\ ~f.units[u].exp
        /\ UNCHANGED <<sweepActive, sweepStopReq, stopper, emActive, emStopping, interrupted>>
    BY <1>4 DEF CreateExperiment, RunnerOnly
  <2> DEFINE g == [status |-> f.status, results |-> f.results, report |-> f.report,
                   units |-> [f.units EXCEPT ![u].exp = TRUE]]
  <2>2. f.units \in [Units -> UnitRecords]
    BY <1>3 DEF StoredSweep
  <2>3. /\ [f.units EXCEPT ![u].exp = TRUE] \in [Units -> UnitRecords]
        /\ \A v \in Units : /\ g.units[v].done = f.units[v].done /\ g.units[v].status = f.units[v].status
                            /\ (f.units[v].exp => g.units[v].exp)
        /\ g.units[u].exp
    BY <1>2, <2>2 DEF UnitRecords
  <2>4. /\ sweepFile'[a] = g /\ \A t \in Sweeps : t # a => sweepFile'[t] = sweepFile[t]
        /\ sweepFile' = [t \in Sweeps |-> sweepFile'[t]]
    <3>1. f = [status |-> f.status, results |-> f.results, report |-> f.report, units |-> f.units]
      BY <1>3 DEF StoredSweep
    <3>2. sweepFile = [t \in Sweeps |-> sweepFile[t]]
      BY <1>0 DEF SweepTypes
    <3>3. /\ sweepFile'[a] = [f EXCEPT !.units[u].exp = TRUE]
          /\ \A t \in Sweeps : t # a => sweepFile'[t] = sweepFile[t]
          /\ sweepFile' = [t \in Sweeps |-> sweepFile'[t]]
      BY <1>2, <2>1, <3>2
    <3> HIDE DEF f, u, a
    <3>4. [f EXCEPT !.units[u].exp = TRUE] = g
      <4> DEFINE U == [f.units EXCEPT ![u].exp = TRUE]
      <4>1. [f EXCEPT !.units[u].exp = TRUE] = [f EXCEPT !.units = U]
        BY Zenon
      <4> HIDE DEF U
      <4>2. [f EXCEPT !.units = U] = [status |-> f.status, results |-> f.results, report |-> f.report, units |-> U]
        BY <3>1, FieldChange, Zenon
      <4> QED BY <4>1, <4>2 DEF U
    <3> QED BY <3>3, <3>4
  <2>5. StoredSweep(g)
    BY <1>3, <2>3 DEF StoredSweep
  <2>6. /\ expFile' \in [SweepExps -> Measured] /\ \A e \in SweepExps : e # Exp => expFile'[e] = expFile[e]
        /\ expFile[Exp].st = "none"
    <3>1. expFile \in [SweepExps -> Measured]
      BY <1>0 DEF SweepTypes
    <3>2. expFile[Exp].st = "none"
      BY <1>0, <1>2, <2>1 DEF ExperimentsOwn
    <3> QED BY <1>2, <2>1, <3>1, <3>2 DEF Measured, StatusesOfExps
  <2>7. SweepTypes'
    BY <1>0, <2>1, <2>4, <2>5, <2>6 DEF SweepTypes
  <2>8. RunnerOwn'
    <3>1. runner'.u = u /\ runner'.pc = "start"
      BY <1>0, <2>1 DEF SweepTypes
    <3>2. /\ u \in PendingUnits(sweepActive)' /\ sweepFile'[sweepActive'].status = "running"
          /\ sweepFile'[sweepActive'].units[u].exp
      BY <1>2, <2>1, <2>3, <2>4, ZenonT(60) DEF PendingUnits
    <3> QED BY <1>2, <2>1, <3>1, <3>2, SweepAssumption DEF RunnerOwn
  <2>9. (emActive \in SweepExps => expFile[emActive].st = "running")'
    BY <1>0, <1>2, <2>1, <2>6 DEF ExperimentsOwn
  <2>10. ASSUME NEW t \in Sweeps PROVE SweepSettled(t, sweepFile'[t], expFile', interrupted')
    <3>1. SweepSettled(t, sweepFile[t], expFile, interrupted)
      BY SettledUnfolds
    <3> DEFINE h == sweepFile'[t]
               o == sweepFile[t]
    <3>2. h.results = o.results /\ (h.status \in {"stopped", "completed"} => h.status = o.status /\ h.report = o.report)
      BY <1>2, <2>4
    <3>3. ASSUME NEW v \in Units
          PROVE  /\ h.units[v].done = o.units[v].done /\ h.units[v].status = o.units[v].status
                 /\ (o.units[v].exp => h.units[v].exp)
                 /\ o.units[v].done => expFile'[<<t, v>>] = expFile[<<t, v>>] \/ expFile[<<t, v>>].st \notin Terminal
                 /\ expFile'[<<t, v>>].st # "none" => expFile[<<t, v>>].st # "none" \/ h.units[v].exp
      <4>1. <<t, v>> \in SweepExps
        BY DEF SweepExps
      <4>2. CASE <<t, v>> = Exp
        <5>1. t = a /\ v = u
          BY <1>2, <4>2
        <5> QED BY <1>2, <2>3, <2>4, <2>6, <5>1 DEF Terminal
      <4>3. CASE <<t, v>> # Exp
        <5>1. expFile'[<<t, v>>] = expFile[<<t, v>>]
          BY <2>6, <4>1, <4>3
        <5>2. CASE t = a
          BY <2>3, <2>4, <5>1, <5>2, ZenonT(60)
        <5>3. CASE t # a
          BY <2>4, <5>1, <5>3
        <5> QED BY <5>2, <5>3
      <4> QED BY <4>2, <4>3
    <3> HIDE DEF h, o
    <3>4. SweepSettled(t, o, expFile, interrupted)
      BY <3>1 DEF o
    <3>5. SweepSettled(t, h, expFile', interrupted)
      BY <3>2, <3>3, <3>4, SettledMoved, Zenon
    <3> QED BY <2>1, <3>5 DEF h
  <2> QED BY <2>7, <2>8, <2>9, <2>10, SettledUnfolds
<1>5. CASE StartExperiment \/ LaunchFailsAtOnce
  <2>0. PICK st \in {"running", "failed"}, l \in {"poll", "failed"} :
          /\ expFile' = [expFile EXCEPT ![Exp].st = st] /\ runner' = [runner EXCEPT !.pc = l] /\ runner.pc = "start"
          /\ emActive' \in {Exp, NoExp} /\ (st = "failed" => emActive' = NoExp) /\ emStopping' \in BOOLEAN
          /\ UNCHANGED <<sweepFile, sweepActive, sweepStopReq, stopper, interrupted>>
    <3>1. CASE StartExperiment
      BY <1>0, <3>1 DEF StartExperiment, RunnerOnly
    <3>2. CASE LaunchFailsAtOnce
      BY <1>0, <3>2 DEF LaunchFailsAtOnce, EnsureFailed, RunnerOnly, SweepTypes
    <3> QED BY <1>5, <3>1, <3>2
  <2>1. /\ expFile' = [expFile EXCEPT ![Exp].st = st] /\ runner' = [runner EXCEPT !.pc = l]
        /\ emActive' \in {Exp, NoExp} /\ (st = "failed" => emActive' = NoExp) /\ emStopping' \in BOOLEAN
        /\ UNCHANGED <<sweepFile, sweepActive, sweepStopReq, stopper, interrupted>>
    BY <2>0
  <2>2. /\ expFile' \in [SweepExps -> Measured] /\ \A e \in SweepExps : e # Exp => expFile'[e] = expFile[e]
        /\ expFile'[Exp].st = st
    <3>1. expFile \in [SweepExps -> Measured]
      BY <1>0 DEF SweepTypes
    <3> QED BY <1>2, <2>1, <3>1 DEF Measured, StatusesOfExps, Terminal
  <2>3. SweepTypes'
    BY <1>0, <1>2, <2>1, <2>2 DEF SweepTypes
  <2>4. RunnerOwn'
    <3>1. runner'.u = u /\ runner'.pc = l
      BY <1>0, <2>1 DEF SweepTypes
    <3>2. sweepFile[a].units[u].exp
      BY <1>0, <2>0 DEF RunnerOwn
    <3> QED BY <1>2, <2>1, <3>1, <3>2, SweepAssumption DEF RunnerOwn, PendingUnits
  <2>5. (emActive \in SweepExps => expFile[emActive].st = "running")'
    BY <2>1, <2>2, SweepAssumption
  <2>6. ASSUME NEW t \in Sweeps PROVE SweepSettled(t, sweepFile'[t], expFile', interrupted')
    <3>1. SweepSettled(t, sweepFile[t], expFile, interrupted)
      BY SettledUnfolds
    <3> DEFINE o == sweepFile[t]
    <3>3. ASSUME NEW v \in Units
          PROVE  /\ o.units[v].done => expFile'[<<t, v>>] = expFile[<<t, v>>] \/ expFile[<<t, v>>].st \notin Terminal
                 /\ expFile'[<<t, v>>].st # "none" => expFile[<<t, v>>].st # "none" \/ o.units[v].exp
      <4>1. <<t, v>> \in SweepExps
        BY DEF SweepExps
      <4>2. CASE <<t, v>> = Exp
        <5>1. t = a /\ v = u
          BY <1>2, <4>2
        <5>2. o.units[v].exp
          BY <1>0, <2>0, <5>1 DEF RunnerOwn
        <5> QED BY <1>2, <4>2, <5>1, <5>2
      <4>3. CASE <<t, v>> # Exp
        BY <2>2, <4>1, <4>3
      <4> QED BY <4>2, <4>3
    <3> HIDE DEF o
    <3>4. SweepSettled(t, o, expFile, interrupted)
      BY <3>1 DEF o
    <3>5. SweepSettled(t, o, expFile', interrupted)
      BY <3>3, <3>4, SettledMoved, Zenon
    <3> QED BY <2>1, <3>5 DEF o
  <2> QED BY <2>3, <2>4, <2>5, <2>6, SettledUnfolds
<1> QED BY <1>4, <1>5

\* An experiment ends: it was running, so no row shows it yet as over.
LEMMA EmEndStep ==
  ASSUME SweepInv, EmEnd
  PROVE  SweepInv'
<1> USE DEF At
<1>0. SweepTypes /\ RunnerOwn /\ ExperimentsOwn
  BY DEF SweepInv
<1>1. /\ emActive' = NoExp /\ emStopping' = FALSE
      /\ UNCHANGED <<sweepFile, sweepActive, sweepStopReq, runner, stopper, interrupted>>
  BY DEF EmEnd, SweepSideOnly
<1>2. /\ expFile' \in [SweepExps -> Measured]
      /\ \A e \in SweepExps : expFile'[e] = expFile[e] \/ expFile[e].st = "running"
  <2>1. expFile \in [SweepExps -> Measured]
    BY <1>0 DEF SweepTypes
  <2>2. CASE emActive = OtherExp
    BY <2>1, <2>2 DEF EmEnd
  <2>3. CASE emActive # OtherExp
    <3>1. emActive \in SweepExps
      BY <1>0, <2>3 DEF SweepTypes, EmEnd
    <3>2. PICK o \in Outcomes[emActive[2]] \cup {Unmeasured("failed")} :
            \E st \in {o.st} \cup (IF emStopping THEN {"stopped"} ELSE {}) :
              expFile' = [expFile EXCEPT ![emActive] = [o EXCEPT !.st = st]]
      BY <2>3 DEF EmEnd
    <3>3. PICK st \in {o.st} \cup (IF emStopping THEN {"stopped"} ELSE {}) :
            expFile' = [expFile EXCEPT ![emActive] = [o EXCEPT !.st = st]]
      BY <3>2
    <3>4. o \in Measured
      <4>1. emActive[2] \in Units
        BY <3>1 DEF SweepExps
      <4>2. CASE o = Unmeasured("failed")
        BY <4>2 DEF Unmeasured, Measured, StatusesOfExps, Terminal
      <4>3. CASE o # Unmeasured("failed")
        BY <3>2, <4>1, <4>3, SweepAssumption
      <4> QED BY <4>2, <4>3
    <3>5. [o EXCEPT !.st = st] \in Measured
      BY <3>3, <3>4 DEF Measured, StatusesOfExps, Terminal
    <3>6. expFile[emActive].st = "running"
      BY <1>0, <3>1 DEF ExperimentsOwn
    <3> QED BY <2>1, <3>1, <3>3, <3>5, <3>6
  <2> QED BY <2>2, <2>3
<1>3. SweepTypes'
  BY <1>0, <1>1, <1>2 DEF SweepTypes
<1>4. RunnerOwn'
  <2>1. At("record") => \/ Exp \in interrupted
                        \/ runner.last \in Terminal /\ expFile'[Exp].st = runner.last
    <3>1. SUFFICES ASSUME runner.pc = "record", Exp \notin interrupted
                   PROVE  runner.last \in Terminal /\ expFile'[Exp].st = runner.last
      OBVIOUS
    <3>2. Exp \in SweepExps /\ runner.last \in Terminal /\ expFile[Exp].st = runner.last
      BY <1>0, <3>1, ExpInHand DEF RunnerOwn
    <3> QED BY <1>2, <3>2 DEF Terminal
  <2>2. Exp' = Exp
    BY <1>1 DEF Exp
  <2> QED BY <1>0, <1>1, <2>1, <2>2 DEF RunnerOwn, PendingUnits
<1>5. (emActive \in SweepExps => expFile[emActive].st = "running")'
  BY <1>1, SweepAssumption
<1>6. ASSUME NEW t \in Sweeps PROVE SweepSettled(t, sweepFile'[t], expFile', interrupted')
  <2>1. SweepSettled(t, sweepFile[t], expFile, interrupted)
    BY SettledUnfolds
  <2> DEFINE o == sweepFile[t]
  <2>2. ASSUME NEW v \in Units
        PROVE  /\ expFile'[<<t, v>>] = expFile[<<t, v>>] \/ expFile[<<t, v>>].st \notin Terminal
               /\ expFile'[<<t, v>>].st # "none" => expFile[<<t, v>>].st # "none" \/ o.units[v].exp
    <3>1. <<t, v>> \in SweepExps
      BY DEF SweepExps
    <3>2. expFile'[<<t, v>>] = expFile[<<t, v>>] \/ expFile[<<t, v>>].st = "running"
      BY <1>2, <3>1
    <3> QED BY <3>2 DEF Terminal
  <2> HIDE DEF o
  <2>3. SweepSettled(t, o, expFile, interrupted)
    BY <2>1 DEF o
  <2>4. SweepSettled(t, o, expFile', interrupted)
    BY <2>2, <2>3, SettledMoved, Zenon
  <2> QED BY <1>1, <2>4 DEF o
<1> QED BY <1>3, <1>4, <1>5, <1>6, SettledUnfolds

\* The unit in hand is over and its row is stored: e is what the row shows, st the unit's status.
LEMMA RowStored ==
  ASSUME SweepInv, runner.pc \in {"failed", "record"},
         NEW st \in StatusesOfExps \cup {"unknown"}, NEW e \in {NoExp, Exp},
         StoreUnit(st, e),
         runner' = [runner EXCEPT !.pc = "check"],
         UNCHANGED <<sweepActive, sweepStopReq, stopper, emActive, emStopping, interrupted>>,
         expFile' \in [SweepExps -> Measured],
         \A d \in SweepExps : d # Exp => expFile'[d] = expFile[d],
         emActive \in SweepExps => expFile'[emActive] = expFile[emActive],
         expFile'[Exp].st # "none" => sweepFile[sweepActive].units[runner.u].exp,
         \/ e = NoExp /\ (st = "failed" \/ (st = "unknown" /\ Exp \in interrupted))
         \/ e = Exp /\ expFile' = expFile /\ (Exp \in interrupted \/ (st \in Terminal /\ expFile[Exp].st = st))
  PROVE  SweepInv'
<1> USE DEF At
<1>0. SweepTypes /\ RunnerOwn /\ ExperimentsOwn
  BY DEF SweepInv
<1> DEFINE a == sweepActive
           u == runner.u
           f == sweepFile[a]
           row == UnitRow(u, e)
           U == [f.units EXCEPT ![u] = [exp |-> f.units[u].exp, done |-> TRUE, status |-> st]]
           R == AppendUnitResult(f.results, row)
           g == [status |-> f.status, report |-> f.report, results |-> R, units |-> U]
<1>1. a \in Sweeps /\ u \in Units /\ Exp \in SweepExps /\ Exp = <<a, u>> /\ Exp # NoExp /\ f.units[u].done = FALSE /\ f.status = "running"
  BY <1>0, ExpInHand
<1>2. StoredSweep(f)
  BY <1>0, <1>1 DEF SweepTypes
<1>3. /\ sweepFile'[a] = g /\ \A t \in Sweeps : t # a => sweepFile'[t] = sweepFile[t]
      /\ sweepFile' = [t \in Sweeps |-> sweepFile'[t]]
  <2>1. sweepFile = [t \in Sweeps |-> sweepFile[t]]
    BY <1>0 DEF SweepTypes
  <2>2. sweepFile' = [sweepFile EXCEPT ![a] = g]
    BY DEF StoreUnit
  <2> HIDE DEF g
  <2> QED BY <1>1, <2>1, <2>2
<1>4. row \in ResultRows /\ SameKey(Plan[u], row) /\ row.exp = e
      /\ (e = NoExp => row.thr = 0 /\ row.p99 = 0 /\ row.dlv = 0)
      /\ (e # NoExp => row.status = expFile[e].st /\ row.thr = expFile[e].thr /\ row.p99 = expFile[e].p99 /\ row.dlv = expFile[e].dlv)
  <2>1. e \in {NoExp} \cup SweepExps /\ u \in Units
    BY <1>1
  <2> HIDE DEF u, row
  <2>2. row = UnitRow(u, e)
    BY DEF row
  <2> QED BY <1>0, <2>1, <2>2, UnitRowFacts, ZenonT(60)
<1>5. /\ U \in [Units -> UnitRecords] /\ U[u].done /\ U[u].status = st /\ U[u].exp = f.units[u].exp
      /\ \A v \in Units : v # u => U[v] = f.units[v]
  <2>1. f.units \in [Units -> UnitRecords]
    BY <1>2 DEF StoredSweep
  <2> HIDE DEF f
  <2> QED BY <1>1, <2>1 DEF UnitRecords
<1>6. SweepSettled(a, f, expFile, interrupted)
  BY <1>1, SettledUnfolds
<1>7. R \in Seq(ResultRows)
  <2> DEFINE rs == f.results
  <2>1. rs \in Seq(ResultRows) /\ \A i, j \in DOMAIN rs : SameKey(rs[i], rs[j]) => i = j
    BY <1>2, <1>6, Zenon DEF StoredSweep, SweepSettled, RowsOf
  <2>2. R = AppendUnitResult(rs, row)
    OBVIOUS
  <2> HIDE DEF rs, R, row
  <2> QED BY <1>4, <2>1, <2>2, AppendRowFacts
<1> HIDE DEF row, U, R, f
<1>8. StoredSweep(g)
  BY <1>2, <1>5, <1>7 DEF StoredSweep
<1>9. Shows(U[u], <<a, u>>, expFile'[<<a, u>>], <<a, u>> \in interrupted, row)
  <2>1. CASE e = NoExp
    BY <1>1, <1>4, <1>5, <2>1 DEF Shows
  <2>2. CASE e = Exp
    <3>1. expFile' = expFile /\ (Exp \in interrupted \/ (st \in Terminal /\ expFile[Exp].st = st))
      BY <1>1, <2>2
    <3> QED BY <1>1, <1>4, <1>5, <2>2, <3>1 DEF Shows
  <2> QED BY <2>1, <2>2
<1>10. \A v \in Units : v # u => expFile'[<<a, v>>] = expFile[<<a, v>>]
  <2> TAKE v \in Units
  <2>1. <<a, v>> \in SweepExps
    BY <1>1 DEF SweepExps
  <2> QED BY <1>1, <2>1
<1>11. RowsOf(a, g, expFile', interrupted)
  <2>1. RowsOf(a, f, expFile, interrupted) /\ f.results \in Seq(ResultRows) /\ ~f.units[u].done
    BY <1>1, <1>2, <1>6 DEF SweepSettled, StoredSweep, f
  <2>2. g.results = AppendUnitResult(f.results, row) /\ g.units = U
    BY DEF R
  <2>3. \A v \in Units : v # u => g.units[v] = f.units[v] /\ expFile'[<<a, v>>] = expFile[<<a, v>>]
    BY <1>5, <1>10, <2>2
  <2>4. Shows(g.units[u], <<a, u>>, expFile'[<<a, u>>], <<a, u>> \in interrupted, row)
    BY <1>9, <2>2
  <2>5. row \in ResultRows /\ SameKey(Plan[u], row) /\ u \in Units
    BY <1>1, <1>4
  <2> HIDE DEF g, a, u
  <2>6. ~f.units[u].done
    BY <2>1 DEF u
  <2>7. f.results \in Seq(ResultRows) /\ g.results = AppendUnitResult(f.results, row)
    BY <2>1, <2>2
  <2>8. RowsOf(a, f, expFile, interrupted)
    BY <2>1 DEF a
  <2> QED BY ONLY <2>3, <2>4, <2>5, <2>6, <2>7, <2>8, RowAdded
<1>12. SweepSettled(a, g, expFile', interrupted)
  <2>1. g.status = "running"
    BY <1>1 DEF f
  <2>2. \A v \in Units : expFile'[<<a, v>>].st # "none" => g.units[v].exp
    <3> TAKE v \in Units
    <3>1. CASE v = u
      BY <1>1, <1>5, <3>1 DEF f
    <3>2. CASE v # u
      BY <1>5, <1>6, <1>10, <3>2 DEF SweepSettled
    <3> QED BY <3>1, <3>2
  <2> HIDE DEF g
  <2> QED BY <1>11, <2>1, <2>2 DEF SweepSettled
<1>13. ASSUME NEW t \in Sweeps, t # a PROVE SweepSettled(t, sweepFile'[t], expFile', interrupted')
  <2> DEFINE o == sweepFile[t]
  <2>1. ASSUME NEW v \in Units PROVE expFile'[<<t, v>>] = expFile[<<t, v>>]
    <3>1. <<t, v>> \in SweepExps /\ <<t, v>> # Exp
      BY <1>1, <1>13 DEF SweepExps
    <3> QED BY <3>1
  <2>2. SweepSettled(t, o, expFile, interrupted)
    BY SettledUnfolds
  <2>3. sweepFile'[t] = o
    BY <1>3, <1>13
  <2> HIDE DEF o
  <2>4. \A v \in Units : /\ o.units[v].done = o.units[v].done /\ o.units[v].status = o.units[v].status
                         /\ o.units[v].exp => o.units[v].exp
                         /\ o.units[v].done => expFile'[<<t, v>>] = expFile[<<t, v>>] \/ expFile[<<t, v>>].st \notin Terminal
                         /\ expFile'[<<t, v>>].st # "none" => expFile[<<t, v>>].st # "none" \/ o.units[v].exp
    BY <2>1
  <2>5. SweepSettled(t, o, expFile', interrupted)
    BY ONLY <2>2, <2>4, SettledMoved
  <2> QED BY <2>3, <2>5
<1>14. \A t \in Sweeps : SweepSettled(t, sweepFile'[t], expFile', interrupted')
  BY <1>3, <1>12, <1>13
<1>15. SweepTypes'
  <2>1. runner' \in [pc : {"idle", "check", "ensure", "start", "failed", "poll", "record", "finish", "leave"},
                     u : Units \cup {0}, last : StatusesOfExps] /\ runner'.pc = "check"
    BY <1>0 DEF SweepTypes
  <2>2. \A t \in Sweeps : StoredSweep(sweepFile'[t])
    BY <1>0, <1>3, <1>8 DEF SweepTypes
  <2> QED BY <1>0, <1>3, <2>1, <2>2 DEF SweepTypes
<1>16. RunnerOwn'
  <2>1. runner'.pc = "check"
    BY <1>0 DEF SweepTypes
  <2>2. sweepFile'[a].status = "running"
    BY <1>1, <1>3 DEF f
  <2> QED BY <1>1, <2>1, <2>2, SweepAssumption DEF RunnerOwn
<1>17. (emActive \in SweepExps => expFile[emActive].st = "running")'
  BY <1>0 DEF ExperimentsOwn
<1> QED BY <1>14, <1>15, <1>16, <1>17, SettledUnfolds

\* A unit could not be started, or its experiment is recorded.
LEMMA UnitOverSteps ==
  ASSUME SweepInv, RecordFailed \/ Record
  PROVE  SweepInv'
<1> USE DEF At
<1>0. SweepTypes /\ RunnerOwn /\ ExperimentsOwn
  BY DEF SweepInv
<1>1. runner.pc \in {"failed", "record"}
  BY DEF RecordFailed, Record
<1>2. /\ sweepActive \in Sweeps /\ runner.u \in Units /\ Exp \in SweepExps /\ Exp # NoExp
      /\ Exp = <<sweepActive, runner.u>> /\ expFile \in [SweepExps -> Measured]
  BY <1>0, <1>1, ExpInHand DEF SweepTypes
<1>3. expFile[Exp].st # "none" => sweepFile[sweepActive].units[runner.u].exp
  BY <1>0, <1>2 DEF ExperimentsOwn
<1>4. "failed" \in StatusesOfExps \cup {"unknown"} /\ NoExp \in {NoExp, Exp}
  BY DEF StatusesOfExps, Terminal
<1>5. ASSUME runner' = [runner EXCEPT !.pc = "check"], UNCHANGED <<sweepFile, expFile>>,
             UNCHANGED <<sweepActive, sweepStopReq, stopper, emActive, emStopping, interrupted>>
      PROVE  SweepInv'
  <2>1. SweepTypes'
    BY <1>0, <1>5 DEF SweepTypes
  <2>2. RunnerOwn'
    <3>1. runner'.pc = "check"
      BY <1>0, <1>5 DEF SweepTypes
    <3> QED BY <1>0, <1>1, <1>2, <1>5, <3>1, SweepAssumption DEF RunnerOwn
  <2>3. (emActive \in SweepExps => expFile[emActive].st = "running")'
    BY <1>0, <1>5 DEF ExperimentsOwn
  <2>4. \A s \in Sweeps : SweepSettled(s, sweepFile'[s], expFile', interrupted')
    BY <1>5, SettledUnfolds
  <2> QED BY <2>1, <2>2, <2>3, <2>4, SettledUnfolds
<1>6. CASE Record
  <2> DEFINE st == IF runner.last = "none" THEN "unknown" ELSE runner.last
             e == IF runner.last = "none" THEN NoExp ELSE Exp
  <2>1. /\ UnitDone(st, e) /\ runner' = [runner EXCEPT !.pc = "check"] /\ runner.pc = "record"
        /\ UNCHANGED <<sweepActive, sweepStopReq, stopper, emActive, emStopping, interrupted>>
        /\ expFile' = expFile
    BY <1>6 DEF Record, RunnerOnly
  <2>2. Exp \in interrupted \/ (runner.last \in Terminal /\ expFile[Exp].st = runner.last)
    BY <1>0, <2>1 DEF RunnerOwn
  <2>3. st \in StatusesOfExps \cup {"unknown"} /\ e \in {NoExp, Exp} /\ "none" \notin Terminal
    BY <1>0 DEF SweepTypes, Terminal
  <2>4. \/ e = NoExp /\ (st = "failed" \/ (st = "unknown" /\ Exp \in interrupted))
        \/ e = Exp /\ expFile' = expFile /\ (Exp \in interrupted \/ (st \in Terminal /\ expFile[Exp].st = st))
    BY <2>1, <2>2, <2>3
  <2> HIDE DEF st, e
  <2>5. CASE StoreUnit(st, e)
    BY <1>1, <1>2, <1>3, <2>1, <2>3, <2>4, <2>5, RowStored
  <2>6. CASE UNCHANGED sweepFile
    BY <1>5, <2>1, <2>6
  <2> QED BY <2>1, <2>5, <2>6 DEF UnitDone
<1>7. CASE RecordFailed
  <2>1. /\ UnitDone("failed", NoExp) /\ runner' = [runner EXCEPT !.pc = "check"]
        /\ UNCHANGED <<sweepActive, sweepStopReq, stopper, emActive, emStopping, interrupted>>
        /\ expFile' = expFile
    BY <1>7 DEF RecordFailed, RunnerOnly
  <2>2. CASE StoreUnit("failed", NoExp)
    BY <1>1, <1>2, <1>3, <1>4, <2>1, <2>2, RowStored
  <2>3. CASE UNCHANGED sweepFile
    BY <1>5, <2>1, <2>3
  <2> QED BY <2>1, <2>2, <2>3 DEF UnitDone
<1> QED BY <1>6, <1>7

\* The sweep ends: its report is built from the rows it has.
LEMMA FinishStep ==
  ASSUME SweepInv, FinishSweep
  PROVE  SweepInv'
<1> USE DEF At
<1>0. SweepTypes /\ RunnerOwn /\ ExperimentsOwn
  BY DEF SweepInv
<1> DEFINE a == sweepActive
           f == sweepFile[a]
           tunable == SweepHasSystemParam(Params)
<1>1. /\ runner' = [runner EXCEPT !.pc = "leave"] /\ runner.pc = "finish"
      /\ UNCHANGED <<sweepActive, sweepStopReq, stopper, expFile, emActive, emStopping, interrupted>>
  BY DEF FinishSweep, RunnerOnly
<1>2. a \in Sweeps /\ runner.last \in {"stopped", "completed"}
  BY <1>0, <1>1 DEF SweepTypes, RunnerOwn
<1>3. StoredSweep(f) /\ SweepSettled(a, f, expFile, interrupted)
  BY <1>0, <1>2, SettledUnfolds DEF SweepTypes
<1>4. /\ \A t \in Sweeps : t # a => sweepFile'[t] = sweepFile[t]
      /\ sweepFile' = [t \in Sweeps |-> sweepFile'[t]]
      /\ StoredSweep(sweepFile'[a]) /\ SweepSettled(a, sweepFile'[a], expFile, interrupted)
  <2>1. CASE UNCHANGED sweepFile
    BY <1>0, <1>3, <2>1 DEF SweepTypes
  <2>2. CASE ~UNCHANGED sweepFile
    <3>1. PICK rep \in IF f.results = <<>> THEN {NoReport} ELSE BuildCrossRegimeReports(f.results, Regimes, tunable) :
            sweepFile' = [sweepFile EXCEPT ![a] = [f EXCEPT !.status = runner.last, !.report = rep,
                                                            !.results = FlagBest(f.results, rep)]]
      BY <2>2 DEF FinishSweep
    <3> DEFINE R == FlagBest(f.results, rep)
               g == [status |-> runner.last, results |-> R, report |-> rep, units |-> f.units]
    <3>2. f = [status |-> f.status, results |-> f.results, report |-> f.report, units |-> f.units]
      BY <1>3 DEF StoredSweep
    <3>3. [f EXCEPT !.status = runner.last, !.report = rep, !.results = R] = g
      <4> DEFINE b == f.results
                 c == f.report
                 d == f.units
                 l == runner.last
      <4>1. f = [status |-> f.status, results |-> b, report |-> c, units |-> d]
        BY <3>2
      <4> DEFINE f1 == [f EXCEPT !.status = l]
                 f2 == [f1 EXCEPT !.report = rep]
      <4> HIDE DEF b, c, d, l, R
      <4>2. f1 = [status |-> l, results |-> b, report |-> c, units |-> d]
        BY <4>1
      <4> HIDE DEF f1
      <4>3. f2 = [status |-> l, results |-> b, report |-> rep, units |-> d]
        BY <4>2
      <4> HIDE DEF f2
      <4>4. [f2 EXCEPT !.results = R] = [status |-> l, results |-> R, report |-> rep, units |-> d]
        BY <4>3
      <4> QED BY <4>4 DEF f1, f2, l, d
    <3> HIDE DEF g
    <3>4. /\ sweepFile'[a] = g /\ \A t \in Sweeps : t # a => sweepFile'[t] = sweepFile[t]
          /\ sweepFile' = [t \in Sweeps |-> sweepFile'[t]]
      <4>1. sweepFile = [t \in Sweeps |-> sweepFile[t]]
        BY <1>0 DEF SweepTypes
      <4>2. sweepFile' = [sweepFile EXCEPT ![a] = g]
        BY <3>1, <3>3
      <4> QED BY <1>2, <4>1, <4>2
    <3>5. g.status = runner.last /\ g.results = R /\ g.report = rep /\ g.units = f.units
      BY DEF g
    <3>6. f.results \in Seq(ResultRows) /\ f.units \in [Units -> UnitRecords]
      BY <1>3 DEF StoredSweep
    <3> DEFINE rs == f.results
    <3>7. ReportFits(rs, rep)
      <4>1. CASE rs = <<>>
        <5>1. rep = NoReport
          BY <3>1, <4>1
        <5>2. DOMAIN rs = {}
          BY <4>1
        <5> QED BY <5>1, <5>2, EmptyFits
      <4>2. CASE rs # <<>>
        <5>1. rep \in BuildCrossRegimeReports(rs, Regimes, tunable)
          BY <3>1, <4>2
        <5>2. \A i \in DOMAIN rs : rs[i].regime \in Range(Regimes)
          <6> HIDE DEF rs
          <6>1. rs \in Seq(ResultRows)
            BY <3>6 DEF rs
          <6>2. \A i \in DOMAIN rs : rs[i] \in ResultRows
            BY <6>1, LenProperties, ElementOfSeq
          <6> QED BY <6>2 DEF ResultRows
        <5> HIDE DEF rs, tunable
        <5> QED BY <5>1, <5>2, BuiltFits
      <4> QED BY <4>1, <4>2
    <3>8. rs \in Seq(ResultRows) /\ R = FlagBest(rs, rep)
      BY <3>6
    <3> HIDE DEF rs
    <3>9. /\ ReportFits(R, rep) /\ R \in Seq(ResultRows) /\ DOMAIN R = DOMAIN rs
          /\ \A i \in DOMAIN rs :
                /\ R[i].regime = rs[i].regime /\ R[i].cfg = rs[i].cfg /\ R[i].exp = rs[i].exp
                /\ R[i].status = rs[i].status /\ R[i].thr = rs[i].thr /\ R[i].p99 = rs[i].p99
                /\ R[i].dlv = rs[i].dlv
      BY <3>7, <3>8, FlaggedFits
    <3> HIDE DEF R
    <3>10. StoredSweep(g)
      BY <1>2, <3>5, <3>6, <3>9 DEF StoredSweep, g
    <3>11. RowsOf(a, g, expFile, interrupted)
      <4>1. RowsOf(a, f, expFile, interrupted)
        BY <1>3 DEF SweepSettled
      <4>2. /\ DOMAIN g.results = DOMAIN f.results
            /\ \A i \in DOMAIN f.results :
                  /\ g.results[i].regime = f.results[i].regime /\ g.results[i].cfg = f.results[i].cfg
                  /\ g.results[i].exp = f.results[i].exp /\ g.results[i].status = f.results[i].status
                  /\ g.results[i].thr = f.results[i].thr /\ g.results[i].p99 = f.results[i].p99
                  /\ g.results[i].dlv = f.results[i].dlv
        BY <3>5, <3>9 DEF rs
      <4>3. \A u \in Units :
              /\ g.units[u].done = f.units[u].done /\ g.units[u].status = f.units[u].status
              /\ f.units[u].done => expFile[<<a, u>>] = expFile[<<a, u>>] \/ expFile[<<a, u>>].st \notin Terminal
        BY <3>5
      <4> HIDE DEF f, a
      <4> QED BY ONLY <4>1, <4>2, <4>3, RowsKept
    <3>12. SweepSettled(a, g, expFile, interrupted)
      BY <1>3, <3>5, <3>9, <3>11 DEF SweepSettled
    <3> QED BY <3>4, <3>10, <3>12
  <2> QED BY <2>1, <2>2
<1>5. SweepTypes'
  <2>1. \A t \in Sweeps : StoredSweep(sweepFile'[t])
    BY <1>0, <1>4 DEF SweepTypes
  <2> QED BY <1>0, <1>1, <1>4, <2>1 DEF SweepTypes
<1>6. RunnerOwn'
  <2>1. runner'.pc = "leave"
    BY <1>0, <1>1 DEF SweepTypes
  <2> QED BY <1>1, <1>2, <2>1, SweepAssumption DEF RunnerOwn
<1>7. (emActive \in SweepExps => expFile[emActive].st = "running")'
  BY <1>0, <1>1 DEF ExperimentsOwn
<1>8. \A t \in Sweeps : SweepSettled(t, sweepFile'[t], expFile', interrupted')
  <2> TAKE t \in Sweeps
  <2>1. CASE t = a
    BY <1>1, <1>4, <2>1
  <2>2. CASE t # a
    BY <1>1, <1>4, <2>2, SettledUnfolds
  <2> QED BY <2>1, <2>2
<1> QED BY <1>5, <1>6, <1>7, <1>8, SettledUnfolds

\* Sweeps as Create stores them.
LEMMA SweepStartsSettled == SweepInit => SweepInv
<1> SUFFICES ASSUME SweepInit PROVE SweepInv
  OBVIOUS
<1> USE DEF At
<1>1. /\ sweepFile = [s \in Sweeps |-> CreatedSweep] /\ expFile = [e \in SweepExps |-> Unmeasured("none")]
      /\ sweepActive = NoSweep /\ sweepStopReq = FALSE /\ runner = IdleRunner /\ stopper = NoSweep
      /\ emActive = NoExp /\ emStopping = FALSE /\ interrupted = {}
  BY DEF SweepInit
<1>2. /\ StoredSweep(CreatedSweep) /\ CreatedSweep.status = "created" /\ CreatedSweep.results = <<>>
      /\ \A u \in Units : ~CreatedSweep.units[u].done
  <2>1. [u \in Units |-> [exp |-> FALSE, done |-> FALSE, status |-> "none"]] \in [Units -> UnitRecords]
    BY DEF UnitRecords, StatusesOfExps
  <2>2. <<>> \in Seq(ResultRows)
    BY EmptySeq
  <2> QED BY <2>1, <2>2 DEF CreatedSweep, StoredSweep
<1>3. Unmeasured("none") \in Measured /\ Unmeasured("none").st = "none"
  BY DEF Unmeasured, Measured, StatusesOfExps
<1>4. SweepTypes
  <2>1. \A s \in Sweeps : sweepFile[s] = CreatedSweep
    BY <1>1
  <2>2. expFile \in [SweepExps -> Measured]
    BY <1>1, <1>3
  <2>3. sweepFile = [s \in Sweeps |-> sweepFile[s]]
    BY <1>1
  <2> HIDE DEF At
  <2> QED BY <1>1, <1>2, <2>1, <2>2, <2>3 DEF SweepTypes, IdleRunner, StatusesOfExps
<1>5. RunnerOwn
  BY <1>1 DEF RunnerOwn, IdleRunner
<1>6. ExperimentsOwn
  <2>1. \A e \in SweepExps : expFile[e].st = "none"
    BY <1>1, <1>3
  <2> QED BY <1>1, <2>1, SweepAssumption DEF ExperimentsOwn, SweepExps
<1>7. RowsOwn
  <2> SUFFICES ASSUME NEW s \in Sweeps PROVE RowsOf(s, sweepFile[s], expFile, interrupted)
    BY RowsOwnUnfolds
  <2>1. sweepFile[s] = CreatedSweep /\ DOMAIN CreatedSweep.results = {}
    BY <1>1, <1>2
  <2> QED BY <1>2, <2>1 DEF RowsOf
<1>8. ReportSound
  BY <1>1, <1>2 DEF ReportSound
<1> QED BY <1>4, <1>5, <1>6, <1>7, <1>8 DEF SweepInv

\* Every step keeps the invariant.
LEMMA SweepStep ==
  ASSUME SweepInv, [SweepNext]_sweepVars
  PROVE  SweepInv'
<1>1. CASE UNCHANGED sweepVars
  <2>1. /\ sweepFile' = sweepFile /\ expFile' = expFile /\ interrupted' = interrupted
        /\ UNCHANGED <<sweepActive, sweepStopReq, runner, stopper, emActive, emStopping>>
    BY <1>1 DEF sweepVars
  <2>2. SweepTypes /\ RunnerOwn /\ ExperimentsOwn
    BY DEF SweepInv
  <2>3. SweepTypes' /\ RunnerOwn' /\ (emActive \in SweepExps => expFile[emActive].st = "running")'
    BY <2>1, <2>2 DEF SweepTypes, RunnerOwn, ExperimentsOwn, PendingUnits, Exp, At
  <2>4. \A s \in Sweeps : SweepSettled(s, sweepFile'[s], expFile', interrupted')
    BY <2>1, SettledUnfolds
  <2> QED BY <2>3, <2>4, SettledUnfolds
<1>2. CASE SweepNext
  <2>1. CASE \E s \in Sweeps : SweepStart(s)
    BY <2>1, StartSweepStep
  <2>2. CASE \/ \E s \in Sweeps : SweepStop(s)
             \/ SweepStopExperiment \/ NextUnit \/ FindExperiment \/ Poll \/ PollStopped \/ LeaveSweep
             \/ CreateFails \/ StartRefusedByManager \/ OtherStart \/ UserStop \/ SweepCrash
    BY <2>2, QuietSteps
  <2>3. CASE CreateExperiment \/ StartExperiment \/ LaunchFailsAtOnce
    BY <2>3, ExperimentSteps
  <2>4. CASE RecordFailed \/ Record
    BY <2>4, UnitOverSteps
  <2>5. CASE FinishSweep
    BY <2>5, FinishStep
  <2>6. CASE EmEnd
    BY <2>6, EmEndStep
  <2> QED BY <1>2, <2>1, <2>2, <2>3, <2>4, <2>5, <2>6 DEF SweepNext, RunnerStep
<1> QED BY <1>1, <1>2

\* The invariant gives RowIsOwn: rows of one key are one row.
LEMMA RowIsOwnFromInv == SweepInv => RowIsOwn
<1> SUFFICES ASSUME SweepInv, NEW s \in Sweeps, NEW u \in Units
             PROVE  LET f == sweepFile[s]
                        rows == {i \in DOMAIN f.results : f.results[i].regime = Plan[u].regime /\ f.results[i].cfg = Plan[u].cfg}
                    IN /\ Cardinality(rows) = IF \E v \in SameRow(u) : f.units[v].done THEN 1 ELSE 0
                       /\ \A i \in rows : \E v \in SameRow(u) : ShowsUnit(s, v, f.results[i])
  BY DEF RowIsOwn
<1> DEFINE f == sweepFile[s]
           rows == {i \in DOMAIN f.results : f.results[i].regime = Plan[u].regime /\ f.results[i].cfg = Plan[u].cfg}
<1>1. RowsOf(s, f, expFile, interrupted)
  BY RowsOwnUnfolds DEF SweepInv
<1>2. \A i, j \in rows : i = j
  BY <1>1 DEF RowsOf, SameKey
<1>3. ASSUME NEW i \in rows PROVE \E v \in SameRow(u) : ShowsUnit(s, v, f.results[i]) /\ f.units[v].done
  <2>1. PICK v \in Units : /\ SameKey(Plan[v], f.results[i])
                           /\ Shows(f.units[v], <<s, v>>, expFile[<<s, v>>], <<s, v>> \in interrupted, f.results[i])
    BY <1>1 DEF RowsOf
  <2>2. v \in SameRow(u)
    BY <2>1 DEF SameRow, SameKey
  <2>3. f.units[v].done /\ ShowsUnit(s, v, f.results[i])
    BY <2>1 DEF Shows, ShowsUnit
  <2> QED BY <2>2, <2>3
<1>4. ASSUME NEW v \in SameRow(u), f.units[v].done PROVE rows # {}
  <2>1. v \in Units /\ Plan[v].regime = Plan[u].regime /\ Plan[v].cfg = Plan[u].cfg
    BY DEF SameRow
  <2>2. PICK i \in DOMAIN f.results : SameKey(Plan[v], f.results[i])
    BY <1>1, <1>4, <2>1 DEF RowsOf
  <2> QED BY <2>1, <2>2 DEF SameKey
<1> HIDE DEF rows, f
<1>5. Cardinality(rows) = IF \E v \in SameRow(u) : f.units[v].done THEN 1 ELSE 0
  <2>1. CASE rows = {}
    BY <1>4, <2>1, FS_EmptySet
  <2>2. CASE rows # {}
    <3>1. PICK i : rows = {i}
      BY <1>2, <2>2
    <3>2. Cardinality(rows) = 1
      BY <3>1, FS_Singleton
    <3> QED BY <1>3, <2>2, <3>2
  <2> QED BY <2>1, <2>2
<1> QED BY <1>3, <1>5 DEF rows, f

\* The invariant of the sweep manager.
LEMMA SweepInvariant == SweepInit /\ [][SweepNext]_sweepVars => []SweepInv
  BY SweepStartsSettled, SweepStep, PTL

\* RowIsOwn for any number of sweeps, parameters, regimes, calls and faults (runSweep, appendUnitResult):
\* every unit that is done has one row, and it shows the unit's own experiment.
THEOREM RowIsOwnHolds == SweepInit /\ [][SweepNext]_sweepVars => []RowIsOwn
  BY SweepInvariant, RowIsOwnFromInv, PTL

\* ReportSound for any number of sweeps, parameters, regimes, calls and faults (finishSweep, pickBest,
\* evaluateGate): the report of an ended sweep fits all its rows.
THEOREM ReportSoundHolds == SweepInit /\ [][SweepNext]_sweepVars => []ReportSound
<1>1. SweepInv => ReportSound
  BY DEF SweepInv
<1> QED BY <1>1, SweepInvariant, PTL
=============================================================================
