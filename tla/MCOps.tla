-------------------------------- MODULE MCOps --------------------------------
(***************************************************************************)
(* Small instances of ExperimentManager and of SweepManager. The sweep     *)
(* manager has its own, coarser picture of the experiment manager it       *)
(* drives, so the two are checked next to each other: focus, chosen at the *)
(* start, says which one moves.                                            *)
(***************************************************************************)
EXTENDS ExperimentManager, SweepManager

CONSTANTS e1, e2, c1, c2, g1, g2, small, s1

VARIABLE focus

all == <<vars, sweepVars, focus>>

OpsInit == Init /\ SweepInit /\ focus \in {"experiments", "sweeps"}

Experiments(A) == focus = "experiments" /\ A /\ UNCHANGED <<sweepVars, focus>>
SweepSteps(A) == focus = "sweeps" /\ A /\ UNCHANGED <<vars, focus>>

OpsNext == Experiments(Next) \/ SweepSteps(SweepNext)

\* The fairness of FairSpec and of SweepFairness.
OpsSpec ==
  /\ OpsInit /\ [][OpsNext]_all
  /\ \A a \in Actors : WF_all(Experiments(Step(a)))
  /\ WF_all(SweepSteps(RunnerStep)) /\ WF_all(SweepSteps(EmEnd))

----------------------------------------------------------------------------
\* e1 wants a configuration of the controlled server, e2 none.
MCConfig == [e \in Exps |-> IF e = e1 THEN small ELSE NoConfig]

\* Behaviours with a collision are followed to their end for two calls without other faults;
\* the properties promise nothing about longer ones. A third call of a sweep, the Start after a
\* Stop, is followed where nothing failed.
Few ==
  /\ collided => calls <= 2 /\ crashes + faults = 0
  /\ sweepCalls = 3 => sweepFaults = 0

\* Two configurations, the default one among them, in two regimes.
MCParams == <<[name |-> "batch_timeout", values |-> <<EmptyValue, 5>>]>>
MCRegimes == <<"low-fanout", "hot-room">>
Good(thr) == [st |-> "completed", thr |-> thr, p99 |-> 1, dlv |-> 1]
Slow(thr) == [st |-> "partial", thr |-> thr, p99 |-> 3, dlv |-> 1]
MCOutcomes == <<{Good(10)}, {Good(10), Slow(10)}, {Good(20), Slow(30)}, {Good(5)}>>
=============================================================================
