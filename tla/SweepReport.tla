---------------------------- MODULE SweepReport ----------------------------
(***************************************************************************)
(* The pure half of a sweep, ops/sweep.go: what a request expands to       *)
(* (Validate, cartesian, BuildSweepPlan). What the results of its units    *)
(* say about the configurations is CrossRegime's. A label is the sequence  *)
(* of the parameters it spells out.                                        *)
(***************************************************************************)
EXTENDS CrossRegime, Sequences, SequencesExt

CONSTANTS
  SweepMaxConfigs,   \* bound of the code on configurations x regimes
  EmptyValue, Unparsable  \* "", and a value that does not parse as its parameter's kind

SystemParams == {"batch_size", "batch_timeout", "workers"}
SweepParamKinds ==
  SystemParams \cup {"connections", "rooms", "message_rate", "distribution", "zipf_s"}

----------------------------------------------------------------------------
(* The plan                                                                *)

\* Regimes is never empty here: an empty list in the request means all of them.
Validate(params, regimes) ==
  LET combos == FoldLeft(LAMBDA n, p : n * Len(p.values), 1, params)
  IN /\ params # <<>>
     /\ \A i \in DOMAIN params :
          /\ params[i].name \in SweepParamKinds
          /\ Len(params[i].values) \in 1..64
          /\ \A j \in DOMAIN params : params[i].name = params[j].name => i = j
     /\ combos * Len(regimes) <= SweepMaxConfigs

\* What a value adds to the label: an integer of the system configuration that does not parse is
\* left at 0, a timeout is not parsed here, any other value that does not parse is left out.
Labelled(name, v) ==
  CASE name \in {"batch_size", "workers"} ->
         <<<<name, IF v \in {EmptyValue, Unparsable} THEN 0 ELSE v>>>>
    [] name = "batch_timeout" -> IF v = EmptyValue THEN <<>> ELSE <<<<name, v>>>>
    [] OTHER -> IF v \in {EmptyValue, Unparsable} THEN <<>> ELSE <<<<name, v>>>>

\* The labels of the configurations in the order of the plan: each parameter splits every
\* configuration of the parameters before it into one for each of its values.
Cartesian(params) ==
  LET combos[k \in 0..Len(params)] ==
        IF k = 0 THEN <<DefaultLabel>>
        ELSE LET p == params[k]
                 n == Len(p.values)
             IN [c \in 1..(Len(combos[k - 1]) * n) |->
                  combos[k - 1][((c - 1) \div n) + 1] \o Labelled(p.name, p.values[((c - 1) % n) + 1])]
  IN combos[Len(params)]

\* The units: the regimes of one configuration follow each other.
BuildSweepPlan(params, regimes) ==
  LET combos == Cartesian(params)
      n == Len(regimes)
  IN [u \in 1..(Len(combos) * n) |->
       LET c == ((u - 1) \div n) + 1
       IN [cfg |-> c, label |-> combos[c], regime |-> regimes[((u - 1) % n) + 1]]]

SweepHasSystemParam(params) == \E i \in DOMAIN params : params[i].name \in SystemParams
=============================================================================
