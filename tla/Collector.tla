----------------------------- MODULE Collector -----------------------------
(***************************************************************************)
(* The collector of the ops console, ops/collector.go: the poll loop lists *)
(* the instances from etcd, probes each of them concurrently, derives      *)
(* rates from two samples of a counter, rates the system's health, tells   *)
(* what changed as events and publishes a snapshot; the Kafka loop reads   *)
(* offsets at its own pace.                                                *)
(*                                                                         *)
(* The system under observation is the environment: instances register,    *)
(* restart with their counters at zero and stop answering, between any two *)
(* steps of a poll. One counter stands for an instance's counters and one  *)
(* partition for the topic. Rates are differences; the time between the    *)
(* samples divides them and is left out. The wording of events is left     *)
(* out.                                                                    *)
(***************************************************************************)
EXTENDS Integers, Sequences, SequencesExt

CONSTANTS
  Insts, Comets,     \* http addresses; the ones of comets
  EventBufferSize,
  NoSample, NoRate, NoLag,
  MaxCount, MaxOffset, MaxChanges, MaxPolls  \* bounds: counters, offsets, changes, polls

VARIABLES
  registered, answering, count,    \* the instances
  logEnd, committed,               \* the topic's end and the group's offset, -1 before its first commit
  poll,            \* pollOnce in progress: pc, etcd, the instances to probe and what was found
  lastService, prevStats, prevCounts, snap, kafka, events,  \* Collector's fields
  kafkaOn,         \* Config.KafkaBrokers names a broker
  kafkaJob,        \* kafkaOnce in progress
  changes, polls,  \* bound counters
  \* history
  grown,           \* per instance: how much its counters ever counted
  told             \* what a reader of the first snapshot and of every event since believes

worldVars == <<registered, answering, count, grown, logEnd, committed, changes>>
pollVars == <<poll, lastService, prevStats, prevCounts, snap, events, polls, told>>
kafkaVars == <<kafka, kafkaJob, kafkaOn>>
collectorVars == <<worldVars, pollVars, kafkaVars>>

NoSnap == [etcd |-> FALSE, health |-> "none", insts |-> <<>>]
IdlePoll == [pc |-> "idle", etcd |-> FALSE, todo |-> {}, insts |-> <<>>]

CollectorInit ==
  /\ registered = Insts /\ answering = Insts
  /\ count = [i \in Insts |-> 0] /\ grown = count
  /\ logEnd = 0 /\ committed = -1
  /\ poll = IdlePoll /\ snap = NoSnap
  /\ lastService = {}
  /\ kafkaOn \in BOOLEAN
  /\ prevStats = [i \in Insts |-> NoSample] /\ prevCounts = prevStats
  /\ kafka = [up |-> FALSE, lag |-> NoLag, listed |-> 0]
  /\ kafkaJob = [pc |-> "idle", latest |-> 0, listed |-> 0]
  /\ events = <<>>
  /\ told = NoSnap
  /\ changes = 0 /\ polls = 0

----------------------------------------------------------------------------
(* The observed system                                                     *)

WorldMay == changes < MaxChanges /\ changes' = changes + 1 /\ UNCHANGED <<pollVars, kafkaVars>>

Count(i) ==
  /\ i \in answering /\ grown[i] < MaxCount
  /\ count' = [count EXCEPT ![i] = @ + 1]
  /\ grown' = [grown EXCEPT ![i] = @ + 1]
  /\ UNCHANGED <<registered, answering, logEnd, committed>> /\ WorldMay

ProcessRestart(i) ==
  /\ count' = [count EXCEPT ![i] = 0]
  /\ UNCHANGED <<registered, answering, grown, logEnd, committed>> /\ WorldMay

Register(i) ==
  /\ registered' = IF i \in registered THEN registered \ {i} ELSE registered \cup {i}
  /\ UNCHANGED <<answering, count, grown, logEnd, committed>> /\ WorldMay

Answer(i) ==
  /\ answering' = IF i \in answering THEN answering \ {i} ELSE answering \cup {i}
  /\ UNCHANGED <<registered, count, grown, logEnd, committed>> /\ WorldMay

Produce ==
  /\ logEnd < MaxOffset /\ logEnd' = logEnd + 1
  /\ UNCHANGED <<registered, answering, count, grown, committed>> /\ WorldMay

Commit ==
  /\ committed < logEnd /\ committed' = logEnd
  /\ UNCHANGED <<registered, answering, count, grown, logEnd>> /\ WorldMay

----------------------------------------------------------------------------
(* pollOnce                                                                *)

\* Mutant: an unreachable etcd lists no instance.
PollListForgets ==
  /\ poll.pc = "idle" /\ polls < MaxPolls
  /\ \E up \in BOOLEAN :
       /\ lastService' = IF up THEN registered ELSE {}
       /\ poll' = [pc |-> "probe", etcd |-> up, todo |-> lastService', insts |-> <<>>]
  /\ polls' = polls + 1
  /\ UNCHANGED <<worldVars, kafkaVars, prevStats, prevCounts, snap, events, told>>

\* Without etcd the instances known last are probed.
PollList ==
  /\ poll.pc = "idle" /\ polls < MaxPolls
  /\ \E up \in BOOLEAN :
       /\ lastService' = IF up THEN registered ELSE lastService
       /\ poll' = [pc |-> "probe", etcd |-> up, todo |-> lastService', insts |-> <<>>]
  /\ polls' = polls + 1
  /\ UNCHANGED <<worldVars, kafkaVars, prevStats, prevCounts, snap, events, told>>

\* A sample remembers what was counted by then; blank: the page did not show the counter.
Sample(i, blank) == [v |-> IF blank THEN 0 ELSE count[i], grown |-> grown[i], blank |-> blank]

\* Mutant: a counter that went back is taken for one that wrapped.
DeltaAlways(prev, cur) ==
  IF prev = NoSample THEN NoRate
  ELSE [delta |-> IF cur.v < prev.v THEN prev.v - cur.v ELSE cur.v - prev.v,
        real |-> cur.grown - prev.grown, blank |-> prev.blank]

\* No rate without an earlier sample, nor when the counter went back.
Delta(prev, cur) ==
  IF prev = NoSample \/ cur.v < prev.v THEN NoRate
  ELSE [delta |-> cur.v - prev.v, real |-> cur.grown - prev.grown, blank |-> prev.blank]

Found(i, inst) ==
  poll' = [poll EXCEPT !.todo = @ \ {i}, !.insts = [j \in DOMAIN @ \cup {i} |-> IF j = i THEN inst ELSE @[j]]]

ProbeFails(i) ==
  /\ poll.pc = "probe" /\ i \in poll.todo \ answering
  /\ Found(i, [healthy |-> FALSE, rate |-> NoRate, cometRate |-> NoRate])
  /\ UNCHANGED <<worldVars, kafkaVars, lastService, prevStats, prevCounts, snap, events, polls, told>>

\* Healthy, but the statistics cannot be read.
ProbeWithoutStats(i) ==
  /\ poll.pc = "probe" /\ i \in poll.todo \cap answering
  /\ Found(i, [healthy |-> TRUE, rate |-> NoRate, cometRate |-> NoRate])
  /\ UNCHANGED <<worldVars, kafkaVars, lastService, prevStats, prevCounts, snap, events, polls, told>>

\* statRates, and for a comet cometRates. The status of a comet's /metrics answer is not looked at:
\* a page without the counters is a sample of zero, and the next difference counts from there.
ProbeInstance(i) ==
  /\ poll.pc = "probe" /\ i \in poll.todo \cap answering
  /\ prevStats' = [prevStats EXCEPT ![i] = Sample(i, FALSE)]
  /\ \E page \in IF i \notin Comets THEN {"none"} ELSE {"read", "empty", "failed"} :
       LET cur == Sample(i, page = "empty")
       IN /\ prevCounts' = IF page \in {"none", "failed"} THEN prevCounts
                           ELSE [prevCounts EXCEPT ![i] = cur]
          /\ Found(i, [healthy |-> TRUE, rate |-> Delta(prevStats[i], Sample(i, FALSE)),
                       cometRate |-> IF page \in {"none", "failed"} THEN NoRate
                                     ELSE Delta(prevCounts[i], cur)])
  /\ UNCHANGED <<worldVars, kafkaVars, lastService, snap, events, polls, told>>

Sick(insts) == {i \in DOMAIN insts : ~insts[i].healthy}

EvalHealth(etcd, insts) ==
  LET comets == DOMAIN insts \cap Comets
  IN IF (kafkaOn /\ ~kafka.up) \/ ~etcd \/ (comets # {} /\ comets \subseteq Sick(insts)) THEN "critical"
     ELSE IF comets = {} \/ Sick(insts) # {} THEN "degraded" ELSE "healthy"

\* The events between two snapshots, as a set: those of the instances come in no fixed order.
DiffEvents(prev, cur) ==
  LET was == DOMAIN prev.insts
      now == DOMAIN cur.insts
      Healthy(s, i) == s.insts[i].healthy
      Ev(kind, i) == [kind |-> kind, on |-> i]
  IN {Ev("registered", i) : i \in now \ was}
     \cup {Ev("unavailable", i) : i \in {j \in now \cap was : Healthy(prev, j) /\ ~Healthy(cur, j)}}
     \cup {Ev("recovered", i) : i \in {j \in now \cap was : ~Healthy(prev, j) /\ Healthy(cur, j)}}
     \cup {Ev("disappeared", i) : i \in was \ now}
     \cup (IF prev.etcd # cur.etcd THEN {Ev("etcd", cur.etcd)} ELSE {})
     \cup (IF prev.health # cur.health THEN {Ev("health", cur.health)} ELSE {})

\* eventBuffer.Add for each event.
AddEvents(buf, evs) ==
  LET all == buf \o SetToSeq(evs)
  IN SubSeq(all, IF Len(all) > EventBufferSize THEN Len(all) - EventBufferSize + 1 ELSE 1, Len(all))

\* What a reader believes after the events evs.
Believe(old, evs) ==
  LET About(kinds) == {e.on : e \in {d \in evs : d.kind \in kinds}}
      listed == (DOMAIN old.insts \cup About({"registered"})) \ About({"disappeared"})
      Latest(kind, was) == IF About({kind}) = {} THEN was ELSE CHOOSE v \in About({kind}) : TRUE
  IN [etcd |-> Latest("etcd", old.etcd), health |-> Latest("health", old.health),
      insts |-> [i \in listed |->
                   CASE i \in About({"registered"})  -> "listed"
                     [] i \in About({"recovered"})   -> "healthy"
                     [] i \in About({"unavailable"}) -> "sick"
                     [] OTHER                        -> old.insts[i]]]

Publish(s, evs) ==
  /\ snap' = s
  /\ events' = AddEvents(events, evs)
  /\ told' = IF snap = NoSnap
             THEN [s EXCEPT !.insts = [i \in DOMAIN @ |-> IF @[i].healthy THEN "healthy" ELSE "sick"]]
             ELSE Believe(told, evs)
  /\ poll' = IdlePoll
  \* prunePrev: the samples of instances that are gone
  /\ prevStats' = [i \in Insts |-> IF i \in DOMAIN s.insts THEN prevStats[i] ELSE NoSample]
  /\ prevCounts' = [i \in Insts |-> IF i \in DOMAIN s.insts THEN prevCounts[i] ELSE NoSample]
  /\ UNCHANGED <<worldVars, kafkaVars, lastService, polls>>

\* The first round tells no events.
PollPublish ==
  /\ poll.pc = "probe" /\ poll.todo = {}
  /\ LET s == [etcd |-> poll.etcd, health |-> EvalHealth(poll.etcd, poll.insts), insts |-> poll.insts]
     IN Publish(s, IF snap = NoSnap THEN {} ELSE DiffEvents(snap, s))

----------------------------------------------------------------------------
(* kafkaOnce                                                               *)

KafkaListOffsets ==
  /\ kafkaOn /\ kafkaJob.pc = "idle"
  /\ kafkaJob' = [pc |-> "fetch", latest |-> logEnd, listed |-> logEnd - committed]
  /\ UNCHANGED <<worldVars, pollVars, kafka, kafkaOn>>

\* A group without a commit, or whose offset cannot be fetched, has no lag.
KafkaFetchCommitted ==
  /\ kafkaJob.pc = "fetch"
  /\ \E ok \in BOOLEAN :
       kafka' = [up |-> TRUE, listed |-> kafkaJob.listed,
                 lag |-> IF ~ok \/ committed < 0 THEN NoLag ELSE kafkaJob.latest - committed]
  /\ kafkaJob' = [kafkaJob EXCEPT !.pc = "idle"]
  /\ UNCHANGED <<worldVars, pollVars, kafkaOn>>

KafkaFails ==
  /\ kafkaJob.pc = "idle" /\ kafka.up
  /\ kafka' = [up |-> FALSE, lag |-> NoLag, listed |-> 0]
  /\ UNCHANGED <<worldVars, pollVars, kafkaJob, kafkaOn>>

PollNext ==
  \/ \E i \in Insts : Count(i) \/ ProcessRestart(i) \/ Register(i) \/ Answer(i)
  \/ PollList \/ PollPublish
  \/ \E i \in Insts : ProbeFails(i) \/ ProbeWithoutStats(i) \/ ProbeInstance(i)

KafkaNext == KafkaListOffsets \/ KafkaFetchCommitted \/ KafkaFails

TopicNext == Produce \/ Commit

CollectorNext == PollNext \/ KafkaNext \/ TopicNext

----------------------------------------------------------------------------
(* Properties                                                              *)

\* NothingInvented: what the console shows was counted. A rate is never negative and never more than
\* the instance counted between the two samples it comes from, across restarts, failed probes and
\* instances that go and come back (statRates, cometRates, prunePrev), unless the earlier /metrics
\* page was one without the counters; a lag is never more than it was when the offsets were listed
\* (kafkaOnce).
NothingInvented ==
  /\ \A i \in DOMAIN snap.insts : \A r \in {snap.insts[i].rate, snap.insts[i].cometRate} \ {NoRate} :
       r.blank \/ (0 <= r.delta /\ r.delta <= r.real)
  /\ kafka.lag # NoLag => kafka.lag <= kafka.listed

\* EventsTell: the events lead from the first snapshot to the current one: whoever read them knows
\* the instances, etcd's state and the health rating, and the health of every instance that an event
\* was about since it registered (diffEvents).
EventsTell ==
  /\ told.etcd = snap.etcd /\ told.health = snap.health
  /\ DOMAIN told.insts = DOMAIN snap.insts
  /\ \A i \in DOMAIN snap.insts :
       told.insts[i] = "listed" \/ snap.insts[i].healthy = (told.insts[i] = "healthy")

\* ConsoleTruthful: what the console shows, numbers and events, is what happened to the instances
\* (pollOnce, kafkaOnce, diffEvents).
ConsoleTruthful == NothingInvented /\ EventsTell

\* OutageKeepsInstances: a snapshot taken while etcd does not answer shows the instances of the last
\* listing, so an outage of etcd alone never looks like a loss of instances (pollOnce).
OutageKeepsInstances ==
  [][snap' # snap /\ ~snap'.etcd => DOMAIN snap'.insts = DOMAIN snap.insts]_collectorVars

----------------------------------------------------------------------------
(* The inductive invariant behind ConsoleTruthful, OutageKeepsInstances    *)

Samples == {NoSample} \cup [v : Nat, grown : Nat, blank : BOOLEAN]

\* Since an earlier sample a counter has not grown by more than was counted.
SampleSound(s, i) ==
  s # NoSample => s.grown <= grown[i] /\ (s.blank \/ count[i] - s.v <= grown[i] - s.grown)

RateSound(r) == r # NoRate => r.blank \/ (0 <= r.delta /\ r.delta <= r.real)

InstsSound(insts) ==
  \A i \in DOMAIN insts : /\ insts[i].healthy \in BOOLEAN
                          /\ RateSound(insts[i].rate) /\ RateSound(insts[i].cometRate)

\* A poll has found, or is about to probe, the instances known last: those of the snapshot before
\* while etcd does not answer.
PollSound ==
  /\ poll.pc = "idle" => DOMAIN snap.insts = lastService
  /\ poll.pc = "probe" => /\ DOMAIN poll.insts \cup poll.todo = lastService
                          /\ ~poll.etcd => lastService = DOMAIN snap.insts

CollectorTypes ==
  /\ count \in [Insts -> Nat] /\ grown \in [Insts -> Nat]
  /\ prevStats \in [Insts -> Samples] /\ prevCounts \in [Insts -> Samples]
  /\ poll \in [pc : {"idle", "probe"}, etcd : BOOLEAN, todo : SUBSET Insts, insts : {poll.insts}]
  /\ registered \subseteq Insts /\ lastService \subseteq Insts
  /\ logEnd \in Int /\ committed \in Int
  /\ kafkaJob \in [pc : {"idle", "fetch"}, latest : Int, listed : Int]

CollectorInv ==
  /\ CollectorTypes /\ PollSound /\ EventsTell
  /\ \A i \in Insts : SampleSound(prevStats[i], i) /\ SampleSound(prevCounts[i], i)
  /\ InstsSound(poll.insts) /\ InstsSound(snap.insts)
  /\ kafkaJob.pc = "fetch" => kafkaJob.latest - committed <= kafkaJob.listed
  /\ kafka.lag # NoLag => kafka.lag <= kafka.listed
=============================================================================
