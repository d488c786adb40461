------------------------------ MODULE Discovery ------------------------------
(***************************************************************************)
(* Service discovery through etcd (distributed/etcdreg): KeepAlive and     *)
(* Register keep the key of a comet or logic instance alive under a lease; *)
(* Watch in the job process lists the service and re-lists it on every     *)
(* watch response, and cometPool.apply rebuilds the connection pool from   *)
(* the list.  etcd itself is external: a key belongs to the lease of its   *)
(* last Put and disappears with that lease.                                *)
(***************************************************************************)
EXTENDS Integers, FiniteSets

CONSTANTS
  Addrs,      \* instances of the service; an instance keeps its address over restarts
  MaxFaults,  \* bound on crashes, failed calls, lapsed leases and lost watches together
  MaxStops,   \* bound on termination signals
  NoLease

\* Every Grant follows a start, a fault or a stop.
Leases == 1..(Cardinality(Addrs) + MaxFaults + MaxStops)

ASSUME DiscoveryAssumption ==
  /\ IsFiniteSet(Addrs) /\ MaxFaults \in Nat /\ MaxStops \in Nat
  /\ NoLease \notin Leases

VARIABLES
  leased, alive, key,  \* etcd: leases granted so far, those not lapsed, the lease of each key
  proc,                 \* the instance: "up", "stopping" (ctx cancelled), "exited", "crashed"
  pc, held,             \* its KeepAlive loop and the lease it works with
  wpc, snap, events,    \* Watch: where it is, the list in hand, unread watch responses
  pool,                 \* cometPool.conns
  mishaps, stops,
  unseen                \* history: a change the watcher has no reason to re-list for

etcdVars == <<leased, alive, key>>
instVars == <<proc, pc, held>>
watchVars == <<wpc, snap, events, pool, unseen>>
vars == <<etcdVars, instVars, watchVars, mishaps, stops>>

Registered == {a \in Addrs : key[a] # NoLease}
Watching == wpc \in {"watch", "relist", "reapply"}

Init ==
  /\ leased = 0 /\ alive = {} /\ key = [a \in Addrs |-> NoLease]
  /\ proc = [a \in Addrs |-> "up"]
  /\ pc = [a \in Addrs |-> "grant"] /\ held = [a \in Addrs |-> NoLease]
  /\ wpc = "list" /\ snap = {} /\ events = 0 /\ pool = {} /\ unseen = FALSE
  /\ mishaps = 0 /\ stops = 0

Fault == mishaps < MaxFaults /\ mishaps' = mishaps + 1

\* A call of a stopping instance fails for free: its ctx is cancelled, or its
\* client is already closed.
CallFails(a) == IF proc[a] = "stopping" THEN UNCHANGED mishaps ELSE Fault

Alive(a) == proc[a] \in {"up", "stopping"}

Goto(a, l) == pc' = [pc EXCEPT ![a] = l]

\* A change of some key under the service prefix: an open watch delivers it in
\* a response of its own or together with the last unread one; between the
\* initial list and the opening of the watch nobody hears of it.
Notify ==
  /\ IF Watching
     THEN events' = events + 1 \/ (events > 0 /\ events' = events)
     ELSE events' = events
  /\ unseen' = (unseen \/ wpc \in {"apply", "open"})
  /\ UNCHANGED <<wpc, snap, pool>>

\* etcd drops lease l and the keys bound to it.
Drop(l) ==
  /\ alive' = alive \ {l}
  /\ key' = [a \in Addrs |-> IF key[a] = l THEN NoLease ELSE key[a]]
  /\ IF \E a \in Addrs : key[a] = l THEN Notify ELSE UNCHANGED watchVars
  /\ UNCHANGED leased

-----------------------------------------------------------------------------
(* Register *)

Grant(a) ==
  /\ Alive(a) /\ pc[a] = "grant"
  /\ leased + 1 \in Leases
  /\ leased' = leased + 1
  /\ alive' = alive \cup {leased + 1}
  /\ held' = [held EXCEPT ![a] = leased + 1]
  /\ Goto(a, "put")
  /\ UNCHANGED <<key, proc, watchVars, mishaps, stops>>

\* Put WithLease, which etcd refuses once the lease has lapsed; KeepAlive then
\* starts the renewal.
Put(a) ==
  /\ Alive(a) /\ pc[a] = "put"
  /\ held[a] \in alive
  /\ key' = [key EXCEPT ![a] = held[a]]
  /\ Notify
  /\ Goto(a, "serve")
  /\ UNCHANGED <<leased, alive, proc, held, mishaps, stops>>

\* Grant, Put or KeepAlive returns an error: the lease, if there is one, is left alone.
RegisterFails(a) ==
  /\ Alive(a) /\ pc[a] \in {"grant", "put"}
  /\ IF pc[a] = "put" /\ held[a] \notin alive THEN UNCHANGED mishaps ELSE CallFails(a)
  /\ held' = [held EXCEPT ![a] = NoLease]
  /\ Goto(a, "backoff")
  /\ UNCHANGED <<etcdVars, proc, watchVars, stops>>

\* Put is applied and its answer lost, or the call of KeepAlive after it fails.
PutAmbiguous(a) ==
  /\ Alive(a) /\ pc[a] = "put"
  /\ held[a] \in alive
  /\ CallFails(a)
  /\ key' = [key EXCEPT ![a] = held[a]]
  /\ Notify
  /\ held' = [held EXCEPT ![a] = NoLease]
  /\ Goto(a, "backoff")
  /\ UNCHANGED <<leased, alive, proc, stops>>

\* The keepalive channel is closed: ctx is cancelled, the lease has lapsed, or
\* the client gave the lease up although etcd has not.
KeepAliveClosed(a) ==
  /\ Alive(a) /\ pc[a] = "serve"
  /\ IF proc[a] = "stopping" \/ held[a] \notin alive THEN UNCHANGED mishaps ELSE Fault
  /\ Goto(a, "revoke")
  /\ UNCHANGED <<etcdVars, proc, held, watchVars, stops>>

\* Where KeepAlive goes when Register's goroutine has ended or a retry is due.
AfterRegister(a) == IF proc[a] = "stopping" THEN "returned" ELSE "grant"

\* The deferred Revoke, then close(done).
Revoke(a) ==
  /\ Alive(a) /\ pc[a] = "revoke"
  /\ Drop(held[a])
  /\ held' = [held EXCEPT ![a] = NoLease]
  /\ Goto(a, AfterRegister(a))
  /\ UNCHANGED <<proc, mishaps, stops>>

RevokeFails(a) ==
  /\ Alive(a) /\ pc[a] = "revoke"
  /\ CallFails(a)
  /\ held' = [held EXCEPT ![a] = NoLease]
  /\ Goto(a, AfterRegister(a))
  /\ UNCHANGED <<etcdVars, proc, watchVars, stops>>

\* Mutant: KeepAlive gives up after a failed Register.
BackoffGivesUp(a) ==
  /\ Alive(a) /\ pc[a] = "backoff"
  /\ Goto(a, "returned")
  /\ UNCHANGED <<etcdVars, proc, held, watchVars, mishaps, stops>>

\* KeepAlive: two seconds after a failed Register, or ctx.Done.
Backoff(a) ==
  /\ Alive(a) /\ pc[a] = "backoff"
  /\ Goto(a, AfterRegister(a))
  /\ UNCHANGED <<etcdVars, proc, held, watchVars, mishaps, stops>>

-----------------------------------------------------------------------------
(* The instance's process, and its leases at etcd *)

\* main: the signal cancels ctx ...
Stop(a) ==
  /\ proc[a] = "up"
  /\ stops < MaxStops /\ stops' = stops + 1
  /\ proc' = [proc EXCEPT ![a] = "stopping"]
  /\ UNCHANGED <<etcdVars, pc, held, watchVars, mishaps>>

\* ... and main returns without waiting for KeepAlive.
Exit(a) ==
  /\ proc[a] = "stopping"
  /\ proc' = [proc EXCEPT ![a] = "exited"]
  /\ held' = [held EXCEPT ![a] = NoLease]
  /\ Goto(a, "returned")
  /\ UNCHANGED <<etcdVars, watchVars, mishaps, stops>>

Crash(a) ==
  /\ Alive(a)
  /\ Fault
  /\ proc' = [proc EXCEPT ![a] = "crashed"]
  /\ held' = [held EXCEPT ![a] = NoLease]
  /\ Goto(a, "returned")
  /\ UNCHANGED <<etcdVars, watchVars, stops>>

Restart(a) ==
  /\ ~Alive(a)
  /\ proc' = [proc EXCEPT ![a] = "up"]
  /\ Goto(a, "grant")
  /\ UNCHANGED <<etcdVars, held, watchVars, mishaps, stops>>

\* A lease nobody renews lapses; one that is renewed lapses only when etcd
\* cannot be reached for a whole TTL.
LeaseExpires(l) ==
  /\ l \in alive
  /\ IF \E a \in Addrs : held[a] = l /\ pc[a] \in {"put", "serve"}
     THEN Fault ELSE UNCHANGED mishaps
  /\ Drop(l)
  /\ UNCHANGED <<instVars, stops>>

-----------------------------------------------------------------------------
(* Watch and cometPool.apply *)

AfterList == IF wpc = "list" THEN "apply" ELSE "reapply"
AfterApply == IF wpc \in {"list", "apply"} THEN "open" ELSE "watch"

List ==
  /\ wpc \in {"list", "relist"}
  /\ snap' = Registered
  /\ wpc' = AfterList
  /\ unseen' = FALSE
  /\ UNCHANGED <<etcdVars, instVars, events, pool, mishaps, stops>>

\* A failed list is logged or ignored; the callback is not called.
ListFails ==
  /\ wpc \in {"list", "relist"}
  /\ Fault
  /\ wpc' = AfterApply
  /\ unseen' = TRUE
  /\ UNCHANGED <<etcdVars, instVars, snap, events, pool, stops>>

\* cometPool.apply, under the pool's lock: dial the new ones, close the others.
\* Mutant: vanished instances stay in the pool.
PoolAfterKeep(p, addrs) == p \cup (addrs \ p)
PoolAfter(p, addrs) == (p \cup (addrs \ p)) \ {a \in p : a \notin addrs}

Apply ==
  /\ wpc \in {"apply", "reapply"}
  /\ pool' = PoolAfter(pool, snap)
  /\ wpc' = AfterApply
  /\ UNCHANGED <<etcdVars, instVars, snap, events, unseen, mishaps, stops>>

\* cli.Watch: from the current revision on.
OpenWatch ==
  /\ wpc = "open"
  /\ wpc' = "watch"
  /\ UNCHANGED <<etcdVars, instVars, snap, events, pool, unseen, mishaps, stops>>

\* for range wch
WatchResponse ==
  /\ wpc = "watch"
  /\ events > 0
  /\ events' = events - 1
  /\ wpc' = "relist"
  /\ UNCHANGED <<etcdVars, instVars, snap, pool, unseen, mishaps, stops>>

\* etcd cancels the watch (its revision was compacted): the loop ends for good.
WatchCloses ==
  /\ wpc = "watch"
  /\ Fault
  /\ wpc' = "returned"
  /\ UNCHANGED <<etcdVars, instVars, snap, events, pool, unseen, stops>>

-----------------------------------------------------------------------------
RegisterStep(a) == Grant(a) \/ Put(a) \/ KeepAliveClosed(a) \/ Revoke(a) \/ Backoff(a)
CallFailure(a) == RegisterFails(a) \/ PutAmbiguous(a) \/ RevokeFails(a)
WatchStep == List \/ Apply \/ OpenWatch \/ WatchResponse

Next ==
  \/ \E a \in Addrs : RegisterStep(a) \/ CallFailure(a)
                        \/ Stop(a) \/ Exit(a) \/ Crash(a) \/ Restart(a)
  \/ \E l \in Leases : LeaseExpires(l)
  \/ WatchStep \/ ListFails \/ WatchCloses

Spec == Init /\ [][Next]_vars

\* Loops run, calls succeed but for the bounded mishaps, a lease that is not
\* renewed lapses.  Signals, exits, crashes and restarts owe nothing.
Lapses(l) == (\A a \in Addrs : held[a] # l) /\ LeaseExpires(l)

Fairness ==
  /\ \A a \in Addrs :
       /\ WF_vars(Grant(a)) /\ WF_vars(Put(a)) /\ WF_vars(Backoff(a))
       /\ WF_vars((proc[a] = "stopping" \/ held[a] \notin alive) /\ KeepAliveClosed(a))
       /\ WF_vars(Revoke(a) \/ RevokeFails(a))
       /\ WF_vars(held[a] \notin alive /\ RegisterFails(a))
  /\ \A l \in Leases : WF_vars(Lapses(l))
  /\ WF_vars(WatchStep)

FairSpec == Spec /\ Fairness

-----------------------------------------------------------------------------
(* Properties *)

\* Every variable has its type; an instance that puts, serves or revokes holds a lease.
TypeOK ==
  /\ leased \in {0} \cup Leases /\ alive \in SUBSET (1..leased)
  /\ key \in [Addrs -> alive \cup {NoLease}]
  /\ proc \in [Addrs -> {"up", "stopping", "exited", "crashed"}]
  /\ pc \in [Addrs -> {"grant", "put", "serve", "revoke", "backoff", "returned"}]
  /\ held \in [Addrs -> Leases \cup {NoLease}]
  /\ \A a \in Addrs : pc[a] \in {"put", "serve", "revoke"} <=> held[a] # NoLease
  /\ wpc \in {"list", "apply", "open", "watch", "relist", "reapply", "returned"}
  /\ snap \in SUBSET Addrs /\ pool \in SUBSET Addrs
  /\ events \in Nat /\ unseen \in BOOLEAN
  /\ mishaps \in 0..MaxFaults /\ stops \in 0..MaxStops

\* An instance that renews a live lease is discoverable: neither the lease of
\* its previous process nor a lease an ambiguous Put left behind takes the key
\* away when it lapses (etcdreg.go 46-79, 84-103).
RegistrationStands ==
  \A a \in Addrs : pc[a] = "serve" /\ held[a] \in alive => key[a] = held[a]

\* With no unread response, the pool is exactly the set of registered
\* instances, unless a list failed or a change fell between the initial list
\* and the opening of the watch (etcdreg.go 157-170, job/main.go 65-95).
PoolCurrent == wpc = "watch" /\ events = 0 /\ ~unseen => pool = Registered

\* What job relies on to find comets: registrations stand and its pool mirrors them.
DirectoryCurrent == RegistrationStands /\ PoolCurrent

\* In the end the registry mirrors the running instances: whoever is up is
\* registered, through lapsed leases and failed calls, and whoever is gone is
\* not, however it went (etcdreg.go 81-83).
RegistryConverges == <>[](Registered = {a \in Addrs : proc[a] = "up"})

\* Watch calls back on every change after the first list, so the pool ends up
\* equal to the registry: "then re-reads the whole list on every addition and
\* removal" (etcdreg.go 155-156).
PoolConverges == <>[](pool = Registered)

-----------------------------------------------------------------------------
(* The inductive invariant behind DirectoryCurrent *)

\* Only a running instance works with a lease, and only with one etcd has granted.
HeldGranted ==
  \A a \in Addrs :
    held[a] # NoLease => Alive(a) /\ held[a] <= leased

\* Since the last list, every change of the registry has left a trace: an unread response or unseen.
ListFollows ==
  ~unseen =>
    /\ wpc = "apply" => snap = Registered
    /\ wpc = "open" => pool = Registered
    /\ wpc = "reapply" /\ events = 0 => snap = Registered
    /\ wpc = "watch" /\ events = 0 => pool = Registered

DirectoryInv == TypeOK /\ HeldGranted /\ RegistrationStands /\ ListFollows
=============================================================================
