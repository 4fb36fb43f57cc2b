-------------------------------- MODULE Queues --------------------------------
(***************************************************************************)
(* The queue of each vendor and the worker that consumes it.  Jobs live in *)
(* Redis and survive the process; the maps of queues and workers do not.   *)
(*                                                                         *)
(* Creating a queue is one synchronous step, adding the job to it is a     *)
(* call to Redis that comes later.  BullMQ runs a job on the worker of its *)
(* queue, at most as many at a time as the worker allows, and hands the    *)
(* jobs of a worker that died to the next one.                             *)
(***************************************************************************)
EXTENDS Integers, FiniteSets

CONSTANTS
  Vendors,
  Jobs,
  DefaultConcurrency,
  MaxConcurrency,     \* maxConcurrencyPerVendor
  Requested,          \* the concurrencies staff ask for
  NoVendor            \* a job nobody has asked for yet

VARIABLES
  queue,       \* vendorQueues: the vendors in the map
  worker,      \* workers: the concurrency of each vendor's worker, 0 if none
  asked,       \* the vendor each job is for
  stage,       \* where each job is
  dropped      \* history: vendors whose worker a restart took

vars == <<queue, worker, asked, stage, dropped>>

Stages == {"new", "adding", "waiting", "active", "done"}

Init ==
  /\ queue = {}
  /\ worker = [v \in Vendors |-> 0]
  /\ asked = [j \in Jobs |-> NoVendor]
  /\ stage = [j \in Jobs |-> "new"]
  /\ dropped = {}

At(v, s) == {j \in Jobs : asked[j] = v /\ stage[j] = s}
Capped(n) == IF n > MaxConcurrency THEN MaxConcurrency ELSE n

\* Fault: the queue is created alone.
QueueAlone(v, n) ==
  /\ queue' = queue \cup {v}
  /\ UNCHANGED <<worker, dropped>>

\* getOrCreateVendorQueue: a queue that exists is left as it is; a new one gets
\* its worker first.
GetOrCreateVendorQueue(v, n) ==
  /\ queue' = queue \cup {v}
  /\ worker' = IF v \in queue THEN worker ELSE [worker EXCEPT ![v] = Capped(n)]
  /\ dropped' = IF v \in queue THEN dropped ELSE dropped \ {v}

\* addJobToVendorQueue, up to its call to Redis.
Enqueue(j, v) ==
  /\ stage[j] = "new"
  /\ GetOrCreateVendorQueue(v, DefaultConcurrency)
  /\ asked' = [asked EXCEPT ![j] = v]
  /\ stage' = [stage EXCEPT ![j] = "adding"]

\* The job is in Redis.
Add(j) ==
  /\ stage[j] = "adding"
  /\ stage' = [stage EXCEPT ![j] = "waiting"]
  /\ UNCHANGED <<queue, worker, asked, dropped>>

\* configureVendorConcurrency: the worker, new or old, gets the concurrency,
\* and then the queue is there.
Configure(v, n) ==
  LET effective == Capped(IF n < 1 THEN 1 ELSE n) IN
    /\ worker' = [worker EXCEPT ![v] = effective]
    /\ queue' = queue \cup {v}
    /\ dropped' = dropped \ {v}
    /\ UNCHANGED <<asked, stage>>

\* BullMQ takes a job up.
Start(j) ==
  /\ stage[j] = "waiting"
  /\ Cardinality(At(asked[j], "active")) < worker[asked[j]]
  /\ stage' = [stage EXCEPT ![j] = "active"]
  /\ UNCHANGED <<queue, worker, asked, dropped>>

Finish(j) ==
  /\ stage[j] = "active"
  /\ stage' = [stage EXCEPT ![j] = "done"]
  /\ UNCHANGED <<queue, worker, asked, dropped>>

\* The process crashes and starts again: requests and maps are gone, Redis
\* keeps what it has, and onModuleInit only writes a log line.
Restart ==
  /\ queue' = {}
  /\ worker' = [v \in Vendors |-> 0]
  /\ asked' = [j \in Jobs |-> IF stage[j] = "adding" THEN NoVendor ELSE asked[j]]
  /\ stage' = [j \in Jobs |-> CASE stage[j] = "adding" -> "new"
                                [] stage[j] = "active" -> "waiting"
                                [] OTHER -> stage[j]]
  /\ dropped' = dropped \cup {v \in Vendors : worker[v] > 0}

Next ==
  \/ \E j \in Jobs : (\E v \in Vendors : Enqueue(j, v)) \/ Add(j) \/ Start(j) \/ Finish(j)
  \/ \E v \in Vendors, n \in Requested : Configure(v, n)
  \/ Restart

Spec == Init /\ [][Next]_vars

(***************************************************************************)
(* Properties.                                                             *)
(***************************************************************************)
\* Jobs never sink: a vendor with jobs in its queue has a worker that will take
\* them, unless a restart took it and nobody has touched the vendor since; and
\* however staff and requests race, no vendor gets more than its share of the
\* process.
JobsHaveWorkers ==
  \A v \in Vendors :
    /\ At(v, "waiting") # {} => worker[v] > 0 \/ v \in dropped
    /\ Cardinality(At(v, "active")) =< MaxConcurrency

(***************************************************************************)
(* Why it holds: the inductive invariant of the proofs.                    *)
(***************************************************************************)
ConcurrencyAssumption ==
  /\ DefaultConcurrency \in Nat \ {0}
  /\ MaxConcurrency \in Nat \ {0}
  /\ Requested \subseteq Int

TypeOK ==
  /\ queue \subseteq Vendors
  /\ worker \in [Vendors -> 0..MaxConcurrency]
  /\ asked \in [Jobs -> Vendors \cup {NoVendor}]
  /\ stage \in [Jobs -> Stages]
  /\ dropped \subseteq Vendors

\* Whoever is in the map of queues is in the map of workers.
QueuesHaveWorkers == \A v \in queue : worker[v] > 0

\* A job on its way to Redis has its queue; one that is there has a worker, or
\* a restart took it; a worker runs no more jobs than a vendor may have.
Served(j) ==
  /\ stage[j] # "new" => asked[j] \in Vendors
  /\ stage[j] = "adding" => asked[j] \in queue
  /\ stage[j] \in {"waiting", "active"} => worker[asked[j]] > 0 \/ asked[j] \in dropped

WithinShare(v) ==
  IsFiniteSet(At(v, "active")) /\ Cardinality(At(v, "active")) =< MaxConcurrency

IInv ==
  /\ TypeOK
  /\ QueuesHaveWorkers
  /\ \A j \in Jobs : Served(j)
  /\ \A v \in Vendors : WithinShare(v)
================================================================================
