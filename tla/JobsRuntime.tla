---------------------------- MODULE JobsRuntime ----------------------------
(***************************************************************************)
(* The ordinary jobs runtime: the unfenced queue (stores/memory/queue.go), *)
(* the runner (sdk/pkg/workers/runner.go), the worker pool (pool.go) and   *)
(* the runtime that runs the queue pool beside the scheduler pool          *)
(* (logic/queue/runtime.go).                                               *)
(*                                                                         *)
(* Time is relative: a claim has an age and a pending job a delay, which   *)
(* the clock advances and which saturate, so the clock itself is unbounded *)
(* and liveness can be stated.  The poll and idle timers may fire at any   *)
(* moment, and the wake channel only makes them fire sooner.  Jobs of a    *)
(* kind without a handler are never claimed and are left out.              *)
(***************************************************************************)
EXTENDS Naturals, FiniteSets

CONSTANTS
    IDs,            \* job IDs
    Submissions,    \* what hosts enqueue: [id, priority, delay]
    Answers,        \* the outcomes the handlers of each job may have
    QueueWorkers,   \* workers of the queue pool
    Schedulers,     \* workers of the scheduler pool
    MaxAttempts,    \* the failure ceiling of a job
    Lease,          \* the store's lease
    MaxDelay,       \* bound: how far ahead a job is scheduled or deferred
    MaxFaults,      \* bound: crashes, failed store calls, deferrals, shutdown errors
    None            \* no job

\* What a handler answers: nil, an error, a permanent one or a deferral.
Outcomes == {"ok", "failed", "rejected", "deferred"}

ASSUME JobsAssumption ==
    /\ Submissions \subseteq [id : IDs, priority : Nat, delay : 0..MaxDelay]
    /\ Answers \in [IDs -> (SUBSET Outcomes) \ {{}}]
    /\ QueueWorkers \cap Schedulers = {} /\ None \notin IDs
    /\ MaxAttempts \in Nat \ {0} /\ Lease \in Nat /\ MaxDelay \in Nat /\ MaxFaults \in Nat

VARIABLES
    jobs,       \* the store: a function from the stored IDs to jobs
    order,      \* CreatedAt: the pairs of stored IDs of which the first is the older
    worker,     \* the pool workers
    ctx,        \* what has been canceled: "host", "runtime" or a pool
    fatal,      \* the pools in which ErrPoolShutdown was returned
    returned,   \* the pools whose Run has returned
    faults,     \* crashes, failed store calls, deferrals and shutdown errors so far
    late,       \* history: held jobs a handler of which outlived the lease
    spent,      \* history: failures of each job's handlers, a rejection as the ceiling
    abandoned,  \* history: jobs whose claim nobody will settle
    overrun     \* history: claims each worker made after its cancellation

vars == <<jobs, order, worker, ctx, fatal, returned, faults, late, spent, abandoned, overrun>>
pool == <<worker, ctx, fatal, returned, overrun>>

Workers == QueueWorkers \cup Schedulers
Pools == {"queue", "scheduler"}
PoolOf(w) == IF w \in QueueWorkers THEN "queue" ELSE "scheduler"
Members(p) == {w \in Workers : PoolOf(w) = p}

Job == [status : {"pending", "running", "completed", "dead_letter"}, priority : Nat,
        retries : 0..MaxAttempts, delay : 0..MaxDelay, age : 0..(Lease + 1)]

Terminal(j) == j.status \in {"completed", "dead_letter"}

\* f with x set to v, and f without x.
With(f, x, v) == [y \in DOMAIN f \cup {x} |-> IF y = x THEN v ELSE f[y]]
Without(f, x) == [y \in DOMAIN f \ {x} |-> f[y]]

Parked == [pc |-> "parked", job |-> None]
Goto(w, pc) == worker' = [worker EXCEPT ![w] = [pc |-> pc, job |-> None]]
Holders(id) == {w \in Workers : worker[w].job = id}

-----------------------------------------------------------------------------
(* Service.EnqueueJob and Service.PurgeTerminalJobs. *)

\* A stored ID is a duplicate and changes nothing.
Enqueue(in) ==
    /\ in.id \notin DOMAIN jobs
    /\ jobs' = With(jobs, in.id, [status |-> "pending", priority |-> in.priority, retries |-> 0,
                                  delay |-> in.delay, age |-> 0])
    /\ order' = order \cup {<<older, in.id>> : older \in DOMAIN jobs}
    /\ spent' = With(spent, in.id, 0)
    /\ UNCHANGED <<pool, faults, late, abandoned>>

\* Retention outlasts the slowest handler: no worker still holds the job.
PurgeTerminal(id) ==
    /\ id \in DOMAIN jobs /\ Terminal(jobs[id]) /\ Holders(id) = {}
    /\ jobs' = Without(jobs, id)
    /\ order' = {e \in order : e[1] # id /\ e[2] # id}
    /\ spent' = Without(spent, id)
    /\ abandoned' = abandoned \ {id}
    /\ UNCHANGED <<pool, faults, late>>

-----------------------------------------------------------------------------
(* The store calls of the runner. *)

\* Mutated form of due: a claim is stale when the lease is reached.
dueAtLease(j) ==
    \/ j.status = "pending" /\ j.delay = 0
    \/ j.status = "running" /\ j.age >= Lease

\* Mutated form of due: only pending jobs are claimed.
duePendingOnly(j) == j.status = "pending" /\ j.delay = 0

\* Pending and scheduled by now, or running with a claim older than the lease.
due(j) ==
    \/ j.status = "pending" /\ j.delay = 0
    \/ j.status = "running" /\ j.age > Lease

\* claimBefore: higher priority first, then the older one.
claimBefore(a, b) ==
    \/ jobs[a].priority > jobs[b].priority
    \/ jobs[a].priority = jobs[b].priority /\ <<a, b>> \in order

candidates == {id \in DOMAIN jobs : due(jobs[id])}
best == CHOOSE a \in candidates : \A b \in candidates : a = b \/ claimBefore(a, b)

\* Complete; a terminal job stays as it is.
completed(j) == IF Terminal(j) THEN j ELSE [j EXCEPT !.status = "completed", !.age = 0]

\* Mutated form of failedJob: a terminal job is failed like any other.
failedJobReopens(j, attempts) ==
    IF j.retries + 1 >= attempts
    THEN [j EXCEPT !.status = "dead_letter", !.retries = @ + 1, !.age = 0]
    ELSE [j EXCEPT !.status = "pending", !.retries = @ + 1, !.age = 0]

\* Fail; a terminal job stays as it is, and a pending one is counted too.
failedJob(j, attempts) ==
    IF Terminal(j) THEN j
    ELSE IF j.retries + 1 >= attempts
    THEN [j EXCEPT !.status = "dead_letter", !.retries = @ + 1, !.age = 0]
    ELSE [j EXCEPT !.status = "pending", !.retries = @ + 1, !.age = 0]

\* Mutated form of deferred: the deferral spends an attempt.
deferredSpends(j, delay) ==
    IF j.status # "running" THEN j
    ELSE [j EXCEPT !.status = "pending", !.delay = delay, !.age = 0, !.retries = @ + 1]

\* Defer, which only a running job admits.
deferred(j, delay) ==
    IF j.status # "running" THEN j
    ELSE [j EXCEPT !.status = "pending", !.delay = delay, !.age = 0]

-----------------------------------------------------------------------------
(* Pool.worker *)

Canceled(p) == ctx \cap {"host", "runtime", p} # {}

\* A timer, a wake-up or the cancellation ends the wait; after any of them the
\* context is looked at before an iteration begins.
Begin(w) ==
    /\ worker[w].pc = "parked" /\ w \in QueueWorkers
    /\ Goto(w, IF Canceled(PoolOf(w)) THEN "exited" ELSE "work")
    /\ UNCHANGED <<jobs, order, ctx, fatal, returned, faults, late, spent, abandoned, overrun>>

\* n faults happen now.
Faulty(n) == faults + n <= MaxFaults /\ faults' = faults + n

\* What an iteration with n faults hands to the pool: another one after a wait, or
\* the end of this worker (ErrWorkerShutdown) or of the pool (ErrPoolShutdown).
Leave(w, n) ==
    \/ Goto(w, "parked") /\ Faulty(n) /\ UNCHANGED <<ctx, fatal>>
    \/ Goto(w, "exited") /\ Faulty(n + 1) /\ UNCHANGED <<ctx, fatal>>
    \/ /\ Goto(w, "exited") /\ Faulty(n + 1)
       /\ fatal' = fatal \cup {PoolOf(w)} /\ ctx' = ctx \cup {PoolOf(w)}

\* The iteration of the queue pool: Runner.work claims, detached from the
\* cancellation by drainInFlight.  The store, or a middleware before it, may fail.
Claim(w) ==
    /\ worker[w].pc = "work" /\ w \in QueueWorkers
    /\ \/ /\ Leave(w, IF candidates = {} THEN 0 ELSE 1)
          /\ UNCHANGED <<jobs, abandoned, overrun>>
       \/ /\ candidates # {}
          /\ jobs' = [jobs EXCEPT ![best] = [@ EXCEPT !.status = "running", !.age = 0]]
          /\ worker' = [worker EXCEPT ![w] = [pc |-> "handle", job |-> best]]
          /\ abandoned' = abandoned \ {best}
          /\ overrun' = IF Canceled(PoolOf(w)) THEN [overrun EXCEPT ![w] = @ + 1] ELSE overrun
          /\ UNCHANGED <<ctx, fatal, faults>>
    /\ UNCHANGED <<order, returned, late, spent>>

\* Mutated form of settled: the runner's store calls see the cancellation.
settledUnlessCanceled(w, outcome) ==
    IF Canceled(PoolOf(w)) THEN {jobs[worker[w].job]}
    ELSE LET j == jobs[worker[w].job]
         IN CASE outcome = "ok" -> {completed(j)}
              [] outcome = "failed" -> {failedJob(j, MaxAttempts)}
              [] outcome = "rejected" -> {failedJob(j, 1)}
              [] outcome = "deferred" -> {deferred(j, d) : d \in 1..MaxDelay}

\* What Runner.work makes of the job.
settled(w, outcome) ==
    LET j == jobs[worker[w].job]
    IN CASE outcome = "ok" -> {completed(j)}
         [] outcome = "failed" -> {failedJob(j, MaxAttempts)}
         [] outcome = "rejected" -> {failedJob(j, 1)}
         [] outcome = "deferred" -> {deferred(j, d) : d \in 1..MaxDelay}

Spent(n, outcome) ==
    IF outcome = "rejected" \/ (outcome = "failed" /\ n + 1 > MaxAttempts) THEN MaxAttempts
    ELSE IF outcome = "failed" THEN n + 1 ELSE n

\* The handler, with its middleware, returns (a panic is an error) and the runner
\* settles the job.  A store call that fails, or a deferral that names no future
\* time, leaves the claim for recovery.
Process(w, outcome) ==
    LET id == worker[w].job
    IN /\ worker[w].pc = "handle"
       /\ spent' = [spent EXCEPT ![id] = Spent(@, outcome)]
       /\ \/ /\ Leave(w, IF outcome = "deferred" THEN 1 ELSE 0)
             /\ \E j \in settled(w, outcome) : jobs' = [jobs EXCEPT ![id] = j]
             /\ UNCHANGED abandoned
          \/ /\ Leave(w, 1)
             /\ abandoned' = IF Holders(id) = {w} THEN abandoned \cup {id} ELSE abandoned
             /\ UNCHANGED jobs
       /\ late' = IF Holders(id) = {w} THEN late \ {id} ELSE late
       /\ UNCHANGED <<order, returned, overrun>>

\* A worker of the scheduler pool: its iteration (module Schedules) touches
\* nothing of the runner and is one step.
Schedule(w) ==
    /\ worker[w].pc = "parked" /\ w \in Schedulers
    /\ \/ Canceled(PoolOf(w)) /\ Goto(w, "exited") /\ UNCHANGED <<ctx, fatal, faults>>
       \/ ~ Canceled(PoolOf(w)) /\ Leave(w, 0)
    /\ UNCHANGED <<jobs, order, returned, late, spent, abandoned, overrun>>

-----------------------------------------------------------------------------
(* Pool.Run and Runtime.Run *)

Exited(p) == \A w \in Members(p) : worker[w].pc = "exited"

\* Mutated form of PoolReturns: a fatal error stays within its pool.
PoolReturnsAlone(p) ==
    /\ p \notin returned /\ Exited(p)
    /\ returned' = returned \cup {p}
    /\ UNCHANGED <<jobs, order, worker, ctx, fatal, faults, late, spent, abandoned, overrun>>

\* A pool's Run returns; with an error it cancels the runtime's context and with
\* it the sibling.
PoolReturns(p) ==
    /\ p \notin returned /\ Exited(p)
    /\ returned' = returned \cup {p}
    /\ ctx' = IF p \in fatal THEN ctx \cup {"runtime"} ELSE ctx
    /\ UNCHANGED <<jobs, order, worker, fatal, faults, late, spent, abandoned, overrun>>

Cancel ==
    /\ "host" \notin ctx
    /\ ctx' = ctx \cup {"host"}
    /\ UNCHANGED <<jobs, order, worker, fatal, returned, faults, late, spent, abandoned, overrun>>

Started ==
    /\ worker' = [w \in Workers |-> Parked]
    /\ ctx' = {} /\ fatal' = {} /\ returned' = {}
    /\ overrun' = [w \in Workers |-> 0]

\* The process dies with everything in flight and is started again.
Crash ==
    /\ faults < MaxFaults /\ returned # Pools
    /\ faults' = faults + 1
    /\ abandoned' = abandoned \cup {id \in DOMAIN jobs : Holders(id) # {}}
    /\ late' = {}
    /\ Started
    /\ UNCHANGED <<jobs, order, spent>>

\* The clock moves on.
Tick ==
    /\ jobs' = [id \in DOMAIN jobs |->
                  [jobs[id] EXCEPT !.delay = IF @ > 0 THEN @ - 1 ELSE 0,
                                   !.age = IF jobs[id].status = "running" /\ @ <= Lease
                                           THEN @ + 1 ELSE @]]
    /\ late' = late \cup {id \in DOMAIN jobs : jobs'[id].age > Lease /\ Holders(id) # {}}
    /\ UNCHANGED <<order, pool, faults, spent, abandoned>>

-----------------------------------------------------------------------------
Init ==
    /\ jobs = << >> /\ order = {} /\ spent = << >>
    /\ worker = [w \in Workers |-> Parked]
    /\ ctx = {} /\ fatal = {} /\ returned = {}
    /\ faults = 0 /\ late = {} /\ abandoned = {}
    /\ overrun = [w \in Workers |-> 0]

Work(w) ==
    \/ Begin(w) \/ Claim(w) \/ Schedule(w)
    \/ worker[w].pc = "handle" /\ \E outcome \in Answers[worker[w].job] : Process(w, outcome)

Next ==
    \/ \E w \in Workers : Work(w)
    \/ \E p \in Pools : PoolReturns(p)
    \/ \E id \in IDs : PurgeTerminal(id)
    \/ \E in \in Submissions : Enqueue(in)
    \/ Cancel \/ Crash \/ Tick

Spec == Init /\ [][Next]_vars

\* Workers keep running (timers fire, handlers and store calls return, as the
\* README asks of the host), Run notices that they are done, and time passes.
Fairness ==
    /\ \A w \in Workers : WF_vars(Work(w))
    /\ WF_vars(\E p \in Pools : PoolReturns(p))
    /\ WF_vars(Tick)

FairSpec == Spec /\ Fairness

-----------------------------------------------------------------------------
(* Properties. *)

\* The stored jobs are in one order.
Ordered ==
    /\ order \subseteq (DOMAIN jobs) \X (DOMAIN jobs)
    /\ \A a, b \in DOMAIN jobs :
          /\ a = b \/ <<a, b>> \in order \/ <<b, a>> \in order
          /\ <<a, b>> \in order => <<b, a>> \notin order
    /\ \A a, b, c \in DOMAIN jobs : <<a, b>> \in order /\ <<b, c>> \in order => <<a, c>> \in order

\* The store is well formed and attempt counts never pass the ceiling, although
\* stale workers fail jobs that others hold.
TypeOK ==
    /\ DOMAIN jobs \subseteq IDs /\ DOMAIN spent = DOMAIN jobs
    /\ \A id \in DOMAIN jobs : jobs[id] \in Job
    /\ Ordered
    /\ \A w \in Workers : worker[w].job \in DOMAIN jobs \cup {None}
    /\ ctx \subseteq Pools \cup {"host", "runtime"}
    /\ fatal \subseteq Pools /\ returned \subseteq Pools
    /\ faults \in 0..MaxFaults

\* A job is dead-lettered only when its handlers rejected it or failed as often
\* as the ceiling says: deferrals, crashes and lost store calls spend no attempt.
DeadLetterEarned ==
    \A id \in DOMAIN jobs : jobs[id].status = "dead_letter" => spent[id] >= MaxAttempts

\* Two workers hold one job only after a handler of it outlived the lease: as
\* long as handlers return within the lease nothing runs twice at a time, the
\* claims recovered from crashed processes included.
ExclusiveWithinLease ==
    \A id \in DOMAIN jobs : Cardinality(Holders(id)) > 1 => id \in late

\* "In-flight jobs finish and persist Complete/Fail" (Runtime.Run): when the
\* queue pool has returned, a job is left running only by a failed store call or
\* by an earlier crash.
DrainSettles ==
    "queue" \in returned =>
        \A id \in DOMAIN jobs : jobs[id].status = "running" => id \in abandoned

\* Once its context is done a worker takes at most the claim of the iteration it
\* is in (Pool.worker: "once ctx is done a worker never begins a fresh
\* iteration").
NoFreshClaims == \A w \in Workers : overrun[w] <= 1

\* The queue pool cannot be waited on: it is canceled, or all its workers ended.
Stopping == Canceled("queue") \/ Exited("queue")

\* "A crashed worker's job self-heals" (README): every stored job is settled in
\* the end, through crashes, failed store calls, retries, deferrals and the other
\* jobs that are enqueued meanwhile, unless the pool stops or jobs of a higher
\* priority are due again and again (Claim orders by priority first, so nothing
\* keeps those from starving it).
EventuallySettled ==
    \A id \in IDs :
        (id \in DOMAIN jobs) ~>
            \/ id \notin DOMAIN jobs \/ Terminal(jobs[id]) \/ Stopping
            \/ \E b \in candidates : jobs[b].priority > jobs[id].priority

\* A settlement stands until retention removes the job: Complete, Fail and Defer
\* take no fence, so a worker whose claim was taken over can call them after
\* another one has settled the job, and must not reopen or recount it.
SettlementStep ==
    \A id \in DOMAIN jobs : Terminal(jobs[id]) /\ id \in DOMAIN jobs' =>
        jobs'[id].status = jobs[id].status /\ jobs'[id].retries = jobs[id].retries
SettlementsStand == [][SettlementStep]_vars

\* "Cancels a sibling pool after a fatal failure" (README): after a host's
\* cancellation or a fatal error of either pool both pools return.
StopsTogether == ("host" \in ctx \/ fatal # {}) ~> (returned = Pools \/ ctx = {})

\* The attempt accounting is sound: no count passes the ceiling and no job is
\* dead-lettered before its handlers have earned it (Fail, Defer).
AttemptsSound == TypeOK /\ DeadLetterEarned

\* The drain is clean: a canceled worker begins nothing new and what it had
\* begun is settled when its pool returns (Pool.worker, drainInFlight).
DrainClean == NoFreshClaims /\ DrainSettles
=============================================================================
