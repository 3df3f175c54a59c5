------------------------- MODULE JobsRuntimeProofs -------------------------
(***************************************************************************)
(* The ordinary jobs runtime, for every number of jobs and workers: what   *)
(* the attempt counts mean, when two workers may hold one job, and what a  *)
(* drained pool leaves behind.                                             *)
(***************************************************************************)
EXTENDS JobsRuntime, FiniteSetTheorems, WellFoundedInduction, TLAPS

WorkerState == [pc : {"parked", "work", "handle", "exited"}, job : IDs \cup {None}]

\* Only a worker of the queue pool that runs a handler holds a job, a stored one.
Shape ==
    /\ worker \in [Workers -> WorkerState] /\ overrun \in [Workers -> Nat]
    /\ IsFiniteSet(DOMAIN jobs)
    /\ \A w \in Workers :
          /\ worker[w].pc = "handle" => worker[w].job \in DOMAIN jobs
          /\ worker[w].pc # "handle" => worker[w].job = None
          /\ worker[w].pc \in {"work", "handle"} => w \in QueueWorkers

\* The failures recorded on a job are failures of its handlers.
Counted ==
    \A id \in DOMAIN jobs :
        /\ spent[id] \in 0..MaxAttempts /\ jobs[id].retries <= spent[id]
        /\ ~ Terminal(jobs[id]) => jobs[id].retries < MaxAttempts

\* A job that is not late has one holder at most, within its lease.
OneHolder ==
    \A id \in DOMAIN jobs \ late :
        /\ \A v, w \in Holders(id) : v = w
        /\ Holders(id) # {} => jobs[id].status = "running" /\ jobs[id].age <= Lease

\* A running job is held or nobody will settle it.
Attended ==
    \A id \in DOMAIN jobs :
        jobs[id].status = "running" => Holders(id) # {} \/ id \in abandoned

\* A worker that has claimed after its cancellation begins nothing more.
Draining ==
    \A w \in Workers :
        /\ overrun[w] <= 1 /\ (worker[w].pc = "work" => overrun[w] = 0)
        /\ overrun[w] > 0 => Canceled(PoolOf(w))

Gone == "queue" \in returned => Exited("queue")

\* The inductive invariant.
JInv ==
    /\ TypeOK /\ Shape /\ Counted /\ DeadLetterEarned
    /\ OneHolder /\ Attended /\ Draining /\ Gone

-----------------------------------------------------------------------------
(* The job a claim takes. *)

\* A set of naturals has a least element.
LEMMA LeastNatural ==
  ASSUME NEW T, T \subseteq Nat, T # {}
  PROVE  \E x \in T : \A y \in T : x <= y
  <1>1. PICK x \in T : \A y \in T : ~ (<<y, x>> \in OpToRel(<, Nat))
    BY NatLessThanWellFounded, WFMin, Zenon
  <1>2. ASSUME NEW y \in T PROVE x <= y
    <2>1. x \in Nat /\ y \in Nat
      OBVIOUS
    <2>2. ~ (y < x)
      BY <1>1, <2>1 DEF OpToRel
    <2> QED BY <2>1, <2>2
  <1> QED BY <1>2

\* A stored job.
LEMMA JobFields ==
  ASSUME NEW j \in Job
  PROVE  /\ j.status \in {"pending", "running", "completed", "dead_letter"}
         /\ j.priority \in Nat /\ j.retries \in Nat /\ j.retries \in 0..MaxAttempts
         /\ j.delay \in 0..MaxDelay /\ j.age \in Nat /\ j.age \in 0..(Lease + 1)
  <1>1. /\ j.status \in {"pending", "running", "completed", "dead_letter"}
        /\ j.priority \in Nat /\ j.retries \in 0..MaxAttempts
        /\ j.delay \in 0..MaxDelay /\ j.age \in 0..(Lease + 1)
    BY DEF Job
  <1>3. MaxAttempts \in Nat /\ Lease + 1 \in Nat
    BY JobsAssumption DEF JobsAssumption
  <1>4. j.retries \in Nat
    BY <1>1, <1>3
  <1>5. j.age \in Nat
    BY <1>1, <1>3
  <1> QED BY <1>1, <1>4, <1>5

\* claimBefore orders the stored jobs.
LEMMA ClaimBeforeOrders ==
  ASSUME JInv
  PROVE  /\ \A a, b \in DOMAIN jobs : a = b \/ claimBefore(a, b) \/ claimBefore(b, a)
         /\ \A a \in DOMAIN jobs : ~ claimBefore(a, a)
         /\ \A a, b, c \in DOMAIN jobs :
               claimBefore(a, b) /\ claimBefore(b, c) => claimBefore(a, c)
  <1>1. \A a \in DOMAIN jobs : jobs[a].priority \in Nat
    BY JobFields DEF JInv, TypeOK
  <1>2. Ordered
    BY DEF JInv, TypeOK
  <1>3. ASSUME NEW a \in DOMAIN jobs, NEW b \in DOMAIN jobs
        PROVE  a = b \/ claimBefore(a, b) \/ claimBefore(b, a)
    <2>1. a = b \/ <<a, b>> \in order \/ <<b, a>> \in order
      BY <1>2 DEF Ordered
    <2>2. jobs[a].priority \in Nat /\ jobs[b].priority \in Nat
      BY <1>1
    <2> QED BY <2>1, <2>2 DEF claimBefore
  <1>4. \A a \in DOMAIN jobs : ~ claimBefore(a, a)
    BY <1>1, <1>2 DEF claimBefore, Ordered
  <1>5. ASSUME NEW a \in DOMAIN jobs, NEW b \in DOMAIN jobs, NEW c \in DOMAIN jobs,
               claimBefore(a, b), claimBefore(b, c)
        PROVE  claimBefore(a, c)
    <2>1. <<a, b>> \in order /\ <<b, c>> \in order => <<a, c>> \in order
      BY <1>2 DEF Ordered
    <2>2. jobs[a].priority \in Nat /\ jobs[b].priority \in Nat /\ jobs[c].priority \in Nat
      BY <1>1
    <2> QED BY <1>5, <2>1, <2>2 DEF claimBefore
  <1> QED BY <1>3, <1>4, <1>5

\* Where there is a candidate, the claim takes one.
LEMMA BestSound ==
  ASSUME JInv, candidates # {}
  PROVE  best \in candidates
  <1> DEFINE before(x) == {y \in candidates : claimBefore(y, x)}
             ranks == {Cardinality(before(x)) : x \in candidates}
  <1>1. candidates \subseteq DOMAIN jobs /\ IsFiniteSet(candidates)
    BY FS_Subset DEF candidates, JInv, Shape
  <1>2. ASSUME NEW x PROVE IsFiniteSet(before(x)) /\ Cardinality(before(x)) \in Nat
    <2>1. before(x) \in SUBSET candidates
      OBVIOUS
    <2> QED BY <1>1, <2>1, FS_Subset, FS_CardinalityType
  <1>3. ranks \subseteq Nat /\ ranks # {}
    BY <1>2
  <1>4. PICK r \in ranks : \A q \in ranks : r <= q
    BY <1>3, LeastNatural
  <1>5. PICK a \in candidates : r = Cardinality(before(a))
    BY <1>4
  <1>6. ASSUME NEW b \in candidates, a # b PROVE claimBefore(a, b)
    <2> SUFFICES ASSUME claimBefore(b, a) PROVE FALSE
      BY <1>1, <1>6, ClaimBeforeOrders
    <2>1. before(b) \subseteq before(a) /\ b \in before(a) /\ b \notin before(b)
      BY <1>1, ClaimBeforeOrders
    <2>2. Cardinality(before(b)) < Cardinality(before(a))
      BY <1>2, <2>1, FS_Subset
    <2>3. Cardinality(before(a)) <= Cardinality(before(b))
      BY <1>4, <1>5
    <2> HIDE DEF before
    <2> QED BY <1>2, <2>2, <2>3
  <1>7. \E x \in candidates : \A b \in candidates : x = b \/ claimBefore(x, b)
    BY <1>6
  <1> QED BY <1>7 DEF best

-----------------------------------------------------------------------------
(* The store calls on one job. *)

\* A claim that has just been made or given up.
LEMMA FreshAge == 0 \in 0..(Lease + 1)
  BY JobsAssumption DEF JobsAssumption

\* The claim of a job.
LEMMA ClaimedJob ==
  ASSUME NEW j \in Job
  PROVE  LET k == [j EXCEPT !.status = "running", !.age = 0]
         IN /\ k \in Job /\ k.status = "running" /\ k.age = 0 /\ k.retries = j.retries
  BY FreshAge DEF Job

\* Complete.
LEMMA CompletedJob ==
  ASSUME NEW j \in Job
  PROVE  /\ completed(j) \in Job /\ Terminal(completed(j)) /\ completed(j).retries = j.retries
         /\ completed(j).status # "running"
         /\ completed(j).status = "dead_letter" => j.status = "dead_letter"
  <1>1. CASE Terminal(j)
    BY <1>1 DEF completed, Terminal
  <1>2. CASE ~ Terminal(j)
    <2>1. PICK k : k = [j EXCEPT !.status = "completed", !.age = 0]
      OBVIOUS
    <2>2. k \in Job /\ k.status = "completed" /\ k.retries = j.retries
      BY <2>1, FreshAge DEF Job
    <2> QED BY <1>2, <2>1, <2>2 DEF completed, Terminal
  <1> QED BY <1>1, <1>2

\* Fail, with the ceiling or at once.
LEMMA FailedJob ==
  ASSUME NEW j \in Job, NEW attempts \in {1, MaxAttempts}, Terminal(j) \/ j.retries < MaxAttempts
  PROVE  /\ failedJob(j, attempts) \in Job /\ failedJob(j, attempts).status # "running"
         /\ Terminal(j) => failedJob(j, attempts) = j
         /\ ~ Terminal(j) =>
               /\ failedJob(j, attempts).retries = j.retries + 1
               /\ failedJob(j, attempts).status = "dead_letter" => j.retries + 1 >= attempts
               /\ ~ Terminal(failedJob(j, attempts)) => j.retries + 1 < attempts
  <1>0. j.retries \in Nat /\ MaxAttempts \in Nat \ {0} /\ attempts \in Nat /\ Lease \in Nat
    BY JobFields, JobsAssumption DEF JobsAssumption
  <1>1. CASE Terminal(j)
    BY <1>1 DEF failedJob, Terminal
  <1>2. CASE ~ Terminal(j) /\ j.retries + 1 >= attempts
    <2>1. PICK k : k = [j EXCEPT !.status = "dead_letter", !.retries = @ + 1, !.age = 0]
      OBVIOUS
    <2>2. j.retries + 1 \in 0..MaxAttempts
      BY <1>0, <1>2
    <2>3. k \in Job /\ k.status = "dead_letter" /\ k.retries = j.retries + 1
      BY <2>1, <2>2, FreshAge DEF Job
    <2>4. failedJob(j, attempts) = k
      BY <1>2, <2>1 DEF failedJob
    <2> QED BY <1>2, <2>3, <2>4 DEF Terminal
  <1>3. CASE ~ Terminal(j) /\ ~ (j.retries + 1 >= attempts)
    <2>1. PICK k : k = [j EXCEPT !.status = "pending", !.retries = @ + 1, !.age = 0]
      OBVIOUS
    <2>2. j.retries + 1 \in 0..MaxAttempts
      BY <1>0, <1>3
    <2>3. k \in Job /\ k.status = "pending" /\ k.retries = j.retries + 1
      BY <2>1, <2>2, FreshAge DEF Job
    <2>4. failedJob(j, attempts) = k
      BY <1>3, <2>1 DEF failedJob
    <2> QED BY <1>0, <1>3, <2>3, <2>4 DEF Terminal
  <1> QED BY <1>1, <1>2, <1>3

\* Defer.
LEMMA DeferredJob ==
  ASSUME NEW j \in Job, NEW d \in 1..MaxDelay
  PROVE  /\ deferred(j, d) \in Job /\ deferred(j, d).status # "running"
         /\ deferred(j, d).retries = j.retries
         /\ deferred(j, d).status = "dead_letter" => j.status = "dead_letter"
         /\ Terminal(j) => deferred(j, d) = j
  <1>1. CASE j.status # "running"
    BY <1>1 DEF deferred
  <1>2. CASE j.status = "running"
    <2>1. PICK k : k = [j EXCEPT !.status = "pending", !.delay = d, !.age = 0]
      OBVIOUS
    <2>a. d \in 0..MaxDelay
      BY JobsAssumption DEF JobsAssumption
    <2>2. k \in Job /\ k.status = "pending" /\ k.retries = j.retries
      BY <2>1, <2>a, FreshAge DEF Job
    <2> QED BY <1>2, <2>1, <2>2 DEF deferred, Terminal
  <1> QED BY <1>1, <1>2

\* What the runner makes of a job keeps its count within what its handlers spent.
LEMMA SettledSound ==
  ASSUME JInv, NEW w \in Workers, worker[w].pc = "handle", NEW outcome \in Outcomes,
         NEW id, id = worker[w].job
  PROVE  /\ Spent(spent[id], outcome) \in 0..MaxAttempts /\ spent[id] <= Spent(spent[id], outcome)
         /\ \A j \in settled(w, outcome) :
               /\ j \in Job /\ j.status # "running"
               /\ j.retries <= Spent(spent[id], outcome)
               /\ ~ Terminal(j) => j.retries < MaxAttempts
               /\ j.status = "dead_letter" => Spent(spent[id], outcome) >= MaxAttempts
  <1>0. MaxAttempts \in Nat \ {0}
    BY JobsAssumption DEF JobsAssumption
  <1>1. id \in DOMAIN jobs
    BY DEF JInv, Shape
  <1>2. PICK i \in Job, n \in 0..MaxAttempts : i = jobs[id] /\ n = spent[id]
    BY <1>1 DEF JInv, TypeOK, Counted
  <1>3. /\ i.retries <= n /\ (~ Terminal(i) => i.retries < MaxAttempts) /\ i.retries \in Nat
        /\ i.status = "dead_letter" => n >= MaxAttempts
    BY <1>1, <1>2, JobFields DEF JInv, Counted, DeadLetterEarned
  <1>4. Spent(n, outcome) \in 0..MaxAttempts /\ n <= Spent(n, outcome)
    BY <1>0 DEF Spent
  <1>5. CASE outcome = "ok"
    <2>1. settled(w, outcome) = {completed(i)} /\ Spent(n, outcome) = n
      BY <1>2, <1>5 DEF settled, Spent
    <2> QED BY <1>2, <1>3, <1>4, <2>1, CompletedJob
  <1>6. CASE outcome = "deferred"
    <2>1. settled(w, outcome) = {deferred(i, d) : d \in 1..MaxDelay} /\ Spent(n, outcome) = n
      BY <1>2, <1>6 DEF settled, Spent
    <2>2. ASSUME NEW d \in 1..MaxDelay, NEW j, j = deferred(i, d)
          PROVE  /\ j \in Job /\ j.status # "running" /\ j.retries <= n
                 /\ ~ Terminal(j) => j.retries < MaxAttempts
                 /\ j.status = "dead_letter" => n >= MaxAttempts
      <3>1. Terminal(i) => Terminal(j)
        BY <2>2, DeferredJob
      <3> QED BY <1>3, <2>2, <3>1, DeferredJob
    <2> QED BY <1>2, <1>4, <2>1, <2>2
  <1>7. CASE outcome \in {"failed", "rejected"}
    <2>1. PICK attempts \in {1, MaxAttempts} :
             /\ outcome = "failed" => attempts = MaxAttempts
             /\ outcome = "rejected" => attempts = 1
      BY <1>7
    <2>2. PICK j : j = failedJob(i, attempts)
      OBVIOUS
    <2>3. settled(w, outcome) = {j}
      BY <1>2, <1>7, <2>1, <2>2 DEF settled
    <2>4. Terminal(i) \/ i.retries < MaxAttempts
      BY <1>3
    <2>5. /\ j \in Job /\ j.status # "running"
          /\ Terminal(i) => j = i
          /\ ~ Terminal(i) =>
               /\ j.retries = i.retries + 1
               /\ j.status = "dead_letter" => i.retries + 1 >= attempts
               /\ ~ Terminal(j) => i.retries + 1 < attempts
      BY <2>2, <2>4, FailedJob
    <2>6. /\ outcome = "rejected" => Spent(n, outcome) = MaxAttempts
          /\ outcome = "failed" => Spent(n, outcome) = MaxAttempts \/ Spent(n, outcome) = n + 1
      BY <1>0 DEF Spent
    <2>7. j.retries \in Nat /\ j.retries <= MaxAttempts
      BY <2>5, JobFields, <1>0
    <2>8. j.retries <= Spent(n, outcome)
      BY <1>0, <1>3, <1>4, <1>7, <2>5, <2>6, <2>7
    <2>9. ~ Terminal(j) => j.retries < MaxAttempts
      BY <1>0, <1>3, <2>1, <2>5, <2>7
    <2>10. j.status = "dead_letter" => Spent(n, outcome) >= MaxAttempts
      BY <1>0, <1>3, <1>4, <1>7, <2>1, <2>5, <2>6
    <2> QED BY <1>2, <1>4, <2>3, <2>5, <2>8, <2>9, <2>10
  <1> QED BY <1>5, <1>6, <1>7 DEF Outcomes

-----------------------------------------------------------------------------
(* Workers and pools. *)

\* What only the pools' variables decide, when no context is taken back.
PoolFrame ==
    /\ ctx \subseteq ctx' /\ ctx' \subseteq Pools \cup {"host", "runtime"}
    /\ fatal' \subseteq Pools /\ returned' \subseteq Pools /\ faults' \in 0..MaxFaults

\* A canceled pool stays canceled.
LEMMA StaysCanceled ==
  ASSUME ctx \subseteq ctx', NEW p, Canceled(p)
  PROVE  Canceled(p)'
  BY DEF Canceled

\* What a finished iteration does to the pools.
LEMMA LeaveFrame ==
  ASSUME JInv, NEW w \in Workers, NEW n \in {0, 1}, Leave(w, n), UNCHANGED returned
  PROVE  PoolFrame /\ \E pc \in {"parked", "exited"} : Goto(w, pc)
  <1>1. faults' \in 0..MaxFaults
    BY JobsAssumption DEF JobsAssumption, JInv, TypeOK, Leave, Faulty
  <1> QED BY <1>1 DEF JInv, TypeOK, PoolFrame, Leave, PoolOf, Pools

\* The store stays as it is and so does what it says of attempts.
LEMMA StoreStands ==
  ASSUME JInv, UNCHANGED <<jobs, order, spent>>, PoolFrame,
         \A w \in Workers : worker'[w].job \in DOMAIN jobs \cup {None}
  PROVE  TypeOK' /\ Counted' /\ DeadLetterEarned' /\ IsFiniteSet(DOMAIN jobs')
  BY DEF JInv, TypeOK, Ordered, Counted, DeadLetterEarned, Shape, PoolFrame

\* A worker that holds no job goes to another step without one.
LEMMA MoveJInv ==
  ASSUME JInv, NEW w \in Workers, worker[w].pc \in {"parked", "work"},
         NEW pc \in {"parked", "work", "exited"}, Goto(w, pc), PoolFrame,
         pc = "work" => w \in QueueWorkers /\ ~ Canceled(PoolOf(w)),
         UNCHANGED <<jobs, order, returned, late, spent, abandoned, overrun>>
  PROVE  JInv'
  <1>0. None \notin IDs /\ DOMAIN jobs \subseteq IDs /\ worker \in [Workers -> WorkerState]
    BY JobsAssumption DEF JobsAssumption, JInv, TypeOK, Shape
  <1>1. /\ worker' \in [Workers -> WorkerState]
        /\ worker'[w].pc = pc /\ worker'[w].job = None /\ worker[w].job = None
        /\ \A v \in Workers \ {w} : worker'[v] = worker[v]
    BY <1>0 DEF Goto, WorkerState, JInv, Shape
  <1>2. \A id \in DOMAIN jobs : Holders(id)' = Holders(id)
    BY <1>0, <1>1 DEF Holders
  <1>3. \A v \in Workers : worker'[v].job \in DOMAIN jobs \cup {None}
    BY <1>1 DEF JInv, TypeOK
  <1>4. TypeOK' /\ Counted' /\ DeadLetterEarned' /\ IsFiniteSet(DOMAIN jobs')
    BY <1>3, StoreStands
  <1>5. Shape'
    BY <1>1, <1>4 DEF JInv, Shape
  <1>6. OneHolder' /\ Attended'
    BY <1>2 DEF JInv, OneHolder, Attended
  <1>7. Draining'
    <2> SUFFICES ASSUME NEW v \in Workers
                 PROVE  /\ overrun'[v] <= 1 /\ (worker'[v].pc = "work" => overrun'[v] = 0)
                        /\ overrun'[v] > 0 => Canceled(PoolOf(v))'
      BY DEF Draining
    <2>1. overrun[v] \in Nat /\ overrun'[v] = overrun[v]
      BY DEF JInv, Shape
    <2>2. overrun[v] > 0 => Canceled(PoolOf(v)) /\ Canceled(PoolOf(v))'
      BY StaysCanceled DEF JInv, Draining, PoolFrame, Canceled
    <2> QED BY <1>1, <2>1, <2>2 DEF JInv, Draining
  <1>8. Gone'
    BY <1>1 DEF JInv, Gone, Exited, Members
  <1> QED BY <1>4, <1>5, <1>6, <1>7, <1>8 DEF JInv

\* The pools' contexts move on, and Run returns.
LEMMA PoolJInv ==
  ASSUME JInv, PoolFrame, UNCHANGED <<jobs, order, worker, late, spent, abandoned, overrun>>, Gone'
  PROVE  JInv'
  <1>1. \A v \in Workers : worker'[v].job \in DOMAIN jobs \cup {None}
    BY DEF JInv, TypeOK
  <1>2. TypeOK' /\ Counted' /\ DeadLetterEarned' /\ IsFiniteSet(DOMAIN jobs')
    BY <1>1, StoreStands
  <1>3. Shape'
    BY <1>2 DEF JInv, Shape
  <1>4. OneHolder' /\ Attended'
    BY DEF JInv, OneHolder, Attended, Holders
  <1>5. Draining'
    <2> SUFFICES ASSUME NEW v \in Workers, overrun[v] > 0 PROVE Canceled(PoolOf(v))'
      BY DEF JInv, Draining
    <2> QED BY StaysCanceled DEF JInv, Draining, PoolFrame
  <1> QED BY <1>2, <1>3, <1>4, <1>5 DEF JInv

\* The steps of a worker outside the handler, but for a successful claim.
LEMMA IdleStepsJInv ==
  ASSUME JInv, NEW w \in Workers,
         \/ Begin(w) \/ Schedule(w)
         \/ /\ Claim(w) /\ UNCHANGED jobs /\ Leave(w, IF candidates = {} THEN 0 ELSE 1)
            /\ UNCHANGED <<abandoned, overrun>>
  PROVE  JInv'
  <1>1. CASE Begin(w)
    <2>1. PoolFrame
      BY <1>1 DEF Begin, PoolFrame, JInv, TypeOK
    <2> QED BY <1>1, <2>1, MoveJInv DEF Begin
  <1>2. CASE Schedule(w)
    <2>2. CASE Leave(w, 0)
      <3>1. PoolFrame /\ \E pc \in {"parked", "exited"} : Goto(w, pc)
        BY <1>2, <2>2, LeaveFrame DEF Schedule
      <3> QED BY <1>2, <3>1, MoveJInv DEF Schedule
    <2>3. CASE Goto(w, "exited") /\ UNCHANGED <<ctx, fatal, faults>>
      <3>1. PoolFrame
        BY <1>2, <2>3 DEF Schedule, PoolFrame, JInv, TypeOK
      <3> QED BY <1>2, <2>3, <3>1, MoveJInv DEF Schedule
    <2> QED BY <1>2, <2>2, <2>3 DEF Schedule
  <1>3. CASE /\ Claim(w) /\ UNCHANGED jobs /\ Leave(w, IF candidates = {} THEN 0 ELSE 1)
             /\ UNCHANGED <<abandoned, overrun>>
    <2>1. PICK n \in {0, 1} : Leave(w, n)
      BY <1>3
    <2>2. PoolFrame /\ \E pc \in {"parked", "exited"} : Goto(w, pc)
      BY <1>3, <2>1, LeaveFrame DEF Claim
    <2> QED BY <1>3, <2>2, MoveJInv DEF Claim
  <1> QED BY <1>1, <1>2, <1>3

\* A pool returns and the host cancels.
LEMMA PoolStepsJInv ==
  ASSUME JInv, Cancel \/ \E p \in Pools : PoolReturns(p)
  PROVE  JInv'
  <1>1. CASE Cancel
    <2>1. PoolFrame /\ Gone'
      BY <1>1 DEF Cancel, PoolFrame, JInv, TypeOK, Gone, Exited
    <2> QED BY <1>1, <2>1, PoolJInv DEF Cancel
  <1>2. CASE \E p \in Pools : PoolReturns(p)
    <2>1. PICK p \in Pools : PoolReturns(p)
      BY <1>2
    <2>2. PoolFrame /\ Gone'
      BY <2>1 DEF PoolReturns, PoolFrame, JInv, TypeOK, Gone, Exited
    <2> QED BY <2>1, <2>2, PoolJInv DEF PoolReturns
  <1> QED BY <1>1, <1>2

-----------------------------------------------------------------------------
(* Steps on the store. *)

\* A claim: the job was waiting, or its handler has outlived the lease.
LEMMA ClaimJInv ==
  ASSUME JInv, NEW w \in Workers, worker[w].pc = "work", w \in QueueWorkers, candidates # {},
         jobs' = [jobs EXCEPT ![best] = [@ EXCEPT !.status = "running", !.age = 0]],
         worker' = [worker EXCEPT ![w] = [pc |-> "handle", job |-> best]],
         abandoned' = abandoned \ {best},
         overrun' = IF Canceled(PoolOf(w)) THEN [overrun EXCEPT ![w] = @ + 1] ELSE overrun,
         UNCHANGED <<ctx, fatal, faults, order, returned, late, spent>>
  PROVE  JInv'
  <1>0. None \notin IDs /\ DOMAIN jobs \subseteq IDs /\ worker \in [Workers -> WorkerState]
    BY JobsAssumption DEF JobsAssumption, JInv, TypeOK, Shape
  <1>1. PICK b \in DOMAIN jobs : b = best /\ due(jobs[b])
    BY BestSound DEF candidates
  <1>2. PICK j \in Job : j = jobs[b]
    BY DEF JInv, TypeOK
  <1>3. PICK k \in Job : k = [j EXCEPT !.status = "running", !.age = 0]
    BY ClaimedJob
  <1>4. k.status = "running" /\ k.age = 0 /\ k.retries = j.retries
    BY <1>3, ClaimedJob
  <1>5. /\ DOMAIN jobs' = DOMAIN jobs /\ jobs'[b] = k
        /\ \A id \in DOMAIN jobs \ {b} : jobs'[id] = jobs[id]
    BY <1>1, <1>2, <1>3
  <1>6. /\ worker' \in [Workers -> WorkerState]
        /\ worker'[w].pc = "handle" /\ worker'[w].job = b /\ worker[w].job = None
        /\ \A v \in Workers \ {w} : worker'[v] = worker[v]
    BY <1>0, <1>1 DEF WorkerState, JInv, Shape
  <1>7. /\ Holders(b)' = Holders(b) \cup {w}
        /\ \A id \in DOMAIN jobs \ {b} : Holders(id)' = Holders(id)
    BY <1>0, <1>6 DEF Holders
  <1>8. TypeOK'
    BY <1>5, <1>6 DEF JInv, TypeOK, Ordered
  <1>9. overrun' \in [Workers -> Nat] /\ \A v \in Workers \ {w} : overrun'[v] = overrun[v]
    BY DEF JInv, Shape
  <1>10. Shape'
    BY <1>5, <1>6, <1>9 DEF JInv, Shape
  <1>11. ~ Terminal(j)
    BY <1>1, <1>2 DEF due, Terminal
  <1>12. Counted' /\ DeadLetterEarned'
    <2> SUFFICES ASSUME NEW id \in DOMAIN jobs
                 PROVE  /\ spent[id] \in 0..MaxAttempts /\ jobs'[id].retries <= spent[id]
                        /\ ~ Terminal(jobs'[id]) => jobs'[id].retries < MaxAttempts
                        /\ jobs'[id].status = "dead_letter" => spent[id] >= MaxAttempts
      BY <1>5 DEF Counted, DeadLetterEarned
    <2>1. CASE id = b
      BY <1>2, <1>4, <1>5, <1>11, <2>1 DEF JInv, Counted
    <2>2. CASE id # b
      BY <1>5, <2>2 DEF JInv, Counted, DeadLetterEarned
    <2> QED BY <2>1, <2>2
  <1>13. OneHolder'
    <2> SUFFICES ASSUME NEW id \in DOMAIN jobs \ late
                 PROVE  /\ \A v, u \in Holders(id)' : v = u
                        /\ Holders(id)' # {} => jobs'[id].status = "running" /\ jobs'[id].age <= Lease
      BY <1>5 DEF OneHolder
    <2>1. CASE id = b
      <3>1. Holders(b) = {}
        <4>1. j.age \in Nat /\ Lease \in Nat
          BY JobFields, JobsAssumption DEF JobsAssumption
        <4>2. Holders(b) # {} => j.status = "running" /\ j.age <= Lease
          BY <1>2, <2>1 DEF JInv, OneHolder
        <4> QED BY <1>1, <1>2, <4>1, <4>2 DEF due
      <3>2. 0 <= Lease
        BY JobsAssumption DEF JobsAssumption
      <3> QED BY <1>4, <1>5, <1>7, <2>1, <3>1, <3>2
    <2>2. CASE id # b
      <3>1. id \in DOMAIN jobs \ {b}
        BY <2>2
      <3>2. Holders(id)' = Holders(id) /\ jobs'[id] = jobs[id]
        BY <1>5, <1>7, <3>1
      <3> QED BY <3>2 DEF JInv, OneHolder
    <2> QED BY <2>1, <2>2
  <1>14. Attended'
    <2> SUFFICES ASSUME NEW id \in DOMAIN jobs, jobs'[id].status = "running"
                 PROVE  Holders(id)' # {} \/ id \in abandoned'
      BY <1>5 DEF Attended
    <2>1. CASE id = b
      BY <1>7, <2>1
    <2>2. CASE id # b
      BY <1>1, <1>5, <1>7, <2>2 DEF JInv, Attended
    <2> QED BY <2>1, <2>2
  <1>15. Draining'
    <2> SUFFICES ASSUME NEW v \in Workers
                 PROVE  /\ overrun'[v] <= 1 /\ (worker'[v].pc = "work" => overrun'[v] = 0)
                        /\ overrun'[v] > 0 => Canceled(PoolOf(v))
      BY DEF Draining, Canceled
    <2>1. CASE v = w
      <3>1. overrun[w] = 0 /\ overrun \in [Workers -> Nat]
        BY DEF JInv, Draining, Shape
      <3> QED BY <1>6, <2>1, <3>1
    <2>2. CASE v # w
      BY <1>6, <1>9, <2>2 DEF JInv, Draining
    <2> QED BY <2>1, <2>2
  <1>16. Gone'
    BY <1>6 DEF JInv, Gone, Exited, Members, PoolOf
  <1> QED BY <1>8, <1>10, <1>12, <1>13, <1>14, <1>15, <1>16 DEF JInv

\* A handler returns: the job is settled, or its claim is left for recovery.
LEMMA ProcessJInv ==
  ASSUME JInv, NEW w \in Workers, NEW outcome \in Outcomes, Process(w, outcome)
  PROVE  JInv'
  <1>0. None \notin IDs /\ DOMAIN jobs \subseteq IDs /\ worker \in [Workers -> WorkerState]
    BY JobsAssumption DEF JobsAssumption, JInv, TypeOK, Shape
  <1>1. PICK id : id = worker[w].job
    OBVIOUS
  <1>2. worker[w].pc = "handle" /\ id \in DOMAIN jobs /\ w \in Holders(id)
    BY <1>1 DEF Process, JInv, Shape, Holders
  <1>3. PICK f \in {0, 1} : Leave(w, f)
    BY DEF Process
  <1>4. PoolFrame /\ \E pc \in {"parked", "exited"} : Goto(w, pc)
    BY <1>3, LeaveFrame DEF Process
  <1>5. PICK pc \in {"parked", "exited"} : Goto(w, pc)
    BY <1>4
  <1>6. /\ worker' \in [Workers -> WorkerState]
        /\ worker'[w].pc = pc /\ worker'[w].job = None
        /\ \A v \in Workers \ {w} : worker'[v] = worker[v]
    BY <1>0, <1>5 DEF Goto, WorkerState
  <1>7. /\ Holders(id)' = Holders(id) \ {w}
        /\ \A i \in DOMAIN jobs \ {id} : Holders(i)' = Holders(i)
    BY <1>0, <1>1, <1>2, <1>6 DEF Holders
  <1>8. PICK n : n = Spent(spent[id], outcome)
    OBVIOUS
  <1>9. /\ n \in 0..MaxAttempts /\ spent[id] <= n
        /\ \A j \in settled(w, outcome) :
              /\ j \in Job /\ j.status # "running" /\ j.retries <= n
              /\ ~ Terminal(j) => j.retries < MaxAttempts
              /\ j.status = "dead_letter" => n >= MaxAttempts
    BY <1>1, <1>2, <1>8, SettledSound
  <1>10. /\ DOMAIN spent' = DOMAIN jobs /\ spent'[id] = n
         /\ \A i \in DOMAIN jobs \ {id} : spent'[i] = spent[i]
    <2>1. spent' = [spent EXCEPT ![id] = n] /\ DOMAIN spent = DOMAIN jobs
      BY <1>1, <1>8 DEF Process, JInv, TypeOK
    <2> QED BY <1>2, <2>1
  <1>11. PICK j \in Job :
           /\ DOMAIN jobs' = DOMAIN jobs /\ jobs'[id] = j
           /\ \A i \in DOMAIN jobs \ {id} : jobs'[i] = jobs[i]
           /\ j.retries <= n /\ (~ Terminal(j) => j.retries < MaxAttempts)
           /\ j.status = "dead_letter" => n >= MaxAttempts
           /\ \/ j.status # "running" /\ abandoned' = abandoned
              \/ /\ j = jobs[id]
                 /\ abandoned' = IF Holders(id) = {w} THEN abandoned \cup {id} ELSE abandoned
    <2>1. CASE \E j \in settled(w, outcome) : jobs' = [jobs EXCEPT ![id] = j] /\ UNCHANGED abandoned
      BY <1>2, <1>9, <2>1
    <2>2. CASE /\ abandoned' = IF Holders(id) = {w} THEN abandoned \cup {id} ELSE abandoned
               /\ UNCHANGED jobs
      <3>1. PICK j \in Job : j = jobs[id]
        BY <1>2 DEF JInv, TypeOK
      <3>2. /\ spent[id] \in 0..MaxAttempts /\ j.retries <= spent[id] /\ j.retries \in Nat
            /\ ~ Terminal(j) => j.retries < MaxAttempts
            /\ j.status = "dead_letter" => spent[id] >= MaxAttempts
        BY <1>2, <3>1, JobFields DEF JInv, Counted, DeadLetterEarned
      <3>3. /\ j.retries <= n
            /\ j.status = "dead_letter" => n >= MaxAttempts
        BY <1>9, <3>2, JobsAssumption DEF JobsAssumption
      <3> QED BY <2>2, <3>1, <3>2, <3>3
    <2> QED BY <1>1, <2>1, <2>2 DEF Process
  <1>12. /\ DOMAIN jobs' = DOMAIN jobs /\ jobs'[id] = j
         /\ \A i \in DOMAIN jobs \ {id} : jobs'[i] = jobs[i]
    BY <1>11
  <1>13. TypeOK'
    <2>1. \A i \in DOMAIN jobs' : jobs'[i] \in Job
      BY <1>12 DEF JInv, TypeOK
    <2>2. \A v \in Workers : worker'[v].job \in DOMAIN jobs \cup {None}
      BY <1>6 DEF JInv, TypeOK
    <2>3. Ordered'
      BY <1>12 DEF JInv, TypeOK, Ordered, Process
    <2> QED BY <1>4, <1>10, <1>12, <2>1, <2>2, <2>3 DEF JInv, TypeOK, PoolFrame
  <1>14. Shape'
    BY <1>6, <1>12 DEF JInv, Shape, Process
  <1>15. Counted' /\ DeadLetterEarned'
    <2> SUFFICES ASSUME NEW i \in DOMAIN jobs
                 PROVE  /\ spent'[i] \in 0..MaxAttempts /\ jobs'[i].retries <= spent'[i]
                        /\ ~ Terminal(jobs'[i]) => jobs'[i].retries < MaxAttempts
                        /\ jobs'[i].status = "dead_letter" => spent'[i] >= MaxAttempts
      BY <1>12 DEF Counted, DeadLetterEarned
    <2>1. CASE i = id
      BY <1>9, <1>10, <1>11, <1>12, <2>1
    <2>2. CASE i # id
      BY <1>10, <1>12, <2>2 DEF JInv, Counted, DeadLetterEarned
    <2> QED BY <2>1, <2>2
  <1>16. late' = IF Holders(id) = {w} THEN late \ {id} ELSE late
    BY <1>1 DEF Process
  <1>17. OneHolder'
    <2> SUFFICES ASSUME NEW i \in DOMAIN jobs, i \notin late'
                 PROVE  /\ \A u, v \in Holders(i)' : u = v
                        /\ Holders(i)' # {} => jobs'[i].status = "running" /\ jobs'[i].age <= Lease
      BY <1>12 DEF OneHolder
    <2>1. CASE i = id
      <3>1. CASE Holders(id) = {w}
        BY <1>7, <2>1, <3>1
      <3>2. CASE Holders(id) # {w}
        <4>1. id \notin late
          BY <1>16, <2>1, <3>2
        <4>2. \A u, v \in Holders(id) : u = v
          BY <1>2, <4>1 DEF JInv, OneHolder
        <4> QED BY <1>2, <3>2, <4>2
      <3> QED BY <3>1, <3>2
    <2>2. CASE i # id
      BY <1>7, <1>12, <1>16, <2>2 DEF JInv, OneHolder
    <2> QED BY <2>1, <2>2
  <1>18. Attended'
    <2> SUFFICES ASSUME NEW i \in DOMAIN jobs, jobs'[i].status = "running"
                 PROVE  Holders(i)' # {} \/ i \in abandoned'
      BY <1>12 DEF Attended
    <2>1. CASE i = id
      BY <1>2, <1>7, <1>11, <1>12, <2>1
    <2>2. CASE i # id
      BY <1>7, <1>11, <1>12, <2>2 DEF JInv, Attended
    <2> QED BY <2>1, <2>2
  <1>19. Draining'
    <2> SUFFICES ASSUME NEW v \in Workers
                 PROVE  /\ overrun'[v] <= 1 /\ (worker'[v].pc = "work" => overrun'[v] = 0)
                        /\ overrun'[v] > 0 => Canceled(PoolOf(v))'
      BY DEF Draining
    <2>1. overrun'[v] = overrun[v]
      BY DEF Process
    <2>2. overrun[v] > 0 => Canceled(PoolOf(v))'
      BY <1>4, StaysCanceled DEF JInv, Draining, PoolFrame
    <2> QED BY <1>6, <2>1, <2>2 DEF JInv, Draining
  <1>20. Gone'
    BY <1>2, <1>6 DEF JInv, Gone, Exited, Members, Process
  <1> QED BY <1>13, <1>14, <1>15, <1>17, <1>18, <1>19, <1>20 DEF JInv

\* A job is added at the end of the order.
LEMMA EnqueueJInv ==
  ASSUME JInv, NEW in \in Submissions, Enqueue(in)
  PROVE  JInv'
  <1>a. in.id \in IDs /\ in.priority \in Nat /\ in.delay \in 0..MaxDelay
    BY JobsAssumption DEF JobsAssumption
  <1>b. PICK id \in IDs, priority \in Nat, delay \in 0..MaxDelay :
           id = in.id /\ priority = in.priority /\ delay = in.delay
    BY <1>a
  <1>0. None \notin IDs /\ DOMAIN jobs \subseteq IDs /\ worker \in [Workers -> WorkerState]
    BY JobsAssumption DEF JobsAssumption, JInv, TypeOK, Shape
  <1>1. id \notin DOMAIN jobs /\ UNCHANGED <<worker, ctx, fatal, returned, overrun, faults, late, abandoned>>
    BY <1>b DEF Enqueue, pool
  <1>2. PICK j : j = [status |-> "pending", priority |-> priority, retries |-> 0,
                      delay |-> delay, age |-> 0]
    OBVIOUS
  <1>3. 0 \in 0..MaxAttempts /\ 0 < MaxAttempts
    BY JobsAssumption DEF JobsAssumption
  <1>4. j \in Job /\ j.status = "pending" /\ j.retries = 0 /\ ~ Terminal(j)
    BY <1>2, <1>3, FreshAge DEF Job, Terminal
  <1>5. /\ DOMAIN jobs' = DOMAIN jobs \cup {id} /\ jobs'[id] = j
        /\ \A i \in DOMAIN jobs : jobs'[i] = jobs[i]
    BY <1>b, <1>1, <1>2 DEF Enqueue, With
  <1>6. /\ DOMAIN spent' = DOMAIN jobs' /\ spent'[id] = 0
        /\ \A i \in DOMAIN jobs : spent'[i] = spent[i]
    BY <1>b, <1>1, <1>5 DEF Enqueue, With, JInv, TypeOK
  <1>7. Ordered'
    <2>1. /\ order' = order \cup {<<older, id>> : older \in DOMAIN jobs}
          /\ order \subseteq (DOMAIN jobs) \X (DOMAIN jobs)
      BY <1>b DEF Enqueue, JInv, TypeOK, Ordered
    <2>2. /\ \A a, b \in DOMAIN jobs : <<a, b>> \in order' <=> <<a, b>> \in order
          /\ \A a \in DOMAIN jobs : <<a, id>> \in order' /\ <<id, a>> \notin order'
          /\ <<id, id>> \notin order'
      BY <1>1, <2>1
    <2>3. order' \subseteq (DOMAIN jobs') \X (DOMAIN jobs')
      BY <1>5, <2>1
    <2>4. ASSUME NEW a \in DOMAIN jobs', NEW b \in DOMAIN jobs'
          PROVE  /\ a = b \/ <<a, b>> \in order' \/ <<b, a>> \in order'
                 /\ <<a, b>> \in order' => <<b, a>> \notin order'
      BY <1>5, <2>2 DEF JInv, TypeOK, Ordered
    <2>5. ASSUME NEW a \in DOMAIN jobs', NEW b \in DOMAIN jobs', NEW c \in DOMAIN jobs',
                 <<a, b>> \in order', <<b, c>> \in order'
          PROVE  <<a, c>> \in order'
      <3>1. a # id /\ b # id
        BY <1>5, <2>2, <2>5
      <3>2. a \in DOMAIN jobs /\ b \in DOMAIN jobs
        BY <1>5, <3>1
      <3>3. CASE c = id
        BY <2>2, <3>2, <3>3
      <3>4. CASE c # id
        <4>1. c \in DOMAIN jobs
          BY <1>5, <3>4
        <4> QED BY <2>2, <2>5, <3>2, <4>1 DEF JInv, TypeOK, Ordered
      <3> QED BY <3>3, <3>4
    <2> QED BY <2>3, <2>4, <2>5 DEF Ordered
  <1>8. TypeOK'
    BY <1>0, <1>1, <1>4, <1>5, <1>6, <1>7 DEF JInv, TypeOK
  <1>9. Shape'
    <2>1. IsFiniteSet(DOMAIN jobs')
      BY <1>5, FS_AddElement DEF JInv, Shape
    <2> QED BY <1>1, <1>5, <2>1 DEF JInv, Shape
  <1>10. Counted' /\ DeadLetterEarned'
    BY <1>3, <1>4, <1>5, <1>6 DEF JInv, Counted, DeadLetterEarned
  <1>11. Holders(id)' = {} /\ \A i \in DOMAIN jobs : Holders(i)' = Holders(i)
    BY <1>0, <1>1 DEF Holders, JInv, TypeOK
  <1>12. OneHolder' /\ Attended'
    BY <1>1, <1>4, <1>5, <1>11 DEF JInv, OneHolder, Attended
  <1>13. Draining' /\ Gone'
    BY <1>1 DEF JInv, Draining, Gone, Exited, Canceled
  <1> QED BY <1>8, <1>9, <1>10, <1>12, <1>13 DEF JInv

\* A terminal job that nobody holds is removed.
LEMMA PurgeJInv ==
  ASSUME JInv, NEW id \in IDs, PurgeTerminal(id)
  PROVE  JInv'
  <1>1. /\ id \in DOMAIN jobs /\ Holders(id) = {} /\ abandoned' = abandoned \ {id}
        /\ UNCHANGED <<worker, ctx, fatal, returned, overrun, faults, late>>
    BY DEF PurgeTerminal, pool
  <1>2. DOMAIN jobs' = DOMAIN jobs \ {id} /\ \A i \in DOMAIN jobs' : jobs'[i] = jobs[i]
    BY DEF PurgeTerminal, Without
  <1>3. DOMAIN spent' = DOMAIN jobs' /\ \A i \in DOMAIN jobs' : spent'[i] = spent[i]
    BY <1>2 DEF PurgeTerminal, Without, JInv, TypeOK
  <1>4. Ordered'
    <2>1. order' = {e \in order : e[1] # id /\ e[2] # id}
      BY DEF PurgeTerminal
    <2>2. \A a, b \in DOMAIN jobs' : <<a, b>> \in order' <=> <<a, b>> \in order
      BY <1>2, <2>1
    <2>3. order' \subseteq (DOMAIN jobs') \X (DOMAIN jobs')
      BY <1>2, <2>1 DEF JInv, TypeOK, Ordered
    <2> QED BY <1>2, <2>2, <2>3 DEF JInv, TypeOK, Ordered
  <1>5. \A w \in Workers : worker[w].job # id
    BY <1>1 DEF Holders
  <1>6. TypeOK'
    BY <1>1, <1>2, <1>3, <1>4, <1>5 DEF JInv, TypeOK
  <1>7. Shape'
    <2>1. IsFiniteSet(DOMAIN jobs')
      BY <1>2, FS_RemoveElement DEF JInv, Shape
    <2> QED BY <1>1, <1>2, <1>5, <2>1 DEF JInv, Shape
  <1>8. Counted' /\ DeadLetterEarned'
    BY <1>2, <1>3 DEF JInv, Counted, DeadLetterEarned
  <1>9. OneHolder' /\ Attended'
    BY <1>1, <1>2 DEF JInv, OneHolder, Attended, Holders
  <1>10. Draining' /\ Gone'
    BY <1>1 DEF JInv, Draining, Gone, Exited, Canceled
  <1> QED BY <1>6, <1>7, <1>8, <1>9, <1>10 DEF JInv

\* The process dies and is started again.
LEMMA CrashJInv ==
  ASSUME JInv, Crash
  PROVE  JInv'
  <1>0. None \notin IDs /\ DOMAIN jobs \subseteq IDs
    BY JobsAssumption DEF JobsAssumption, JInv, TypeOK
  <1>1. /\ worker' \in [Workers -> WorkerState] /\ overrun' \in [Workers -> Nat]
        /\ \A w \in Workers : worker'[w].pc = "parked" /\ worker'[w].job = None /\ overrun'[w] = 0
        /\ ctx' = {} /\ fatal' = {} /\ returned' = {} /\ late' = {}
        /\ UNCHANGED <<jobs, order, spent>>
    BY DEF Crash, Started, Parked, WorkerState
  <1>2. faults' \in 0..MaxFaults
    BY JobsAssumption DEF JobsAssumption, Crash, JInv, TypeOK
  <1>3. TypeOK'
    BY <1>1, <1>2 DEF JInv, TypeOK, Ordered
  <1>4. Shape' /\ Counted' /\ DeadLetterEarned'
    BY <1>1 DEF JInv, Shape, Counted, DeadLetterEarned
  <1>5. \A id \in DOMAIN jobs : Holders(id)' = {}
    BY <1>0, <1>1 DEF Holders
  <1>6. OneHolder' /\ Attended'
    BY <1>1, <1>5 DEF JInv, OneHolder, Attended, Crash
  <1>7. Draining' /\ Gone'
    BY <1>1 DEF Draining, Gone
  <1> QED BY <1>3, <1>4, <1>6, <1>7 DEF JInv

\* A tick changes the delay and the age of a job.
LEMMA TickedJob ==
  ASSUME NEW j \in Job
  PROVE  LET k == [j EXCEPT !.delay = IF @ > 0 THEN @ - 1 ELSE 0,
                            !.age = IF j.status = "running" /\ @ <= Lease THEN @ + 1 ELSE @]
         IN k \in Job /\ k.status = j.status /\ k.retries = j.retries
  <1>1. PICK d : d = IF j.delay > 0 THEN j.delay - 1 ELSE 0
    OBVIOUS
  <1>2. PICK a : a = IF j.status = "running" /\ j.age <= Lease THEN j.age + 1 ELSE j.age
    OBVIOUS
  <1>3. d \in 0..MaxDelay /\ a \in 0..(Lease + 1)
    <2>1. MaxDelay \in Nat /\ Lease \in Nat
      BY JobsAssumption DEF JobsAssumption
    <2>2. j.delay \in 0..MaxDelay /\ j.age \in 0..(Lease + 1)
      BY JobFields
    <2> QED BY <1>1, <1>2, <2>1, <2>2
  <1>4. PICK k : k = [j EXCEPT !.delay = d, !.age = a]
    OBVIOUS
  <1>5. k \in Job /\ k.status = j.status /\ k.retries = j.retries
    BY <1>3, <1>4 DEF Job
  <1> QED BY <1>1, <1>2, <1>4, <1>5

\* The clock moves on; whoever still holds a job past its lease is late.
LEMMA TickJInv ==
  ASSUME JInv, Tick
  PROVE  JInv'
  <1>1. UNCHANGED <<order, worker, ctx, fatal, returned, overrun, faults, spent, abandoned>>
    BY DEF Tick, pool
  <1>2. DOMAIN jobs' = DOMAIN jobs
    BY DEF Tick
  <1>3. ASSUME NEW id \in DOMAIN jobs
        PROVE  /\ jobs'[id] \in Job /\ jobs'[id].status = jobs[id].status
               /\ jobs'[id].retries = jobs[id].retries
    <2>1. PICK j \in Job : j = jobs[id]
      BY DEF JInv, TypeOK
    <2>2. jobs'[id] = [j EXCEPT !.delay = IF @ > 0 THEN @ - 1 ELSE 0,
                                !.age = IF j.status = "running" /\ @ <= Lease THEN @ + 1 ELSE @]
      BY <2>1 DEF Tick
    <2> QED BY <2>1, <2>2, TickedJob
  <1>4. TypeOK'
    BY <1>1, <1>2, <1>3 DEF JInv, TypeOK, Ordered
  <1>5. Shape'
    BY <1>1, <1>2 DEF JInv, Shape
  <1>6. Counted' /\ DeadLetterEarned'
    BY <1>1, <1>2, <1>3 DEF JInv, Counted, DeadLetterEarned, Terminal
  <1>7. \A id : Holders(id)' = Holders(id)
    BY <1>1 DEF Holders
  <1>8. OneHolder'
    <2> SUFFICES ASSUME NEW id \in DOMAIN jobs, id \notin late'
                 PROVE  /\ \A v, w \in Holders(id) : v = w
                        /\ Holders(id) # {} => jobs'[id].status = "running" /\ jobs'[id].age <= Lease
      BY <1>2, <1>7 DEF OneHolder
    <2>1. id \notin late
      BY DEF Tick
    <2>2. Holders(id) # {} => ~ (jobs'[id].age > Lease)
      BY DEF Tick
    <2>3. jobs'[id].age \in Nat /\ Lease \in Nat
      BY <1>3, JobFields, JobsAssumption DEF JobsAssumption
    <2> QED BY <1>3, <2>1, <2>2, <2>3 DEF JInv, OneHolder
  <1>9. Attended'
    BY <1>1, <1>2, <1>3, <1>7 DEF JInv, Attended
  <1>10. Draining' /\ Gone'
    BY <1>1 DEF JInv, Draining, Gone, Exited, Canceled
  <1> QED BY <1>4, <1>5, <1>6, <1>8, <1>9, <1>10 DEF JInv

-----------------------------------------------------------------------------
(* The theorems. *)

\* An empty store and a pool that has just been started.
LEMMA InitJInv == Init => JInv
  <1> SUFFICES ASSUME Init PROVE JInv
    OBVIOUS
  <1>1. DOMAIN jobs = {} /\ DOMAIN spent = {} /\ IsFiniteSet(DOMAIN jobs)
    BY FS_EmptySet DEF Init
  <1>2. faults \in 0..MaxFaults
    BY JobsAssumption DEF JobsAssumption, Init
  <1>3. /\ worker \in [Workers -> WorkerState] /\ overrun \in [Workers -> Nat]
        /\ \A w \in Workers : worker[w].pc = "parked" /\ worker[w].job = None /\ overrun[w] = 0
    BY DEF Init, Parked, WorkerState
  <1>4. TypeOK /\ Shape
    BY <1>1, <1>2, <1>3 DEF Init, TypeOK, Ordered, Shape
  <1>5. Counted /\ DeadLetterEarned /\ OneHolder /\ Attended
    BY <1>1 DEF Counted, DeadLetterEarned, OneHolder, Attended
  <1>6. Draining /\ Gone
    BY <1>3 DEF Init, Draining, Gone
  <1> QED BY <1>4, <1>5, <1>6 DEF JInv

\* A handler answers for a job it holds.
LEMMA HandledIDs ==
  ASSUME JInv, NEW w \in Workers, worker[w].pc = "handle"
  PROVE  /\ worker[w].job \in DOMAIN jobs /\ worker[w].job \in IDs
         /\ Answers[worker[w].job] \subseteq Outcomes
  <1>1. worker[w].job \in DOMAIN jobs /\ worker[w].job \in IDs
    BY DEF JInv, Shape, TypeOK
  <1> QED BY <1>1, JobsAssumption DEF JobsAssumption

\* Every step keeps the invariant.
LEMMA NextJInv == JInv /\ [Next]_vars => JInv'
  <1> SUFFICES ASSUME JInv, [Next]_vars PROVE JInv'
    OBVIOUS
  <1>1. ASSUME NEW w \in Workers, Claim(w) PROVE JInv'
    <2>1. CASE candidates # {} /\ UNCHANGED <<ctx, fatal, faults>> /\
               jobs' = [jobs EXCEPT ![best] = [@ EXCEPT !.status = "running", !.age = 0]] /\
               worker' = [worker EXCEPT ![w] = [pc |-> "handle", job |-> best]] /\
               abandoned' = abandoned \ {best} /\
               overrun' = IF Canceled(PoolOf(w)) THEN [overrun EXCEPT ![w] = @ + 1] ELSE overrun
      BY <1>1, <2>1, ClaimJInv DEF Claim
    <2>2. CASE Leave(w, IF candidates = {} THEN 0 ELSE 1) /\ UNCHANGED <<jobs, abandoned, overrun>>
      BY <1>1, <2>2, IdleStepsJInv
    <2> QED BY <1>1, <2>1, <2>2 DEF Claim
  <1>2. ASSUME NEW w \in Workers, Work(w) PROVE JInv'
    <2>1. ASSUME NEW outcome \in Outcomes, Process(w, outcome) PROVE JInv'
      BY <2>1, ProcessJInv
    <2>2. worker[w].pc = "handle" => Answers[worker[w].job] \subseteq Outcomes
      BY <1>2, HandledIDs
    <2> QED BY <1>1, <1>2, <2>1, <2>2, IdleStepsJInv DEF Work
  <1>3. CASE UNCHANGED vars
    <2>1. PoolFrame /\ Gone'
      BY <1>3 DEF vars, PoolFrame, JInv, TypeOK, Gone, Exited
    <2> QED BY <1>3, <2>1, PoolJInv DEF vars
  <1> QED BY <1>2, <1>3, PoolStepsJInv, EnqueueJInv, PurgeJInv, CrashJInv, TickJInv DEF Next

\* Every reachable state satisfies the inductive invariant.
THEOREM RuntimeInvariant == Spec => []JInv
  <1>1. JInv /\ [Next]_vars => JInv'
    BY NextJInv
  <1> QED BY <1>1, InitJInv, PTL DEF Spec

\* No attempt count passes the ceiling and no job is dead-lettered before its
\* handlers have earned it, although stale workers fail jobs that others hold and
\* store calls are lost (Fail, Defer, Runner.work).
THEOREM AttemptsSoundHolds == Spec => []AttemptsSound
  <1>1. JInv => AttemptsSound
    BY DEF JInv, AttemptsSound
  <1> QED BY <1>1, RuntimeInvariant, PTL

\* Two workers hold one job only after a handler of it outlived the lease, for
\* every number of workers, crashes and recovered claims (Checkout, due).
THEOREM ExclusiveWithinLeaseHolds == Spec => []ExclusiveWithinLease
  <1>1. JInv => ExclusiveWithinLease
    <2> SUFFICES ASSUME JInv, NEW id \in DOMAIN jobs, id \notin late
                 PROVE  ~ (Cardinality(Holders(id)) > 1)
      BY DEF ExclusiveWithinLease
    <2>1. \A v, w \in Holders(id) : v = w
      BY DEF JInv, OneHolder
    <2>2. CASE Holders(id) = {}
      BY <2>2, FS_EmptySet
    <2>3. CASE Holders(id) # {}
      <3>1. PICK w : Holders(id) = {w}
        BY <2>1, <2>3
      <3> QED BY <3>1, FS_Singleton
    <2> QED BY <2>2, <2>3
  <1> QED BY <1>1, RuntimeInvariant, PTL

\* A canceled worker takes at most the claim of the iteration it is in, and when
\* the queue pool has returned no job is left running but by a failed store call
\* or a crash (Pool.worker, drainInFlight, Runtime.Run).
THEOREM DrainCleanHolds == Spec => []DrainClean
  <1>1. JInv => DrainClean
    <2> SUFFICES ASSUME JInv PROVE DrainClean
      OBVIOUS
    <2>1. NoFreshClaims
      BY DEF JInv, Draining, NoFreshClaims
    <2>2. ASSUME "queue" \in returned, NEW id \in DOMAIN jobs, jobs[id].status = "running"
          PROVE  id \in abandoned
      <3>1. \A w \in Members("queue") : worker[w].pc = "exited"
        BY <2>2 DEF JInv, Gone, Exited
      <3>2. id # None
        BY JobsAssumption DEF JobsAssumption, JInv, TypeOK
      <3>3. ASSUME NEW w \in Holders(id) PROVE FALSE
        <4>1. w \in Workers /\ worker[w].job = id /\ worker[w].pc = "handle"
          BY <3>2 DEF Holders, JInv, Shape
        <4>2. w \in Members("queue")
          BY <4>1 DEF JInv, Shape, Members, PoolOf
        <4> QED BY <3>1, <4>1, <4>2
      <3> QED BY <2>2, <3>3 DEF JInv, Attended
    <2> QED BY <2>1, <2>2 DEF DrainClean, DrainSettles
  <1> QED BY <1>1, RuntimeInvariant, PTL

\* What the runner makes of a terminal job is that job.
LEMMA SettledStands ==
  ASSUME NEW w \in Workers, NEW outcome \in Outcomes, Terminal(jobs[worker[w].job]),
         NEW j \in settled(w, outcome)
  PROVE  j = jobs[worker[w].job]
  BY DEF settled, completed, failedJob, deferred, Terminal, Outcomes

\* A settled job stays as it was settled until it is purged, whichever workers
\* with stale claims complete, fail or defer it afterwards (Complete, Fail, Defer).
THEOREM SettlementsStandHolds == Spec => SettlementsStand
  <1>1. JInv /\ [Next]_vars => [SettlementStep]_vars
    <2> SUFFICES ASSUME JInv, Next, NEW id \in DOMAIN jobs, Terminal(jobs[id]), id \in DOMAIN jobs'
                 PROVE  jobs'[id].status = jobs[id].status /\ jobs'[id].retries = jobs[id].retries
      BY DEF SettlementStep
    <2>1. ASSUME NEW w \in Workers, Claim(w), jobs' # jobs
          PROVE  jobs'[id] = jobs[id]
      <3>1. candidates # {} /\ jobs' = [jobs EXCEPT ![best] = [@ EXCEPT !.status = "running", !.age = 0]]
        BY <2>1 DEF Claim
      <3>2. best \in candidates
        BY <3>1, BestSound
      <3>3. best # id
        BY <3>2 DEF candidates, due, Terminal
      <3> QED BY <3>1, <3>3
    <2>2. ASSUME NEW w \in Workers, NEW outcome \in Outcomes, Process(w, outcome)
          PROVE  jobs'[id] = jobs[id]
      <3>1. CASE UNCHANGED jobs
        BY <3>1
      <3>2. CASE \E j \in settled(w, outcome) : jobs' = [jobs EXCEPT ![worker[w].job] = j]
        <4>1. PICK j \in settled(w, outcome) : jobs' = [jobs EXCEPT ![worker[w].job] = j]
          BY <3>2
        <4>2. id = worker[w].job => j = jobs[id]
          BY SettledStands
        <4> QED BY <4>1, <4>2
      <3> QED BY <2>2, <3>1, <3>2 DEF Process
    <2>3. ASSUME NEW in \in Submissions, Enqueue(in)
          PROVE  jobs'[id] = jobs[id]
      BY <2>3 DEF Enqueue, With
    <2>4. ASSUME NEW i \in IDs, PurgeTerminal(i)
          PROVE  jobs'[id] = jobs[id]
      BY <2>4 DEF PurgeTerminal, Without
    <2>5. CASE Tick
      <3>1. PICK j \in Job : j = jobs[id]
        BY DEF JInv, TypeOK
      <3>2. jobs'[id] = [j EXCEPT !.delay = IF @ > 0 THEN @ - 1 ELSE 0,
                                  !.age = IF j.status = "running" /\ @ <= Lease THEN @ + 1 ELSE @]
        BY <2>5, <3>1 DEF Tick
      <3> QED BY <3>1, <3>2, TickedJob
    <2>6. ASSUME NEW w \in Workers, Work(w) PROVE jobs'[id] = jobs[id]
      <3>1. CASE Begin(w) \/ Schedule(w)
        BY <3>1 DEF Begin, Schedule
      <3>2. CASE worker[w].pc = "handle" /\ \E outcome \in Answers[worker[w].job] : Process(w, outcome)
        BY <2>2, <3>2, HandledIDs
      <3> QED BY <2>1, <2>6, <3>1, <3>2 DEF Work
    <2>7. ASSUME (\E p \in Pools : PoolReturns(p)) \/ Cancel \/ Crash PROVE jobs' = jobs
      BY <2>7 DEF PoolReturns, Cancel, Crash
    <2> QED BY <2>3, <2>4, <2>5, <2>6, <2>7 DEF Next
  <1> QED BY <1>1, RuntimeInvariant, PTL DEF Spec, SettlementsStand
============================================================================
