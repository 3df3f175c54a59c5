------------------------ MODULE FencedDeliveryProofs ------------------------
(* Safety of the fenced queue for every number of jobs, keys and tokens, then *)
(* of durable delivery over it for every number of executions, workers,       *)
(* tokens and secrets, and for every lease, margin, backoff and clock lag.    *)
EXTENDS FencedDelivery, TLAPS

-----------------------------------------------------------------------------
(* The queue alone.  Nothing here uses the assumptions on delivery. *)

\* The inductive invariant.  LeaseFence carries what the fence of the next
\* claim needs (every token in use has been issued) and ActiveIsLatest what the
\* next admission needs; TypeOK alone is inductive only with retries >= 1 for
\* running jobs, which LeaseFence adds.
IInv == TypeOK /\ OneActivePerKey /\ ActiveIsLatest /\ LeaseFence

\* The empty store of NewFencedQueue satisfies the inductive invariant.
LEMMA InitIInv == Init => IInv
  BY DEF Init, IInv, TypeOK, OneActivePerKey, ActiveIsLatest, LeaseFence

\* The record an admission stores is well formed.
LEMMA NewJobType ==
  ASSUME NEW in \in Enqueue, NEW t \in Instants
  PROVE  NewJob(in, t) \in Job
  <1>1. /\ in.kind \in Kinds /\ in.key \in Keys \cup {NoKey}
        /\ in.priority \in Priorities /\ in.payload \in Payloads
    BY DEF Enqueue
  <1>2. in.scheduledFor \in Int
    BY QueueAssumption DEF QueueAssumption, Enqueue
  <1>3. t \in Nat /\ NoTime \in Int /\ "pending" \in Statuses
    BY QueueAssumption DEF QueueAssumption, NoTime, Statuses
  <1> QED BY <1>1, <1>2, <1>3 DEF NewJob, Job

\* Admission of a fresh execution into a table that holds no active execution
\* of its key: the shared tail of EnqueueOnce and Replace.  `table` is the store
\* after Replace retired the active holders (the store itself for EnqueueOnce).
LEMMA InsertIInv ==
  ASSUME NEW table, NEW in \in Enqueue, NEW t \in Instants,
         DOMAIN table = DOMAIN jobs,
         \A i \in DOMAIN jobs :
            /\ table[i] \in Job
            /\ table[i].key = jobs[i].key /\ table[i].createdAt = jobs[i].createdAt
            /\ Terminal(jobs[i]) => Terminal(table[i])
            /\ table[i].leaseID \in {jobs[i].leaseID, NoLease}
            /\ table[i].status = "running" => table[i] = jobs[i]
            /\ table[i].status \in {"pending", "canceled", "superseded"} =>
                  table[i].leaseID = NoLease
            /\ (in.key # NoKey /\ jobs[i].key = in.key) =>
                  Terminal(table[i]) /\ t > jobs[i].createdAt,
         IInv, in.id \notin DOMAIN jobs, issued' = issued,
         jobs' = With(table, in.id, NewJob(in, t))
  PROVE  IInv'
  <1>1. /\ DOMAIN jobs' = DOMAIN jobs \cup {in.id}
        /\ jobs'[in.id] = NewJob(in, t)
        /\ \A i \in DOMAIN jobs : jobs'[i] = table[i]
    BY DEF With
  <1>2. TypeOK'
    BY <1>1, NewJobType DEF IInv, TypeOK, Enqueue
  <1>3. OneActivePerKey'
    BY <1>1 DEF IInv, OneActivePerKey, Terminal, TerminalStatuses, NewJob
  <1>4. ActiveIsLatest'
    BY <1>1 DEF IInv, ActiveIsLatest, Holders, Terminal, TerminalStatuses, NewJob
  <1>5. LeaseFence'
    BY <1>1 DEF IInv, LeaseFence, NewJob
  <1> QED BY <1>2, <1>3, <1>4, <1>5 DEF IInv

\* EnqueueOnce inserts only when its key has no active execution, and with
\* a creation time later than every holder of the key, so it keeps the invariant.
LEMMA EnqueueOnceIInv ==
  ASSUME IInv, NEW in \in Enqueue, NEW clock \in Times, EnqueueOnce(in, clock)
  PROVE  IInv'
  <1>1. PICK t \in Instants : /\ CreationTime(in.key, clock, t)
                              /\ jobs' = With(jobs, in.id, NewJob(in, t))
    BY DEF EnqueueOnce
  <1>2. /\ in.id \notin DOMAIN jobs /\ issued' = issued
        /\ in.key # NoKey => activeByKey(in.key) = {}
    BY DEF EnqueueOnce
  <1>3. ASSUME NEW i \in DOMAIN jobs, in.key # NoKey, jobs[i].key = in.key
        PROVE  Terminal(jobs[i]) /\ t > jobs[i].createdAt
    BY <1>1, <1>2, <1>3 DEF activeByKey, Holders, CreationTime
  <1>4. \A i \in DOMAIN jobs : /\ jobs[i] \in Job
                               /\ jobs[i].status \in {"pending", "canceled", "superseded"} =>
                                     jobs[i].leaseID = NoLease
    BY DEF IInv, TypeOK, LeaseFence
  <1> QED BY <1>1, <1>2, <1>3, <1>4, InsertIInv

\* Replace retires the active holders of the key before it inserts, in one step.
LEMMA ReplaceIInv ==
  ASSUME IInv, NEW in \in Enqueue, NEW clock \in Times, Replace(in, clock)
  PROVE  IInv'
  <1> DEFINE retired == IF in.key = NoKey THEN {} ELSE activeByKey(in.key)
             table == [i \in DOMAIN jobs |->
                          IF i \in retired THEN Superseded(jobs[i], clock) ELSE jobs[i]]
  <1>1. PICK t \in Instants : /\ CreationTime(in.key, clock, t)
                              /\ jobs' = With(table, in.id, NewJob(in, t))
    BY DEF Replace
  <1>2. in.id \notin DOMAIN jobs /\ issued' = issued
    BY DEF Replace
  <1>3. ASSUME NEW i \in DOMAIN jobs
        PROVE  /\ table[i] \in Job
               /\ table[i].key = jobs[i].key /\ table[i].createdAt = jobs[i].createdAt
               /\ Terminal(jobs[i]) => Terminal(table[i])
               /\ table[i].leaseID \in {jobs[i].leaseID, NoLease}
               /\ table[i].status = "running" => table[i] = jobs[i]
               /\ table[i].status \in {"pending", "canceled", "superseded"} =>
                     table[i].leaseID = NoLease
               /\ (in.key # NoKey /\ jobs[i].key = in.key) =>
                     Terminal(table[i]) /\ t > jobs[i].createdAt
    <2>1. jobs[i] \in Job
      BY DEF IInv, TypeOK
    <2>2. CASE i \in retired
      <3>1. table[i] = Superseded(jobs[i], clock)
        BY <2>2
      <3>2. clock \in Int /\ NoTime \in Int /\ "superseded" \in Statuses
        BY QueueAssumption DEF QueueAssumption, NoTime, Statuses, TerminalStatuses
      <3>3. Superseded(jobs[i], clock) \in Job
        BY <2>1, <3>2 DEF Superseded, Job
      <3>4. /\ table[i].key = jobs[i].key /\ table[i].createdAt = jobs[i].createdAt
            /\ table[i].status = "superseded" /\ table[i].leaseID = NoLease
        BY <2>1, <3>1 DEF Superseded, Job
      <3>5. jobs[i].key = in.key /\ in.key # NoKey
        BY <2>2 DEF activeByKey, Holders
      <3>6. t > jobs[i].createdAt
        BY <1>1, <3>5 DEF CreationTime, Holders
      <3> HIDE DEF table
      <3> QED BY <3>1, <3>3, <3>4, <3>6 DEF Terminal, TerminalStatuses
    <2>3. CASE i \notin retired
      <3>1. table[i] = jobs[i]
        BY <2>3
      <3>2. (in.key # NoKey /\ jobs[i].key = in.key) => Terminal(jobs[i]) /\ t > jobs[i].createdAt
        BY <1>1, <2>3 DEF CreationTime, Holders, activeByKey
      <3> HIDE DEF table
      <3> QED BY <2>1, <3>1, <3>2 DEF IInv, LeaseFence
    <2> QED BY <2>2, <2>3
  <1>4. DOMAIN table = DOMAIN jobs
    OBVIOUS
  <1> HIDE DEF table
  <1> QED BY <1>1, <1>2, <1>3, <1>4, InsertIInv

\* A step that rewrites one stored job: it may retire the job but never revives
\* it, keeps its key and age, and leaves a token only it carries.
LEMMA UpdateIInv ==
  ASSUME NEW id \in DOMAIN jobs, NEW j \in Job,
         IInv,
         jobs' = [jobs EXCEPT ![id] = j],
         issued \subseteq issued', issued' \subseteq LeaseIDs,
         j.key = jobs[id].key, j.createdAt = jobs[id].createdAt,
         Terminal(jobs[id]) => Terminal(j),
         j.leaseID # NoLease => /\ j.leaseID \in issued'
                                /\ \/ j.leaseID = jobs[id].leaseID
                                   \/ j.leaseID \notin issued,
         j.status = "running" => j.leaseID # NoLease /\ j.retries >= 1,
         j.status \in {"pending", "canceled", "superseded"} => j.leaseID = NoLease
  PROVE  IInv'
  <1>1. /\ DOMAIN jobs' = DOMAIN jobs
        /\ jobs'[id] = j
        /\ \A i \in DOMAIN jobs \ {id} : jobs'[i] = jobs[i]
    OBVIOUS
  <1>2. TypeOK'
    BY <1>1 DEF IInv, TypeOK
  <1>3. OneActivePerKey'
    BY <1>1 DEF IInv, OneActivePerKey, Terminal
  <1>4. ActiveIsLatest'
    BY <1>1 DEF IInv, ActiveIsLatest, Holders, Terminal
  <1>5. LeaseFence'
    BY <1>1 DEF IInv, LeaseFence
  <1> QED BY <1>2, <1>3, <1>4, <1>5 DEF IInv

\* A claim writes a token no earlier claim was given.
LEMMA ClaimIInv ==
  ASSUME IInv, NEW id \in JobIDs, NEW clock \in Times, NEW l \in LeaseIDs,
         NEW d \in LeaseFor, NEW kinds \in SUBSET Kinds, Claim(id, clock, l, d, kinds)
  PROVE  IInv'
  <1> DEFINE spent == jobs[id].retries + 1
             j == [jobs[id] EXCEPT !.status = "running", !.leaseID = l,
                                   !.leasedUntil = clock + d, !.retries = spent]
  <1>1. /\ id \in DOMAIN jobs /\ l \notin issued /\ issued' = issued \cup {l}
        /\ fencedDue(jobs[id], clock)
        /\ jobs' = [jobs EXCEPT ![id] = j]
    BY DEF Claim
  <1>2. jobs[id] \in Job /\ ~ Terminal(jobs[id])
    BY <1>1 DEF IInv, TypeOK, fencedDue, Terminal, TerminalStatuses
  <1>3. clock + d \in Int /\ "running" \in Statuses /\ l # NoLease
    BY QueueAssumption DEF QueueAssumption, Statuses
  <1>4. spent \in Nat /\ spent >= 1
    BY <1>2 DEF Job
  <1> HIDE DEF spent
  <1>5. /\ j \in Job /\ j.key = jobs[id].key /\ j.createdAt = jobs[id].createdAt
        /\ j.leaseID = l /\ j.status = "running" /\ j.retries >= 1
    BY <1>2, <1>3, <1>4 DEF Job
  <1>6. issued' \subseteq LeaseIDs
    BY <1>1 DEF IInv, TypeOK
  <1> HIDE DEF j
  <1> QED BY <1>1, <1>2, <1>3, <1>5, <1>6, UpdateIInv

\* The transitions of the lease holder, and Cancel.
LEMMA SettlingIInv ==
  ASSUME IInv, Settling
  PROVE  IInv'
  <1>1. PICK id \in JobIDs, l \in LeaseIDs, clock \in Times :
            \/ \E p \in Payloads : Checkpoint(id, l, p, clock)
            \/ Complete(id, l, clock)
            \/ Fail(id, l, clock)
            \/ \E at \in Instants : Reschedule(id, l, at, clock) \/ Defer(id, l, at, clock)
    BY DEF Settling
  <1>2. /\ id \in DOMAIN jobs /\ heldBy(jobs[id], l, clock) /\ issued' = issued
    BY <1>1 DEF Checkpoint, Complete, Fail, Reschedule, Defer
  <1>3. /\ jobs[id] \in Job /\ ~ Terminal(jobs[id]) /\ issued \subseteq LeaseIDs
        /\ jobs[id].status = "running" /\ jobs[id].retries >= 1
        /\ jobs[id].leaseID # NoLease /\ jobs[id].leaseID \in issued
    BY <1>2 DEF IInv, TypeOK, LeaseFence, heldBy, Terminal, TerminalStatuses
  <1>4. /\ clock \in Int /\ NoTime \in Int /\ Instants \subseteq Int
        /\ {"pending", "completed", "dead_letter"} \subseteq Statuses
    BY QueueAssumption DEF QueueAssumption, NoTime, Statuses, TerminalStatuses
  <1>5. CASE \E p \in Payloads : Checkpoint(id, l, p, clock)
    <2>1. PICK p \in Payloads : Checkpoint(id, l, p, clock)
      BY <1>5
    <2> DEFINE j == [jobs[id] EXCEPT !.payload = p]
    <2>2. jobs' = [jobs EXCEPT ![id] = j]
      BY <2>1 DEF Checkpoint
    <2>3. /\ j \in Job /\ j.key = jobs[id].key /\ j.createdAt = jobs[id].createdAt
          /\ j.leaseID = jobs[id].leaseID /\ j.status = "running" /\ j.retries >= 1
      BY <1>3 DEF Job
    <2> HIDE DEF j
    <2> QED BY <1>2, <1>3, <2>2, <2>3, UpdateIInv
  <1>6. CASE Complete(id, l, clock)
    <2> DEFINE j == [jobs[id] EXCEPT !.status = "completed", !.terminalAt = clock]
    <2>1. jobs' = [jobs EXCEPT ![id] = j]
      BY <1>6 DEF Complete
    <2>2. /\ j \in Job /\ j.key = jobs[id].key /\ j.createdAt = jobs[id].createdAt
          /\ j.leaseID = jobs[id].leaseID /\ j.status = "completed"
      BY <1>3, <1>4 DEF Job
    <2> HIDE DEF j
    <2> QED BY <1>2, <1>3, <2>1, <2>2, UpdateIInv
  <1>7. CASE Fail(id, l, clock)
    <2> DEFINE j == [jobs[id] EXCEPT !.status = "dead_letter", !.terminalAt = clock]
    <2>1. jobs' = [jobs EXCEPT ![id] = j]
      BY <1>7 DEF Fail
    <2>2. /\ j \in Job /\ j.key = jobs[id].key /\ j.createdAt = jobs[id].createdAt
          /\ j.leaseID = jobs[id].leaseID /\ j.status = "dead_letter"
      BY <1>3, <1>4 DEF Job
    <2> HIDE DEF j
    <2> QED BY <1>2, <1>3, <2>1, <2>2, UpdateIInv
  <1>8. CASE \E at \in Instants : Reschedule(id, l, at, clock)
    <2>1. PICK at \in Instants : Reschedule(id, l, at, clock)
      BY <1>8
    <2> DEFINE j == [jobs[id] EXCEPT !.status = "pending", !.scheduledFor = at,
                                     !.leaseID = NoLease, !.leasedUntil = NoTime]
    <2>2. jobs' = [jobs EXCEPT ![id] = j]
      BY <2>1 DEF Reschedule
    <2>3. /\ j \in Job /\ j.key = jobs[id].key /\ j.createdAt = jobs[id].createdAt
          /\ j.leaseID = NoLease /\ j.status = "pending"
      BY <1>3, <1>4 DEF Job
    <2> HIDE DEF j
    <2> QED BY <1>2, <1>3, <2>2, <2>3, UpdateIInv
  <1>9. CASE \E at \in Instants : Defer(id, l, at, clock)
    <2>1. PICK at \in Instants : Defer(id, l, at, clock)
      BY <1>9
    <2> DEFINE refunded == jobs[id].retries - 1
               j == [jobs[id] EXCEPT !.status = "pending", !.scheduledFor = at,
                                     !.retries = refunded,
                                     !.leaseID = NoLease, !.leasedUntil = NoTime]
    <2>2. jobs' = [jobs EXCEPT ![id] = j]
      BY <2>1 DEF Defer
    <2>3. refunded \in Nat
      BY <1>3 DEF Job
    <2> HIDE DEF refunded
    <2>4. /\ j \in Job /\ j.key = jobs[id].key /\ j.createdAt = jobs[id].createdAt
          /\ j.leaseID = NoLease /\ j.status = "pending"
      BY <1>3, <1>4, <2>3 DEF Job
    <2> HIDE DEF j
    <2> QED BY <1>2, <1>3, <2>2, <2>4, UpdateIInv
  <1> QED BY <1>1, <1>5, <1>6, <1>7, <1>8, <1>9

\* Canceling ends a pending or running execution and clears its lease.
LEMMA CancelIInv ==
  ASSUME IInv, NEW id \in JobIDs, NEW clock \in Times, Cancel(id, clock)
  PROVE  IInv'
  <1> DEFINE j == [jobs[id] EXCEPT !.status = "canceled", !.terminalAt = clock,
                                   !.leaseID = NoLease, !.leasedUntil = NoTime]
  <1>1. /\ id \in DOMAIN jobs /\ ~ Terminal(jobs[id]) /\ issued' = issued
        /\ jobs' = [jobs EXCEPT ![id] = j]
    BY DEF Cancel
  <1>2. jobs[id] \in Job /\ issued \subseteq LeaseIDs
    BY <1>1 DEF IInv, TypeOK
  <1>3. clock \in Int /\ NoTime \in Int /\ "canceled" \in Statuses
    BY QueueAssumption DEF QueueAssumption, NoTime, Statuses, TerminalStatuses
  <1>4. /\ j \in Job /\ j.key = jobs[id].key /\ j.createdAt = jobs[id].createdAt
        /\ j.leaseID = NoLease /\ j.status = "canceled"
    BY <1>2, <1>3 DEF Job
  <1> HIDE DEF j
  <1> QED BY <1>1, <1>2, <1>4, UpdateIInv

\* Purging removes terminal executions only, so it cannot break the invariant.
LEMMA PurgeIInv ==
  ASSUME IInv, NEW before \in Times, NEW limit \in PurgeLimits, PurgeTerminal(before, limit)
  PROVE  IInv'
  <1>1. PICK gone : jobs' = [i \in DOMAIN jobs \ gone |-> jobs[i]] /\ issued' = issued
    BY DEF PurgeTerminal
  <1>2. /\ DOMAIN jobs' \subseteq DOMAIN jobs
        /\ \A i \in DOMAIN jobs' : jobs'[i] = jobs[i]
    BY <1>1
  <1>3. TypeOK'
    BY <1>1, <1>2 DEF IInv, TypeOK
  <1>4. OneActivePerKey' /\ ActiveIsLatest'
    BY <1>2 DEF IInv, OneActivePerKey, ActiveIsLatest, Holders, Terminal
  <1>5. LeaseFence'
    BY <1>1, <1>2 DEF IInv, LeaseFence
  <1> QED BY <1>3, <1>4, <1>5 DEF IInv

\* Every operation of the store preserves the invariant.
LEMMA NextIInv == IInv /\ [Next]_vars => IInv'
  <1> SUFFICES ASSUME IInv, [Next]_vars PROVE IInv'
    OBVIOUS
  <1>1. CASE Admission
    BY <1>1, EnqueueOnceIInv, ReplaceIInv DEF Admission
  <1>2. CASE Claiming
    BY <1>2, ClaimIInv DEF Claiming
  <1>3. CASE Settling
    BY <1>3, SettlingIInv
  <1>4. CASE Retention
    BY <1>4, CancelIInv, PurgeIInv DEF Retention
  <1>5. CASE UNCHANGED vars
    BY <1>5 DEF vars, IInv, TypeOK, OneActivePerKey, ActiveIsLatest, LeaseFence, Holders, Terminal
  <1> QED BY <1>1, <1>2, <1>3, <1>4, <1>5 DEF Next

\* The fenced queue keeps its records well formed.
THEOREM TypeCorrect == Spec => []TypeOK
  <1>1. IInv => TypeOK
    BY DEF IInv
  <1> QED BY <1>1, InitIInv, NextIInv, PTL DEF Spec

\* A logical key never has two active executions (stores/memory/fenced.go,
\* activeByKey), for any clocks.
THEOREM KeyExclusion == Spec => []OneActivePerKey
  <1>1. IInv => OneActivePerKey
    BY DEF IInv
  <1> QED BY <1>1, InitIInv, NextIInv, PTL DEF Spec

\* The status projection reports the active execution, although clocks may
\* repeat or move backward (insert's generation order).
THEOREM LatestIsActive == Spec => []ActiveIsLatest
  <1>1. IInv => ActiveIsLatest
    BY DEF IInv
  <1> QED BY <1>1, InitIInv, NextIInv, PTL DEF Spec

\* A token names one claim of one job (heldBy's fence).
THEOREM FenceSound == Spec => []LeaseFence
  <1>1. IInv => LeaseFence
    BY DEF IInv
  <1> QED BY <1>1, InitIInv, NextIInv, PTL DEF Spec

-----------------------------------------------------------------------------
(* What a step may never do. *)

\* What the lease holder's transitions have in common.
LEMMA SettlingShape ==
  ASSUME IInv, Settling
  PROVE  \E id \in DOMAIN jobs :
            /\ jobs[id].status = "running"
            /\ DOMAIN jobs' = DOMAIN jobs
            /\ \A i \in DOMAIN jobs \ {id} : jobs'[i] = jobs[i]
            /\ jobs'[id].status # "superseded"
            /\ jobs'[id].retries \in Int /\ jobs'[id].retries <= jobs[id].retries
  <1>1. PICK id \in JobIDs, l \in LeaseIDs, clock \in Times :
            \/ \E p \in Payloads : Checkpoint(id, l, p, clock)
            \/ Complete(id, l, clock)
            \/ Fail(id, l, clock)
            \/ \E at \in Instants : Reschedule(id, l, at, clock) \/ Defer(id, l, at, clock)
    BY DEF Settling
  <1>2. id \in DOMAIN jobs /\ heldBy(jobs[id], l, clock)
    BY <1>1 DEF Checkpoint, Complete, Fail, Reschedule, Defer
  <1>3. /\ jobs[id] \in Job /\ jobs[id].retries \in Nat /\ jobs[id].status = "running"
    BY <1>2 DEF IInv, TypeOK, Job, heldBy
  <1> DEFINE Shape == /\ DOMAIN jobs' = DOMAIN jobs
                      /\ \A i \in DOMAIN jobs \ {id} : jobs'[i] = jobs[i]
                      /\ jobs'[id].status # "superseded"
                      /\ jobs'[id].retries \in Int /\ jobs'[id].retries <= jobs[id].retries
  <1>4. ASSUME NEW p \in Payloads, Checkpoint(id, l, p, clock) PROVE Shape
    BY <1>2, <1>3, <1>4 DEF Checkpoint, Job
  <1>5. ASSUME Complete(id, l, clock) PROVE Shape
    BY <1>2, <1>3, <1>5 DEF Complete, Job
  <1>6. ASSUME Fail(id, l, clock) PROVE Shape
    BY <1>2, <1>3, <1>6 DEF Fail, Job
  <1>7. ASSUME NEW at \in Instants, Reschedule(id, l, at, clock) PROVE Shape
    BY <1>2, <1>3, <1>7 DEF Reschedule, Job
  <1>8. ASSUME NEW at \in Instants, Defer(id, l, at, clock) PROVE Shape
    BY <1>2, <1>3, <1>8 DEF Defer, Job
  <1>9. Shape
    <2> HIDE DEF Shape
    <2> QED BY <1>1, <1>4, <1>5, <1>6, <1>7, <1>8
  <1> QED BY <1>2, <1>3, <1>9

\* Cancel and the purge keep every attempt count and every other status.
LEMMA RetentionShape ==
  ASSUME IInv, Retention, NEW i \in DOMAIN jobs, i \in DOMAIN jobs'
  PROVE  /\ jobs'[i].retries = jobs[i].retries
         /\ jobs'[i].status \in {jobs[i].status, "canceled"}
  <1>0. jobs[i] \in Job
    BY DEF IInv, TypeOK
  <1>1. ASSUME NEW id \in JobIDs, NEW clock \in Times, Cancel(id, clock)
        PROVE  /\ jobs'[i].retries = jobs[i].retries
               /\ jobs'[i].status \in {jobs[i].status, "canceled"}
    BY <1>0, <1>1 DEF Cancel, Job
  <1>2. ASSUME NEW before \in Times, NEW limit \in PurgeLimits, PurgeTerminal(before, limit)
        PROVE  jobs'[i] = jobs[i]
    <2>1. PICK gone : jobs' = [k \in DOMAIN jobs \ gone |-> jobs[k]]
      BY <1>2 DEF PurgeTerminal
    <2> QED BY <2>1
  <1> QED BY <1>1, <1>2 DEF Retention

\* The step half of TerminalIsFinal.
LEMMA FinalStep ==
  ASSUME IInv, Next
  PROVE  \A i \in DOMAIN jobs :
            IF Terminal(jobs[i]) THEN i \in DOMAIN jobs' => jobs'[i] = jobs[i]
                                 ELSE i \in DOMAIN jobs'
  <1> SUFFICES ASSUME NEW i \in DOMAIN jobs
               PROVE  /\ Terminal(jobs[i]) => (i \in DOMAIN jobs' => jobs'[i] = jobs[i])
                      /\ ~ Terminal(jobs[i]) => i \in DOMAIN jobs'
    OBVIOUS
  <1>1. ASSUME NEW in \in Enqueue, NEW clock \in Times, EnqueueOnce(in, clock)
        PROVE  i \in DOMAIN jobs' /\ jobs'[i] = jobs[i]
    BY <1>1 DEF EnqueueOnce, With
  <1>2. ASSUME NEW in \in Enqueue, NEW clock \in Times, Replace(in, clock)
        PROVE  i \in DOMAIN jobs' /\ (Terminal(jobs[i]) => jobs'[i] = jobs[i])
    BY <1>2 DEF Replace, With, activeByKey
  <1>3. CASE Claiming
    BY <1>3 DEF Claiming, Claim, fencedDue, Terminal, TerminalStatuses
  <1>4. CASE Settling
    BY <1>4, SettlingShape DEF Terminal, TerminalStatuses
  <1>5. CASE Retention
    <2>1. CASE \E id \in JobIDs, clock \in Times : Cancel(id, clock)
      BY <2>1 DEF Cancel
    <2>2. CASE \E before \in Times, limit \in PurgeLimits : PurgeTerminal(before, limit)
      <3>1. PICK gone \in SUBSET {k \in DOMAIN jobs : Terminal(jobs[k])} :
                jobs' = [k \in DOMAIN jobs \ gone |-> jobs[k]]
        BY <2>2 DEF PurgeTerminal
      <3> QED BY <3>1
    <2> QED BY <1>5, <2>1, <2>2 DEF Retention
  <1> QED BY <1>1, <1>2, <1>3, <1>4, <1>5 DEF Next, Admission

\* Job.Terminal's "will never be claimed again": terminal executions are final
\* and only they are ever removed.
THEOREM TerminalStaysTerminal == Spec => TerminalIsFinal
  <1>1. IInv /\ [Next]_vars =>
                       [\A i \in DOMAIN jobs :
                           IF Terminal(jobs[i])
                           THEN i \in DOMAIN jobs' => jobs'[i] = jobs[i]
                           ELSE i \in DOMAIN jobs']_vars
    BY FinalStep
  <1> QED BY <1>1, InitIInv, NextIInv, PTL DEF Spec, TerminalIsFinal

\* Supersession happens only in a Replace, which admits the successor.
LEMMA SupersedeStep ==
  ASSUME IInv, Next, NEW i \in DOMAIN jobs, ~ Terminal(jobs[i]),
         i \in DOMAIN jobs', jobs'[i].status = "superseded"
  PROVE  \E k \in DOMAIN jobs' \ DOMAIN jobs :
            jobs'[k].key = jobs[i].key /\ ~ Terminal(jobs'[k])
  <1>0. jobs[i] \in Job /\ jobs[i].status # "superseded"
    BY DEF IInv, TypeOK, Terminal, TerminalStatuses
  <1>1. ASSUME NEW in \in Enqueue, NEW clock \in Times, EnqueueOnce(in, clock) PROVE FALSE
    BY <1>0, <1>1 DEF EnqueueOnce, With
  <1>2. ASSUME NEW in \in Enqueue, NEW clock \in Times, Replace(in, clock)
        PROVE  \E k \in DOMAIN jobs' \ DOMAIN jobs :
                  jobs'[k].key = jobs[i].key /\ ~ Terminal(jobs'[k])
    <2>1. /\ in.id \notin DOMAIN jobs /\ in.id \in DOMAIN jobs'
          /\ jobs'[in.id].key = in.key /\ jobs'[in.id].status = "pending"
      BY <1>2 DEF Replace, With, NewJob
    <2>2. jobs[i].key = in.key
      BY <1>0, <1>2 DEF Replace, With, activeByKey, Holders
    <2> QED BY <2>1, <2>2 DEF Terminal, TerminalStatuses
  <1>3. CASE Claiming
    BY <1>0, <1>3 DEF Claiming, Claim, Job
  <1>4. CASE Settling
    BY <1>0, <1>4, SettlingShape
  <1>5. CASE Retention
    BY <1>0, <1>5, RetentionShape
  <1> QED BY <1>1, <1>2, <1>3, <1>4, <1>5 DEF Next, Admission

\* Replace never loses a key's work (fenced.go: the duplicate ID is refused
\* before the active generation is retired).
THEOREM ReplaceKeepsWork == Spec => SupersededHasSuccessor
  <1>1. IInv /\ [Next]_vars =>
          [\A i \in DOMAIN jobs :
              (~ Terminal(jobs[i]) /\ i \in DOMAIN jobs' /\ jobs'[i].status = "superseded") =>
                  \E k \in DOMAIN jobs' \ DOMAIN jobs :
                      jobs'[k].key = jobs[i].key /\ ~ Terminal(jobs'[k])]_vars
    BY SupersedeStep
  <1> QED BY <1>1, InitIInv, NextIInv, PTL DEF Spec, SupersededHasSuccessor

\* An attempt is only ever spent together with a fresh token.
LEMMA ClaimStep ==
  ASSUME IInv, Next, NEW i \in DOMAIN jobs, i \in DOMAIN jobs',
         jobs'[i].retries > jobs[i].retries
  PROVE  jobs'[i].leaseID \notin issued
  <1>0. jobs[i] \in Job /\ jobs[i].retries \in Nat
    BY DEF IInv, TypeOK, Job
  <1>1. ASSUME NEW in \in Enqueue, NEW clock \in Times, EnqueueOnce(in, clock) PROVE FALSE
    BY <1>0, <1>1 DEF EnqueueOnce, With
  <1>2. ASSUME NEW in \in Enqueue, NEW clock \in Times, Replace(in, clock) PROVE FALSE
    <2>1. \/ jobs'[i] = jobs[i]
          \/ jobs'[i] = Superseded(jobs[i], clock)
      BY <1>2 DEF Replace, With
    <2>2. Superseded(jobs[i], clock).retries = jobs[i].retries
      BY <1>0 DEF Superseded, Job
    <2> QED BY <1>0, <2>1, <2>2
  <1>3. CASE Claiming
    BY <1>0, <1>3 DEF Claiming, Claim, Job
  <1>4. CASE Settling
    <2>1. PICK id \in DOMAIN jobs :
              /\ \A k \in DOMAIN jobs \ {id} : jobs'[k] = jobs[k]
              /\ jobs'[id].retries \in Int /\ jobs'[id].retries <= jobs[id].retries
      BY <1>4, SettlingShape
    <2> QED BY <1>0, <2>1
  <1>5. CASE Retention
    BY <1>0, <1>5, RetentionShape
  <1> QED BY <1>1, <1>2, <1>3, <1>4, <1>5 DEF Next, Admission

\* Reclaiming a lapsed lease fences its previous holder out for good.
THEOREM ReclaimFences == Spec => ClaimFencesPredecessor
  <1>1. IInv /\ [Next]_vars =>
          [\A i \in DOMAIN jobs :
              (i \in DOMAIN jobs' /\ jobs'[i].retries > jobs[i].retries) =>
                  jobs'[i].leaseID \notin issued]_vars
    BY ClaimStep
  <1> QED BY <1>1, InitIInv, NextIInv, PTL DEF Spec, ClaimFencesPredecessor

-----------------------------------------------------------------------------
(* Delivery over the queue. *)

\* The state outside the store is well formed.
WorkerTypeOK ==
    /\ now \in Times
    /\ worker \in [Workers -> WorkerState]
    /\ minted \subseteq Secrets /\ live \subseteq minted
    /\ calls \subseteq JobIDs \X Secrets
    /\ accepted \subseteq JobIDs /\ hooked \subseteq JobIDs

\* The worker is in the middle of an iteration.
Busy(w) == worker[w].pc # "idle"

\* Workers in an iteration hold distinct issued tokens, for stored executions.
TokensApart ==
    /\ \A w \in Workers : Busy(w) => worker[w].lease \in issued /\ worker[w].job \in DOMAIN jobs
    /\ \A v, w \in Workers : (Busy(v) /\ Busy(w) /\ worker[v].lease = worker[w].lease) => v = w

\* A worker before its checkpoint knows the stored payload, as long as the
\* execution is still its own.
HolderKnowsPayload ==
    \A w \in Workers :
        /\ worker[w].pc = "process" => worker[w].msg = worker[w].claimed
        /\ worker[w].pc = "rendered" => worker[w].claimed = Opaque /\ worker[w].msg \in Secrets
        /\ (/\ worker[w].pc \in {"process", "rendered"}
            /\ jobs[worker[w].job].status = "running"
            /\ jobs[worker[w].job].leaseID = worker[w].lease) =>
               jobs[worker[w].job].payload = worker[w].claimed

\* A worker that may call the provider holds the checkpointed message, even
\* after its lease lapsed and another worker reclaimed the execution.
ReadyIsCheckpointed ==
    \A w \in Workers :
        (\/ worker[w].pc \in {"ready", "calling"}
         \/ worker[w].pc = "process" /\ worker[w].msg # Opaque) =>
            /\ worker[w].msg \in Secrets
            /\ jobs[worker[w].job].payload = worker[w].msg

\* What the provider was handed is the payload the execution keeps.
CallsAreStored ==
    \A c \in calls : c[1] \in DOMAIN jobs /\ jobs[c[1]].payload = c[2]

\* The inductive invariant.
DInv ==
    /\ IInv
    /\ WorkerTypeOK
    /\ TokensApart
    /\ HolderKnowsPayload
    /\ ReadyIsCheckpointed
    /\ CallsAreStored

USE DeliveryAssumption, QueueAssumption

\* A clock that lags still reads an instant of the model.
LEMMA ReadingsAreTimes == Readings \subseteq Times
  BY DEF Readings

\* The backoff instant stays within the instants of the model.
LEMMA LaterIsInstant == ASSUME NEW t \in Times PROVE Later(t) \in Instants
  BY DEF Later, DeliveryAssumption, QueueAssumption

\* A worker between iterations is well formed.
LEMMA IdleType == Idle \in WorkerState
  <1>1. /\ NoLease \in LeaseIDs \cup {NoLease} /\ Opaque \in Payloads
        /\ 0 \in Times /\ 0 \in Nat /\ 0 \in Int /\ "none" \in Outcomes
    BY DEF DeliveryAssumption, Outcomes
  <1> QED BY <1>1 DEF Idle, WorkerState

\* No worker has claimed anything at first, so the invariant holds.
LEMMA InitDInv == DeliveryInit => DInv
  <1> SUFFICES ASSUME DeliveryInit PROVE DInv
    OBVIOUS
  <1>1. IInv
    BY InitIInv DEF DeliveryInit
  <1>2. WorkerTypeOK
    BY IdleType DEF DeliveryInit, WorkerTypeOK, DeliveryAssumption
  <1>3. \A w \in Workers : worker[w].pc = "idle"
    BY DEF DeliveryInit, Idle
  <1>4. TokensApart /\ HolderKnowsPayload /\ ReadyIsCheckpointed
    BY <1>3 DEF TokensApart, Busy, HolderKnowsPayload, ReadyIsCheckpointed
  <1>5. CallsAreStored
    BY DEF DeliveryInit, CallsAreStored
  <1> QED BY <1>1, <1>2, <1>4, <1>5 DEF DInv

-----------------------------------------------------------------------------
(* The runtime uses the queue as its specification allows. *)

\* A lease that passes the fence is a token of a stored execution.
LEMMA HolderIsWorker ==
  ASSUME IInv, NEW id, NEW l, NEW t, id \in DOMAIN jobs, heldBy(jobs[id], l, t)
  PROVE  id \in JobIDs /\ l \in LeaseIDs
  BY DEF IInv, TypeOK, LeaseFence, heldBy, Job

\* Every step of the runtime and the engine is a step the store allows, or
\* leaves the store alone.
LEMMA QueueStep ==
  ASSUME DInv, [DeliveryNext]_dvars
  PROVE  [Next]_vars
  <1>1. ASSUME NEW in \in Enqueue, NEW t \in Readings, Submit(in, t) PROVE Next
    BY <1>1, ReadingsAreTimes DEF Submit, Next, Admission
  <1>2. ASSUME NEW w \in Workers, Progress(w) PROVE [Next]_vars
    <2>1. ASSUME NEW t \in Readings, NEW id \in JobIDs, ClaimJob(w, id, t) PROVE Next
      <3> DEFINE l == CHOOSE l \in LeaseIDs \ issued : TRUE
      <3>1. Claim(id, t, l, Lease, {}) /\ LeaseIDs \ issued # {}
        BY <2>1 DEF ClaimJob
      <3>2. l \in LeaseIDs
        BY <3>1
      <3>3. Lease \in LeaseFor /\ {} \in SUBSET Kinds /\ t \in Times
        BY ReadingsAreTimes DEF DeliveryAssumption
      <3> HIDE DEF l
      <3> QED BY <3>1, <3>2, <3>3 DEF Next, Claiming
    <2>2. ASSUME NEW t \in Readings, CheckpointMsg(w, t) PROVE Next
      <3>1. Checkpoint(worker[w].job, worker[w].lease, worker[w].msg, t)
        BY <2>2 DEF CheckpointMsg
      <3>2. worker[w].job \in JobIDs /\ worker[w].lease \in LeaseIDs
        BY <3>1, HolderIsWorker DEF Checkpoint, DInv
      <3>3. worker[w].msg \in Payloads
        BY DEF DInv, WorkerTypeOK, WorkerState
      <3> QED BY <3>1, <3>2, <3>3, ReadingsAreTimes DEF Next, Settling
    <2>3. ASSUME NEW t \in Readings, Settle(w, t) PROVE Next
      <3> DEFINE id == worker[w].job
                 l == worker[w].lease
      <3>1. \/ Complete(id, l, t) \/ Reschedule(id, l, Later(t), t)
            \/ Defer(id, l, worker[w].until, t)
        BY <2>3 DEF Settle
      <3>2. id \in JobIDs /\ l \in LeaseIDs
        BY <3>1, HolderIsWorker DEF Complete, Reschedule, Defer, DInv
      <3>3. worker[w].until \in Instants
        BY DEF DInv, WorkerTypeOK, WorkerState, QueueAssumption
      <3>4. t \in Times /\ Later(t) \in Instants
        BY ReadingsAreTimes, LaterIsInstant
      <3> HIDE DEF id, l
      <3> QED BY <3>1, <3>2, <3>3, <3>4 DEF Next, Settling
    <2>4. ASSUME NEW t \in Readings, SettleFail(w, t) PROVE Next
      <3>1. Fail(worker[w].job, worker[w].lease, t)
        BY <2>4 DEF SettleFail
      <3>2. worker[w].job \in JobIDs /\ worker[w].lease \in LeaseIDs
        BY <3>1, HolderIsWorker DEF Fail, DInv
      <3> QED BY <3>1, <3>2, ReadingsAreTimes DEF Next, Settling
    <2>5. ASSUME NEW t \in Readings, LoseLease(w, t) PROVE UNCHANGED vars
      BY <2>5 DEF LoseLease, vars
    <2>6. CASE Initialize(w) \/ CheckpointFails(w)
      BY <2>6 DEF Initialize, CheckpointFails, vars
    <2>7. CASE CallProvider(w) \/ CallCutOff(w) \/ ProviderAnswers(w) \/ Discard(w)
      BY <2>7 DEF CallProvider, CallCutOff, ProviderAnswers, Discard, vars
    <2> QED BY <1>2, <2>1, <2>2, <2>3, <2>4, <2>5, <2>6, <2>7 DEF Progress
  <1>3. ASSUME NEW w \in Workers, Gate(w) \/ HandlerPanics(w) \/ Abandon(w) PROVE UNCHANGED vars
    BY <1>3 DEF Gate, HandlerPanics, Abandon, vars
  <1>4. CASE Tick
    BY <1>4 DEF Tick, vars
  <1>5. CASE UNCHANGED dvars
    BY <1>5 DEF dvars, vars
  <1> QED BY <1>1, <1>2, <1>3, <1>4, <1>5 DEF DeliveryNext

-----------------------------------------------------------------------------
(* Preservation of the workers' part of the invariant. *)

\* The store keeps every execution and payload and hands no lease out: all
\* steps but claims and checkpoints.
Keeps ==
    /\ issued' = issued
    /\ \A i \in DOMAIN jobs :
          /\ i \in DOMAIN jobs'
          /\ jobs'[i].payload = jobs[i].payload
          /\ jobs'[i].status = "running" =>
                jobs[i].status = "running" /\ jobs'[i].leaseID = jobs[i].leaseID

\* The part of the invariant that relates workers to the store.
WInv == TokensApart /\ HolderKnowsPayload /\ ReadyIsCheckpointed /\ CallsAreStored

\* Submissions keep every stored payload, and start no execution.
LEMMA SubmitKeeps ==
  ASSUME DInv, NEW in \in Enqueue, NEW t, EnqueueOnce(in, t) \/ Replace(in, t)
  PROVE  Keeps
  <1>1. CASE EnqueueOnce(in, t)
    BY <1>1 DEF EnqueueOnce, With, Keeps
  <1>2. CASE Replace(in, t)
    <2>1. issued' = issued
      BY <1>2 DEF Replace
    <2>2. ASSUME NEW i \in DOMAIN jobs
          PROVE  i \in DOMAIN jobs' /\ jobs'[i] \in {jobs[i], Superseded(jobs[i], t)}
      BY <1>2 DEF Replace, With
    <2>3. ASSUME NEW i \in DOMAIN jobs
          PROVE  /\ Superseded(jobs[i], t).payload = jobs[i].payload
                 /\ Superseded(jobs[i], t).status = "superseded"
      BY DEF DInv, IInv, TypeOK, Superseded, Job
    <2> QED BY <2>1, <2>2, <2>3 DEF Keeps
  <1> QED BY <1>1, <1>2

\* A settlement keeps payloads and creates no lease.
LEMMA SettleKeeps ==
  ASSUME DInv, NEW id, NEW l, NEW t, NEW at,
         \/ Complete(id, l, t) \/ Fail(id, l, t)
         \/ Reschedule(id, l, at, t) \/ Defer(id, l, at, t)
  PROVE  Keeps
  <1>1. id \in DOMAIN jobs /\ jobs[id] \in Job
    BY DEF Complete, Fail, Reschedule, Defer, DInv, IInv, TypeOK
  <1>2. CASE Complete(id, l, t)
    BY <1>1, <1>2 DEF Complete, Keeps, Job
  <1>3. CASE Fail(id, l, t)
    BY <1>1, <1>3 DEF Fail, Keeps, Job
  <1>4. CASE Reschedule(id, l, at, t)
    BY <1>1, <1>4 DEF Reschedule, Keeps, Job
  <1>5. CASE Defer(id, l, at, t)
    BY <1>1, <1>5 DEF Defer, Keeps, Job
  <1> QED BY <1>2, <1>3, <1>4, <1>5

\* Only the clock, the store or one worker's progress towards its settlement
\* changed.
LEMMA QuietWInv ==
  ASSUME DInv, Keeps, calls' = calls,
         \/ worker' = worker
         \/ \E w \in Workers, x \in WorkerState :
               /\ worker' = [worker EXCEPT ![w] = x]
               /\ x.pc \in {"idle", "settle", "hook"}
               /\ x.pc # "idle" => /\ Busy(w)
                                   /\ x.job = worker[w].job /\ x.lease = worker[w].lease
  PROVE  WInv'
  <1>0. worker \in [Workers -> WorkerState] /\ worker' \in [Workers -> WorkerState]
    BY DEF DInv, WorkerTypeOK
  <1>1. ASSUME NEW w \in Workers
        PROVE  \/ worker'[w] = worker[w]
               \/ /\ worker'[w].pc \in {"idle", "settle", "hook"}
                  /\ worker'[w].pc # "idle" =>
                        /\ Busy(w)
                        /\ worker'[w].job = worker[w].job /\ worker'[w].lease = worker[w].lease
    BY <1>0
  <1>2. TokensApart'
    BY <1>0, <1>1 DEF DInv, TokensApart, Busy, Keeps
  <1>3. HolderKnowsPayload'
    BY <1>0, <1>1 DEF DInv, TokensApart, HolderKnowsPayload, Busy, Keeps
  <1>4. ReadyIsCheckpointed'
    BY <1>0, <1>1 DEF DInv, TokensApart, ReadyIsCheckpointed, Busy, Keeps
  <1>5. CallsAreStored'
    BY DEF DInv, CallsAreStored, Keeps
  <1> QED BY <1>2, <1>3, <1>4, <1>5 DEF WInv

\* A claim gives the worker the stored payload and a token nobody else has.
LEMMA ClaimWInv ==
  ASSUME DInv, NEW w \in Workers, NEW t \in Readings, NEW id \in JobIDs, ClaimJob(w, id, t)
  PROVE  WInv'
  <1> DEFINE l == CHOOSE l \in LeaseIDs \ issued : TRUE
             x == [Idle EXCEPT !.pc = "process", !.job = id, !.lease = l,
                               !.claimed = jobs[id].payload, !.msg = jobs[id].payload,
                               !.attempt = jobs[id].retries + 1,
                               !.deadline = t + Lease - Margin]
  <1>1. /\ Claim(id, t, l, Lease, {}) /\ LeaseIDs \ issued # {}
        /\ worker' = [worker EXCEPT ![w] = x] /\ calls' = calls
    BY DEF ClaimJob, Step
  <1>2. l \in LeaseIDs \ issued
    BY <1>1
  <1>3. /\ x.pc = "process" /\ x.job = id /\ x.lease = l
        /\ x.claimed = jobs[id].payload /\ x.msg = jobs[id].payload
    BY DEF Idle
  <1> HIDE DEF l, x
  <1>4. /\ id \in DOMAIN jobs /\ jobs[id] \in Job
        /\ issued' = issued \cup {l}
        /\ DOMAIN jobs' = DOMAIN jobs
        /\ \A i \in DOMAIN jobs \ {id} : jobs'[i] = jobs[i]
    BY <1>1 DEF Claim, DInv, IInv, TypeOK
  <1>5. jobs'[id].payload = jobs[id].payload /\ jobs'[id].leaseID = l
    BY <1>1, <1>4 DEF Claim, Job
  <1>6. worker'[w] = x /\ \A v \in Workers \ {w} : worker'[v] = worker[v]
    BY <1>1 DEF DInv, WorkerTypeOK
  <1>7. TokensApart'
    BY <1>2, <1>3, <1>4, <1>6 DEF DInv, TokensApart, Busy
  <1>8. HolderKnowsPayload'
    <2> SUFFICES ASSUME NEW v \in Workers
                 PROVE  HolderKnowsPayload!(v)'
      BY DEF HolderKnowsPayload
    <2>1. CASE v = w
      BY <1>3, <1>5, <1>6, <2>1
    <2>2. CASE v # w
      BY <1>2, <1>4, <1>5, <1>6, <2>2 DEF DInv, TokensApart, HolderKnowsPayload, Busy
    <2> QED BY <2>1, <2>2
  <1>9. ReadyIsCheckpointed'
    <2> SUFFICES ASSUME NEW v \in Workers
                 PROVE  ReadyIsCheckpointed!(v)'
      BY DEF ReadyIsCheckpointed
    <2>1. CASE v = w
      <3>1. x.msg # Opaque => x.msg \in Secrets
        BY <1>3, <1>4 DEF Job, DeliveryAssumption
      <3> QED BY <1>3, <1>5, <1>6, <2>1, <3>1
    <2>2. CASE v # w
      BY <1>4, <1>5, <1>6, <2>2 DEF DInv, TokensApart, ReadyIsCheckpointed, Busy
    <2> QED BY <2>1, <2>2
  <1>10. CallsAreStored'
    BY <1>1, <1>4, <1>5 DEF DInv, CallsAreStored
  <1> QED BY <1>7, <1>8, <1>9, <1>10 DEF WInv

\* Rendering mints a message for a worker whose claim carried none.
LEMMA MintWInv ==
  ASSUME DInv, NEW w \in Workers, NEW s \in Secrets,
         worker[w].pc = "process", worker[w].msg = Opaque,
         worker' = [worker EXCEPT ![w] = [worker[w] EXCEPT !.pc = "rendered", !.msg = s]],
         UNCHANGED <<jobs, issued, calls>>
  PROVE  WInv'
  <1>1. worker[w] \in WorkerState
    BY DEF DInv, WorkerTypeOK
  <1>2. /\ worker'[w].pc = "rendered" /\ worker'[w].msg = s
        /\ worker'[w].job = worker[w].job /\ worker'[w].lease = worker[w].lease
        /\ worker'[w].claimed = worker[w].claimed
        /\ \A v \in Workers \ {w} : worker'[v] = worker[v]
    BY <1>1 DEF DInv, WorkerTypeOK, WorkerState
  <1>3. TokensApart'
    BY <1>2 DEF DInv, TokensApart, Busy
  <1>4. HolderKnowsPayload'
    BY <1>2 DEF DInv, HolderKnowsPayload
  <1>5. ReadyIsCheckpointed'
    BY <1>2 DEF DInv, ReadyIsCheckpointed
  <1>6. CallsAreStored'
    BY DEF DInv, CallsAreStored
  <1> QED BY <1>3, <1>4, <1>5, <1>6 DEF WInv

\* The heart of the argument: the fence admits the checkpoint only for the
\* current holder, whose execution has no message yet; so no worker is ready to
\* send, and no call was made, for it.
LEMMA CheckpointWInv ==
  ASSUME DInv, NEW w \in Workers, NEW t \in Readings, CheckpointMsg(w, t)
  PROVE  WInv' /\ jobs[worker[w].job].payload = Opaque
  <1> DEFINE id == worker[w].job
             s == worker[w].msg
  <1>1. /\ worker[w].pc = "rendered" /\ id \in DOMAIN jobs
        /\ heldBy(jobs[id], worker[w].lease, t)
        /\ jobs' = [jobs EXCEPT ![id].payload = s]
        /\ issued' = issued /\ calls' = calls
        /\ worker' = [worker EXCEPT ![w] = [worker[w] EXCEPT !.pc = "ready"]]
    BY DEF CheckpointMsg, Checkpoint, Step
  <1>2. jobs[id].payload = Opaque /\ s \in Secrets
    BY <1>1 DEF DInv, HolderKnowsPayload, heldBy
  <1>3. worker[w] \in WorkerState /\ jobs[id] \in Job
    BY <1>1 DEF DInv, WorkerTypeOK, IInv, TypeOK
  <1>4. /\ worker'[w].pc = "ready" /\ worker'[w].msg = s
        /\ worker'[w].job = id /\ worker'[w].lease = worker[w].lease
        /\ \A v \in Workers \ {w} : worker'[v] = worker[v]
    BY <1>1, <1>3 DEF DInv, WorkerTypeOK, WorkerState
  <1>5. /\ DOMAIN jobs' = DOMAIN jobs
        /\ \A i \in DOMAIN jobs \ {id} : jobs'[i] = jobs[i]
        /\ jobs'[id].payload = s
        /\ jobs'[id].status = jobs[id].status /\ jobs'[id].leaseID = jobs[id].leaseID
    BY <1>1, <1>3 DEF Job
  <1>6. jobs[id].leaseID = worker[w].lease
    BY <1>1 DEF heldBy
  <1> HIDE DEF id, s
  <1>7. TokensApart'
    BY <1>1, <1>4, <1>5 DEF DInv, TokensApart, Busy, id
  <1>8. HolderKnowsPayload'
    <2> SUFFICES ASSUME NEW v \in Workers PROVE HolderKnowsPayload!(v)'
      BY DEF HolderKnowsPayload
    <2>1. CASE v = w
      BY <1>4, <2>1
    <2>2. CASE v # w
      <3>1. Busy(v) => worker[v].lease # jobs[id].leaseID
        BY <1>1, <1>6, <2>2 DEF DInv, TokensApart, Busy
      <3> QED BY <1>4, <1>5, <2>2, <3>1 DEF DInv, TokensApart, HolderKnowsPayload, Busy
    <2> QED BY <2>1, <2>2
  <1>9. ReadyIsCheckpointed'
    <2> SUFFICES ASSUME NEW v \in Workers PROVE ReadyIsCheckpointed!(v)'
      BY DEF ReadyIsCheckpointed
    <2>1. CASE v = w
      BY <1>2, <1>4, <1>5, <2>1
    <2>2. CASE v # w
      BY <1>2, <1>4, <1>5, <2>2 DEF DInv, TokensApart, ReadyIsCheckpointed, Busy, DeliveryAssumption
    <2> QED BY <2>1, <2>2
  <1>10. CallsAreStored'
    <2>1. ASSUME NEW c \in calls PROVE c[1] \in DOMAIN jobs /\ c[1] # id
      BY <1>2, <2>1 DEF DInv, CallsAreStored, WorkerTypeOK, DeliveryAssumption
    <2> QED BY <1>1, <1>5, <2>1 DEF DInv, CallsAreStored
  <1> QED BY <1>2, <1>7, <1>8, <1>9, <1>10 DEF WInv, id

\* The provider is called only with the message the execution has stored.
LEMMA CallWInv ==
  ASSUME DInv, NEW w \in Workers, CallProvider(w)
  PROVE  WInv' /\ worker[w].job \in DOMAIN jobs /\ worker[w].msg \in Secrets
               /\ jobs[worker[w].job].payload = worker[w].msg
  <1>1. /\ \/ worker[w].pc = "ready"
           \/ worker[w].pc = "process" /\ worker[w].msg # Opaque
        /\ calls' = calls \cup {<<worker[w].job, worker[w].msg>>}
        /\ worker' = [worker EXCEPT ![w] = [worker[w] EXCEPT !.pc = "calling"]]
        /\ jobs' = jobs /\ issued' = issued
    BY DEF CallProvider, Step
  <1>2. /\ worker[w].job \in DOMAIN jobs /\ worker[w].msg \in Secrets
        /\ jobs[worker[w].job].payload = worker[w].msg
    BY <1>1 DEF DInv, TokensApart, ReadyIsCheckpointed, Busy
  <1>3. worker[w] \in WorkerState
    BY DEF DInv, WorkerTypeOK
  <1>4. /\ worker'[w].pc = "calling" /\ worker'[w].msg = worker[w].msg
        /\ worker'[w].job = worker[w].job /\ worker'[w].lease = worker[w].lease
        /\ \A v \in Workers \ {w} : worker'[v] = worker[v]
    BY <1>1, <1>3 DEF DInv, WorkerTypeOK, WorkerState
  <1>5. TokensApart'
    BY <1>1, <1>4 DEF DInv, TokensApart, Busy
  <1>6. HolderKnowsPayload'
    BY <1>1, <1>4 DEF DInv, HolderKnowsPayload
  <1>7. ReadyIsCheckpointed'
    BY <1>1, <1>2, <1>4 DEF DInv, ReadyIsCheckpointed
  <1>8. CallsAreStored'
    BY <1>1, <1>2 DEF DInv, CallsAreStored
  <1> QED BY <1>2, <1>5, <1>6, <1>7, <1>8 DEF WInv

-----------------------------------------------------------------------------
(* One lemma per kind of step: the workers' invariant and its types. *)

\* A worker moves towards settling its claim with some outcome.
LEMMA FinishType ==
  ASSUME DInv, NEW w \in Workers, NEW r \in Outcomes, Busy(w)
  PROVE  LET x == Returned(w, r)
         IN /\ x \in WorkerState /\ x.pc = "settle"
            /\ x.job = worker[w].job /\ x.lease = worker[w].lease
  <1>1. worker[w] \in WorkerState
    BY DEF DInv, WorkerTypeOK
  <1>2. Opaque \in Payloads /\ 0 \in Int
    BY DEF DeliveryAssumption
  <1> QED BY <1>1, <1>2 DEF WorkerState, Returned

\* The store is untouched.
LEMMA StillKeeps == jobs' = jobs /\ issued' = issued => Keeps
  BY DEF Keeps

\* Steps that leave the store and the calls alone and end an attempt.
LEMMA EndingDInv ==
  ASSUME DInv, NEW w \in Workers, Busy(w), NEW x \in WorkerState,
         Step(w, x), x.pc \in {"idle", "settle", "hook"},
         x.pc # "idle" => x.job = worker[w].job /\ x.lease = worker[w].lease,
         Keeps, UNCHANGED <<now, minted, calls>>,
         live' \subseteq live, accepted' \subseteq JobIDs, hooked' \subseteq JobIDs
  PROVE  WInv' /\ WorkerTypeOK'
  <1>1. WInv'
    BY QuietWInv DEF Step
  <1>2. WorkerTypeOK'
    BY DEF DInv, WorkerTypeOK, Step
  <1> QED BY <1>1, <1>2

\* A worker in an iteration works on a stored execution.
LEMMA BusyJob ==
  ASSUME DInv, NEW w \in Workers, Busy(w)
  PROVE  worker[w].job \in JobIDs
  BY DEF DInv, TokensApart, IInv, TypeOK

\* Submissions and the clock.
LEMMA OutsideDInv ==
  ASSUME DInv, \/ \E in \in Enqueue, t \in Readings : Submit(in, t)
               \/ Tick \/ UNCHANGED dvars
  PROVE  WInv' /\ WorkerTypeOK'
  <1>1. Keeps
    BY SubmitKeeps, StillKeeps DEF Submit, Tick, dvars
  <1>2. UNCHANGED <<worker, minted, live, calls, accepted, hooked>>
    BY DEF Submit, Tick, dvars
  <1>3. now' \in Times
    <2>1. now \in Times
      BY DEF DInv, WorkerTypeOK
    <2>2. CASE Tick
      BY <2>1, <2>2 DEF Tick, DeliveryAssumption
    <2> QED BY <2>1, <2>2 DEF Submit, dvars
  <1>4. WInv'
    BY <1>1, <1>2, QuietWInv
  <1> QED BY <1>2, <1>3, <1>4 DEF DInv, WorkerTypeOK

\* FencedRunner.work claiming an execution preserves the invariant.
LEMMA ClaimDInv ==
  ASSUME DInv, NEW w \in Workers, NEW t \in Readings, NEW id \in JobIDs, ClaimJob(w, id, t)
  PROVE  WInv' /\ WorkerTypeOK'
  <1> DEFINE l == CHOOSE l \in LeaseIDs \ issued : TRUE
             x == [Idle EXCEPT !.pc = "process", !.job = id, !.lease = l,
                               !.claimed = jobs[id].payload, !.msg = jobs[id].payload,
                               !.attempt = jobs[id].retries + 1,
                               !.deadline = t + Lease - Margin]
  <1>1. /\ Claim(id, t, l, Lease, {}) /\ LeaseIDs \ issued # {}
        /\ worker' = [worker EXCEPT ![w] = x]
        /\ UNCHANGED <<now, minted, live, calls, accepted, hooked>>
    BY DEF ClaimJob, Step
  <1>2. l \in LeaseIDs
    BY <1>1
  <1>3. jobs[id] \in Job
    BY <1>1 DEF Claim, DInv, IInv, TypeOK
  <1>4. /\ jobs[id].payload \in Payloads /\ jobs[id].retries + 1 \in Nat
        /\ t + Lease - Margin \in Int
    BY <1>3, ReadingsAreTimes DEF Job, DeliveryAssumption, QueueAssumption
  <1> HIDE DEF l
  <1>5. x \in WorkerState
    BY <1>2, <1>4, IdleType DEF Idle, WorkerState
  <1>6. WorkerTypeOK'
    BY <1>1, <1>5 DEF DInv, WorkerTypeOK
  <1> QED BY <1>6, ClaimWInv

\* The engine deferring, discarding or admitting a claim preserves the invariant.
LEMMA GateDInv ==
  ASSUME DInv, NEW w \in Workers, Gate(w)
  PROVE  WInv' /\ WorkerTypeOK'
  <1>0. Busy(w) /\ Keeps /\ worker[w] \in WorkerState
    BY StillKeeps DEF Gate, Busy, DInv, WorkerTypeOK
  <1>1. CASE /\ now + Lease <= MaxTime
             /\ Step(w, [Returned(w, "defer") EXCEPT !.until = now + 1])
    <2> DEFINE x == [Returned(w, "defer") EXCEPT !.until = now + 1]
    <2>1. now + 1 \in Times
      BY <1>1 DEF DInv, WorkerTypeOK, DeliveryAssumption, QueueAssumption
    <2>2. /\ x \in WorkerState /\ x.pc = "settle"
          /\ x.job = worker[w].job /\ x.lease = worker[w].lease
      <3>1. /\ Returned(w, "defer") \in WorkerState /\ Returned(w, "defer").pc = "settle"
            /\ Returned(w, "defer").job = worker[w].job
            /\ Returned(w, "defer").lease = worker[w].lease
        BY <1>0, FinishType DEF Outcomes
      <3> QED BY <2>1, <3>1 DEF WorkerState
    <2> HIDE DEF x
    <2>3. Step(w, x)
      BY <1>1 DEF x
    <2> QED BY <1>0, <2>2, <2>3, EndingDInv DEF Gate, DInv, WorkerTypeOK
  <1>2. CASE Finish(w, "permanent")
    <2> DEFINE x == Returned(w, "permanent")
    <2>2. /\ x \in WorkerState /\ x.pc = "settle"
          /\ x.job = worker[w].job /\ x.lease = worker[w].lease
      BY <1>0, FinishType DEF Outcomes
    <2> HIDE DEF x
    <2>3. Step(w, x)
      BY <1>2 DEF x, Finish
    <2> QED BY <1>0, <2>2, <2>3, EndingDInv DEF Gate, DInv, WorkerTypeOK
  <1> QED BY <1>1, <1>2 DEF Gate

\* Every action that finishes an attempt without touching store or calls.
LEMMA FinishDInv ==
  ASSUME DInv, NEW w \in Workers, Busy(w), NEW r \in Outcomes, Finish(w, r),
         UNCHANGED <<jobs, issued, now, minted, live, calls, hooked>>,
         accepted' \subseteq accepted \cup {worker[w].job}
  PROVE  WInv' /\ WorkerTypeOK'
  <1> DEFINE x == Returned(w, r)
  <1>1. /\ x \in WorkerState /\ x.pc = "settle"
        /\ x.job = worker[w].job /\ x.lease = worker[w].lease
    BY FinishType
  <1>2. Keeps
    BY StillKeeps
  <1>3. Step(w, x)
    BY DEF Finish
  <1> HIDE DEF x
  <1>4. accepted' \subseteq JobIDs /\ hooked' \subseteq JobIDs
    BY BusyJob DEF DInv, WorkerTypeOK
  <1> QED BY <1>1, <1>2, <1>3, <1>4, EndingDInv

\* A failed attempt is retried or fails for good.
LEMMA ClassifyType == \A a \in Nat : classify(a) \in Outcomes
  BY DEF classify, Outcomes

\* Resolving and rendering a message preserves the invariant.
LEMMA InitializeDInv ==
  ASSUME DInv, NEW w \in Workers, Initialize(w)
  PROVE  WInv' /\ WorkerTypeOK'
  <1>0. Busy(w) /\ worker[w] \in WorkerState /\ classify(worker[w].attempt) \in Outcomes
    BY ClassifyType DEF Initialize, Busy, DInv, WorkerTypeOK, WorkerState
  <1>1. CASE /\ Secrets \ minted # {}
             /\ LET s == CHOOSE s \in Secrets \ minted : TRUE
                IN /\ minted' = minted \cup {s}
                   /\ live' = live \cup {s}
                   /\ Step(w, [worker[w] EXCEPT !.pc = "rendered", !.msg = s])
             /\ UNCHANGED accepted
    <2> DEFINE s == CHOOSE s \in Secrets \ minted : TRUE
               x == [worker[w] EXCEPT !.pc = "rendered", !.msg = s]
    <2>1. /\ minted' = minted \cup {s} /\ live' = live \cup {s}
          /\ worker' = [worker EXCEPT ![w] = x]
      BY <1>1 DEF Step
    <2>2. s \in Secrets
      BY <1>1
    <2> HIDE DEF s
    <2>3. x \in WorkerState
      BY <1>0, <2>2 DEF WorkerState, DeliveryAssumption
    <2>4. WorkerTypeOK'
      BY <1>1, <2>1, <2>2, <2>3 DEF DInv, WorkerTypeOK, Initialize
    <2>5. WInv'
      BY <2>1, <2>2, MintWInv DEF Initialize
    <2> QED BY <2>4, <2>5
  <1>2. CASE Finish(w, classify(worker[w].attempt)) /\ UNCHANGED <<minted, live, accepted>>
    BY <1>0, <1>2, FinishDInv DEF Initialize
  <1>3. CASE /\ Finish(w, "ok") /\ accepted' = accepted \cup {worker[w].job}
             /\ UNCHANGED <<minted, live>>
    <2>1. "ok" \in Outcomes
      BY DEF Outcomes
    <2> QED BY <1>0, <1>3, <2>1, FinishDInv DEF Initialize
  <1> QED BY <1>1, <1>2, <1>3 DEF Initialize

\* Settling, failing to settle and losing the lease preserve the invariant.
LEMMA SettlingDInv ==
  ASSUME DInv, NEW w \in Workers, NEW t \in Readings,
         Settle(w, t) \/ SettleFail(w, t) \/ LoseLease(w, t)
  PROVE  WInv' /\ WorkerTypeOK'
  <1>0. /\ Busy(w) /\ worker[w] \in WorkerState
        /\ UNCHANGED <<now, minted, live, calls, accepted, hooked>>
    BY DEF Settle, SettleFail, LoseLease, Busy, DInv, WorkerTypeOK
  <1>1. Keeps
    BY SettleKeeps, StillKeeps DEF Settle, SettleFail, LoseLease
  <1>2. CASE Step(w, Idle)
    BY <1>0, <1>1, <1>2, IdleType, EndingDInv DEF Idle, DInv, WorkerTypeOK
  <1>3. CASE SettleFail(w, t)
    <2> DEFINE x == [worker[w] EXCEPT !.pc = "hook"]
    <2>1. /\ x \in WorkerState /\ x.pc = "hook"
          /\ x.job = worker[w].job /\ x.lease = worker[w].lease
      BY <1>0 DEF WorkerState
    <2>2. Step(w, x)
      BY <1>3 DEF SettleFail
    <2> HIDE DEF x
    <2> QED BY <1>0, <1>1, <2>1, <2>2, EndingDInv DEF DInv, WorkerTypeOK
  <1> QED BY <1>2, <1>3 DEF Settle, LoseLease

\* The exhausted hook, and a crash, preserve the invariant.
LEMMA DiscardDInv ==
  ASSUME DInv, NEW w \in Workers, Discard(w) \/ Abandon(w)
  PROVE  WInv' /\ WorkerTypeOK'
  <1>1. /\ Busy(w) /\ Step(w, Idle) /\ Keeps
        /\ UNCHANGED <<now, minted, calls, accepted>>
        /\ live' \subseteq live /\ hooked' \subseteq hooked \cup {worker[w].job}
    BY StillKeeps DEF Discard, Abandon, Busy
  <1>2. hooked' \subseteq JobIDs /\ accepted' \subseteq JobIDs
    BY <1>1, BusyJob DEF DInv, WorkerTypeOK
  <1> QED BY <1>1, <1>2, IdleType, EndingDInv DEF Idle

\* The call to the provider preserves the invariant.
LEMMA CallDInv ==
  ASSUME DInv, NEW w \in Workers, CallProvider(w)
  PROVE  WInv' /\ WorkerTypeOK'
  <1>1. worker[w] \in WorkerState /\ Busy(w)
    BY DEF DInv, WorkerTypeOK, CallProvider, Busy
  <1>2. [worker[w] EXCEPT !.pc = "calling"] \in WorkerState
    BY <1>1 DEF WorkerState
  <1>3. worker[w].job \in JobIDs /\ worker[w].msg \in Secrets
    BY <1>1, BusyJob, CallWInv
  <1>4. WorkerTypeOK'
    BY <1>2, <1>3 DEF DInv, WorkerTypeOK, CallProvider, Step
  <1> QED BY <1>4, CallWInv

\* A stored checkpoint preserves the invariant.
LEMMA CheckpointDInv ==
  ASSUME DInv, NEW w \in Workers, NEW t \in Readings, CheckpointMsg(w, t)
  PROVE  WInv' /\ WorkerTypeOK'
  <1>1. worker[w] \in WorkerState
    BY DEF DInv, WorkerTypeOK
  <1>2. [worker[w] EXCEPT !.pc = "ready"] \in WorkerState
    BY <1>1 DEF WorkerState
  <1>3. WorkerTypeOK'
    BY <1>2 DEF DInv, WorkerTypeOK, CheckpointMsg, Step
  <1> QED BY <1>3, CheckpointWInv

\* Failing checkpoints, answers, cut-off calls and panics preserve the invariant.
LEMMA AnswerDInv ==
  ASSUME DInv, NEW w \in Workers,
         CheckpointFails(w) \/ CallCutOff(w) \/ ProviderAnswers(w) \/ HandlerPanics(w)
  PROVE  WInv' /\ WorkerTypeOK'
  <1>1. /\ Busy(w)
        /\ UNCHANGED <<jobs, issued, now, minted, live, calls, hooked>>
        /\ accepted' \subseteq accepted \cup {worker[w].job}
    BY DEF CheckpointFails, CallCutOff, ProviderAnswers, HandlerPanics, Busy
  <1>2. classify(worker[w].attempt) \in Outcomes /\ {"ok", "retry", "permanent"} \subseteq Outcomes
    BY ClassifyType DEF DInv, WorkerTypeOK, WorkerState, Outcomes
  <1>3. \E r \in Outcomes : Finish(w, r)
    BY <1>2 DEF CheckpointFails, CallCutOff, ProviderAnswers, HandlerPanics
  <1> QED BY <1>1, <1>3, FinishDInv

\* Every step of durable delivery preserves the invariant.
LEMMA NextDInv == DInv /\ [DeliveryNext]_dvars => DInv'
  <1> SUFFICES ASSUME DInv, [DeliveryNext]_dvars PROVE DInv'
    OBVIOUS
  <1>1. IInv'
    BY QueueStep, NextIInv DEF DInv
  <1>2. WInv' /\ WorkerTypeOK'
    <2>1. CASE \E w \in Workers : Progress(w)
      <3>1. PICK w \in Workers : Progress(w)
        BY <2>1
      <3> QED BY <3>1, ClaimDInv, CheckpointDInv, SettlingDInv, InitializeDInv, AnswerDInv,
                 CallDInv, DiscardDInv DEF Progress
    <2>2. CASE \E w \in Workers : Gate(w) \/ HandlerPanics(w) \/ Abandon(w)
      BY <2>2, GateDInv, AnswerDInv, DiscardDInv
    <2> QED BY <2>1, <2>2, OutsideDInv DEF DeliveryNext
  <1> QED BY <1>1, <1>2 DEF DInv, WInv

-----------------------------------------------------------------------------
(* The theorems. *)

\* The workers, their engine and the clock drive the store only through the
\* operations of the queue's specification, with legal arguments: every theorem
\* about FencedQueue's Spec holds of the composed system.
THEOREM DeliveryUsesQueue == DeliverySpec => Spec
  <1>1. DeliveryInit => Init
    BY DEF DeliveryInit
  <1>2. DInv /\ [DeliveryNext]_dvars => [Next]_vars
    BY QueueStep
  <1> QED BY <1>1, <1>2, InitDInv, NextDInv, PTL DEF DeliverySpec, Spec

\* The inductive invariant holds: a worker ready to call, however stale its
\* lease, holds the stored message.
THEOREM DeliveryInductive == DeliverySpec => []DInv
  BY InitDInv, NextDInv, PTL DEF DeliverySpec

\* Types, for every instance.
THEOREM DeliveryTypeCorrect == DeliverySpec => []DeliveryTypeOK
  <1>1. DInv => DeliveryTypeOK
    BY DEF DInv, IInv, WorkerTypeOK, DeliveryTypeOK
  <1> QED BY <1>1, DeliveryInductive, PTL

\* All provider calls of an execution carry one message, the stored one,
\* although a stalled worker may call after its execution was reclaimed.
THEOREM OneMessagePerExecution == DeliverySpec => []SameMessageEveryCall
  <1>1. DInv => SameMessageEveryCall
    BY DEF DInv, CallsAreStored, SameMessageEveryCall
  <1> QED BY <1>1, DeliveryInductive, PTL

-----------------------------------------------------------------------------
(* The system implements the delivery contract. *)

\* The refinement mapping: each execution's phase and message.
phaseOf(e) == IF e \notin DOMAIN jobs THEN "unknown"
              ELSE IF Terminal(jobs[e]) THEN jobs[e].status ELSE "active"
\* The message of an execution, in the terms of the contract.
messageOf(e) == IF e \in DOMAIN jobs THEN jobs[e].payload ELSE Opaque

\* The phases of all executions.
phaseMap == [e \in JobIDs |-> phaseOf(e)]
\* The messages of all executions.
messageMap == [e \in JobIDs |-> messageOf(e)]

\* The contract's steps over the mapped variables.
MAdmit(e, retired) ==
    /\ phaseMap[e] = "unknown"
    /\ \A r \in retired : phaseMap[r] = "active"
    /\ phaseMap' = [x \in JobIDs |->
          IF x = e THEN "active" ELSE IF x \in retired THEN "superseded" ELSE phaseMap[x]]
    /\ UNCHANGED <<messageMap, calls>>

\* Fixing a message, on the mapped state.
MFix(e, m) ==
    /\ phaseMap[e] = "active" /\ messageMap[e] = Opaque
    /\ messageMap' = [messageMap EXCEPT ![e] = m]
    /\ UNCHANGED <<phaseMap, calls>>

\* Calling the provider, on the mapped state.
MCall(e) ==
    /\ messageMap[e] # Opaque
    /\ calls' = calls \cup {<<e, messageMap[e]>>}
    /\ UNCHANGED <<phaseMap, messageMap>>

\* Ending an execution, on the mapped state.
MEnd(e, how) ==
    /\ phaseMap[e] = "active"
    /\ phaseMap' = [phaseMap EXCEPT ![e] = how]
    /\ UNCHANGED <<messageMap, calls>>

\* The next-state relation of the contract, on the mapped state.
MNext ==
    \/ \E e \in JobIDs :
          \/ \E retired \in SUBSET JobIDs : MAdmit(e, retired)
          \/ \E m \in Secrets : MFix(e, m)
          \/ MCall(e)
          \/ \E how \in TerminalStatuses : MEnd(e, how)
    \/ UNCHANGED <<phaseMap, messageMap, calls>>

\* Those are the instantiated contract's own steps.
LEMMA MappedContract ==
  /\ MNext => [Contract!CNext]_(Contract!cvars)
  /\ DeliveryInit => Contract!CInit
  <1>1. MNext => [Contract!CNext]_(Contract!cvars)
    BY DEF MNext, MAdmit, MFix, MCall, MEnd, phaseMap, messageMap, phaseOf, messageOf,
           TerminalStatuses, Contract!CNext, Contract!cvars, Contract!Admit, Contract!Fix,
           Contract!Call, Contract!End, Contract!Ends
  <1>2. DeliveryInit => Contract!CInit
    BY DEF DeliveryInit, Init, Contract!CInit
  <1> QED BY <1>1, <1>2

\* An admission admits one execution and supersedes the key's active ones.
LEMMA SubmitMaps ==
  ASSUME DInv, NEW in \in Enqueue, NEW t \in Readings, Submit(in, t)
  PROVE  MNext
  <1>1. in.id \in JobIDs /\ in.id \notin DOMAIN jobs /\ in.payload = Opaque /\ calls' = calls
    BY DEF Submit, EnqueueOnce, Replace, Enqueue
  <1>2. PICK retired \in SUBSET DOMAIN jobs, k \in Instants :
           /\ \A r \in retired : ~ Terminal(jobs[r])
           /\ jobs' = With([i \in DOMAIN jobs |->
                              IF i \in retired THEN Superseded(jobs[i], t) ELSE jobs[i]],
                           in.id, NewJob(in, k))
    <2>1. CASE EnqueueOnce(in, t)
      <3>1. PICK k \in Instants : jobs' = With(jobs, in.id, NewJob(in, k))
        BY <2>1 DEF EnqueueOnce
      <3> DEFINE none == {}
      <3>2. With(jobs, in.id, NewJob(in, k)) =
              With([i \in DOMAIN jobs |-> IF i \in none THEN Superseded(jobs[i], t) ELSE jobs[i]],
                   in.id, NewJob(in, k))
        BY DEF With
      <3>3. none \in SUBSET DOMAIN jobs /\ \A r \in none : ~ Terminal(jobs[r])
        OBVIOUS
      <3> HIDE DEF none
      <3> QED BY <3>1, <3>2, <3>3
    <2>2. CASE Replace(in, t)
      <3> DEFINE retired == IF in.key = NoKey THEN {} ELSE activeByKey(in.key)
      <3>1. retired \in SUBSET DOMAIN jobs /\ \A r \in retired : ~ Terminal(jobs[r])
        BY DEF activeByKey, Holders
      <3>2. \E k \in Instants :
               jobs' = With([i \in DOMAIN jobs |->
                               IF i \in retired THEN Superseded(jobs[i], t) ELSE jobs[i]],
                            in.id, NewJob(in, k))
        BY <2>2 DEF Replace
      <3> HIDE DEF retired
      <3> QED BY <3>1, <3>2
    <2> QED BY <2>1, <2>2 DEF Submit
  <1>3. /\ DOMAIN jobs' = DOMAIN jobs \cup {in.id}
        /\ jobs'[in.id] = NewJob(in, k)
        /\ \A i \in DOMAIN jobs :
              jobs'[i] = IF i \in retired THEN Superseded(jobs[i], t) ELSE jobs[i]
    BY <1>1, <1>2 DEF With
  <1>4. /\ NewJob(in, k).payload = Opaque /\ ~ Terminal(NewJob(in, k))
        /\ DOMAIN jobs \subseteq JobIDs /\ \A i \in DOMAIN jobs : jobs[i] \in Job
    BY <1>1 DEF NewJob, Terminal, TerminalStatuses, DInv, IInv, TypeOK
  <1>5. \A i \in DOMAIN jobs :
          /\ Superseded(jobs[i], t).status = "superseded"
          /\ Superseded(jobs[i], t).payload = jobs[i].payload
          /\ Terminal(Superseded(jobs[i], t))
    BY <1>4 DEF Superseded, Job, Terminal, TerminalStatuses
  <1>6. MAdmit(in.id, retired)
    <2>1. phaseMap[in.id] = "unknown" /\ \A r \in retired : phaseMap[r] = "active"
      BY <1>1, <1>2, <1>4 DEF phaseMap, phaseOf
    <2>2. \A x \in JobIDs : phaseOf(x)' =
             IF x = in.id THEN "active" ELSE IF x \in retired THEN "superseded" ELSE phaseMap[x]
      BY <1>1, <1>2, <1>3, <1>4, <1>5 DEF phaseMap, phaseOf
    <2>3. \A x \in JobIDs : messageOf(x)' = messageOf(x)
      BY <1>1, <1>2, <1>3, <1>4, <1>5 DEF messageOf
    <2> QED BY <1>1, <2>1, <2>2, <2>3 DEF MAdmit, phaseMap, messageMap
  <1> QED BY <1>1, <1>2, <1>4, <1>6 DEF MNext

\* One stored execution changes, the calls do not.
LEMMA UpdateMaps ==
  ASSUME DInv, NEW id \in DOMAIN jobs, NEW j \in Job, calls' = calls,
         jobs' = [jobs EXCEPT ![id] = j],
         ~ Terminal(jobs[id]), j.payload = jobs[id].payload
  PROVE  MNext
  <1>1. DOMAIN jobs \subseteq JobIDs /\ jobs'[id] = j /\ DOMAIN jobs' = DOMAIN jobs
    BY DEF DInv, IInv, TypeOK
  <1>2. \A x \in JobIDs : messageOf(x)' = messageOf(x)
    BY <1>1 DEF messageOf
  <1>3. phaseMap[id] = "active" /\ id \in JobIDs
    BY <1>1 DEF phaseMap, phaseOf
  <1>4. CASE Terminal(j)
    <2>1. \A x \in JobIDs : phaseOf(x)' = IF x = id THEN j.status ELSE phaseOf(x)
      BY <1>1, <1>4 DEF phaseOf
    <2>2. MEnd(id, j.status)
      BY <1>2, <1>3, <2>1 DEF MEnd, phaseMap, messageMap
    <2> QED BY <1>3, <1>4, <2>2 DEF MNext, Terminal
  <1>5. CASE ~ Terminal(j)
    <2>1. \A x \in JobIDs : phaseOf(x)' = phaseOf(x)
      BY <1>1, <1>5 DEF phaseOf
    <2> QED BY <1>2, <2>1 DEF MNext, phaseMap, messageMap
  <1> QED BY <1>4, <1>5

\* A claim, and every settlement, changes one active execution and no message.
LEMMA TransitionMaps ==
  ASSUME DInv, NEW id, NEW l, NEW t \in Times, NEW at \in Instants, calls' = calls, IInv',
         \/ Claim(id, t, l, Lease, {})
         \/ Complete(id, l, t) \/ Fail(id, l, t)
         \/ Reschedule(id, l, at, t) \/ Defer(id, l, at, t)
  PROVE  MNext
  <1>1. id \in DOMAIN jobs /\ jobs[id] \in Job /\ ~ Terminal(jobs[id])
    BY DEF Claim, Complete, Fail, Reschedule, Defer, heldBy, fencedDue, Terminal,
           TerminalStatuses, DInv, IInv, TypeOK
  <1>2. /\ jobs' = [jobs EXCEPT ![id] = jobs'[id]]
        /\ jobs'[id].payload = jobs[id].payload
    BY <1>1, SMTT(30) DEF Claim, Complete, Fail, Reschedule, Defer, Job
  <1>3. jobs'[id] \in Job
    BY <1>1, <1>2 DEF IInv, TypeOK
  <1> QED BY <1>1, <1>2, <1>3, UpdateMaps

\* A checkpoint fixes the message of its execution.
LEMMA CheckpointMaps ==
  ASSUME DInv, NEW w \in Workers, NEW t \in Readings, CheckpointMsg(w, t)
  PROVE  MNext
  <1> DEFINE id == worker[w].job
             s == worker[w].msg
  <1>1. /\ id \in DOMAIN jobs /\ heldBy(jobs[id], worker[w].lease, t)
        /\ jobs' = [jobs EXCEPT ![id].payload = s] /\ calls' = calls
        /\ worker[w].pc = "rendered"
    BY DEF CheckpointMsg, Checkpoint
  <1>2. jobs[id].payload = Opaque /\ s \in Secrets
    BY <1>1, CheckpointWInv DEF DInv, HolderKnowsPayload
  <1>3. id \in JobIDs /\ jobs[id] \in Job /\ ~ Terminal(jobs[id])
    BY <1>1 DEF DInv, IInv, TypeOK, heldBy, Terminal, TerminalStatuses
  <1> HIDE DEF id, s
  <1>4. /\ DOMAIN jobs' = DOMAIN jobs
        /\ \A i \in DOMAIN jobs \ {id} : jobs'[i] = jobs[i]
        /\ jobs'[id].payload = s /\ jobs'[id].status = jobs[id].status
    BY <1>1, <1>3 DEF Job
  <1>5. \A x \in JobIDs : phaseOf(x)' = phaseOf(x)
    BY <1>1, <1>4 DEF phaseOf, Terminal
  <1>6. \A x \in JobIDs : messageOf(x)' = IF x = id THEN s ELSE messageOf(x)
    BY <1>1, <1>4 DEF messageOf
  <1>7. phaseMap[id] = "active" /\ messageMap[id] = Opaque
    BY <1>1, <1>2, <1>3 DEF phaseMap, phaseOf, messageMap, messageOf
  <1>8. MFix(id, s)
    BY <1>1, <1>5, <1>6, <1>7 DEF MFix, phaseMap, messageMap
  <1> QED BY <1>2, <1>3, <1>8 DEF MNext

\* A provider call is a call of the contract.
LEMMA CallMaps ==
  ASSUME DInv, NEW w \in Workers, CallProvider(w)
  PROVE  MNext
  <1>1. /\ worker[w].job \in DOMAIN jobs /\ worker[w].msg \in Secrets
        /\ jobs[worker[w].job].payload = worker[w].msg
    BY CallWInv
  <1>2. worker[w].job \in JobIDs /\ worker[w].msg # Opaque
    BY <1>1 DEF DInv, IInv, TypeOK, DeliveryAssumption
  <1>3. messageMap[worker[w].job] = worker[w].msg
    BY <1>1, <1>2 DEF messageMap, messageOf
  <1>4. jobs' = jobs /\ calls' = calls \cup {<<worker[w].job, worker[w].msg>>}
    BY DEF CallProvider
  <1>5. phaseMap' = phaseMap /\ messageMap' = messageMap
    BY <1>4 DEF phaseMap, messageMap, phaseOf, messageOf, Terminal
  <1>6. MCall(worker[w].job)
    BY <1>2, <1>3, <1>4, <1>5 DEF MCall
  <1> QED BY <1>2, <1>6 DEF MNext

\* A step that leaves the store and the calls alone maps to a stutter.
LEMMA StutterMaps == UNCHANGED <<jobs, calls>> => MNext
  BY DEF MNext, phaseMap, messageMap, phaseOf, messageOf, Terminal

\* Every step of durable delivery maps to a step of the contract or a stutter.
LEMMA StepMaps == DInv /\ [DeliveryNext]_dvars => MNext
  <1> SUFFICES ASSUME DInv, [DeliveryNext]_dvars PROVE MNext
    OBVIOUS
  <1>0. IInv' /\ Times \subseteq Instants
    BY NextDInv DEF DInv, QueueAssumption
  <1>1. ASSUME NEW w \in Workers, Progress(w) PROVE MNext
    <2>1. ASSUME NEW t \in Readings, NEW id \in JobIDs, ClaimJob(w, id, t) PROVE MNext
      <3>1. PICK l : Claim(id, t, l, Lease, {}) /\ calls' = calls
        BY <2>1 DEF ClaimJob
      <3> QED BY <1>0, <3>1, ReadingsAreTimes, TransitionMaps
    <2>2. ASSUME NEW t \in Readings, Settle(w, t) \/ SettleFail(w, t) PROVE MNext
      <3>1. t \in Times /\ t \in Instants /\ Later(t) \in Instants /\ worker[w].until \in Instants
        BY <1>0, ReadingsAreTimes, LaterIsInstant DEF DInv, WorkerTypeOK, WorkerState
      <3>2. /\ calls' = calls
            /\ \/ Complete(worker[w].job, worker[w].lease, t)
               \/ Fail(worker[w].job, worker[w].lease, t)
               \/ Reschedule(worker[w].job, worker[w].lease, Later(t), t)
               \/ Defer(worker[w].job, worker[w].lease, worker[w].until, t)
        BY <2>2 DEF Settle, SettleFail
      <3> QED BY <1>0, <3>1, <3>2, TransitionMaps
    <2>3. ASSUME NEW t \in Readings, CheckpointMsg(w, t) \/ LoseLease(w, t) PROVE MNext
      BY <2>3, CheckpointMaps, StutterMaps DEF LoseLease
    <2>4. CASE Initialize(w) \/ CheckpointFails(w) \/ CallProvider(w)
      BY <2>4, CallMaps, StutterMaps DEF Initialize, CheckpointFails
    <2>5. CASE CallCutOff(w) \/ ProviderAnswers(w) \/ Discard(w)
      BY <2>5, StutterMaps DEF CallCutOff, ProviderAnswers, Discard
    <2> QED BY <1>1, <2>1, <2>2, <2>3, <2>4, <2>5 DEF Progress
  <1>2. ASSUME NEW w \in Workers, Gate(w) \/ HandlerPanics(w) \/ Abandon(w) PROVE MNext
    BY <1>2, StutterMaps DEF Gate, HandlerPanics, Abandon
  <1>3. CASE Tick \/ UNCHANGED dvars
    BY <1>3, StutterMaps DEF Tick, dvars
  <1> QED BY <1>1, <1>2, <1>3, SubmitMaps DEF DeliveryNext

\* Any number of workers, with leases that lapse, crashes and retries, fixes
\* each execution's message once, sends only that one and ends it once.
THEOREM DeliveryRefinesContract == DeliverySpec => ImplementsContract
  <1>1. DInv /\ [DeliveryNext]_dvars => [Contract!CNext]_(Contract!cvars)
    BY StepMaps, MappedContract
  <1>2. DeliveryInit => Contract!CInit
    BY MappedContract
  <1> QED BY <1>1, <1>2, InitDInv, NextDInv, PTL
          DEF DeliverySpec, ImplementsContract, Contract!CSpec

-----------------------------------------------------------------------------
(* What completed was delivered, and the hook follows the dead letter. *)

\* A worker reports success only for what the provider accepted.
OkAccepted ==
    \A w \in Workers :
        worker[w].pc = "settle" /\ worker[w].outcome = "ok" => worker[w].job \in accepted

\* A worker about to run the hook has dead-lettered the execution itself.
HookDue ==
    \A w \in Workers : worker[w].pc = "hook" =>
        /\ jobs[worker[w].job].status = "dead_letter"
        /\ jobs[worker[w].job].leaseID = worker[w].lease
        /\ worker[w].job \notin hooked

\* The hook has run only for stored dead letters.
HookedDead == \A i \in hooked : i \in DOMAIN jobs /\ jobs[i].status = "dead_letter"

\* How executions end: success is earned before it is reported, and a dead letter
\* remembers the one worker that made it.
OInv == OkAccepted /\ CompletedWasDelivered /\ HookDue /\ HookedDead

\* No execution leaves the store, and one that has ended does not change.
Frozen ==
    \A i \in DOMAIN jobs :
        i \in DOMAIN jobs' /\ (Terminal(jobs[i]) => jobs'[i] = jobs[i])

\* Only accepted executions become completed.
CompletesAccepted ==
    \A i \in DOMAIN jobs' : jobs'[i].status = "completed" =>
        \/ i \in accepted
        \/ i \in DOMAIN jobs /\ jobs[i].status = "completed"

\* The runtime never purges, so the store only grows.
LEMMA NextFrozen ==
  ASSUME DInv, [DeliveryNext]_dvars
  PROVE  Frozen
  <1>1. \A i \in DOMAIN jobs : Terminal(jobs[i]) /\ i \in DOMAIN jobs' => jobs'[i] = jobs[i]
    BY QueueStep, FinalStep DEF DInv, vars
  <1>2. DOMAIN jobs \subseteq DOMAIN jobs'
    <2>1. ASSUME NEW in, NEW t, Submit(in, t) PROVE DOMAIN jobs \subseteq DOMAIN jobs'
      BY <2>1 DEF Submit, EnqueueOnce, Replace, With
    <2>2. ASSUME NEW w \in Workers, NEW t, NEW id, ClaimJob(w, id, t) PROVE DOMAIN jobs \subseteq DOMAIN jobs'
      <3>1. ASSUME NEW l, NEW d, NEW k, Claim(id, t, l, d, k) PROVE DOMAIN jobs' = DOMAIN jobs
        BY <3>1 DEF Claim
      <3> QED BY <2>2, <3>1 DEF ClaimJob
    <2>3. ASSUME NEW w \in Workers, NEW t,
                 CheckpointMsg(w, t) \/ Settle(w, t) \/ SettleFail(w, t) \/ LoseLease(w, t)
          PROVE  DOMAIN jobs \subseteq DOMAIN jobs'
      BY <2>3 DEF CheckpointMsg, Checkpoint, Settle, SettleFail, LoseLease, Complete, Fail, Reschedule, Defer
    <2>4. ASSUME NEW w \in Workers,
                 \/ Initialize(w) \/ CheckpointFails(w) \/ CallProvider(w) \/ CallCutOff(w)
                 \/ ProviderAnswers(w) \/ Discard(w) \/ Gate(w) \/ HandlerPanics(w) \/ Abandon(w)
          PROVE  jobs' = jobs
      BY <2>4 DEF Initialize, CheckpointFails, CallProvider, CallCutOff, ProviderAnswers, Discard,
                  Gate, HandlerPanics, Abandon
    <2>5. CASE Tick \/ UNCHANGED dvars
      BY <2>5 DEF Tick, dvars
    <2> QED BY <2>1, <2>2, <2>3, <2>4, <2>5 DEF DeliveryNext, Progress
  <1> QED BY <1>1, <1>2 DEF Frozen

\* Steps that take no worker to the hook, and none to a success it has not
\* earned.
LEMMA FrameOInv ==
  ASSUME DInv, OInv, Frozen, CompletesAccepted, accepted \subseteq accepted', hooked' = hooked,
         \A v \in Workers :
            \/ worker'[v] = worker[v]
            \/ worker'[v].pc \notin {"settle", "hook"}
            \/ /\ worker'[v].pc = "settle"
               /\ worker'[v].outcome = "ok" => worker'[v].job \in accepted'
  PROVE  OInv'
  <1>1. OkAccepted'
    BY DEF OInv, OkAccepted
  <1>2. CompletedWasDelivered'
    BY DEF OInv, CompletedWasDelivered, CompletesAccepted
  <1>3. HookDue'
    <2> SUFFICES ASSUME NEW w \in Workers, worker'[w].pc = "hook"
                 PROVE  HookDue!(w)'
      BY DEF HookDue
    <2>1. worker'[w] = worker[w]
      OBVIOUS
    <2>2. worker[w].job \in DOMAIN jobs /\ jobs[worker[w].job].status = "dead_letter"
      BY <2>1 DEF OInv, HookDue, DInv, TokensApart, Busy
    <2>3. jobs'[worker[w].job] = jobs[worker[w].job]
      BY <2>2 DEF Frozen, Terminal, TerminalStatuses
    <2> QED BY <2>1, <2>3 DEF OInv, HookDue
  <1>4. HookedDead'
    BY DEF OInv, HookedDead, Frozen, Terminal, TerminalStatuses
  <1> QED BY <1>1, <1>2, <1>3, <1>4 DEF OInv

\* A step that leaves the store alone completes nothing.
LEMMA StillCompletes == jobs' = jobs => CompletesAccepted
  BY DEF CompletesAccepted

\* One worker moves; the others stay.
LEMMA StepOthers ==
  ASSUME DInv, NEW w \in Workers, NEW x, Step(w, x)
  PROVE  \A v \in Workers : worker'[v] = IF v = w THEN x ELSE worker[v]
  BY DEF DInv, WorkerTypeOK, Step

\* The end of an attempt, with the outcome it carries to the settlement.
LEMMA FinishOInv ==
  ASSUME DInv, OInv, NEW w \in Workers, Busy(w), NEW r \in Outcomes, Finish(w, r), jobs' = jobs, hooked' = hooked,
         accepted \subseteq accepted', r = "ok" => worker[w].job \in accepted'
  PROVE  OInv'
  <1>1. PICK x : x = Returned(w, r)
    OBVIOUS
  <1>2. x.pc = "settle" /\ x.outcome = r /\ x.job = worker[w].job
    BY <1>1 DEF Returned, DInv, WorkerTypeOK, WorkerState
  <1>3. \A v \in Workers : worker'[v] = IF v = w THEN x ELSE worker[v]
    BY <1>1, StepOthers DEF Finish
  <1>4. Frozen
    BY DEF Frozen
  <1> QED BY <1>2, <1>3, <1>4, FrameOInv, StillCompletes

\* Submissions and claims complete nothing and reach no hook.
LEMMA AdmitOInv ==
  ASSUME DInv, OInv, Frozen,
         \/ \E in \in Enqueue, t \in Readings : Submit(in, t)
         \/ \E w \in Workers, t \in Readings, id \in JobIDs : ClaimJob(w, id, t)
         \/ \E w \in Workers, t \in Readings : CheckpointMsg(w, t)
  PROVE  OInv'
  <1>0. \A i \in DOMAIN jobs : jobs[i] \in Job
    BY DEF DInv, IInv, TypeOK
  <1>1. ASSUME NEW in \in Enqueue, NEW t \in Readings, Submit(in, t) PROVE OInv'
    <2>1. UNCHANGED <<worker, accepted, hooked>>
      BY <1>1 DEF Submit
    <2>2. ASSUME NEW i \in DOMAIN jobs'
          PROVE  \/ i \in DOMAIN jobs /\ jobs'[i] = jobs[i]
                 \/ i \in DOMAIN jobs /\ jobs'[i] = Superseded(jobs[i], t)
                 \/ \E k : jobs'[i] = NewJob(in, k)
      <3>1. CASE EnqueueOnce(in, t)
        <4>1. PICK k \in Instants : jobs' = With(jobs, in.id, NewJob(in, k))
          BY <3>1 DEF EnqueueOnce
        <4>2. CASE i = in.id
          BY <4>1, <4>2 DEF With
        <4>3. CASE i # in.id
          BY <4>1, <4>3 DEF With
        <4> QED BY <4>2, <4>3
      <3>2. CASE Replace(in, t)
        <4> DEFINE retired == IF in.key = NoKey THEN {} ELSE activeByKey(in.key)
                   table == [j \in DOMAIN jobs |->
                               IF j \in retired THEN Superseded(jobs[j], t) ELSE jobs[j]]
        <4>1. PICK k \in Instants : jobs' = With(table, in.id, NewJob(in, k))
          BY <3>2 DEF Replace
        <4>2. CASE i = in.id
          BY <4>1, <4>2 DEF With
        <4>3. CASE i # in.id
          <5>1. i \in DOMAIN jobs /\ jobs'[i] = table[i]
            BY <4>1, <4>3 DEF With
          <5> QED BY <5>1
        <4> QED BY <4>2, <4>3
      <3> QED BY <1>1, <3>1, <3>2 DEF Submit
    <2>3. \A i \in DOMAIN jobs : Superseded(jobs[i], t).status = "superseded"
      BY <1>0 DEF Superseded, Job
    <2>4. CompletesAccepted
      BY <2>2, <2>3 DEF CompletesAccepted, NewJob
    <2> QED BY <2>1, <2>4, FrameOInv
  <1>2. ASSUME NEW w \in Workers, NEW t \in Readings, NEW id \in JobIDs, ClaimJob(w, id, t) PROVE OInv'
    <2>0. PICK p, a, d, k : Step(w, [Idle EXCEPT !.pc = "process", !.job = id, !.lease = k,
                                                !.claimed = p, !.msg = p, !.attempt = a, !.deadline = d])
      BY <1>2 DEF ClaimJob
    <2> DEFINE c == [Idle EXCEPT !.pc = "process", !.job = id, !.lease = k,
                                 !.claimed = p, !.msg = p, !.attempt = a, !.deadline = d]
    <2>9. c.pc = "process"
      BY DEF Idle
    <2>1. PICK x : Step(w, x) /\ x.pc = "process"
      <3> HIDE DEF c
      <3> QED BY <2>0, <2>9 DEF c
    <2>2. PICK l : Claim(id, t, l, Lease, {})
      BY <1>2 DEF ClaimJob
    <2>3. /\ id \in DOMAIN jobs /\ DOMAIN jobs' = DOMAIN jobs
          /\ jobs'[id].status = "running" /\ \A i \in DOMAIN jobs : i # id => jobs'[i] = jobs[i]
      BY <1>0, <2>2 DEF Claim, Job
    <2>4. CompletesAccepted
      BY <2>3 DEF CompletesAccepted
    <2>5. UNCHANGED <<accepted, hooked>>
      BY <1>2 DEF ClaimJob
    <2>6. \A v \in Workers : worker'[v] = IF v = w THEN x ELSE worker[v]
      BY <2>1, StepOthers
    <2> QED BY <2>1, <2>4, <2>5, <2>6, FrameOInv
  <1>3. ASSUME NEW w \in Workers, NEW t \in Readings, CheckpointMsg(w, t) PROVE OInv'
    <2>1. PICK x : Step(w, x) /\ x = [worker[w] EXCEPT !.pc = "ready"]
      BY <1>3 DEF CheckpointMsg
    <2>2. x.pc = "ready"
      BY <2>1 DEF DInv, WorkerTypeOK, WorkerState
    <2>3. DOMAIN jobs' = DOMAIN jobs /\ \A i \in DOMAIN jobs : jobs'[i].status = jobs[i].status
      BY <1>0, <1>3 DEF CheckpointMsg, Checkpoint, Job
    <2>4. CompletesAccepted
      BY <2>3 DEF CompletesAccepted
    <2>5. UNCHANGED <<accepted, hooked>>
      BY <1>3 DEF CheckpointMsg
    <2>6. \A v \in Workers : worker'[v] = IF v = w THEN x ELSE worker[v]
      BY <2>1, StepOthers
    <2> QED BY <2>2, <2>4, <2>5, <2>6, FrameOInv
  <1> QED BY <1>1, <1>2, <1>3

\* The engine's steps.
LEMMA EngineOInv ==
  ASSUME DInv, OInv, NEW w \in Workers,
         \/ Gate(w) \/ Initialize(w) \/ CheckpointFails(w) \/ CallProvider(w) \/ CallCutOff(w)
         \/ ProviderAnswers(w) \/ HandlerPanics(w)
  PROVE  OInv'
  <1>0. /\ worker[w] \in WorkerState /\ jobs' = jobs /\ hooked' = hooked /\ Frozen /\ Busy(w)
        /\ accepted \subseteq accepted'
    BY DEF Gate, Initialize, CheckpointFails, CallProvider, CallCutOff, ProviderAnswers, HandlerPanics,
           DInv, WorkerTypeOK, Frozen, Busy
  <1>1. classify(worker[w].attempt) \in Outcomes \ {"ok"} /\ {"ok", "retry", "permanent", "defer"} \subseteq Outcomes
    BY DEF classify, Outcomes
  <1>2. ASSUME NEW r \in Outcomes, Finish(w, r), r = "ok" => worker[w].job \in accepted' PROVE OInv'
    BY <1>0, <1>2, FinishOInv
  <1>3. ASSUME NEW x, Step(w, x), x.pc \notin {"settle", "hook"} \/ (x.pc = "settle" /\ x.outcome # "ok")
        PROVE  OInv'
    <2>1. \A v \in Workers : worker'[v] = IF v = w THEN x ELSE worker[v]
      BY <1>3, StepOthers
    <2> QED BY <1>0, <1>3, <2>1, FrameOInv, StillCompletes
  <1>4. CASE Gate(w)
    <2>1. CASE Step(w, [Returned(w, "defer") EXCEPT !.until = now + 1])
      <3>1. PICK x : x = [Returned(w, "defer") EXCEPT !.until = now + 1]
        OBVIOUS
      <3>2. Returned(w, "defer") \in WorkerState /\ Returned(w, "defer").pc = "settle"
        BY <1>0, <1>1, FinishType
      <3>3. Returned(w, "defer").outcome = "defer"
        BY <1>0 DEF Returned, WorkerState
      <3>4. x.pc = "settle" /\ x.outcome = "defer"
        BY <3>1, <3>2, <3>3 DEF WorkerState
      <3> QED BY <1>3, <2>1, <3>1, <3>4
    <2>2. CASE Finish(w, "permanent")
      BY <1>1, <1>2, <2>2
    <2> QED BY <1>4, <2>1, <2>2 DEF Gate
  <1>5. CASE Initialize(w)
    <2>1. CASE \E s : Step(w, [worker[w] EXCEPT !.pc = "rendered", !.msg = s])
      <3>1. PICK s : Step(w, [worker[w] EXCEPT !.pc = "rendered", !.msg = s])
        BY <2>1
      <3>2. [worker[w] EXCEPT !.pc = "rendered", !.msg = s].pc = "rendered"
        BY <1>0 DEF WorkerState
      <3> QED BY <1>3, <3>1, <3>2
    <2>2. CASE Finish(w, classify(worker[w].attempt))
      BY <1>1, <1>2, <2>2
    <2>3. CASE Finish(w, "ok") /\ accepted' = accepted \cup {worker[w].job}
      BY <1>1, <1>2, <2>3
    <2> QED BY <1>5, <2>1, <2>2, <2>3 DEF Initialize
  <1>6. CASE CallProvider(w)
    <2>1. [worker[w] EXCEPT !.pc = "calling"].pc = "calling"
      BY <1>0 DEF WorkerState
    <2> QED BY <1>3, <1>6, <2>1 DEF CallProvider
  <1>7. CASE CheckpointFails(w) \/ CallCutOff(w) \/ HandlerPanics(w)
    BY <1>1, <1>2, <1>7 DEF CheckpointFails, CallCutOff, HandlerPanics
  <1>8. CASE ProviderAnswers(w)
    BY <1>1, <1>2, <1>8 DEF ProviderAnswers
  <1> QED BY <1>4, <1>5, <1>6, <1>7, <1>8

\* Settlement: a success is reported once earned, a failure leads to the hook.
LEMMA SettlingOInv ==
  ASSUME DInv, DInv', OInv, Frozen, NEW w \in Workers, NEW t \in Readings,
         Settle(w, t) \/ SettleFail(w, t) \/ LoseLease(w, t)
  PROVE  OInv'
  <1>0. /\ \A i \in DOMAIN jobs : jobs[i] \in Job
        /\ worker[w] \in WorkerState /\ worker[w].pc = "settle" /\ UNCHANGED <<accepted, hooked>>
    BY DEF DInv, IInv, TypeOK, WorkerTypeOK, Settle, SettleFail, LoseLease
  <1>1. ASSUME Step(w, Idle), CompletesAccepted PROVE OInv'
    <2>1. \A v \in Workers : worker'[v] = IF v = w THEN Idle ELSE worker[v]
      BY <1>1, StepOthers
    <2> QED BY <1>0, <1>1, <2>1, FrameOInv DEF Idle
  <1>2. CASE Settle(w, t)
    <2>1. PICK id, l : id = worker[w].job /\ l = worker[w].lease
      OBVIOUS
    <2>2. CASE Disposition(w) = "ok" /\ Complete(id, l, t)
      <3>1. id \in accepted
        BY <1>0, <2>1, <2>2 DEF Disposition, OInv, OkAccepted
      <3>2. DOMAIN jobs' = DOMAIN jobs /\ \A i \in DOMAIN jobs : i # id => jobs'[i] = jobs[i]
        BY <2>2 DEF Complete
      <3>3. CompletesAccepted
        BY <3>1, <3>2 DEF CompletesAccepted
      <3> QED BY <1>1, <1>2, <3>3 DEF Settle
    <2>3. CASE Reschedule(id, l, Later(t), t) \/ Defer(id, l, worker[w].until, t)
      <3>1. /\ id \in DOMAIN jobs /\ DOMAIN jobs' = DOMAIN jobs
            /\ jobs'[id].status = "pending" /\ \A i \in DOMAIN jobs : i # id => jobs'[i] = jobs[i]
        <4>1. CASE Reschedule(id, l, Later(t), t)
          BY <1>0, <4>1 DEF Reschedule, Job
        <4>2. CASE Defer(id, l, worker[w].until, t)
          BY <1>0, <4>2 DEF Defer, Job
        <4> QED BY <2>3, <4>1, <4>2
      <3>2. CompletesAccepted
        BY <3>1 DEF CompletesAccepted
      <3> QED BY <1>1, <1>2, <3>2 DEF Settle
    <2> QED BY <1>2, <2>1, <2>2, <2>3 DEF Settle
  <1>3. CASE LoseLease(w, t)
    BY <1>1, <1>3, StillCompletes DEF LoseLease
  <1>4. CASE SettleFail(w, t)
    <2>1. PICK id, l : id = worker[w].job /\ l = worker[w].lease
      OBVIOUS
    <2>2. PICK x : x = [worker[w] EXCEPT !.pc = "hook"]
      OBVIOUS
    <2>3. /\ x.pc = "hook" /\ x.job = id /\ x.lease = l
          /\ \A v \in Workers : worker'[v] = IF v = w THEN x ELSE worker[v]
      BY <1>0, <1>4, <2>1, <2>2, StepOthers DEF SettleFail, WorkerState
    <2>4. /\ id \in DOMAIN jobs /\ jobs[id].status = "running" /\ jobs[id].leaseID = l
          /\ DOMAIN jobs' = DOMAIN jobs /\ \A i \in DOMAIN jobs : i # id => jobs'[i] = jobs[i]
          /\ jobs'[id].status = "dead_letter" /\ jobs'[id].leaseID = l
      BY <1>0, <1>4, <2>1 DEF SettleFail, Fail, heldBy, Job
    <2>5. id \notin hooked
      BY <2>4 DEF OInv, HookedDead
    <2>6. OkAccepted'
      BY <1>0, <2>3 DEF OInv, OkAccepted
    <2>7. CompletedWasDelivered'
      BY <1>0, <2>4 DEF OInv, CompletedWasDelivered
    <2>8. HookDue'
      <3> SUFFICES ASSUME NEW v \in Workers, worker'[v].pc = "hook"
                   PROVE  HookDue!(v)'
        BY DEF HookDue
      <3>1. CASE v = w
        BY <1>0, <2>3, <2>4, <2>5, <3>1
      <3>2. CASE v # w
        <4>1. worker'[v] = worker[v] /\ worker[v].job \in DOMAIN jobs /\ jobs[worker[v].job].status = "dead_letter"
          BY <2>3, <3>2 DEF OInv, HookDue, DInv, TokensApart, Busy
        <4>2. worker[v].job # id
          BY <2>4, <4>1
        <4> QED BY <1>0, <2>4, <4>1, <4>2 DEF OInv, HookDue
      <3> QED BY <3>1, <3>2
    <2>9. HookedDead'
      BY <1>0, <2>4, <2>5 DEF OInv, HookedDead
    <2> QED BY <2>6, <2>7, <2>8, <2>9 DEF OInv
  <1> QED BY <1>2, <1>3, <1>4

\* The hook runs once: the token of the dead letter is one worker's only.
LEMMA DiscardOInv ==
  ASSUME DInv, OInv, NEW w \in Workers, Discard(w) \/ Abandon(w)
  PROVE  OInv'
  <1>1. jobs' = jobs /\ accepted' = accepted /\ \A v \in Workers : worker'[v] = IF v = w THEN Idle ELSE worker[v]
    BY StepOthers DEF Discard, Abandon
  <1>2. CASE Abandon(w)
    <2>1. Frozen /\ hooked' = hooked
      BY <1>2 DEF Frozen, Abandon
    <2> QED BY <1>1, <2>1, FrameOInv, StillCompletes DEF Idle
  <1>3. CASE Discard(w)
    <2>1. worker[w].pc = "hook" /\ hooked' = hooked \cup {worker[w].job}
      BY <1>3 DEF Discard
    <2>2. OkAccepted' /\ CompletedWasDelivered'
      BY <1>1 DEF OInv, OkAccepted, CompletedWasDelivered, Idle
    <2>3. \A v \in Workers : v # w /\ worker[v].pc = "hook" => worker[v].job # worker[w].job
      BY <2>1 DEF OInv, HookDue, DInv, TokensApart, Busy
    <2>4. HookDue'
      BY <1>1, <2>1, <2>3 DEF OInv, HookDue, Idle
    <2>5. HookedDead'
      BY <1>1, <2>1 DEF OInv, HookedDead, HookDue, DInv, TokensApart, Busy
    <2> QED BY <2>2, <2>4, <2>5 DEF OInv
  <1> QED BY <1>2, <1>3

\* Every step of durable delivery keeps both invariants.
LEMMA NextOInv == DInv /\ OInv /\ [DeliveryNext]_dvars => OInv'
  <1> SUFFICES ASSUME DInv, OInv, [DeliveryNext]_dvars PROVE OInv'
    OBVIOUS
  <1>1. Frozen /\ DInv'
    BY NextFrozen, NextDInv
  <1>2. CASE Tick \/ UNCHANGED dvars
    <2>1. UNCHANGED <<jobs, worker, accepted, hooked>>
      BY <1>2 DEF Tick, dvars
    <2> QED BY <1>1, <2>1, FrameOInv, StillCompletes
  <1>3. ASSUME NEW w \in Workers, Progress(w) \/ Gate(w) \/ HandlerPanics(w) \/ Abandon(w) PROVE OInv'
    BY <1>1, <1>3, AdmitOInv, EngineOInv, SettlingOInv, DiscardOInv DEF Progress
  <1> QED BY <1>1, <1>2, <1>3, AdmitOInv DEF DeliveryNext

\* Both invariants hold of every behaviour.
THEOREM OutcomeInvariant == DeliverySpec => [](DInv /\ OInv)
  <1>1. DeliveryInit => OInv
    BY DEF DeliveryInit, Init, Idle, OInv, OkAccepted, CompletedWasDelivered, HookDue, HookedDead
  <1> QED BY <1>1, InitDInv, NextDInv, NextOInv, PTL DEF DeliverySpec

\* Nothing is reported completed that the provider did not accept, unless there
\* was nothing to deliver, for every number of workers, crashes and lapsed leases
\* (FencedRunner.work, Engine.Process).
THEOREM CompletedWasDeliveredHolds == DeliverySpec => []CompletedWasDelivered
  <1>1. OInv => CompletedWasDelivered
    BY DEF OInv
  <1> QED BY <1>1, OutcomeInvariant, PTL

\* The dead-letter hook runs only after the dead letter is stored, and at most
\* one worker ever runs it (FencedDeadLetterFunc).
THEOREM HookAfterDeadLetterHolds == DeliverySpec => []HookAfterDeadLetter
  <1>1. DInv /\ OInv => HookAfterDeadLetter
    <2> SUFFICES ASSUME DInv, OInv PROVE HookAfterDeadLetter
      OBVIOUS
    <2>1. \A w \in Workers : worker[w].pc = "hook" => worker[w].job \in DOMAIN jobs
      BY DEF DInv, TokensApart, Busy
    <2>2. \A v, w \in Workers :
             (worker[v].pc = "hook" /\ worker[w].pc = "hook" /\ v # w) => worker[v].job # worker[w].job
      BY DEF OInv, HookDue, DInv, TokensApart, Busy
    <2> QED BY <2>1, <2>2 DEF OInv, HookDue, HookedDead, HookAfterDeadLetter
  <1> QED BY <1>1, OutcomeInvariant, PTL
=============================================================================
