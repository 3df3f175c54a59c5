---------------------------- MODULE FencedQueue ----------------------------
(***************************************************************************)
(* The lease-fenced, keyed job queue of pockets/jobs: the in-memory        *)
(* reference store (stores/memory/fenced.go, defer.go), driven through the *)
(* keyed-work methods of the queue service (logic/queue/work.go).          *)
(*                                                                         *)
(* Every operation of the store runs under one mutex, so each is one       *)
(* atomic step.  The instants an operation is given (the caller's clock,   *)
(* or the store's own time.Now) are inputs: callers may have read them     *)
(* long ago, and wall clocks may repeat or move backward, so no operation  *)
(* may assume that successive instants grow.  A refused call (not found,   *)
(* conflict, duplicate ID, no work) changes nothing and is no step.        *)
(***************************************************************************)
EXTENDS Integers, FiniteSets

CONSTANTS
    JobIDs,      \* unique execution IDs; strings in the code, ordered like numbers
    Kinds,       \* job kinds
    Keys,        \* non-empty logical keys
    NoKey,       \* the empty logical key: no dedup, no supersession
    Priorities,
    Payloads,    \* opaque payload bytes
    LeaseIDs,    \* per-claim tokens
    NoLease,     \* the empty LeaseID
    Times,       \* instants a clock may show
    Instants,    \* instants a record may carry (creation times run ahead of clocks)
    StartTimes,  \* ScheduledFor of an admission; NoTime (the zero time) is due at once
    LeaseFor,    \* lease durations
    PurgeLimits  \* batch limits given to PurgeTerminal, negative = unbounded

ASSUME QueueAssumption ==
    /\ JobIDs \subseteq Nat
    /\ Priorities \subseteq Int
    /\ Times \subseteq Instants
    /\ Instants \subseteq Nat
    /\ StartTimes \subseteq Int
    /\ LeaseFor \subseteq Nat \ {0}
    /\ PurgeLimits \subseteq Int
    /\ NoKey \notin Keys
    /\ NoLease \notin LeaseIDs

VARIABLES
    jobs,        \* the store's map: a function from the stored IDs to jobs
    issued       \* tokens newLease has returned (they are random, never repeated)

vars == <<jobs, issued>>

NoTime == -1     \* the zero time.Time, and a nil *time.Time

TerminalStatuses == {"completed", "dead_letter", "canceled", "superseded"}
Statuses == {"pending", "running"} \cup TerminalStatuses

Job == [kind : Kinds, key : Keys \cup {NoKey}, priority : Priorities,
        payload : Payloads, status : Statuses, retries : Nat,
        scheduledFor : Int, createdAt : Nat,
        leaseID : LeaseIDs \cup {NoLease}, leasedUntil : Int, terminalAt : Int]

\* The input of an admission.
Enqueue == [id : JobIDs, kind : Kinds, key : Keys \cup {NoKey},
            priority : Priorities, payload : Payloads, scheduledFor : StartTimes]

Terminal(j) == j.status \in TerminalStatuses

\* The running job the fence accepts: its current token, and a lease that has
\* not lapsed at the caller's instant.
heldBy(j, leaseID, now) ==
    /\ j.status = "running"
    /\ j.leaseID = leaseID
    /\ now < j.leasedUntil

\* Mutated form of fencedDue: no stale-claim recovery.
fencedDuePendingOnly(j, now) == j.status = "pending" /\ j.scheduledFor <= now

\* A pending job past its time, or a running one whose lease has lapsed.
fencedDue(j, now) ==
    \/ j.status = "pending" /\ j.scheduledFor <= now
    \/ j.status = "running" /\ j.leasedUntil <= now

kindAllowed(kinds, kind) == kinds = {} \/ kind \in kinds

\* The claim order: priority, then age, then ID.
claimBefore(a, b) ==
    \/ jobs[a].priority > jobs[b].priority
    \/ /\ jobs[a].priority = jobs[b].priority
       /\ \/ jobs[a].createdAt < jobs[b].createdAt
          \/ jobs[a].createdAt = jobs[b].createdAt /\ a < b

\* The status projection's order among the generations of one key.
newerByKey(a, b) ==
    \/ jobs[a].createdAt > jobs[b].createdAt
    \/ jobs[a].createdAt = jobs[b].createdAt /\ a > b

Holders(key) == {i \in DOMAIN jobs : jobs[i].key = key}

activeByKey(key) == {i \in Holders(key) : ~ Terminal(jobs[i])}

\* Mutated form of CreationTime: the clock reading is used as it is.
CreationTimeUncorrected(key, now, t) == t = now

\* t is the creation time insert computes from its clock reading: the reading,
\* pushed one tick past the newest stored generation of the key when the clock
\* repeats or moves backward.
CreationTime(key, now, t) ==
    /\ t >= now
    /\ key # NoKey => \A i \in Holders(key) : t > jobs[i].createdAt
    /\ \/ t = now
       \/ /\ key # NoKey
          /\ \E i \in Holders(key) : t = jobs[i].createdAt + 1

NewJob(in, t) ==
    [kind |-> in.kind, key |-> in.key, priority |-> in.priority,
     payload |-> in.payload, status |-> "pending", retries |-> 0,
     scheduledFor |-> in.scheduledFor, createdAt |-> t,
     leaseID |-> NoLease, leasedUntil |-> NoTime, terminalAt |-> NoTime]

\* The store `table` with a fresh execution added.
With(table, id, j) ==
    [i \in DOMAIN table \cup {id} |-> IF i = id THEN j ELSE table[i]]

\* Mutated form of Superseded: the lease survives.
SupersededKeepsLease(j, now) == [j EXCEPT !.status = "superseded", !.terminalAt = now]

Superseded(j, now) ==
    [j EXCEPT !.status = "superseded", !.terminalAt = now,
              !.leaseID = NoLease, !.leasedUntil = NoTime]

-----------------------------------------------------------------------------
(* Admission. *)

\* Admits a fresh execution unless an active one holds the key (then that one
\* is returned and nothing changes).
EnqueueOnce(in, now) ==
    /\ in.key # NoKey => activeByKey(in.key) = {}
    /\ in.id \notin DOMAIN jobs
    /\ \E t \in Instants :
          /\ CreationTime(in.key, now, t)
          /\ jobs' = With(jobs, in.id, NewJob(in, t))
    /\ UNCHANGED issued

\* Retires every active holder of the key and admits a fresh execution, in one
\* step; a duplicate ID is refused before anything is retired.
Replace(in, now) ==
    /\ in.id \notin DOMAIN jobs
    /\ LET retired == IF in.key = NoKey THEN {} ELSE activeByKey(in.key)
           table == [i \in DOMAIN jobs |->
                        IF i \in retired THEN Superseded(jobs[i], now) ELSE jobs[i]]
       IN \E t \in Instants :
             /\ CreationTime(in.key, now, t)
             /\ jobs' = With(table, in.id, NewJob(in, t))
    /\ UNCHANGED issued

-----------------------------------------------------------------------------
(* The executor's transitions. *)

\* Leases the first due job of the wanted kinds under a fresh token and spends
\* an attempt.
Claim(id, now, leaseID, leaseFor, kinds) ==
    LET claimable == {i \in DOMAIN jobs :
                         fencedDue(jobs[i], now) /\ kindAllowed(kinds, jobs[i].kind)}
    IN /\ leaseID \in LeaseIDs \ issued
       /\ id \in claimable
       /\ \A other \in claimable \ {id} : claimBefore(id, other)
       /\ jobs' = [jobs EXCEPT ![id].status = "running",
                               ![id].leaseID = leaseID,
                               ![id].leasedUntil = now + leaseFor,
                               ![id].retries = @ + 1]
       /\ issued' = issued \cup {leaseID}

Checkpoint(id, leaseID, payload, now) ==
    /\ id \in DOMAIN jobs
    /\ heldBy(jobs[id], leaseID, now)
    /\ jobs' = [jobs EXCEPT ![id].payload = payload]
    /\ UNCHANGED issued

\* The terminal job keeps its LeaseID, so that its last holder may repeat the
\* call.
Complete(id, leaseID, now) ==
    /\ id \in DOMAIN jobs
    /\ heldBy(jobs[id], leaseID, now)
    /\ jobs' = [jobs EXCEPT ![id].status = "completed", ![id].terminalAt = now]
    /\ UNCHANGED issued

Fail(id, leaseID, now) ==
    /\ id \in DOMAIN jobs
    /\ heldBy(jobs[id], leaseID, now)
    /\ jobs' = [jobs EXCEPT ![id].status = "dead_letter", ![id].terminalAt = now]
    /\ UNCHANGED issued

\* Back to pending at availableAt; the attempt stays spent.
Reschedule(id, leaseID, availableAt, now) ==
    /\ id \in DOMAIN jobs
    /\ heldBy(jobs[id], leaseID, now)
    /\ jobs' = [jobs EXCEPT ![id].status = "pending",
                            ![id].scheduledFor = availableAt,
                            ![id].leaseID = NoLease,
                            ![id].leasedUntil = NoTime]
    /\ UNCHANGED issued

\* Like Reschedule, but refunds the claim's own attempt.
Defer(id, leaseID, availableAt, now) ==
    /\ availableAt > now
    /\ id \in DOMAIN jobs
    /\ heldBy(jobs[id], leaseID, now)
    /\ jobs[id].retries >= 1
    /\ jobs' = [jobs EXCEPT ![id].status = "pending",
                            ![id].scheduledFor = availableAt,
                            ![id].retries = @ - 1,
                            ![id].leaseID = NoLease,
                            ![id].leasedUntil = NoTime]
    /\ UNCHANGED issued

-----------------------------------------------------------------------------
(* Operator and retention. *)

\* Needs no lease: fences out a running holder.
Cancel(id, now) ==
    /\ id \in DOMAIN jobs
    /\ ~ Terminal(jobs[id])
    /\ jobs' = [jobs EXCEPT ![id].status = "canceled",
                            ![id].terminalAt = now,
                            ![id].leaseID = NoLease,
                            ![id].leasedUntil = NoTime]
    /\ UNCHANGED issued

purgeFirst(a, b) ==
    \/ jobs[a].terminalAt < jobs[b].terminalAt
    \/ jobs[a].terminalAt = jobs[b].terminalAt /\ a < b

\* Removes the oldest terminal jobs up to the cutoff, at most limit of them.
PurgeTerminal(before, limit) ==
    LET candidates == {i \in DOMAIN jobs : Terminal(jobs[i]) /\ jobs[i].terminalAt <= before}
    IN /\ \E gone \in SUBSET candidates :
             /\ \/ limit < 0 /\ gone = candidates
                \/ limit >= 0 /\ Cardinality(gone) =
                      IF Cardinality(candidates) > limit THEN limit ELSE Cardinality(candidates)
             /\ \A i \in gone, k \in candidates \ gone : purgeFirst(i, k)
             /\ jobs' = [i \in DOMAIN jobs \ gone |-> jobs[i]]
       /\ UNCHANGED issued

\* The executions GetLatestByKey may return for the key (none: not found).
GetLatestByKey(key) ==
    {i \in Holders(key) : \A k \in Holders(key) \ {i} : newerByKey(i, k)}

-----------------------------------------------------------------------------
Init ==
    /\ jobs = [i \in {} |-> i]
    /\ issued = {}

Admission == \E in \in Enqueue, now \in Times : EnqueueOnce(in, now) \/ Replace(in, now)

Claiming ==
    \E id \in JobIDs, now \in Times, l \in LeaseIDs, d \in LeaseFor, kinds \in SUBSET Kinds :
        Claim(id, now, l, d, kinds)

Settling ==
    \E id \in JobIDs, l \in LeaseIDs, now \in Times :
        \/ \E p \in Payloads : Checkpoint(id, l, p, now)
        \/ Complete(id, l, now)
        \/ Fail(id, l, now)
        \/ \E at \in Instants : Reschedule(id, l, at, now) \/ Defer(id, l, at, now)

Retention ==
    \/ \E id \in JobIDs, now \in Times : Cancel(id, now)
    \/ \E before \in Times, limit \in PurgeLimits : PurgeTerminal(before, limit)

Next == Admission \/ Claiming \/ Settling \/ Retention

Spec == Init /\ [][Next]_vars

-----------------------------------------------------------------------------
(* Properties. *)

\* Every stored record is well formed, and the tokens in use have been issued.
TypeOK ==
    /\ DOMAIN jobs \subseteq JobIDs
    /\ \A i \in DOMAIN jobs : jobs[i] \in Job
    /\ issued \subseteq LeaseIDs

\* activeByKey's "the single non-terminal job": a logical key never has two
\* active executions, whatever order admissions, replacements, reclaims,
\* retries and purges come in.
OneActivePerKey ==
    \A i, k \in DOMAIN jobs :
        (/\ jobs[i].key = jobs[k].key /\ jobs[i].key # NoKey
         /\ ~ Terminal(jobs[i]) /\ ~ Terminal(jobs[k])) => i = k

\* LatestStatusByKey reports the active execution: insert's clock correction
\* keeps it newer than every retired generation although clocks may go back.
ActiveIsLatest ==
    \A i \in DOMAIN jobs :
        (jobs[i].key # NoKey /\ ~ Terminal(jobs[i])) =>
            \A k \in Holders(jobs[i].key) \ {i} : jobs[k].createdAt < jobs[i].createdAt

\* A token identifies one claim of one execution: no two stored jobs carry the
\* same token, pending and retired jobs carry none, and a running job carries a
\* token with an attempt spent on it (what Defer refunds).
LeaseFence ==
    /\ \A i \in DOMAIN jobs :
          /\ jobs[i].leaseID # NoLease => jobs[i].leaseID \in issued
          /\ jobs[i].status = "running" => jobs[i].leaseID # NoLease /\ jobs[i].retries >= 1
          /\ jobs[i].status \in {"pending", "canceled", "superseded"} =>
                jobs[i].leaseID = NoLease
    /\ \A i, k \in DOMAIN jobs :
          (jobs[i].leaseID = jobs[k].leaseID /\ jobs[i].leaseID # NoLease) => i = k

\* "Will never be claimed again" (Job.Terminal): a terminal execution is final;
\* the only thing that may happen to it is the purge, and never to an active one.
TerminalIsFinal ==
    [][\A i \in DOMAIN jobs :
          IF Terminal(jobs[i])
          THEN i \in DOMAIN jobs' => jobs'[i] = jobs[i]
          ELSE i \in DOMAIN jobs']_vars

\* A failed or successful Replace never loses the key's work: an execution is
\* only superseded in a step that leaves another, fresh, execution active.
SupersededHasSuccessor ==
    [][\A i \in DOMAIN jobs :
          (~ Terminal(jobs[i]) /\ i \in DOMAIN jobs' /\ jobs'[i].status = "superseded") =>
              \E k \in DOMAIN jobs' \ DOMAIN jobs :
                  jobs'[k].key = jobs[i].key /\ ~ Terminal(jobs'[k])]_vars

\* Stale-claim recovery fences the previous holder: a claim always installs a
\* token that no earlier claim was given.
ClaimFencesPredecessor ==
    [][\A i \in DOMAIN jobs :
          (i \in DOMAIN jobs' /\ jobs'[i].retries > jobs[i].retries) =>
              jobs'[i].leaseID \notin issued]_vars

=============================================================================
