------------------------------ MODULE Schedules ------------------------------
(***************************************************************************)
(* Recurring schedules of the jobs pocket: the schedule service            *)
(* (logic/schedules/service.go) run by several scheduler workers over one  *)
(* schedule store (stores/memory/schedules.go) and a separate job queue.   *)
(*                                                                         *)
(* A tick lists due schedules, admits one occurrence of each, lists the    *)
(* pending occurrences, and delivers them: record the attempt, enqueue the *)
(* job under the occurrence's ID, acknowledge.  Every store call is one    *)
(* step; a call may fail, a worker may crash between two calls, and hosts  *)
(* edit, disable and delete schedules meanwhile.                           *)
(***************************************************************************)
EXTENDS Integers, FiniteSets

CONSTANTS
    IDs,          \* schedule IDs, ordered like numbers
    Names,
    Kinds,
    Handled,      \* the kinds the runtimes have handlers for
    Payloads,
    Refused,      \* payloads the queue refuses
    Specs,        \* recurrences: [every |-> n, cron |-> 0] or [every |-> 0, cron |-> n]
    CronParser,   \* TRUE: a cron parser is configured
    Workers,      \* scheduler workers
    Hosts,        \* concurrent callers of EnsureSchedule
    Batch,        \* rows of one listing
    MaxTime,      \* bound: the clock
    MaxAttempts,  \* bound: attempt counts saturate here
    MaxFaults     \* bound: crashes and failed calls

ASSUME SchedulesAssumption ==
    /\ IDs \subseteq Nat \ {0}
    /\ Handled \subseteq Kinds /\ Refused \subseteq Payloads
    /\ Specs \subseteq [every : Nat, cron : Nat]
    /\ CronParser \in BOOLEAN
    /\ Batch \in Nat \ {0} /\ MaxTime \in Nat /\ MaxAttempts \in Nat /\ MaxFaults \in Nat

VARIABLES
    now,       \* the clock
    byID,      \* the store's schedules
    pending,   \* the store's pending occurrences, at most one per schedule
    queue,     \* the jobs the queue holds
    tick,      \* what each scheduler worker holds in its locals
    host,      \* what each EnsureSchedule call in flight holds
    faults,    \* crashes and failed calls so far
    admitted,  \* how often each slot has been admitted
    created    \* how often the job of each slot has been inserted

vars == <<now, byID, pending, queue, tick, host, faults, admitted, created>>
store == <<byID, pending>>

Never == -1     \* the zero time
JobID == IDs \X Nat

Schedule ==
    [name : Names, kind : Kinds, spec : Specs, payload : Payloads, enabled : BOOLEAN,
     next : Nat, lastRun : Int, lastJob : JobID \cup {<<0, Never>>}]

Occurrence == [kind : Kinds, payload : Payloads, slot : Nat, claimedAt : Nat, attempts : 0..MaxAttempts]
Job == [id : JobID, kind : Kinds, payload : Payloads]

OccurrenceID(id, slot) == <<id, slot>>

\* f is a function from part of D to R; f with x set to v; f without
\* x; f with one more x.
Partial(f, D, R) == DOMAIN f \subseteq D /\ \A x \in DOMAIN f : f[x] \in R
With(f, x, v) == [y \in DOMAIN f \cup {x} |-> IF y = x THEN v ELSE f[y]]
Without(f, x) == [y \in DOMAIN f \ {x} |-> f[y]]
Counted(f, x) == With(f, x, IF x \in DOMAIN f THEN f[x] + 1 ELSE 1)

\* Exactly one of the two recurrences is set.
validSpec(spec) == (spec.every > 0) # (spec.cron > 0)

\* The cron parser: a slot of the expression after t.
cronNext(cron, t) == (t \div cron + 1) * cron

\* The next fire time of a recurrence, or Never when it cannot be computed.
nextRun(spec, t) ==
    IF ~ validSpec(spec) THEN Never
    ELSE IF spec.every > 0 THEN t + spec.every
    ELSE IF CronParser THEN cronNext(spec.cron, t)
    ELSE Never

Idle == [pc |-> "idle"]
Goto(w, local) == tick' = [tick EXCEPT ![w] = local]

-----------------------------------------------------------------------------
(* EnsureSchedule: the next run is computed before the store's lock. *)

EnsureStart(h, in) ==
    /\ host[h] = Idle
    /\ nextRun(in.spec, now) # Never
    /\ host' = [host EXCEPT ![h] = [pc |-> "ensure", in |-> in, next |-> nextRun(in.spec, now)]]
    /\ UNCHANGED <<now, store, queue, tick, faults, admitted, created>>

named(name) == {id \in DOMAIN byID : byID[id].name = name}

\* A recurrence that did not change keeps its slot.
updated(sch, in, next) ==
    [sch EXCEPT !.kind = in.kind, !.spec = in.spec, !.payload = in.payload,
                !.next = IF sch.spec # in.spec THEN next ELSE @]

newSchedule(in, next) ==
    [name |-> in.name, kind |-> in.kind, spec |-> in.spec, payload |-> in.payload, enabled |-> TRUE,
     next |-> next, lastRun |-> Never, lastJob |-> OccurrenceID(0, Never)]

\* IDs are fresh, and by default (UUIDv7) minted in order.
freshIDs ==
    IDs \ (DOMAIN byID \cup DOMAIN pending \cup {o[1] : o \in DOMAIN admitted})

Ensure(h) ==
    /\ host[h].pc = "ensure"
    /\ LET in == host[h].in
           next == host[h].next
       IN \/ \E id \in named(in.name) : byID' = With(byID, id, updated(byID[id], in, next))
          \/ /\ named(in.name) = {}
             /\ \E id \in freshIDs : /\ \A x \in freshIDs : id <= x
                                    /\ byID' = With(byID, id, newSchedule(in, next))
    /\ host' = [host EXCEPT ![h] = Idle]
    /\ UNCHANGED <<now, pending, queue, tick, faults, admitted, created>>

SetEnabled(id, enabled) ==
    /\ id \in DOMAIN byID /\ byID[id].enabled # enabled
    /\ byID' = [byID EXCEPT ![id].enabled = enabled]
    /\ UNCHANGED <<now, pending, queue, tick, host, faults, admitted, created>>

Delete(id) ==
    /\ id \in DOMAIN byID
    /\ byID' = Without(byID, id)
    /\ UNCHANGED <<now, pending, queue, tick, host, faults, admitted, created>>

-----------------------------------------------------------------------------
(* One tick of WorkFunc: admission. *)

isDue(id, t) ==
    /\ id \notin DOMAIN pending
    /\ byID[id].enabled /\ byID[id].next <= t /\ byID[id].kind \in Handled

\* ListDue's order, and the first Batch of it.
dueBefore(x, y) == byID[x].next < byID[y].next \/ (byID[x].next = byID[y].next /\ x < y)
Due(t) == {id \in DOMAIN byID : isDue(id, t)}
ListDue(t) ==
    LET batch == {id \in Due(t) : Cardinality({x \in Due(t) : dueBefore(x, id)}) < Batch}
    IN [id \in batch |-> byID[id]]

Fault == faults < MaxFaults /\ faults' = faults + 1

\* A failed listing is reported at the end of the tick, which goes on.
TickStart(w) ==
    /\ tick[w] = Idle
    /\ \/ /\ Goto(w, [pc |-> "claim", now |-> now, due |-> ListDue(now)])
          /\ UNCHANGED faults
       \/ /\ Fault
          /\ Goto(w, [pc |-> "claim", now |-> now, due |-> << >>])
    /\ UNCHANGED <<now, store, queue, host, admitted, created>>

\* Mutated form of mayClaim: what was listed is taken for current.
mayClaimListed(id, expected, next, t) ==
    /\ id \in DOMAIN byID /\ id \notin DOMAIN pending
    /\ expected.enabled /\ expected.next <= t /\ next > t

\* ClaimDue's conditions.
mayClaim(id, expected, next, t) ==
    /\ id \in DOMAIN byID /\ id \notin DOMAIN pending
    /\ byID[id].enabled /\ byID[id].next <= t /\ next > t
    /\ byID[id].next = expected.next /\ byID[id].kind = expected.kind /\ byID[id].spec = expected.spec

occurrenceOf(sch, t) ==
    [kind |-> sch.kind, payload |-> sch.payload, slot |-> sch.next, claimedAt |-> t, attempts |-> 0]

\* The next listed schedule: its occurrence is persisted and it advances.
ClaimDue(w, id) ==
    LET t == tick[w].now
        next == nextRun(tick[w].due[id].spec, t)
    IN /\ tick[w].pc = "claim" /\ id \in DOMAIN tick[w].due
       /\ Goto(w, [pc |-> "claim", now |-> t, due |-> Without(tick[w].due, id)])
       /\ \/ /\ mayClaim(id, tick[w].due[id], next, t)
             /\ pending' = With(pending, id, occurrenceOf(byID[id], t))
             /\ byID' = [byID EXCEPT ![id].next = next]
             /\ admitted' = Counted(admitted, OccurrenceID(id, byID[id].next))
             /\ UNCHANGED faults
          \/ /\ ~ mayClaim(id, tick[w].due[id], next, t)
             /\ UNCHANGED <<store, admitted, faults>>
          \/ Fault /\ UNCHANGED <<store, admitted>>
       /\ UNCHANGED <<now, queue, host, created>>

-----------------------------------------------------------------------------
(* One tick of WorkFunc: delivery. *)

\* ListPending's order, and the first Batch of it.
pendingBefore(x, y) ==
    \/ pending[x].attempts < pending[y].attempts
    \/ /\ pending[x].attempts = pending[y].attempts
       /\ \/ pending[x].slot < pending[y].slot
          \/ pending[x].slot = pending[y].slot /\ x < y

Deliverable == {id \in DOMAIN pending : pending[id].kind \in Handled}

\* Mutated form of ListPending: oldest first, however often it failed.
ListPendingBySlot ==
    LET batch == {id \in Deliverable :
                     Cardinality({x \in Deliverable : \/ pending[x].slot < pending[id].slot
                                                      \/ pending[x].slot = pending[id].slot /\ x < id})
                     < Batch}
    IN {[id |-> OccurrenceID(id, pending[id].slot), kind |-> pending[id].kind,
         payload |-> pending[id].payload] : id \in batch}

ListPending ==
    LET batch == {id \in Deliverable :
                     Cardinality({x \in Deliverable : pendingBefore(x, id)}) < Batch}
    IN {[id |-> OccurrenceID(id, pending[id].slot), kind |-> pending[id].kind,
         payload |-> pending[id].payload] : id \in batch}

TickPending(w) ==
    /\ tick[w].pc = "claim" /\ DOMAIN tick[w].due = {}
    /\ \/ Goto(w, [pc |-> "deliver", todo |-> ListPending]) /\ UNCHANGED faults
       \/ Goto(w, [pc |-> "deliver", todo |-> {}]) /\ Fault
    /\ UNCHANGED <<now, store, queue, host, admitted, created>>

isPending(job) == job[1] \in DOMAIN pending /\ pending[job[1]].slot = job[2]

\* RecordAttempt: an occurrence somebody else has acknowledged is passed over.
RecordAttempt(w, o) ==
    /\ tick[w].pc = "deliver" /\ o \in tick[w].todo
    /\ LET todo == tick[w].todo \ {o}
       IN \/ /\ isPending(o.id)
             /\ pending' = [pending EXCEPT ![o.id[1]].attempts = IF @ < MaxAttempts THEN @ + 1 ELSE @]
             /\ Goto(w, [pc |-> "enqueue", todo |-> todo, o |-> o])
             /\ UNCHANGED faults
          \/ /\ ~ isPending(o.id)
             /\ Goto(w, [pc |-> "deliver", todo |-> todo])
             /\ UNCHANGED <<pending, faults>>
          \/ /\ Fault
             /\ Goto(w, [pc |-> "deliver", todo |-> todo])
             /\ UNCHANGED pending
    /\ UNCHANGED <<now, byID, queue, host, admitted, created>>

Onward(w) == [pc |-> "deliver", todo |-> tick[w].todo]
Acking(w) == [pc |-> "ack", todo |-> tick[w].todo, o |-> tick[w].o]
hasJob(id) == \E j \in queue : j.id = id

\* Mutated form of mayEnqueue: a duplicate ID is not refused.
mayEnqueueAgain(o) == o.payload \notin Refused

\* Queue.Enqueue inserts a job unless its ID is taken.
mayEnqueue(o) == o.payload \notin Refused /\ ~ hasJob(o.id)

\* An insert, or one an earlier attempt made, is acknowledged.
acknowledges(o) == o.payload \notin Refused

\* EnqueueJob: the answer to an insert that committed may be lost.
EnqueueJob(w) ==
    LET o == tick[w].o
    IN /\ tick[w].pc = "enqueue"
       /\ \/ /\ mayEnqueue(o)
             /\ queue' = queue \cup {o} /\ created' = Counted(created, o.id)
             /\ \/ Goto(w, Acking(w)) /\ UNCHANGED faults
                \/ Goto(w, Onward(w)) /\ Fault
          \/ /\ ~ mayEnqueue(o)
             /\ Goto(w, IF acknowledges(o) THEN Acking(w) ELSE Onward(w))
             /\ UNCHANGED <<queue, created, faults>>
          \/ Goto(w, Onward(w)) /\ Fault /\ UNCHANGED <<queue, created>>
       /\ UNCHANGED <<now, store, host, admitted>>

\* Mutated form of isAcked: the schedule's occurrence, whichever it is.
isAckedAny(job) == job[1] \in DOMAIN pending

\* AckOccurrence looks for the occurrence by its job ID.
isAcked(job) == isPending(job)

lastRunOf(id) == pending[id].claimedAt

AckOccurrence(w) ==
    LET job == tick[w].o.id
        id == job[1]
    IN /\ tick[w].pc = "ack"
       /\ Goto(w, Onward(w))
       /\ \/ /\ isAcked(job)
             /\ byID' = IF id \in DOMAIN byID
                        THEN [byID EXCEPT ![id].lastJob = job, ![id].lastRun = lastRunOf(id)]
                        ELSE byID
             /\ pending' = Without(pending, id)
             /\ UNCHANGED faults
          \/ ~ isAcked(job) /\ UNCHANGED <<store, faults>>
          \/ Fault /\ UNCHANGED store
       /\ UNCHANGED <<now, queue, host, admitted, created>>

TickEnd(w) ==
    /\ tick[w].pc = "deliver" /\ tick[w].todo = {}
    /\ Goto(w, Idle)
    /\ UNCHANGED <<now, store, queue, host, faults, admitted, created>>

Crash(w) ==
    /\ tick[w] # Idle /\ Fault
    /\ Goto(w, Idle)
    /\ UNCHANGED <<now, store, queue, host, admitted, created>>

-----------------------------------------------------------------------------
\* Retention of finished jobs; IDs are preserved through the retry window.
PurgeTerminal(j) ==
    /\ j \in queue /\ ~ isPending(j.id)
    /\ \A w \in Workers : tick[w].pc = "enqueue" => tick[w].o.id # j.id
    /\ queue' = queue \ {j}
    /\ UNCHANGED <<now, store, tick, host, faults, admitted, created>>

Tick ==
    /\ now < MaxTime
    /\ now' = now + 1
    /\ UNCHANGED <<store, queue, tick, host, faults, admitted, created>>

Request == [name : Names, kind : Kinds, spec : Specs, payload : Payloads]

Init ==
    /\ now = 0
    /\ byID = << >> /\ pending = << >> /\ queue = {}
    /\ tick = [w \in Workers |-> Idle] /\ host = [h \in Hosts |-> Idle]
    /\ faults = 0 /\ admitted = << >> /\ created = << >>

WorkFunc(w) ==
    \/ TickStart(w) \/ TickPending(w) \/ TickEnd(w)
    \/ \E id \in IDs : ClaimDue(w, id)
    \/ tick[w].pc = "deliver" /\ \E o \in tick[w].todo : RecordAttempt(w, o)
    \/ EnqueueJob(w) \/ AckOccurrence(w)

Managing ==
    \/ \E h \in Hosts : Ensure(h) \/ \E in \in Request : EnsureStart(h, in)
    \/ \E id \in IDs : Delete(id) \/ \E enabled \in BOOLEAN : SetEnabled(id, enabled)

Next ==
    \/ \E w \in Workers : WorkFunc(w) \/ Crash(w)
    \/ Managing
    \/ \E j \in queue : PurgeTerminal(j)
    \/ Tick

Spec == Init /\ [][Next]_vars

\* Each worker keeps ticking (the pool polls); faults and edits are bounded.
FairSpec == Spec /\ \A w \in Workers : WF_vars(WorkFunc(w))

-----------------------------------------------------------------------------
(* Properties. *)

\* The locals of a tick and of an EnsureSchedule call.
IsTick(l) ==
    \/ l = Idle
    \/ l.pc = "claim" /\ l.now \in 0..MaxTime /\ Partial(l.due, IDs, Schedule)
    \/ l.pc = "deliver" /\ l.todo \subseteq Job
    \/ l.pc \in {"enqueue", "ack"} /\ l.todo \subseteq Job /\ l.o \in Job
IsCall(l) == l = Idle \/ l \in [pc : {"ensure"}, in : Request, next : Nat]

\* The schedule store, the queue and the ticks in flight are well formed.
TypeOK ==
    /\ now \in 0..MaxTime
    /\ Partial(byID, IDs, Schedule)
    /\ Partial(pending, IDs, Occurrence)
    /\ queue \subseteq Job
    /\ Partial(admitted, JobID, Nat) /\ Partial(created, JobID, Nat)
    /\ faults \in 0..MaxFaults
    /\ \A w \in Workers : IsTick(tick[w])
    /\ \A h \in Hosts : IsCall(host[h])

\* "Stores retain it until enqueue succeeds and AckOccurrence commits"
\* (Occurrence): an admitted occurrence is pending until its job exists,
\* through crashes, failed and lost calls, competing workers, edits, disabling
\* and deletion of its schedule.
AdmittedNotLost == \A o \in DOMAIN admitted : isPending(o) \/ o \in DOMAIN created

\* "Replay after an uncertain enqueue uses the same JobID" (Occurrence): one
\* admission yields at most one job, however many workers deliver it and
\* however often, although finished jobs are purged.
OneJobPerAdmission ==
    \A o \in DOMAIN created : o \in DOMAIN admitted /\ created[o] <= admitted[o]

\* "Disabled, stale, not-yet-due or already-pending schedules lose" (ClaimDue):
\* what is admitted is the current slot, kind and payload of an enabled schedule
\* with nothing pending, although the listing is old by then.
AdmissionStep ==
    \A id \in IDs :
        (id \in DOMAIN pending' /\ (id \in DOMAIN pending => pending'[id].slot # pending[id].slot)) =>
            /\ id \in DOMAIN byID /\ byID[id].enabled /\ id \notin DOMAIN pending
            /\ pending'[id].slot = byID[id].next
            /\ pending'[id].kind = byID[id].kind /\ pending'[id].payload = byID[id].payload
            /\ byID'[id].next > byID[id].next
AdmissionIsCurrent == [][AdmissionStep]_vars

\* "Repeated acknowledgements cannot overwrite newer metadata" (README): an
\* occurrence leaves the store only once its job has been inserted, and then the
\* last job and run of its schedule become that occurrence's; nothing else,
\* stale acknowledgements included, changes them.
Leaves(id) == id \in DOMAIN pending /\ id \notin DOMAIN pending'
AckStep ==
    \A id \in IDs :
        /\ Leaves(id) =>
            /\ OccurrenceID(id, pending[id].slot) \in DOMAIN created
            /\ id \in DOMAIN byID =>
                /\ byID'[id].lastJob = OccurrenceID(id, pending[id].slot)
                /\ byID'[id].lastRun = pending[id].claimedAt
                /\ byID'[id].lastRun >= pending[id].slot
        /\ (/\ id \in DOMAIN byID \cap DOMAIN byID'
            /\ \/ byID'[id].lastJob # byID[id].lastJob
               \/ byID'[id].lastRun # byID[id].lastRun) => Leaves(id)
AcksAreExact == [][AckStep]_vars

\* "Rotates failed deliveries so healthy later work is attempted" (README): an
\* occurrence the queue accepts is eventually delivered, although another one
\* fails on every attempt and fills the batch.
HealthyDelivered ==
    \A id \in IDs :
        (id \in Deliverable /\ pending[id].payload \notin Refused)
            ~> (id \notin DOMAIN pending)
=============================================================================
