--------------------------- MODULE SchedulesProofs ---------------------------
(* No admitted occurrence is lost, for every number of schedules and workers. *)
EXTENDS Schedules, TLAPS

\* A job in the queue has been inserted.
JobsWereCreated == \A j \in queue : j.id \in DOMAIN created

\* A worker acknowledges only what it, or somebody before it, inserted.
AcksAreCreated == \A w \in Workers : tick[w].pc = "ack" => tick[w].o.id \in DOMAIN created

\* The inductive invariant: an occurrence leaves the store only through an
\* acknowledgement, and an acknowledgement is only due after an insert.
SInv ==
    /\ TypeOK
    /\ DOMAIN tick = Workers /\ DOMAIN host = Hosts
    /\ AdmittedNotLost /\ JobsWereCreated /\ AcksAreCreated

\* A cron slot lies in the future of a natural time.
LEMMA CronNextType ==
  ASSUME NEW c \in Nat, c > 0, NEW t \in Nat
  PROVE  cronNext(c, t) \in Nat
  <1>1. t \div c \in Nat
    BY Z3
  <1>2. \A d, e \in Nat : (d + 1) * e \in Nat
    OBVIOUS
  <1> QED BY <1>1, <1>2 DEF cronNext

\* A run that can be computed is a natural time.
LEMMA NextRunType ==
  ASSUME NEW spec \in Specs, NEW t \in Nat, nextRun(spec, t) # Never
  PROVE  nextRun(spec, t) \in Nat
  <1>1. spec.every \in Nat /\ spec.cron \in Nat
    BY SchedulesAssumption DEF SchedulesAssumption
  <1>2. CASE spec.every > 0
    <2>1. nextRun(spec, t) = t + spec.every
      BY <1>1, <1>2 DEF nextRun, validSpec
    <2> QED BY <1>1, <2>1
  <1>3. CASE ~ (spec.every > 0)
    <2>1. spec.cron > 0 /\ nextRun(spec, t) = cronNext(spec.cron, t)
      BY <1>1, <1>3 DEF nextRun, validSpec
    <2> QED BY <1>1, <2>1, CronNextType
  <1> QED BY <1>2, <1>3

\* The initial state satisfies the invariant.
LEMMA InitSInv == Init => SInv
  BY SchedulesAssumption
  DEF SchedulesAssumption, Init, SInv, TypeOK, AdmittedNotLost, JobsWereCreated, AcksAreCreated,
      Partial, Idle, IsTick, IsCall

\* What a claiming, delivering or enqueueing worker holds.
LEMMA TickFields ==
  ASSUME NEW l, IsTick(l)
  PROVE  /\ l.pc = "claim" => l.now \in 0..MaxTime /\ Partial(l.due, IDs, Schedule)
         /\ l.pc = "deliver" => l.todo \subseteq Job
         /\ l.pc \in {"enqueue", "ack"} => l.todo \subseteq Job /\ l.o \in Job
  BY DEF IsTick, Idle

\* A step that only moves worker w to a well-formed local, and queue, store and
\* history nowhere, keeps the invariant.
LEMMA MoveSInv ==
  ASSUME SInv, NEW w \in Workers, NEW l, IsTick(l), Goto(w, l),
         l.pc = "ack" => l.o.id \in DOMAIN created,
         UNCHANGED <<now, store, queue, host, admitted, created>>,
         faults' \in 0..MaxFaults
  PROVE  SInv'
  <1>1. DOMAIN tick' = Workers /\ \A v \in Workers : tick'[v] = IF v = w THEN l ELSE tick[v]
    BY DEF Goto, SInv
  <1>2. TypeOK'
    BY <1>1 DEF SInv, TypeOK, store
  <1>3. AdmittedNotLost' /\ JobsWereCreated'
    BY DEF SInv, AdmittedNotLost, isPending, JobsWereCreated, store
  <1>4. AcksAreCreated'
    BY <1>1 DEF SInv, AcksAreCreated
  <1> QED BY <1>1, <1>2, <1>3, <1>4 DEF SInv

\* A fault leaves the count of faults within its bound.
LEMMA FaultType == ASSUME SInv, Fault PROVE faults' \in 0..MaxFaults
  BY SchedulesAssumption DEF SchedulesAssumption, SInv, TypeOK, Fault

\* The listings hold what the store holds.
LEMMA ListingType ==
  ASSUME SInv
  PROVE  /\ \A t : Partial(ListDue(t), IDs, Schedule)
         /\ ListPending \subseteq Job
  <1>1. ASSUME NEW t PROVE Partial(ListDue(t), IDs, Schedule)
    BY DEF SInv, TypeOK, Partial, ListDue, Due
  <1>2. ListPending \subseteq Job
    <2>1. \A id \in Deliverable :
             [id |-> OccurrenceID(id, pending[id].slot), kind |-> pending[id].kind,
              payload |-> pending[id].payload] \in Job
      BY DEF SInv, TypeOK, Partial, Deliverable, OccurrenceID, Occurrence, Job, JobID
    <2> QED BY <2>1 DEF ListPending
  <1> QED BY <1>1, <1>2

\* Starting a tick, listing pending occurrences, ending and crashing.
LEMMA TickSInv ==
  ASSUME SInv, NEW w \in Workers, TickStart(w) \/ TickPending(w) \/ TickEnd(w) \/ Crash(w)
  PROVE  SInv'
  <1>0. faults \in 0..MaxFaults /\ now \in 0..MaxTime
    BY DEF SInv, TypeOK
  <1>1. CASE TickStart(w)
    <2>1. IsTick([pc |-> "claim", now |-> now, due |-> ListDue(now)])
      BY <1>0, ListingType DEF IsTick
    <2>2. IsTick([pc |-> "claim", now |-> now, due |-> << >>])
      BY <1>0 DEF IsTick, Partial
    <2> QED BY <1>0, <1>1, <2>1, <2>2, MoveSInv, FaultType DEF TickStart
  <1>2. CASE TickPending(w)
    <2>1. IsTick([pc |-> "deliver", todo |-> ListPending]) /\ IsTick([pc |-> "deliver", todo |-> {}])
      BY ListingType DEF IsTick
    <2> QED BY <1>0, <1>2, <2>1, MoveSInv, FaultType DEF TickPending
  <1>3. CASE TickEnd(w) \/ Crash(w)
    <2>1. IsTick(Idle) /\ Idle.pc # "ack"
      BY DEF IsTick, Idle
    <2> QED BY <1>0, <1>3, <2>1, MoveSInv, FaultType DEF TickEnd, Crash
  <1> QED BY <1>1, <1>2, <1>3

\* Admission: the occurrence is pending before the schedule can be claimed again.
LEMMA ClaimSInv ==
  ASSUME SInv, NEW w \in Workers, NEW id \in IDs, ClaimDue(w, id)
  PROVE  SInv'
  <1> DEFINE t == tick[w].now
             next == nextRun(tick[w].due[id].spec, t)
             l == [pc |-> "claim", now |-> t, due |-> Without(tick[w].due, id)]
  <1>1. /\ tick[w].pc = "claim" /\ id \in DOMAIN tick[w].due
        /\ t \in 0..MaxTime /\ Partial(tick[w].due, IDs, Schedule)
    BY TickFields DEF ClaimDue, SInv, TypeOK
  <1>2. IsTick(l)
    BY <1>1 DEF IsTick, Partial, Without
  <1>3. faults \in 0..MaxFaults
    BY DEF SInv, TypeOK
  <1>4. CASE mayClaim(id, tick[w].due[id], next, t) /\ faults' = faults
             /\ pending' = With(pending, id, occurrenceOf(byID[id], t))
             /\ byID' = [byID EXCEPT ![id].next = next]
             /\ admitted' = Counted(admitted, OccurrenceID(id, byID[id].next))
    <2>1. Goto(w, l) /\ UNCHANGED <<now, queue, host, created>>
      BY DEF ClaimDue
    <2>2. DOMAIN tick' = Workers /\ \A v \in Workers : tick'[v] = IF v = w THEN l ELSE tick[v]
      BY <2>1 DEF Goto, SInv
    <2>3. /\ id \in DOMAIN byID /\ id \notin DOMAIN pending /\ byID[id] \in Schedule
          /\ next > t /\ t \in Nat /\ tick[w].due[id].spec \in Specs
      BY <1>1, <1>4, SchedulesAssumption
      DEF mayClaim, SInv, TypeOK, Partial, Schedule, SchedulesAssumption
    <2>4. next \in Nat
      <3>1. next # Never
        BY <2>3 DEF Never
      <3> QED BY <2>3, <3>1, NextRunType
    <2>5. /\ DOMAIN pending' = DOMAIN pending \cup {id}
          /\ pending'[id] = occurrenceOf(byID[id], t)
          /\ \A x \in DOMAIN pending : pending'[x] = pending[x]
      BY <1>4, <2>3 DEF With
    <2>6. DOMAIN byID' = DOMAIN byID /\ \A x \in DOMAIN byID :
             byID'[x] = IF x = id THEN [byID[id] EXCEPT !.next = next] ELSE byID[x]
      BY <1>4, <2>3
    <2>7. OccurrenceID(id, byID[id].next) \in JobID /\ byID[id].next \in Nat
      BY <2>3 DEF OccurrenceID, JobID, Schedule
    <2>8. /\ DOMAIN admitted' = DOMAIN admitted \cup {OccurrenceID(id, byID[id].next)}
          /\ \A o \in DOMAIN admitted' : admitted'[o] \in Nat
      BY <1>4 DEF Counted, With, SInv, TypeOK, Partial
    <2>9. Partial(byID', IDs, Schedule)
      <3>1. [byID[id] EXCEPT !.next = next] \in Schedule
        BY <2>3, <2>4 DEF Schedule
      <3> QED BY <2>6, <3>1 DEF SInv, TypeOK, Partial
    <2>10. Partial(pending', IDs, Occurrence)
      <3>1. occurrenceOf(byID[id], t) \in Occurrence
        BY <2>3, <2>7, SchedulesAssumption DEF occurrenceOf, Occurrence, Schedule, SchedulesAssumption
      <3> QED BY <2>5, <3>1 DEF SInv, TypeOK, Partial
    <2>11. Partial(admitted', JobID, Nat)
      BY <2>7, <2>8 DEF SInv, TypeOK, Partial
    <2>12. TypeOK'
      BY <1>2, <1>3, <1>4, <2>1, <2>2, <2>9, <2>10, <2>11 DEF SInv, TypeOK
    <2>13. AdmittedNotLost'
      <3>1. ASSUME NEW o \in DOMAIN admitted PROVE isPending(o)' \/ o \in DOMAIN created'
        BY <2>1, <2>5 DEF SInv, AdmittedNotLost, isPending
      <3>2. \A o : o = OccurrenceID(id, byID[id].next) => isPending(o)'
        BY <2>5 DEF isPending, OccurrenceID, occurrenceOf
      <3> QED BY <2>8, <3>1, <3>2 DEF AdmittedNotLost
    <2>14. JobsWereCreated' /\ AcksAreCreated'
      BY <2>1, <2>2 DEF SInv, JobsWereCreated, AcksAreCreated
    <2> QED BY <2>1, <2>2, <2>12, <2>13, <2>14 DEF SInv
  <1>5. CASE UNCHANGED <<store, admitted>> /\ (UNCHANGED faults \/ Fault)
    BY <1>2, <1>3, <1>5, MoveSInv, FaultType DEF ClaimDue
  <1> QED BY <1>4, <1>5 DEF ClaimDue

\* Recording an attempt changes no slot.
LEMMA AttemptSInv ==
  ASSUME SInv, NEW w \in Workers, NEW o, RecordAttempt(w, o)
  PROVE  SInv'
  <1> DEFINE todo == tick[w].todo \ {o}
  <1>1. tick[w].pc = "deliver" /\ o \in tick[w].todo /\ tick[w].todo \subseteq Job
    BY TickFields DEF RecordAttempt, SInv, TypeOK
  <1>2. /\ IsTick([pc |-> "deliver", todo |-> todo])
        /\ IsTick([pc |-> "enqueue", todo |-> todo, o |-> o])
    BY <1>1 DEF IsTick
  <1>3. faults \in 0..MaxFaults
    BY DEF SInv, TypeOK
  <1>4. CASE isPending(o.id) /\ UNCHANGED faults
             /\ pending' = [pending EXCEPT ![o.id[1]].attempts = IF @ < MaxAttempts THEN @ + 1 ELSE @]
             /\ Goto(w, [pc |-> "enqueue", todo |-> todo, o |-> o])
    <2>1. UNCHANGED <<now, byID, queue, host, admitted, created>>
      BY DEF RecordAttempt
    <2>2. DOMAIN tick' = Workers
          /\ \A v \in Workers : tick'[v] = IF v = w THEN [pc |-> "enqueue", todo |-> todo, o |-> o] ELSE tick[v]
      BY <1>4 DEF Goto, SInv
    <2>3. /\ DOMAIN pending' = DOMAIN pending
          /\ \A x \in DOMAIN pending : pending'[x] \in Occurrence /\ pending'[x].slot = pending[x].slot
      BY <1>4, SchedulesAssumption DEF SInv, TypeOK, Partial, Occurrence, SchedulesAssumption
    <2>4. TypeOK'
      BY <1>2, <1>3, <1>4, <2>1, <2>2, <2>3 DEF SInv, TypeOK, Partial
    <2>5. AdmittedNotLost'
      BY <2>1, <2>3 DEF SInv, AdmittedNotLost, isPending
    <2>6. JobsWereCreated' /\ AcksAreCreated'
      BY <2>1, <2>2 DEF SInv, JobsWereCreated, AcksAreCreated
    <2> QED BY <2>1, <2>2, <2>4, <2>5, <2>6 DEF SInv
  <1>5. CASE UNCHANGED pending /\ (UNCHANGED faults \/ Fault)
             /\ Goto(w, [pc |-> "deliver", todo |-> todo])
    <2>1. UNCHANGED <<now, store, queue, host, admitted, created>>
      BY <1>5 DEF RecordAttempt, store
    <2> QED BY <1>2, <1>3, <1>5, <2>1, MoveSInv, FaultType
  <1> QED BY <1>4, <1>5 DEF RecordAttempt

\* A job is inserted, or found inserted, before the worker turns to the
\* acknowledgement.
LEMMA EnqueueSInv ==
  ASSUME SInv, NEW w \in Workers, EnqueueJob(w)
  PROVE  SInv'
  <1> DEFINE o == tick[w].o
  <1>1. tick[w].pc = "enqueue" /\ tick[w].todo \subseteq Job /\ o \in Job
    BY TickFields DEF EnqueueJob, SInv, TypeOK
  <1>2. /\ IsTick(Acking(w)) /\ Acking(w).pc = "ack" /\ Acking(w).o = o
        /\ IsTick(Onward(w)) /\ Onward(w).pc = "deliver"
    BY <1>1 DEF IsTick, Acking, Onward
  <1>3. faults \in 0..MaxFaults
    BY DEF SInv, TypeOK
  <1>4. CASE mayEnqueue(o) /\ queue' = queue \cup {o} /\ created' = Counted(created, o.id)
    <2>1. UNCHANGED <<now, store, host, admitted>> /\ faults' \in 0..MaxFaults
      BY <1>3, <1>4, FaultType DEF EnqueueJob
    <2>2. PICK l : l \in {Acking(w), Onward(w)} /\ Goto(w, l)
      BY <1>4 DEF EnqueueJob
    <2>3. DOMAIN tick' = Workers /\ \A v \in Workers : tick'[v] = IF v = w THEN l ELSE tick[v]
      BY <2>2 DEF Goto, SInv
    <2>4. /\ DOMAIN created' = DOMAIN created \cup {o.id}
          /\ \A x \in DOMAIN created' : created'[x] \in Nat
      BY <1>4 DEF Counted, With, SInv, TypeOK, Partial
    <2>5. o.id \in JobID
      BY <1>1 DEF Job
    <2>6. TypeOK'
      BY <1>1, <1>2, <1>4, <2>1, <2>2, <2>3, <2>4, <2>5 DEF SInv, TypeOK, Partial, store
    <2>7. AdmittedNotLost'
      BY <2>1, <2>4 DEF SInv, AdmittedNotLost, isPending, store
    <2>8. JobsWereCreated'
      BY <1>4, <2>4 DEF SInv, JobsWereCreated
    <2>9. AcksAreCreated'
      BY <1>2, <2>2, <2>3, <2>4 DEF SInv, AcksAreCreated
    <2> QED BY <2>1, <2>3, <2>6, <2>7, <2>8, <2>9 DEF SInv
  <1>5. CASE /\ ~ mayEnqueue(o) /\ UNCHANGED <<queue, created, faults>>
             /\ Goto(w, IF acknowledges(o) THEN Acking(w) ELSE Onward(w))
    <2>1. acknowledges(o) => o.id \in DOMAIN created
      BY <1>5 DEF acknowledges, mayEnqueue, hasJob, SInv, JobsWereCreated
    <2> QED BY <1>2, <1>3, <1>5, <2>1, MoveSInv DEF EnqueueJob
  <1>6. CASE Goto(w, Onward(w)) /\ Fault /\ UNCHANGED <<queue, created>>
    BY <1>2, <1>6, MoveSInv, FaultType DEF EnqueueJob
  <1> QED BY <1>4, <1>5, <1>6 DEF EnqueueJob

\* An acknowledgement removes the one occurrence whose job exists.
LEMMA AckSInv ==
  ASSUME SInv, NEW w \in Workers, AckOccurrence(w)
  PROVE  SInv'
  <1> DEFINE job == tick[w].o.id
             id == job[1]
  <1>1. tick[w].pc = "ack" /\ tick[w].todo \subseteq Job /\ tick[w].o \in Job
    BY TickFields DEF AckOccurrence, SInv, TypeOK
  <1>2. IsTick(Onward(w)) /\ Onward(w).pc = "deliver"
    BY <1>1 DEF IsTick, Onward
  <1>3. faults \in 0..MaxFaults
    BY DEF SInv, TypeOK
  <1>4. job \in JobID /\ job \in DOMAIN created
    BY <1>1 DEF Job, SInv, AcksAreCreated
  <1>5. CASE /\ isAcked(job) /\ UNCHANGED faults
             /\ byID' = IF id \in DOMAIN byID
                        THEN [byID EXCEPT ![id].lastJob = job, ![id].lastRun = lastRunOf(id)]
                        ELSE byID
             /\ pending' = Without(pending, id)
    <2>1. Goto(w, Onward(w)) /\ UNCHANGED <<now, queue, host, admitted, created>>
      BY DEF AckOccurrence
    <2>2. DOMAIN tick' = Workers /\ \A v \in Workers : tick'[v] = IF v = w THEN Onward(w) ELSE tick[v]
      BY <2>1 DEF Goto, SInv
    <2>3. id \in DOMAIN pending /\ pending[id].slot = job[2]
      BY <1>5 DEF isAcked, isPending
    <2>4. DOMAIN pending' = DOMAIN pending \ {id} /\ \A x \in DOMAIN pending' : pending'[x] = pending[x]
      BY <1>5 DEF Without
    <2>5. Partial(pending', IDs, Occurrence)
      BY <2>4 DEF SInv, TypeOK, Partial
    <2>6. Partial(byID', IDs, Schedule)
      <3>1. lastRunOf(id) \in Int
        BY <2>3 DEF SInv, TypeOK, Partial, Occurrence, lastRunOf
      <3>2. CASE id \in DOMAIN byID
        <4>1. /\ DOMAIN byID' = DOMAIN byID
              /\ \A x \in DOMAIN byID : byID'[x] =
                    IF x = id THEN [[byID[id] EXCEPT !.lastJob = job] EXCEPT !.lastRun = lastRunOf(id)]
                    ELSE byID[x]
          BY <1>5, <3>2
        <4>2. byID[id] \in Schedule
          BY <3>2 DEF SInv, TypeOK, Partial
        <4>3. [[byID[id] EXCEPT !.lastJob = job] EXCEPT !.lastRun = lastRunOf(id)] \in Schedule
          BY <1>4, <3>1, <4>2 DEF Schedule
        <4> QED BY <4>1, <4>3 DEF SInv, TypeOK, Partial
      <3>3. CASE id \notin DOMAIN byID
        BY <1>5, <3>3 DEF SInv, TypeOK
      <3> QED BY <3>2, <3>3
    <2>7. TypeOK'
      BY <1>2, <1>3, <1>5, <2>1, <2>2, <2>5, <2>6 DEF SInv, TypeOK
    <2>8. AdmittedNotLost'
      <3> SUFFICES ASSUME NEW o \in DOMAIN admitted, o \notin DOMAIN created
                   PROVE  isPending(o)'
        BY <2>1 DEF AdmittedNotLost
      <3>1. isPending(o) /\ o \in JobID
        BY DEF SInv, AdmittedNotLost, TypeOK, Partial
      <3>2. o[1] # id
        <4> SUFFICES ASSUME o[1] = id PROVE FALSE
          OBVIOUS
        <4>1. o[2] = job[2]
          BY <2>3, <3>1 DEF isPending
        <4>2. o = job
          BY <1>4, <3>1, <4>1 DEF JobID
        <4> QED BY <1>4, <4>2
      <3> QED BY <2>4, <3>1, <3>2 DEF isPending
    <2>9. JobsWereCreated' /\ AcksAreCreated'
      BY <1>2, <2>1, <2>2 DEF SInv, JobsWereCreated, AcksAreCreated
    <2> QED BY <2>1, <2>2, <2>7, <2>8, <2>9 DEF SInv
  <1>6. CASE UNCHANGED store /\ (UNCHANGED faults \/ Fault)
    BY <1>2, <1>3, <1>6, MoveSInv, FaultType DEF AckOccurrence
  <1> QED BY <1>5, <1>6 DEF AckOccurrence

\* A step that changes only the schedules, and those to well-formed ones.
LEMMA EditSInv ==
  ASSUME SInv, Partial(byID', IDs, Schedule),
         UNCHANGED <<now, pending, queue, tick, faults, admitted, created>>,
         DOMAIN host' = Hosts, \A h \in Hosts : IsCall(host'[h])
  PROVE  SInv'
  <1>1. TypeOK'
    BY DEF SInv, TypeOK
  <1> QED BY <1>1 DEF SInv, AdmittedNotLost, isPending, JobsWereCreated, AcksAreCreated

\* EnsureSchedule, SetEnabled and Delete leave admitted occurrences alone.
LEMMA ManagingSInv ==
  ASSUME SInv, Managing
  PROVE  SInv'
  <1>0. /\ DOMAIN host = Hosts /\ \A h \in Hosts : IsCall(host[h])
        /\ Partial(byID, IDs, Schedule) /\ now \in Nat
    BY SchedulesAssumption DEF SInv, TypeOK, SchedulesAssumption
  <1>1. ASSUME NEW h \in Hosts, NEW in \in Request, EnsureStart(h, in) PROVE SInv'
    <2>1. in.spec \in Specs
      BY DEF Request
    <2>2. nextRun(in.spec, now) \in Nat
      BY <1>0, <1>1, <2>1, NextRunType DEF EnsureStart
    <2>3. IsCall([pc |-> "ensure", in |-> in, next |-> nextRun(in.spec, now)])
      BY <2>2 DEF IsCall
    <2>4. /\ DOMAIN host' = Hosts
          /\ \A x \in Hosts : host'[x] =
                IF x = h THEN [pc |-> "ensure", in |-> in, next |-> nextRun(in.spec, now)] ELSE host[x]
      BY <1>0, <1>1 DEF EnsureStart
    <2> QED BY <1>0, <1>1, <2>3, <2>4, EditSInv DEF EnsureStart, store
  <1>2. ASSUME NEW h \in Hosts, Ensure(h) PROVE SInv'
    <2>1. host[h] \in [pc : {"ensure"}, in : Request, next : Nat]
      BY <1>0, <1>2 DEF IsCall, Idle, Ensure
    <2> DEFINE in == host[h].in
               next == host[h].next
    <2>2. in \in Request /\ next \in Nat
      BY <2>1
    <2>3. DOMAIN host' = Hosts /\ \A x \in Hosts : IsCall(host'[x])
      BY <1>0, <1>2 DEF Ensure, IsCall
    <2>4. newSchedule(in, next) \in Schedule
      BY <2>2 DEF newSchedule, Schedule, Request, Never, OccurrenceID
    <2>5. ASSUME NEW s \in Schedule PROVE updated(s, in, next) \in Schedule
      BY <2>2 DEF updated, Schedule, Request
    <2>6. ASSUME NEW id \in IDs, NEW s \in Schedule, byID' = With(byID, id, s)
          PROVE  Partial(byID', IDs, Schedule)
      BY <1>0, <2>6 DEF Partial, With
    <2>7. Partial(byID', IDs, Schedule)
      <3>1. CASE \E id \in named(in.name) : byID' = With(byID, id, updated(byID[id], in, next))
        <4>1. PICK id \in named(in.name) : byID' = With(byID, id, updated(byID[id], in, next))
          BY <3>1
        <4>2. id \in IDs /\ byID[id] \in Schedule
          BY <1>0 DEF named, Partial
        <4> QED BY <2>5, <2>6, <4>1, <4>2
      <3>2. CASE \E id \in freshIDs : byID' = With(byID, id, newSchedule(in, next))
        BY <2>4, <2>6, <3>2 DEF freshIDs
      <3> QED BY <1>2, <3>1, <3>2 DEF Ensure
    <2> QED BY <1>2, <2>3, <2>7, EditSInv DEF Ensure
  <1>3. ASSUME NEW id \in IDs, NEW enabled \in BOOLEAN, SetEnabled(id, enabled) PROVE SInv'
    <2>1. /\ DOMAIN byID' = DOMAIN byID
          /\ \A x \in DOMAIN byID :
                byID'[x] = IF x = id THEN [byID[id] EXCEPT !.enabled = enabled] ELSE byID[x]
      BY <1>3 DEF SetEnabled
    <2>2. \A s \in Schedule : [s EXCEPT !.enabled = enabled] \in Schedule
      BY DEF Schedule
    <2>3. Partial(byID', IDs, Schedule)
      BY <1>0, <2>1, <2>2 DEF Partial
    <2> QED BY <1>0, <1>3, <2>3, EditSInv DEF SetEnabled
  <1>4. ASSUME NEW id \in IDs, Delete(id) PROVE SInv'
    <2>1. Partial(byID', IDs, Schedule)
      BY <1>0, <1>4 DEF Delete, Without, Partial
    <2> QED BY <1>0, <1>4, <2>1, EditSInv DEF Delete
  <1> QED BY <1>1, <1>2, <1>3, <1>4 DEF Managing

\* Every step keeps the invariant.
LEMMA NextSInv == SInv /\ [Next]_vars => SInv'
  <1> SUFFICES ASSUME SInv, [Next]_vars PROVE SInv'
    OBVIOUS
  <1>1. CASE UNCHANGED vars
    BY <1>1 DEF vars, SInv, TypeOK, AdmittedNotLost, isPending, JobsWereCreated, AcksAreCreated
  <1>2. ASSUME NEW w \in Workers, WorkFunc(w) PROVE SInv'
    BY <1>2, TickSInv, ClaimSInv, AttemptSInv, EnqueueSInv, AckSInv DEF WorkFunc
  <1>3. ASSUME NEW w \in Workers, Crash(w) PROVE SInv'
    BY <1>3, TickSInv
  <1>4. CASE Managing
    BY <1>4, ManagingSInv
  <1>5. ASSUME NEW j \in queue, PurgeTerminal(j) PROVE SInv'
    <2>1. TypeOK'
      BY <1>5 DEF PurgeTerminal, SInv, TypeOK, store
    <2> QED BY <1>5, <2>1
        DEF PurgeTerminal, SInv, AdmittedNotLost, isPending, JobsWereCreated, AcksAreCreated, store
  <1>6. CASE Tick
    <2>1. now' \in 0..MaxTime
      BY <1>6, SchedulesAssumption DEF Tick, SInv, TypeOK, SchedulesAssumption
    <2>2. TypeOK'
      BY <1>6, <2>1 DEF Tick, SInv, TypeOK, store
    <2> QED BY <1>6, <2>2
        DEF Tick, SInv, AdmittedNotLost, isPending, JobsWereCreated, AcksAreCreated, store
  <1> QED BY <1>1, <1>2, <1>3, <1>4, <1>5, <1>6 DEF Next

\* The schedule store, the queue and every tick in flight stay well formed.
THEOREM SchedulesTypeCorrect == Spec => []TypeOK
  <1>1. Spec => []SInv
    BY InitSInv, NextSInv, PTL DEF Spec
  <1>2. SInv => TypeOK
    BY DEF SInv
  <1> QED BY <1>1, <1>2, PTL

\* An admitted occurrence stays in the store until its job has been inserted
\* into the queue (Occurrence, ClaimDue, AckOccurrence), whatever fails or
\* crashes, and whatever hosts do to the schedule.
THEOREM OccurrencesNotLost == Spec => []AdmittedNotLost
  <1>1. Spec => []SInv
    BY InitSInv, NextSInv, PTL DEF Spec
  <1>2. SInv => AdmittedNotLost
    BY DEF SInv
  <1> QED BY <1>1, <1>2, PTL

\* A step admits only the current occurrence of an enabled schedule.
LEMMA NextAdmits == SInv /\ [Next]_vars => AdmissionStep \/ UNCHANGED vars
  <1> SUFFICES ASSUME SInv, [Next]_vars PROVE AdmissionStep \/ UNCHANGED vars
    OBVIOUS
  <1>1. ASSUME UNCHANGED pending PROVE AdmissionStep
    BY <1>1 DEF AdmissionStep
  <1>2. ASSUME NEW w \in Workers, NEW id \in IDs, ClaimDue(w, id) PROVE AdmissionStep
    <2> DEFINE t == tick[w].now
               next == nextRun(tick[w].due[id].spec, t)
    <2>1. CASE mayClaim(id, tick[w].due[id], next, t)
               /\ pending' = With(pending, id, occurrenceOf(byID[id], t))
               /\ byID' = [byID EXCEPT ![id].next = next]
      <3>1. /\ t \in Int /\ Partial(tick[w].due, IDs, Schedule) /\ id \in DOMAIN tick[w].due
        BY <1>2, TickFields, SchedulesAssumption DEF ClaimDue, SInv, TypeOK, SchedulesAssumption
      <3>2. /\ id \in DOMAIN byID /\ byID[id].enabled /\ id \notin DOMAIN pending
            /\ byID[id].next <= t /\ next > t
        BY <2>1 DEF mayClaim
      <3>3. byID[id] \in Schedule /\ tick[w].due[id].spec \in Specs /\ t \in Nat
        BY <1>2, <3>1, <3>2, TickFields, SchedulesAssumption
        DEF ClaimDue, SInv, TypeOK, Partial, Schedule, SchedulesAssumption
      <3>4. next \in Nat
        <4>1. next # Never
          BY <3>2, <3>3 DEF Never
        <4> QED BY <3>3, <4>1, NextRunType
      <3>5. byID'[id].next = next /\ byID[id].next \in Nat
        BY <2>1, <3>2, <3>3 DEF Schedule
      <3>6. byID'[id].next > byID[id].next
        BY <3>2, <3>3, <3>4, <3>5
      <3>7. /\ DOMAIN pending' = DOMAIN pending \cup {id}
            /\ pending'[id] = occurrenceOf(byID[id], t)
            /\ \A x \in DOMAIN pending : pending'[x] = pending[x]
        BY <2>1, <3>2 DEF With
      <3> QED BY <3>2, <3>6, <3>7 DEF AdmissionStep, occurrenceOf
    <2>2. CASE UNCHANGED store
      BY <1>1, <2>2 DEF store
    <2> QED BY <1>2, <2>1, <2>2 DEF ClaimDue
  <1>3. ASSUME NEW w \in Workers, NEW o, RecordAttempt(w, o) PROVE AdmissionStep
    <2>1. CASE UNCHANGED pending
      BY <1>1, <2>1
    <2>2. CASE pending' = [pending EXCEPT ![o.id[1]].attempts = IF @ < MaxAttempts THEN @ + 1 ELSE @]
      <3>1. DOMAIN pending' = DOMAIN pending /\ \A x \in DOMAIN pending : pending'[x].slot = pending[x].slot
        BY <2>2 DEF SInv, TypeOK, Partial, Occurrence
      <3> QED BY <3>1 DEF AdmissionStep
    <2> QED BY <1>3, <2>1, <2>2 DEF RecordAttempt
  <1>4. ASSUME NEW w \in Workers, AckOccurrence(w) PROVE AdmissionStep
    <2>1. CASE UNCHANGED store
      BY <1>1, <2>1 DEF store
    <2>2. CASE pending' = Without(pending, tick[w].o.id[1])
      <3>1. DOMAIN pending' \subseteq DOMAIN pending /\ \A x \in DOMAIN pending' : pending'[x] = pending[x]
        BY <2>2 DEF Without
      <3> QED BY <3>1 DEF AdmissionStep
    <2> QED BY <1>4, <2>1, <2>2 DEF AckOccurrence
  <1>5. ASSUME NEW w \in Workers,
               TickStart(w) \/ TickPending(w) \/ TickEnd(w) \/ EnqueueJob(w) \/ Crash(w)
        PROVE  AdmissionStep
    <2>1. UNCHANGED pending
      BY <1>5 DEF TickStart, TickPending, TickEnd, EnqueueJob, Crash, store
    <2> QED BY <1>1, <2>1
  <1>6. ASSUME Managing \/ Tick \/ \E j \in queue : PurgeTerminal(j) PROVE AdmissionStep
    <2>1. UNCHANGED pending
      BY <1>6 DEF Managing, EnsureStart, Ensure, SetEnabled, Delete, Tick, PurgeTerminal, store
    <2> QED BY <1>1, <2>1
  <1> QED BY <1>2, <1>3, <1>4, <1>5, <1>6 DEF Next, WorkFunc

\* ClaimDue admits from a stale listing only what is still current: the slot,
\* kind and payload the enabled schedule has at that step, with nothing pending,
\* and the schedule advances.
THEOREM AdmissionCorrect == Spec => AdmissionIsCurrent
  <1>1. Spec => []SInv
    BY InitSInv, NextSInv, PTL DEF Spec
  <1> QED BY <1>1, NextAdmits, PTL DEF Spec, AdmissionIsCurrent
-----------------------------------------------------------------------------
(* One job per admission, and exact acknowledgements. *)

\* The slot has been admitted more often than its job has been inserted.
Owed(o) ==
    o \in DOMAIN admitted /\ admitted[o] > 0 /\ (o \in DOMAIN created => created[o] < admitted[o])

\* An occurrence without a job in the queue is owed one, whether the store still
\* holds it or only a worker about to enqueue it.
PendingOwed == \A o \in JobID : isPending(o) /\ ~ hasJob(o) => Owed(o)
EnqueueOwed ==
    \A w \in Workers : tick[w].pc = "enqueue" /\ ~ hasJob(tick[w].o.id) => Owed(tick[w].o.id)

\* An occurrence is claimed at or after its slot.
ClaimedWhenDue == \A id \in DOMAIN pending : pending[id].claimedAt >= pending[id].slot

\* What OneJobPerAdmission needs of the next insert: purging may take a job away
\* only when nobody is going to insert it again.
HInv == OneJobPerAdmission /\ PendingOwed /\ EnqueueOwed /\ ClaimedWhenDue

\* A step that neither admits nor inserts nor purges, and takes up for enqueueing
\* only what is pending.
LEMMA FrameHInv ==
  ASSUME SInv, HInv, UNCHANGED <<queue, admitted, created>>,
         \A x \in DOMAIN pending' : /\ x \in DOMAIN pending
                                    /\ pending'[x].slot = pending[x].slot
                                    /\ pending'[x].claimedAt = pending[x].claimedAt,
         \A v \in Workers : tick'[v].pc = "enqueue" =>
            \/ tick[v].pc = "enqueue" /\ tick'[v].o.id = tick[v].o.id
            \/ tick'[v].o.id \in JobID /\ isPending(tick'[v].o.id)
  PROVE  HInv'
  <1>1. \A o : (Owed(o)' <=> Owed(o)) /\ (hasJob(o)' <=> hasJob(o)) /\ (isPending(o)' => isPending(o))
    BY DEF Owed, hasJob, isPending
  <1>2. OneJobPerAdmission' /\ ClaimedWhenDue'
    BY DEF HInv, OneJobPerAdmission, ClaimedWhenDue
  <1>3. PendingOwed'
    BY <1>1 DEF HInv, PendingOwed
  <1>4. EnqueueOwed'
    BY <1>1 DEF HInv, EnqueueOwed, PendingOwed
  <1> QED BY <1>2, <1>3, <1>4 DEF HInv

\* A step that moves worker w, and not to an enqueue, moves nobody to one.
LEMMA NoEnqueue ==
  ASSUME SInv, NEW w \in Workers, NEW l, Goto(w, l), l.pc # "enqueue"
  PROVE  \A v \in Workers : tick'[v].pc = "enqueue" => tick[v].pc = "enqueue" /\ tick'[v].o.id = tick[v].o.id
  <1>1. \A v \in Workers : tick'[v] = IF v = w THEN l ELSE tick[v]
    BY DEF Goto, SInv
  <1> QED BY <1>1

\* An admission owes one more job.
LEMMA ClaimHInv ==
  ASSUME SInv, HInv, NEW w \in Workers, NEW id \in IDs, ClaimDue(w, id)
  PROVE  HInv'
  <1> DEFINE t == tick[w].now
             next == nextRun(tick[w].due[id].spec, t)
  <1>1. /\ \A v \in Workers : tick'[v].pc = "enqueue" => tick[v].pc = "enqueue" /\ tick'[v].o.id = tick[v].o.id
        /\ UNCHANGED <<queue, created>>
    BY NoEnqueue DEF ClaimDue
  <1>2. CASE /\ mayClaim(id, tick[w].due[id], next, t)
             /\ pending' = With(pending, id, occurrenceOf(byID[id], t))
             /\ admitted' = Counted(admitted, OccurrenceID(id, byID[id].next))
    <2>1. PICK k : k = OccurrenceID(id, byID[id].next)
      OBVIOUS
    <2>2. /\ DOMAIN admitted' = DOMAIN admitted \cup {k}
          /\ \A o \in DOMAIN admitted : admitted[o] \in Nat /\ admitted'[o] \in Nat /\ admitted[o] <= admitted'[o]
          /\ k \in DOMAIN admitted => admitted'[k] = admitted[k] + 1
          /\ k \notin DOMAIN admitted => admitted'[k] = 1
      BY <1>2, <2>1 DEF Counted, With, SInv, TypeOK, Partial
    <2>3. /\ DOMAIN pending' = DOMAIN pending \cup {id} /\ id \notin DOMAIN pending /\ id \in DOMAIN byID
          /\ pending'[id] = occurrenceOf(byID[id], t) /\ byID[id].next <= t
          /\ \A x \in DOMAIN pending : pending'[x] = pending[x]
      BY <1>2 DEF With, mayClaim
    <2>4. \A o \in DOMAIN created : created[o] \in Nat
      BY DEF SInv, TypeOK, Partial
    <2>5. OneJobPerAdmission'
      BY <1>1, <2>2, <2>4 DEF HInv, OneJobPerAdmission
    <2>6. \A o : Owed(o) => Owed(o)'
      BY <1>1, <2>2, <2>4 DEF Owed
    <2>7. Owed(k)'
      <3>1. k \in DOMAIN created => k \in DOMAIN admitted /\ created[k] <= admitted[k]
        BY DEF HInv, OneJobPerAdmission
      <3>2. k \in DOMAIN created => created[k] < admitted'[k]
        BY <2>2, <2>4, <3>1
      <3> QED BY <1>1, <2>2, <3>2 DEF Owed
    <2>8. \A o : hasJob(o)' <=> hasJob(o)
      BY <1>1 DEF hasJob
    <2>9. PendingOwed'
      <3> SUFFICES ASSUME NEW o \in JobID, isPending(o)', ~ hasJob(o)' PROVE Owed(o)'
        BY DEF PendingOwed
      <3>1. CASE o[1] = id
        <4>1. o[2] = byID[id].next
          BY <2>3, <3>1 DEF isPending, occurrenceOf
        <4>2. o = k
          BY <2>1, <3>1, <4>1 DEF JobID, OccurrenceID
        <4> QED BY <2>7, <4>2
      <3>2. CASE o[1] # id
        <4>1. isPending(o)
          BY <2>3, <3>2 DEF isPending
        <4> QED BY <2>6, <2>8, <4>1 DEF HInv, PendingOwed
      <3> QED BY <3>1, <3>2
    <2>10. EnqueueOwed'
      BY <1>1, <2>6, <2>8 DEF HInv, EnqueueOwed
    <2>11. ClaimedWhenDue'
      BY <2>3 DEF HInv, ClaimedWhenDue, occurrenceOf, SInv, TypeOK, Partial, Schedule
    <2> QED BY <2>5, <2>9, <2>10, <2>11 DEF HInv
  <1>3. CASE UNCHANGED <<store, admitted>>
    BY <1>1, <1>3, FrameHInv DEF store
  <1> QED BY <1>2, <1>3 DEF ClaimDue

\* A worker takes up only what is still pending.
LEMMA AttemptHInv ==
  ASSUME SInv, HInv, NEW w \in Workers, NEW o, RecordAttempt(w, o)
  PROVE  HInv'
  <1>0. o \in Job /\ UNCHANGED <<queue, admitted, created>>
    BY TickFields DEF RecordAttempt, SInv, TypeOK
  <1>1. CASE /\ isPending(o.id)
             /\ pending' = [pending EXCEPT ![o.id[1]].attempts = IF @ < MaxAttempts THEN @ + 1 ELSE @]
             /\ Goto(w, [pc |-> "enqueue", todo |-> tick[w].todo \ {o}, o |-> o])
    <2>1. \A v \in Workers : v # w => tick'[v] = tick[v]
      BY <1>1 DEF Goto, SInv
    <2>2. tick'[w].o = o
      BY <1>1 DEF Goto, SInv
    <2>3. \A x \in DOMAIN pending' : /\ x \in DOMAIN pending
                                    /\ pending'[x].slot = pending[x].slot
                                    /\ pending'[x].claimedAt = pending[x].claimedAt
      BY <1>1 DEF SInv, TypeOK, Partial, Occurrence
    <2>4. o.id \in JobID
      BY <1>0 DEF Job
    <2> QED BY <1>0, <1>1, <2>1, <2>2, <2>3, <2>4, FrameHInv
  <1>2. CASE UNCHANGED pending /\ Goto(w, [pc |-> "deliver", todo |-> tick[w].todo \ {o}])
    <2>1. [pc |-> "deliver", todo |-> tick[w].todo \ {o}].pc # "enqueue"
      OBVIOUS
    <2>2. \A v \in Workers : tick'[v].pc = "enqueue" => tick[v].pc = "enqueue" /\ tick'[v].o.id = tick[v].o.id
      BY <1>2, <2>1, NoEnqueue
    <2> QED BY <1>0, <1>2, <2>2, FrameHInv
  <1> QED BY <1>1, <1>2 DEF RecordAttempt

\* An insert pays what was owed, and whoever was about to repeat it finds the job.
LEMMA EnqueueHInv ==
  ASSUME SInv, HInv, NEW w \in Workers, EnqueueJob(w)
  PROVE  HInv'
  <1>1. PICK o : o = tick[w].o
    OBVIOUS
  <1>2. tick[w].pc = "enqueue" /\ o \in Job /\ UNCHANGED <<pending, admitted>>
    BY <1>1, TickFields DEF EnqueueJob, SInv, TypeOK, store
  <1>3. PICK l : l \in {Acking(w), Onward(w)} /\ Goto(w, l)
    BY DEF EnqueueJob
  <1>4. l.pc # "enqueue"
    BY <1>3 DEF Acking, Onward
  <1>5. \A v \in Workers : tick'[v].pc = "enqueue" => tick[v].pc = "enqueue" /\ tick'[v].o.id = tick[v].o.id
    BY <1>3, <1>4, NoEnqueue
  <1>6. CASE mayEnqueue(o) /\ queue' = queue \cup {o} /\ created' = Counted(created, o.id)
    <2>1. PICK k : k = o.id
      OBVIOUS
    <2>2. Owed(k)
      BY <1>1, <1>2, <1>6, <2>1 DEF mayEnqueue, HInv, EnqueueOwed
    <2>3. /\ DOMAIN created' = DOMAIN created \cup {k}
          /\ \A x \in DOMAIN created : x # k => created'[x] = created[x]
          /\ k \in DOMAIN created => created'[k] = created[k] + 1
          /\ k \notin DOMAIN created => created'[k] = 1
      BY <1>6, <2>1 DEF Counted, With
    <2>4. hasJob(k)' /\ \A x : hasJob(x) => hasJob(x)'
      BY <1>6, <2>1 DEF hasJob
    <2>5. /\ \A x \in DOMAIN created : created[x] \in Nat
          /\ \A x \in DOMAIN admitted : admitted[x] \in Nat
      BY DEF SInv, TypeOK, Partial
    <2>6. OneJobPerAdmission'
      <3>1. created'[k] <= admitted[k]
        <4>1. CASE k \in DOMAIN created
          BY <2>2, <2>3, <2>5, <4>1 DEF Owed
        <4>2. CASE k \notin DOMAIN created
          BY <2>2, <2>3, <2>5, <4>2 DEF Owed
        <4> QED BY <4>1, <4>2
      <3> QED BY <1>2, <2>2, <2>3, <3>1 DEF HInv, OneJobPerAdmission, Owed
    <2>7. \A x : x # k /\ Owed(x) => Owed(x)'
      BY <1>2, <2>3 DEF Owed
    <2>8. PendingOwed' /\ ClaimedWhenDue'
      BY <1>2, <2>4, <2>7 DEF HInv, PendingOwed, ClaimedWhenDue, isPending
    <2>9. EnqueueOwed'
      BY <1>5, <2>4, <2>7 DEF HInv, EnqueueOwed
    <2> QED BY <2>6, <2>8, <2>9 DEF HInv
  <1>7. CASE UNCHANGED <<queue, created>>
    BY <1>2, <1>5, <1>7, FrameHInv
  <1> QED BY <1>1, <1>6, <1>7 DEF EnqueueJob

\* The other steps insert and purge nothing, except a purge nobody waits behind.
LEMMA NextHInv == SInv /\ HInv /\ [Next]_vars => HInv'
  <1> SUFFICES ASSUME SInv, HInv, [Next]_vars PROVE HInv'
    OBVIOUS
  <1>1. ASSUME UNCHANGED <<pending, queue, tick, admitted, created>> PROVE HInv'
    BY <1>1, FrameHInv
  <1>2. ASSUME NEW w \in Workers, TickStart(w) \/ TickPending(w) \/ TickEnd(w) \/ Crash(w) PROVE HInv'
    <2>1. UNCHANGED <<pending, queue, admitted, created>>
      BY <1>2 DEF TickStart, TickPending, TickEnd, Crash, store
    <2>2. PICK l : Goto(w, l) /\ l.pc # "enqueue"
      BY <1>2 DEF TickStart, TickPending, TickEnd, Crash, Idle
    <2>3. \A v \in Workers : tick'[v].pc = "enqueue" => tick[v].pc = "enqueue" /\ tick'[v].o.id = tick[v].o.id
      BY <2>2, NoEnqueue
    <2> QED BY <2>1, <2>3, FrameHInv
  <1>3. ASSUME NEW w \in Workers, AckOccurrence(w) PROVE HInv'
    <2>1. UNCHANGED <<queue, admitted, created>> /\ Goto(w, Onward(w)) /\ Onward(w).pc # "enqueue"
      BY <1>3 DEF AckOccurrence, Onward
    <2>2. \A v \in Workers : tick'[v].pc = "enqueue" => tick[v].pc = "enqueue" /\ tick'[v].o.id = tick[v].o.id
      BY <2>1, NoEnqueue
    <2>3. \A x \in DOMAIN pending' : x \in DOMAIN pending /\ pending'[x] = pending[x]
      BY <1>3 DEF AckOccurrence, Without, store
    <2> QED BY <2>1, <2>2, <2>3, FrameHInv
  <1>4. ASSUME NEW j \in queue, PurgeTerminal(j) PROVE HInv'
    <2>1. /\ UNCHANGED <<pending, tick, admitted, created>> /\ queue' = queue \ {j} /\ ~ isPending(j.id)
          /\ \A w \in Workers : tick[w].pc = "enqueue" => tick[w].o.id # j.id
      BY <1>4 DEF PurgeTerminal, store
    <2>2. \A o : (Owed(o)' <=> Owed(o)) /\ (isPending(o)' <=> isPending(o)) /\ (o # j.id => (hasJob(o)' <=> hasJob(o)))
      BY <2>1 DEF Owed, isPending, hasJob
    <2>3. OneJobPerAdmission' /\ ClaimedWhenDue'
      BY <2>1 DEF HInv, OneJobPerAdmission, ClaimedWhenDue
    <2>4. PendingOwed'
      BY <2>1, <2>2 DEF HInv, PendingOwed
    <2>5. EnqueueOwed'
      BY <2>1, <2>2 DEF HInv, EnqueueOwed
    <2> QED BY <2>3, <2>4, <2>5 DEF HInv
  <1>5. ASSUME Managing \/ Tick \/ UNCHANGED vars PROVE HInv'
    <2>1. UNCHANGED <<pending, queue, tick, admitted, created>>
      BY <1>5 DEF Managing, EnsureStart, Ensure, SetEnabled, Delete, Tick, store, vars
    <2> QED BY <1>1, <2>1
  <1> QED BY <1>2, <1>3, <1>4, <1>5, ClaimHInv, AttemptHInv, EnqueueHInv DEF Next, WorkFunc

\* Both invariants hold of every behaviour.
THEOREM ScheduleInvariant == Spec => [](SInv /\ HInv)
  <1>1. Init => SInv /\ HInv
    <2>1. Init => HInv
      BY DEF Init, HInv, OneJobPerAdmission, PendingOwed, EnqueueOwed, ClaimedWhenDue, isPending, Idle
    <2> QED BY <2>1, InitSInv
  <1>2. SInv /\ HInv /\ [Next]_vars => (SInv /\ HInv)'
    BY NextSInv, NextHInv
  <1> QED BY <1>1, <1>2, PTL DEF Spec

\* "Replay after an uncertain enqueue uses the same JobID": one admission yields
\* at most one job, for every number of workers, replays and purges.
THEOREM OneJobPerAdmissionHolds == Spec => []OneJobPerAdmission
  <1>1. HInv => OneJobPerAdmission
    BY DEF HInv
  <1> QED BY <1>1, ScheduleInvariant, PTL

\* A step keeps the metadata of a schedule unless it acknowledges, and removes an
\* occurrence only when it does.
LEMMA NextAcks == SInv /\ HInv /\ [Next]_vars => AckStep \/ UNCHANGED vars
  <1> SUFFICES ASSUME SInv, HInv, [Next]_vars PROVE AckStep \/ UNCHANGED vars
    OBVIOUS
  <1>1. ASSUME DOMAIN pending \subseteq DOMAIN pending',
               \A id \in DOMAIN byID \cap DOMAIN byID' :
                  byID'[id].lastJob = byID[id].lastJob /\ byID'[id].lastRun = byID[id].lastRun
        PROVE  AckStep
    BY <1>1 DEF AckStep, Leaves
  <1>2. ASSUME NEW w \in Workers, NEW id \in IDs, ClaimDue(w, id) PROVE AckStep
    <2>1. CASE UNCHANGED store
      BY <1>1, <2>1 DEF store
    <2>2. CASE pending' = With(pending, id, occurrenceOf(byID[id], tick[w].now)) /\ \E n : byID' = [byID EXCEPT ![id].next = n]
      <3>1. DOMAIN pending \subseteq DOMAIN pending'
        BY <2>2 DEF With
      <3>2. \A x \in DOMAIN byID : byID'[x].lastJob = byID[x].lastJob /\ byID'[x].lastRun = byID[x].lastRun
        BY <2>2 DEF SInv, TypeOK, Partial, Schedule
      <3> QED BY <1>1, <3>1, <3>2
    <2> QED BY <1>2, <2>1, <2>2 DEF ClaimDue
  <1>3. ASSUME NEW w \in Workers, NEW o, RecordAttempt(w, o) PROVE AckStep
    <2>1. UNCHANGED byID /\ DOMAIN pending \subseteq DOMAIN pending'
      BY <1>3 DEF RecordAttempt
    <2> QED BY <1>1, <2>1
  <1>4. ASSUME NEW w \in Workers, AckOccurrence(w) PROVE AckStep
    <2>1. CASE UNCHANGED store
      BY <1>1, <2>1 DEF store
    <2>2. PICK job : job = tick[w].o.id
      OBVIOUS
    <2>3. PICK id : id = job[1]
      OBVIOUS
    <2>4. job \in JobID /\ job \in DOMAIN created
      BY <1>4, <2>2, TickFields DEF AckOccurrence, SInv, TypeOK, Job, AcksAreCreated
    <2>5. CASE /\ isAcked(job)
               /\ byID' = IF id \in DOMAIN byID
                          THEN [byID EXCEPT ![id].lastJob = job, ![id].lastRun = lastRunOf(id)]
                          ELSE byID
               /\ pending' = Without(pending, id)
      <3>1. id \in DOMAIN pending /\ job = OccurrenceID(id, pending[id].slot)
        BY <2>3, <2>4, <2>5 DEF isAcked, isPending, OccurrenceID, JobID
      <3>2. DOMAIN pending' = DOMAIN pending \ {id}
        BY <2>5 DEF Without
      <3>3. pending[id].claimedAt >= pending[id].slot
        BY <3>1 DEF HInv, ClaimedWhenDue
      <3>4. /\ DOMAIN byID' = DOMAIN byID
            /\ \A x \in DOMAIN byID : x # id => byID'[x] = byID[x]
        BY <2>5
      <3>5. id \in DOMAIN byID => byID'[id].lastJob = job /\ byID'[id].lastRun = lastRunOf(id)
        <4> SUFFICES ASSUME id \in DOMAIN byID
                     PROVE  byID'[id].lastJob = job /\ byID'[id].lastRun = lastRunOf(id)
          OBVIOUS
        <4>1. byID'[id] = [[byID[id] EXCEPT !.lastJob = job] EXCEPT !.lastRun = lastRunOf(id)]
          BY <2>5
        <4>2. byID[id] \in Schedule
          BY DEF SInv, TypeOK, Partial
        <4> QED BY <4>1, <4>2 DEF Schedule
      <3> QED BY <2>4, <3>1, <3>2, <3>3, <3>4, <3>5 DEF AckStep, Leaves, lastRunOf
    <2> QED BY <1>4, <2>1, <2>2, <2>3, <2>5 DEF AckOccurrence
  <1>5. ASSUME \/ \E w \in Workers : TickStart(w) \/ TickPending(w) \/ TickEnd(w) \/ EnqueueJob(w) \/ Crash(w)
               \/ Tick \/ \E j \in queue : PurgeTerminal(j)
        PROVE  AckStep
    <2>1. UNCHANGED <<byID, pending>>
      BY <1>5 DEF TickStart, TickPending, TickEnd, EnqueueJob, Crash, Tick, PurgeTerminal, store
    <2> QED BY <1>1, <2>1
  <1>6. ASSUME Managing PROVE AckStep
    <2>1. UNCHANGED pending
      BY <1>6 DEF Managing, EnsureStart, Ensure, SetEnabled, Delete, store
    <2>2. \A id \in DOMAIN byID : byID[id] \in Schedule
      BY DEF SInv, TypeOK, Partial
    <2>3. ASSUME NEW h \in Hosts, Ensure(h)
          PROVE  \A x \in DOMAIN byID \cap DOMAIN byID' :
                    byID'[x].lastJob = byID[x].lastJob /\ byID'[x].lastRun = byID[x].lastRun
      <3>1. CASE \E id \in named(host[h].in.name) :
                    byID' = With(byID, id, updated(byID[id], host[h].in, host[h].next))
        <4>1. PICK id \in named(host[h].in.name) :
                    byID' = With(byID, id, updated(byID[id], host[h].in, host[h].next))
          BY <3>1
        <4>2. \A x \in DOMAIN byID : x # id => byID'[x] = byID[x]
          BY <4>1 DEF With
        <4>3. id \in DOMAIN byID /\ byID'[id] = updated(byID[id], host[h].in, host[h].next)
          BY <4>1 DEF With, named
        <4>4. byID'[id].lastJob = byID[id].lastJob /\ byID'[id].lastRun = byID[id].lastRun
          BY <2>2, <4>3 DEF updated, Schedule
        <4> QED BY <4>2, <4>4
      <3>2. CASE \E id \in freshIDs : byID' = With(byID, id, newSchedule(host[h].in, host[h].next))
        BY <3>2 DEF With, freshIDs
      <3> QED BY <2>3, <3>1, <3>2 DEF Ensure
    <2>4. ASSUME NEW id \in IDs, NEW enabled \in BOOLEAN, SetEnabled(id, enabled)
          PROVE  \A x \in DOMAIN byID :
                    byID'[x].lastJob = byID[x].lastJob /\ byID'[x].lastRun = byID[x].lastRun
      BY <2>2, <2>4 DEF SetEnabled, Schedule
    <2>5. ASSUME NEW id \in IDs, Delete(id)
          PROVE  \A x \in DOMAIN byID' : byID'[x] = byID[x]
      BY <2>5 DEF Delete, Without
    <2>6. ASSUME NEW h \in Hosts, NEW in, EnsureStart(h, in) PROVE UNCHANGED byID
      BY <2>6 DEF EnsureStart, store
    <2> QED BY <1>1, <1>6, <2>1, <2>3, <2>4, <2>5, <2>6 DEF Managing
  <1> QED BY <1>2, <1>3, <1>4, <1>5, <1>6 DEF Next, WorkFunc

\* AckOccurrence removes exactly the occurrence its job was inserted for and
\* records that one; a stale or repeated acknowledgement records nothing.
THEOREM AcksAreExactHolds == Spec => AcksAreExact
  BY ScheduleInvariant, NextAcks, PTL DEF Spec, AcksAreExact
=============================================================================
