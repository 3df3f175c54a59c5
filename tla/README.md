# TLA+ verification of gopernicus

gopernicus is a set of Go building blocks for server programs: an `sdk` of
ports and small runtimes, `pockets` (features with their own stores: jobs,
authentication, authorization, secrets, events, cms), `integrations` (database,
cache and provider adapters), a component library (`ui/goth`) and a command-line
tool (`workshop`).  Its hard logic sits where several workers, requests or
replicas share one store and may fail between two calls.  That is what this
project models, model-checks with TLC and, but for liveness and what is said with
`ENABLED`, proves with TLAPS.

Contents: [inventory](#inventory), [modules and code](#modules-and-code),
[runs](#runs), [bounds](#bounds), [fairness](#fairness), [proofs](#proofs),
[observations](#observations), [not modelled](#not-modelled), [plan](#plan).

## Inventory

State, operations and interactions of the parts with behaviour of their own.

| Part | State it keeps | Operations | What is hard |
|---|---|---|---|
| `pockets/jobs` fenced queue | jobs by id: status, key, lease token and expiry, retry count, payload | EnqueueOnce, Replace, Claim, Checkpoint, Complete, Fail, Reschedule, Defer, Cancel, PurgeTerminal, GetLatestByKey | leases lapse while workers still run; clocks repeat and go back; one active job per key |
| `sdk/pkg/workers` fenced runner, `pockets/jobs` fenced runtime | per worker: claim, context deadline, outcome | claim, run the handler, settle, dead-letter hook | crash or stall between any two calls; handler deadline against lease |
| `pockets/authentication` delivery engine | challenge secrets, rendered payload | initialise, checkpoint, call the provider, classify, discard | the same message on each retry; never void a live challenge too early |
| `pockets/jobs` schedules | schedules by id, one pending occurrence each; a separate queue | EnsureSchedule, tick (list due, claim, list pending, attempt, enqueue, acknowledge), SetEnabled, Delete | two stores without a common transaction; stale listings; an occurrence that always fails |
| `pockets/secrets` vault and rotation | owner keys, sealed secrets, access log | Put, Get, Delete, DeleteOwner, RewrapOwnerKeys, RotateOwnerKey | operations of several calls over one store; keys replaced under readers and writers |
| `pockets/authorization` tuple cache | source: tuples, outbox, receipt; backend: mirror with receipt and expiry; replica: ready, detached, closed | capture, Snapshot, Publish, Acknowledge, Run | transactions that commit out of id order; publication without acknowledgement; staleness bound |
| `pockets/jobs` ordinary queue, runner and runtime; `sdk/pkg/workers` pool | jobs by id; goroutines, two pools | Enqueue, Claim, Complete, Fail, Defer, PurgeTerminal; run, drain, stop the sibling | settlement without a fence; no fresh iteration after a cancellation; both pools stop together |
| `pockets/authentication` in-process delivery | bounded channel, generation per key | Submit, Replace, worker loop, shutdown | a failed Replace after it superseded its predecessor; drain |
| `pockets/authentication` refresh | current and previous refresh hash, rotation count and stamp per session | refresh, grace, reuse detection, idle expiry | concurrent presentations of one token; a session judged on a row that moved |
| `pockets/authentication` credentials | users with status and `auth_revision`, passwords, addresses, challenges, sessions, grants | login, change, set and reset a password, step up, retire an address, redeem a link, logout, revoke, deactivate, erase | a proof checked in one transaction and used in a later one |
| `pockets/events` outbox poller, hub; `sdk/capabilities/events` bus | outbox rows; connections; bounded queue | poll, deliver, mark; connect, fan out; emit, dispatch, close | at-least-once, drop on full, close against emit |
| `sdk/pkg/async` pool | semaphore of goroutines | go, close | drain |
| `pockets/authorization` decisions | compiled model | check, lookup, explain | recursion over cyclic graphs with budgets |

Interactions: hosts admit keyed work through `logic/queue/work.go` into the
fenced queue; the fenced runtime's workers claim it and run the delivery
engine, whose only way back is the checkpoint and the settlement the lease
fences.  The scheduler enqueues into the ordinary queue and acknowledges to its
own store; the ordinary runtime claims from that queue and runs beside the
scheduler pool.  The in-process delivery mode runs the same engine as the fenced
one without a store.  The outbox poller hands records to the memory bus
synchronously, and the hub subscribes to that bus.  Every credential use case
meets every other in the user's row and its `auth_revision`; a delivery worker
issues the challenges that others redeem.  The vault and rotation services share one repository.  Tuple-cache
replicas share the source database (through its outbox) and the backend (through
its receipt).  The other parts (`cms`, `ui/goth`, the adapters, the HTTP, list,
validation and configuration packages) are request-scoped or pure I/O.

`PROJECT.json` lists every component with its status, and each hazard at the
line where it bites with the properties that would catch it.

## Modules and code

| Module | Models | Proofs |
|---|---|---|
| `FencedQueue` | `pockets/jobs/stores/memory/{fenced,defer}.go`, `logic/queue/work.go` | `FencedDeliveryProofs`, first part |
| `FencedDelivery` | `sdk/pkg/workers/fenced.go`, `pockets/jobs/logic/queue/fenced_runtime.go`, `pockets/authentication/logic/delivery/{command,jobsprocessor.go}`, over `FencedQueue` | `FencedDeliveryProofs` |
| `DeliveryContract` | abstract specification: what durable delivery promises per execution | refined by `FencedDelivery` and `InProcessDelivery` |
| `Schedules` | `pockets/jobs/logic/schedules`, `stores/memory/schedules.go`, the enqueue and purge of `stores/memory/queue.go` | `SchedulesProofs` |
| `InProcessDelivery` | `pockets/authentication/logic/delivery/inprocess.go`, over the same engine; refines `DeliveryContract` | `InProcessDeliveryProofs` |
| `JobsRuntime` | `pockets/jobs/stores/memory/queue.go`, `logic/queue/runtime.go`, `sdk/pkg/workers/{runner,pool}.go` | `JobsRuntimeProofs` |
| `RefreshRotation` | `pockets/authentication/logic/authentication/{refresh,session_lifetime}.go`, the session statements of `stores/pgx` | `SessionProofs`, first part |
| `Accounts` | `pockets/authentication/logic/authentication` (login, passwords, step-up, passwordless, session management), `stores/pgx` transactions | `SessionProofs`, second part |
| `Events` | `pockets/events` (outbox poller, pgx outbox, hub, streams), `sdk/capabilities/events/memory.go` | `EventsProofs` |
| `Vault` | `pockets/secrets/logic/{vault,rotation}`, `stores/memory/memory.go` | `VaultProofs` |
| `TupleCache` | `pockets/authorization/logic/tuplecache`, `stores/memory/tuple_cache.go`, `stores/pgx/tuple_source.go` and its capture triggers | `TupleCacheProofs` |

`MC*` modules only give values to constants and define symmetry.

**FencedQueue.** `jobs` is the store's map.  The store holds one mutex for each
call, so each call is one action; a refused call changes nothing and is no
step.  The instants of a call are inputs chosen freely from `Times`: a caller
may have read its clock long ago and the wall clock may go back.  The creation
time of a keyed job is corrected to lie after every holder of its key
(`CreationTime`), which is what makes "latest by key" well defined.  Lease tokens
are random in the code and never repeat in the model (`issued`).

**FencedDelivery** extends it with workers.  `worker[w].pc` is the position in
`FencedRunner.work` and `Engine.Process`: claim, gate (deferral), initialise
(mint a secret and render), checkpoint, provider call, answer, settle, hook.
`Abandon` is a crash or a stall without end at any of them; `CtxDone` is the
handler's context, which ends `Margin` before the lease (the provider is called
with an ended context too, and may accept); `Readings` lets the
clock value of a store call be `ClockLag` old.  A rendered payload is
represented by the secret in it.  `calls`, `accepted` and `hooked` record what
the outside world has seen.

**DeliveryContract** has no workers, leases or clocks: an execution is admitted,
its message is fixed at most once, every call carries it, it ends at most
once.  The refinement mapping merges pending and running into "active" and
reads the message from the stored payload.

**Schedules.** One step per store call of a tick; `tick[w]` holds the listing a
worker works from.  A job's identifier is its schedule and slot, as in
`OccurrenceID`.  The cron parser is external: a cron recurrence of `n` fires
at the multiples of `n`.  `admitted` and `created` are history.

**Vault.** One step per repository call; `proc[p]` holds the locals of a service
operation.  A ciphertext is represented by the key identifier it was sealed
under: a data key and its identifier are made and stored together.  `audit`
holds only the records of the last step, which is enough because the log is
append-only and never read back.  `Init` ranges over the key tables an earlier
deployment may have left, including keys wrapped under a master the ring no
longer holds.  `crossed` and `torn` are history: the callers whose Put has loaded a key
that was replaced or destroyed since, and the references that hold what such a
Put stored or what a rotation wrote back over a newer Put.  Only these
references, until the next Put repairs them, are excepted from `SecretsIntact`;
`EverySecretOpens` is the statement without the exception, which the run
`vault_rotation` shows violated.

**TupleCache.** One step per source transaction and backend call.  A tuple stands
for the forward and the reverse index set it is filed under.  `Write` reserves
an outbox id, `Commit` makes fact and event visible together, so ids become
visible out of order.  `deadline` counts from `started`, the clock reading before
the snapshot; between computing the remaining time (`runtime.go:284`) and the
backend's own clock reading the code makes no blocking call, and the model takes
no time there.  `rebuild` is a free choice: it covers `Rebuild` and a scheduled
rebuild at any moment.  `Recreate` gives the database a new identity under the
running replicas; a restarted replica binds to another mirror and is outside
the model.  The durable fallback of `Run` reads the source itself and needs no
state.  `history` records the versions of the facts for `ServedRecently`.

**InProcessDelivery.** `recs` is the arbiter's map, `ch` the bounded channel.
Admission is three steps as in `admit`: reserve a generation under the lock,
send with the lock released, commit or roll back under the lock.  A worker
takes, fences (`current`), runs the engine (initialise, checkpoint, call),
waits its backoff and settles; `run` is the stage of the host's `Run`, which
cancels, closes admission and lets the pool end.  A second `Run` starts only
after the first pool has gone.  Deadlines, the retention time of terminal records and the
engine's own attempt budget are free choices (`HandlerFails` covers the last).
`phase`, `sealed`, `calls`, `late` and `stopped` are history, kept when a record
goes, and feed the refinement of `DeliveryContract`.

**JobsRuntime.** A store call is a step; a worker is parked, in an iteration
(claiming, running its handler, settling) or gone.  Time is relative: a claim
has an age and a pending job a delay, both saturating, so the clock is unbounded
and liveness can be stated.  `due` is the store's rule with recovery of stale
claims.  `ctx` says what has been canceled; a fatal error ends one pool and
cancels the other.  A crash drops every worker and keeps the store.  Settling
takes an id and no fence, as in the code: a stale worker's Fail or Defer reaches
the current holder, the limitation the jobs README documents.  `Submissions` are the jobs
that hosts enqueue, each as often as the store lets it, with its priority and
delay; `Answers` is what the handler of each job may answer.  A worker's shutdown
error (`pool.go:308`) and a failed store call spend one of `MaxFaults`.

**RefreshRotation.** (Its specification is `RefreshSpec`, since its proofs stand
beside those of `Accounts`.)  One row; token `n` is the `n`-th refresh token of the
session.  Each request reads the row, judges it and then writes with the
compare-and-swap statements of the store.  Any request may present any token
issued so far, so tabs sharing a cookie, a client that lost an answer and a
copied token are all there.  The four policies are grace window and idle timeout
on or off.  Delegated sessions are left out, and the clock reading of `RotateAt`
is that of its statement.

**Accounts.** One step per transaction; `proc[p]` holds the locals of a request
or of a delivery worker, in particular the revision it read (`rev`).  A session
carries the proof that admitted it (password or address revision, and the
`epoch` of the global revocation it was begun in), which is history.  Each user
has one verified address for login and recovery; users outside `Callers` only
have a session, which the global revocation must page to.  The two reads of
`liveStepUpSession` are one step: the owner of a stored session is active, so
the session's presence decides.  A failing store call, a refusal for want of a
grant and the death of a process are `Abandon`.

**Events.** One step per outbox transaction, bus handler call, channel operation
and hub call.  `rows` is the outbox table.  An append is stamped by the clock of
the host that emits, so `created_at` is any instant: hosts may disagree, stamps
may be equal (the listing then goes by event ID, `Before`), and transactions may
commit in another order, which the poller tolerates because it keeps no cursor.
A mark that fails may have been committed all the same.  `disp` holds the dispatches in progress (the poller's synchronous one and those of the bus
workers) with the handlers left; the handlers are a required one, which may
fail, and the hub.  Filters and projections are data and are left out, as is the
per-subject cap beyond one stream; the visibility policy answers freely.

## Runs

| Run | Checks | Shows |
|---|---|---|
| `fenced_delivery` | `ActiveIsLatest`, `LeaseFence`, `CompletedWasDelivered`, `HookAfterDeadLetter`, `ImplementsContract`, `EventuallySettled` | two workers, crashes, stalls, lapsed leases and resends under one key: the active job of the key is later than all others of it (so it is the only one), a token outlives no settlement, takeover or replacement, nothing completes undelivered, one hook per dead letter, the contract (one message per execution) is implemented, and an admitted execution always ends |
| `inprocess` | `ArbiterSound`, `SupersededStops`, `SentSecretsVoided`, `ImplementsContract` | every active record has exactly one item that will be worked on, statuses are true, superseded work stops, a dead letter voids what it sent, and the mode keeps the durable mode's contract |
| `jobs_runtime` | `AttemptsSound`, `ExclusiveWithinLease`, `DrainClean`, `SettlementsStand`, `EventuallySettled`, `StopsTogether` | what the missing fence still guarantees: no two runs of a job while handlers keep to the lease, no attempt spent by crashes, a settled job is not reopened; drains leave nothing running; a job is settled unless jobs of higher priority are due again and again, and both pools stop |
| `schedules` | `AdmittedNotLost`, `OneJobPerAdmission`, `AdmissionIsCurrent`, `AcksAreExact` | no occurrence is lost, doubled, admitted from a stale listing or acknowledged in the place of another, whatever single fault strikes |
| `schedules_live` | `HealthyDelivered` | an occurrence the queue always refuses does not starve the others, even with a batch of one |
| `refresh` | `RowSound`, `ChainNeverForks`, `RaceIsForgiven`, `IdleMeansIdle` | a token has at most one successor and one grace; a request that lost one race burns the session only when the token's one grace is spent, and within the window only when it had judged the session idle; idle expiry deletes only idle sessions |
| `refresh_race` (violation) | `LiveTokenNeverReuse` | a request that looked up the live token and is overtaken by two rotations within the grace window burns the session as reuse, which the comment of `Refresh` rules out (`refresh.go:37`, `:48`) |
| `accounts` | `SessionsRestOnStandingProof`, `ProofsNamePresentAddress`, `ErasureSound`, `GlobalRevocationComplete`, `CredentialWritesFenced` | no request that checked a proof before a change, reset, retirement, deactivation, erasure or revocation acts on it after; a global revocation is complete although users change between its pages |
| `events` | `OutboxSound`, `ReplayIsConfined`, `CloseSound`, `NeverHeldUp` | at-least-once with replay confined to the interrupted entry, the head blocks, Close drains and is never stuck, a closed stream is silent, a reader that stops holds nobody up |
| `vault` | `StoreSound`, `SecretsIntact`, `DeletionsAreRecorded`, `RewrapComplete` | no secret without a key, no value without its record, deletions logged as removed, a clean rewrap complete; a stored secret is sealed under its owner's key with the last value put, unless that Put was itself overtaken by a rotation or deletion |
| `vault_rotation` (violation) | `EverySecretOpens` | a Put that loaded the owner's key before a rotation stores, after it, a value under the key that is gone: the rotation is not atomic (`rotation.go:146`) with respect to Puts |
| `tuple_cache` | `CacheSound`, `ServedRecently` | mirror plus undelivered events are the facts; cached answers are one database state, at most `MaxStaleness` old |

The invariants named `...Sound`, and `DrainClean`, `SecretsIntact` and
`CredentialWritesFenced`, are conjunctions of named parts, each stated with its
own comment in the module; the type invariant is often one of the parts.
`OneActivePerKey`, `TerminalIsFinal`, `SupersededHasSuccessor`,
`ClaimFencesPredecessor`, `SameMessageEveryCall` and the type invariants of the queue, of durable delivery
and of the schedules are theorems (below) and are not repeated in the runs.
A run marked (violation) checks one sentence of the repository which the code does not
keep; `PROJECT.json` lists it under "findings" and the [observations](#observations) say more.
All that hold, but for the liveness properties and `NeverHeldUp`, are theorems as well: a
run shows such a property on its instance, and that a mutant breaks it; the
theorem shows it for every value of the constants.

Every property of a passing run has a mutant in `PROJECT.json`: a form of one
mapped definition with a plausible bug (a dropped guard, an off-by-one, a
deadline counted from the wrong moment) that makes TLC report it violated.
The mutated forms stand next to the definitions they mutate.

The runs turn deadlock checking off: every module bounds its clock, its
identifiers, its requests or its faults, so each has states in which nothing is
left to do.  Being stuck is stated where the code could be: `NeverHeldUp`
(`events`), and the liveness properties.

## Bounds

* `fenced_delivery`: two executions of one key, two workers, two secrets, five
  tokens, lease 2, margin 1, instants 0 to 2: a stalled worker, its lease
  taken over, and a replacement meet, and a lease can lapse twice under one
  execution.  Clocks do not lag here (`ClockLag` 0), and the delivery path calls neither
  Cancel nor PurgeTerminal: what the queue keeps when clocks repeat, lag or go
  back, and through those two calls, is what its theorems say for every value of
  the constants.
* `schedules`: two workers, one host call in flight, two identifiers (a
  schedule can be deleted and recreated), instants 0 to 2, one fault.  A second
  fault multiplies the states without a new kind of interleaving.
* `vault`: two callers, two owners with a page of one (a rewrap pages past an
  owner that changes behind it), one name, one value, three key identifiers, one
  retry, two versions.  Two values have also been checked (1.9 million states).  The
  run `vault_rotation` needs one owner, two keys and one version.
* `inprocess`: two callers, two workers, two keys, two generations, a channel of
  one slot and a status map of one record (both full at once), two attempts.
* `jobs_runtime`: two jobs, two queue workers, one scheduler, two attempts, lease
  and delay 1, one fault.  The first job may answer anything; the second, whose
  handler succeeds, is enqueued at the same or at a higher priority, and again
  each time it has been purged.  A stale worker, its successor and a crash meet on
  the first job, and the second competes with it without end: at the same
  priority it cannot starve the first (the older job wins), at a higher one it
  can, which is the exception of `EventuallySettled`.
* `refresh`: three requests, three tokens, instants 0 to 3, every policy: two
  rotations overtake a third request, inside and outside the window.  The run
  `refresh_race` needs two requests, the window on and one instant.
* `accounts`: two users in batches of one, one of whom acts; two requests at a
  time and in all, two passwords, three sessions, revisions adding up to 3, one
  global revocation.  A session made before, a request in flight and an administrator's
  change meet, which is what each property needs; three requests with two
  revisions have also been checked.
* `events`: two records and a batch of two (a head and an entry behind it; a batch
  that cuts the listing short is covered by `OutboxSoundHolds`, for any batch size), one
  notice, one bus worker, one stream, every capacity 1, instants 0 and 1 (so stamps
  agree with the order of the appends, contradict it or tie), one fault.
* `tuple_cache`: two replicas of which one reads, two tuples, two events, two
  receipts, one fault, staleness 1.  Larger instances (staleness 2 with instants
  0 to 2; three receipts) have also been checked, without a violation; they take
  too long for a routine run.
* Every bound on time, versions, events, attempts and faults is a constant named
  in the module (`MaxTime`, `MaxVersion`, `MaxEvents`, `MaxAttempts`,
  `MaxFaults`, `MaxGen`, `MaxTokens`, `MaxRevision`, `MaxRequests`,
  `MaxSessions`, `MaxRuns`, `MaxDelay`).

## Fairness

* `FencedDelivery!FairSpec`: weak fairness of the clock and of each worker's
  progress.  Pool workers iterate until they are stopped, every store call
  returns, and a handler returns once its context ends (the contract of
  `workers.Process`).  Nothing is assumed of crashes, deferrals, panics or
  resends: they may always or never happen, within the tokens there are.
* `Schedules!FairSpec`: weak fairness of each worker's tick, which the pool runs
  on a timer.  Hosts, crashes and purges are not fair.
* `JobsRuntime!FairSpec`: weak fairness of each worker (timers fire, and handlers
  and store calls return, which `runtime.go:182` asks hosts to bound), of the
  return of the pools (some pool whose workers are gone returns), and of the clock.  Hosts, crashes,
  deferrals, fatal errors and purges are not fair.
* The other modules state safety only.  `Events` says with `ENABLED` that a
  delivery and a Close can always go on.

## Proofs

The theorems hold for every value of the constants allowed by the named
assumption of each module (`QueueAssumption`, `DeliveryAssumption`,
`SchedulesAssumption`, `InProcessAssumption`, `JobsAssumption`,
`RefreshAssumption`, `AccountsAssumption`, `VaultAssumption`,
`TupleCacheAssumption`, `EventsAssumption`): any number of jobs, keys, workers,
requests, users, owners, replicas, outbox entries, streams and instants.  They ask only what the code does, such as a
lease longer than its margin or an active master key the ring holds.  The bounds
that keep the runs finite (`MaxTime`, `MaxFaults` and so on) are arbitrary
naturals in the proofs.

Each proof module states an inductive invariant as a conjunction of named parts,
with one lemma per action or group of actions.  TLC has checked every one of these
invariants on the instance of its run (`PendingOwed` of `Schedules` over the pending
occurrences, since `JobID` is infinite).

`FencedDeliveryProofs`, the queue.  `IInv` is `TypeOK /\ OneActivePerKey /\
ActiveIsLatest /\ LeaseFence`.  The parts need each other: an admission keeps
`ActiveIsLatest` only because the corrected creation time lies after every holder
of the key, and keeps `OneActivePerKey` only because it retires or finds no active
holder; the fence of a settlement is worth something only because a token belongs
to at most one job.  `InsertIInv` is the shared tail of `EnqueueOnce` and
`Replace`.  Theorems: `TypeCorrect`, `KeyExclusion`, `LatestIsActive`,
`FenceSound`, and the action properties `TerminalStaysTerminal`,
`ReplaceKeepsWork`, `ReclaimFences`.  They stand in this module beside the
delivery over the queue, and use none of its assumptions.

`FencedDeliveryProofs`, the runtime.  `DeliveryUsesQueue` shows that every step
of the runtime is a step the queue allows, so the queue's theorems carry over.
`DInv` adds that busy workers hold distinct tokens (`TokensApart`), that a worker
whose token is still the job's has the job's payload in its locals
(`HolderKnowsPayload`), that a worker about to call holds what was checkpointed
(`ReadyIsCheckpointed`), and that every call made carries the stored payload
(`CallsAreStored`).  It is needed because the worker that calls may long have
lost its lease: `SameMessageEveryCall` alone says nothing about what a stalled
worker is still going to send.  `OInv` adds what becomes of the outcome: an
attempt about to settle as delivered was accepted (`OkAccepted`), a hook that is
due belongs to a dead letter whose hook has not run, and to one worker
(`HookDue`), and one that has run belongs to a dead letter (`HookedDead`).
Theorems: `DeliveryTypeCorrect`, `OneMessagePerExecution`,
`DeliveryRefinesContract` (every step of `FencedDelivery` is a step of
`DeliveryContract` or a stutter), `OutcomeInvariant`,
`CompletedWasDeliveredHolds`, `HookAfterDeadLetterHolds`.

`SchedulesProofs`.  `SInv` adds to `TypeOK` and `AdmittedNotLost` that a queued
job was created (`JobsWereCreated`) and that a worker about to acknowledge knows
an occurrence whose job was created (`AcksAreCreated`).  `HInv` counts jobs
against admissions: an occurrence without a job in the queue is still owed one,
whether the store holds it (`PendingOwed`) or only a worker about to insert it
(`EnqueueOwed`).  The last is what a purge between a worker's listing and its
insert would break, and why `OneJobPerAdmission` is not inductive alone.
`ClaimedWhenDue` serves the acknowledgement.  Theorems: `SchedulesTypeCorrect`,
`OccurrencesNotLost`, `AdmissionCorrect`, `ScheduleInvariant`,
`OneJobPerAdmissionHolds`, `AcksAreExactHolds`.

`InProcessDeliveryProofs`.  `PInv` says where each item is and what follows: the
item of a generation is in one place (`OnePlace`), active work is somewhere until
the host cancels (`Carried`), records and phases agree (`PhaseTrue`), ended work
is nowhere but in its discard (`Ended`), what a worker holds is what its
generation checkpointed (`Sealing`), and a generation that made a call too many
or was stopped makes no more (`Quiet`).  Only `OnePlace` lets a settlement speak
for the generation, since the map of records forgets one that was superseded.
Theorems: `InProcessInvariant`, `ArbiterSoundHolds`, `SupersededStopsHolds`,
`SentSecretsVoidedHolds`, and `InProcessRefinesContract`: the in-process mode
implements the contract of the durable one.

`JobsRuntimeProofs`.  `JInv` has the failures counted on a job as failures of
its handlers (`Counted`), at most one holder within the lease of a job none of
whose handlers outlived it (`OneHolder`), a holder or an excuse for each
running job (`Attended`), and how far a canceled worker may still go (`Draining`,
`Gone`).  `OneHolder` is about holders and not about the store's status, because
a settlement carries no fence.  Theorems: `RuntimeInvariant`,
`AttemptsSoundHolds`, `ExclusiveWithinLeaseHolds`, `DrainCleanHolds`, and
`SettlementsStandHolds`, an action property.

`SessionProofs`, the refresh chain.  The row only moves forward (a rotation, a spent grace,
a deletion), so what a request read remains a lower bound of the row (`Behind`),
and a compare-and-swap that misses tells the request how the row has moved
(`Knows`).  A request that passed by the window had it closed or had judged the
session idle (`JudgedIdle`).  `RowTrue` ties the row to the answers given: nothing has been answered
for the current token, and the row's flag says whether the previous one has had
its grace.  Theorems: `RotationInvariant`, `ChainNeverForksHolds`,
`RowSoundHolds`, `RaceIsForgivenHolds`, and `IdleMeansIdleHolds`, an action
property.  `RaceIsForgivenHolds` speaks of a request that one rotation at most
overtook; of one overtaken twice nothing is proved, since it may burn the session.

`SessionProofs`, the credential fence.  What a request or a stored proof says of its user was true at
the revision it carries, and every transaction that makes it false advances the
revision (`Forward`).  So it is true as long as it is fresh (`Vouches`,
`BindingsSound`), and every transaction that acts on it compares the revision.
For the global revocation, `Floor` is the epoch before which no fresh proof of
a user was begun: it rises for the users the revocation has passed (`Swept`), and
the paging lemmas show that no user is skipped, whatever the batch size and
whoever becomes active behind the page.  Theorems: `FenceInvariant`,
`SessionsRestOnStandingProofHolds`, `ProofsNamePresentAddressHolds`,
`ErasureSoundHolds`, `GlobalRevocationCompleteHolds`, and
`CredentialWritesFencedHolds`, an action property.

`VaultProofs`.  `VInv` has three parts.  `TInv` is the types with `NoOrphans` and
`ReadsAreRecorded`.  `SInv` keeps secrets intact: beside the two parts of
`SecretsIntact` it says that a Put about to store, whose owner's key has not been
replaced or destroyed since it loaded it, holds the present one (`PutHolds`).  `RInv` is the loop
invariant of a rewrap: while nothing has failed, every key under an old master is
still ahead of it, in the page at hand or after it (`RewrapHolds`).  It rests on
what a page is: `First` and `NextAfter` are least elements, and a page
with its successor covers all owners after the cursor.  Theorems:
`VaultInvariant`, `StoreSoundHolds`, `SecretsIntactHolds`, `RewrapCompleteHolds`,
and `DeletionsAreRecordedHolds`, an action property.

`TupleCacheProofs`.  `CInv` has four parts.  `RInv` says that a receipt minted for
a delivery is nobody else's until that is acknowledged, and has been seen by
nobody before it is published: a receipt names one publication.  `DInv` says that,
while the source still carries the receipt a delivery is based on, the events it
took are in the outbox and older than the others of their tuples (`DeltaHolds`),
and what it will publish or has published gives the facts with the rest of the
outbox (`PublishHolds`, `AckHolds`).  Events of one tuple commit in the order of
their ids, which the row lock gives, although ids commit out of order
(`IdsOrdered`).  `VInv` says that the mirror is one version of the facts and
expires within `MaxStaleness` of that version's end (`MirrorHolds`), and that
what a delivery will publish is the version its snapshot saw (`VersionHolds`).
Two lemmas about the operators carry it: `AppliedOne`, one newer event, and
`AppliedTwice`, events applied in two portions.  Theorems:
`TupleCacheInvariant`, `CacheSoundHolds`, `ServedRecentlyHolds`.

`EventsProofs`.  `EInv` relates the outbox, its poller, the bus and the streams.
`EntriesHold` is the loop invariant of Poll: of the entries a poll saw, each is
published, or still in the batch, or younger than the whole batch, and the one in
hand is the batch's oldest.  `HeadBlocks` needs it because the batch is a prefix
of a listing made earlier, while rows keep being appended with older stamps.
`HandledHolds` follows a dispatch: the required handler comes first and its error
sticks, so a call that has passed it without an error was accepted, and only such
a call leads to a mark.  `BegunHolds` says that what was handed over is published or
in hand, which confines replays.  `PollerCalls` ties the poller to the call the bus runs
for it.  `BusHolds` says where an accepted notice is (queued, in a worker,
dispatched) and that a worker ends only with the bus closed and the queue empty:
after that no Emit gets in, which is why the end of the workers is the end of the
work.  The proofs use of the listing order that it is strict, not how it comes
about.  Theorems: `EventsInvariant`, `OutboxSoundHolds`, `CloseSoundHolds`, and
`ReplayIsConfinedHolds`, an action property.

Only model-checked: the liveness properties `EventuallySettled` (twice),
`HealthyDelivered` and `StopsTogether`, because fairness is beyond the prover,
and `NeverHeldUp` of `Events`, because `ENABLED` is.  No module that holds or serves
a theorem declares a RECURSIVE operator, because the prover loses its SMT backend
there, and nothing rests on induction over data: least elements come from
well-foundedness of the naturals.

## Observations

Where the model shows the code doing something else than a comment or a document
says, or something a reader would not expect.  The properties of the
passing runs are stated so that they hold of the code as it is; two runs show a
sentence violated.

* Rotation and Put (`rotation.go:164`, `stores/memory/memory.go:148`):
  `RotateOwnerKey` lists the secrets before the transaction that replaces the
  key, and `PutSecret` accepts a value sealed under any key.  A Put that loaded
  the old key stores, after the rotation, a value no key opens; a Put between the
  listing and `ReplaceOwnerKey` (`memory.go:88`) is reverted to the listed value.
  `rotation.go:146` says the secrets are resealed "atomically", and the secrets
  README (line 89) "in one transaction".  The run `vault_rotation` shows the first
  case.  `SecretsIntact` says that the damage stays with the secrets of such Puts
  and is gone with the next Put.
* Attempt ceiling (`fenced_runtime.go:151`): it is consulted only when a handler
  returns an error.  A job whose worker stalls or crashes is reclaimed without
  a look at the count, while `fenced_config.go:21` says it "caps process
  attempts before a fenced job dead-letters".
* Dead-letter hook (`sdk/pkg/workers/fenced.go:208`): it receives the job as
  claimed.  When the attempt that dead-letters checkpointed a fresh challenge,
  that challenge is not voided, while `jobsprocessor.go:167` says the hook
  "opens the checkpointed payload".
* In-process Replace (`inprocess.go:429`): it overwrites the record of queued or
  running work and then sends.  When the bounded send fails the record is
  deleted, and the generation accepted earlier is fenced out with nothing in
  its place (`inprocess.go:342`: "It never silently drops work").
* In-process interruption: an attempt interrupted by the parent context is
  dead-lettered when it was the last one, while `engine.go:236` says it is "never
  burned, even at the attempt cap".
* Refresh (`refresh.go:37`, `:48`): the comments say that tabs presenting one cookie
  "then never read as reuse" within the grace window, and that a racing refresh
  cannot "false-revoke an honest client".  The run `refresh_race` shows a request
  that two rotations overtook, within the window, and that burns the session.
  Honest clients that read as reuse are also tabs that judged the session idle
  while another rotated it (`reResolveIdle`, `session_lifetime.go:216`, takes the
  single-use grace and never consults the window), three tabs with the window
  off, and a logout that races `Rotate`.  `RaceIsForgiven` says what is
  left of the promise: a request that lost one race.
* Priorities (`queue.go:188`, `claimBefore`): a claim goes to the highest priority
  first, without ageing, so jobs of a higher priority that keep being enqueued
  starve a job below them.  The jobs README says of a crashed worker's job that it
  "self-heals"; `EventuallySettled` states when.
* `ConfirmIdentifierChange` bumps the revision and keeps the sessions, unlike
  the other credential mutations.
* A delivery worker may store a challenge for a user erased after its read; the
  bumped revision makes it unredeemable.  The orphan sweep of a global
  revocation finds nothing in the model: it is defence in depth.
* A Get whose two reads straddle a rotation is logged as denied
  (`vault/service.go:98`); `DeleteOwner` compares only the names it listed, so a
  secret rewritten in between is deleted without a conflict
  (`stores/memory/memory.go:199`); the retry of a rewrap whose re-read fails can
  report an empty owner among the failed ones (`rotation.go:107`).
* `EnsureSchedule` computes the next slot before the store's lock
  (`logic/schedules/service.go:126`).  An edit that stalls can bring back an
  earlier slot, a tick that read its clock earlier can claim it, and the
  acknowledgement writes that instant as `LastRunAt` without a comparison
  (`stores/memory/schedules.go:162`), so `LastRunAt` can move back.  The jobs
  README says that "repeated acknowledgements cannot overwrite newer metadata"
  (line 78): this holds in the sense of `AcksAreExact`, since only the
  acknowledgement of the occurrence that is pending is taken.
* `HealthyDelivered` needs an attempt count above 1 in the model: the
  saturating count is what orders the pending occurrences.

## Not modelled

* The pgx, turso and Redis stores of the parts modelled from their memory
  reference.  The capture triggers, the pgx tuple source, the pgx outbox and the
  pgx authentication store, whose statements carry the fences, are modelled from
  their SQL.  Isolation levels and lock order are the database's: a transaction
  is a step.
* In `Accounts`: login codes, RemovePassword, identifier changes, OAuth, passkeys
  and TOTP, which carry their proofs through the same revision fence, and the
  redemption that provisions an account.  A passkey or TOTP step-up mints the
  new session and then deletes the old one; its race with a logout is not
  covered.
* Invitations: each change is one transaction on one row.
* The decisions engine, a pure recursive evaluator with budgets: planned, to be
  checked only by TLC.
* Reads without effect (`Get`, `List`, `Stats`), validation of input,
  formatting, counters, logs and metrics.
* Cryptography: sealing, wrapping and hashing are represented by what was sealed
  under which key.
* The cms pocket, `ui/goth`, the CLI, the HTTP layer and the adapters: no state
  machine of their own.  They are most of the repository's lines.
* `sdk/capabilities/cacher`, `ratelimiter` and `sdk/pkg/async`: one mutex or
  semaphore each, within reach of their unit tests.

## Plan

1. Done: `FencedQueue`, `FencedDelivery` with `DeliveryContract`, `Schedules`,
   `Vault`, `TupleCache`; `InProcessDelivery`, `RefreshRotation`, `JobsRuntime`,
   `Events`, `Accounts`.
2. Done: proofs of every invariant and action property the runs check, but for
   `NeverHeldUp`, and of both refinements of `DeliveryContract`.
3. Decisions: the evaluator as recursive functions against a least-fixed-point
   reference on bounded graphs (model-checked only).
