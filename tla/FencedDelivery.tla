--------------------------- MODULE FencedDelivery ---------------------------
(***************************************************************************)
(* Durable delivery: the fenced runtime's workers (sdk/pkg/workers         *)
(* FencedRunner.work, pockets/jobs FencedRuntime) over the fenced queue,   *)
(* running authentication's delivery engine as their handler               *)
(* (command.Engine.Process through JobsProcessor.Handle, and the           *)
(* dead-letter hook through JobsProcessor.Discard).                        *)
(*                                                                         *)
(* An execution is admitted with an opaque payload.  A worker that claims  *)
(* it mints a challenge secret, renders the message, checkpoints it under  *)
(* its lease, calls the provider and settles the claim.  Workers may crash *)
(* or stall at any step while the clock runs and their lease lapses.       *)
(***************************************************************************)
EXTENDS FencedQueue

CONSTANTS
    Workers,
    Secrets,         \* challenge secrets; a rendered payload is its secret
    Opaque,          \* the payload of an enumeration-safe start
    Lease,           \* FencedRuntimePolicy.LeaseFor
    Margin,          \* leaseMargin(Lease)
    EngineAttempts,  \* command.Config.MaxAttempts
    RuntimeAttempts, \* FencedRuntimePolicy.MaxAttempts
    Backoff,         \* the retry delay
    ClockLag,        \* how old a clock reading may be when its call takes the store's mutex
    MaxTime          \* bound: the last instant of the model's clock

ASSUME DeliveryAssumption ==
    /\ Opaque \notin Secrets
    /\ Payloads = Secrets \cup {Opaque}
    /\ Lease \in LeaseFor
    /\ Margin \in Nat /\ Margin < Lease
    /\ EngineAttempts \in Nat \ {0}
    /\ RuntimeAttempts \in Nat \ {0}
    /\ Backoff \in Nat
    /\ ClockLag \in Nat
    /\ MaxTime \in Nat
    /\ Times = 0..MaxTime
    /\ StartTimes = {NoTime}

VARIABLES
    now,      \* the runtime's clock
    worker,   \* what each worker goroutine holds in its local variables
    minted,   \* secrets the initializer has issued
    live,     \* issued challenges that have not been voided
    calls,    \* provider calls made: pairs <<execution, secret>>
    accepted, \* executions the provider accepted, or that had nothing to deliver
    hooked    \* executions whose dead-letter hook has run

dvars == <<jobs, issued, now, worker, minted, live, calls, accepted, hooked>>

\* Between iterations of the pool.
Idle == [pc |-> "idle", job |-> 0, lease |-> NoLease, claimed |-> Opaque,
         msg |-> Opaque, attempt |-> 0, deadline |-> 0, until |-> 0, outcome |-> "none"]

Outcomes == {"none", "ok", "retry", "permanent", "defer"}

WorkerState ==
    [pc : {"idle", "process", "rendered", "ready", "calling", "settle", "hook"},
     job : JobIDs \cup {0}, lease : LeaseIDs \cup {NoLease},
     claimed : Payloads, msg : Payloads, attempt : Nat, deadline : Int, until : Times,
     outcome : Outcomes]

\* A clock reading passed to a store call.
Readings == {t \in Times : t <= now /\ now <= t + ClockLag}

\* The handler's context ends Margin before its lease lapses.
CtxDone(w) == now >= worker[w].deadline

\* The horizon stands for every later instant.
Later(t) == IF t + Backoff > MaxTime THEN MaxTime ELSE t + Backoff

Step(w, changes) == worker' = [worker EXCEPT ![w] = changes]

\* The handler returns: its own locals are gone, the runner's remain.
Returned(w, result) ==
    [worker[w] EXCEPT !.pc = "settle", !.outcome = result, !.msg = Opaque, !.deadline = 0]

Finish(w, result) == Step(w, Returned(w, result))

\* Engine.classify: a transient failure is permanent once the budget is spent.
classify(attempt) == IF attempt >= EngineAttempts THEN "permanent" ELSE "retry"

-----------------------------------------------------------------------------
(* Producers. *)

\* Dispatcher.Submit and Dispatcher.Replace: the keyed-work service admits the
\* opaque command under a fresh execution ID.  The store reads the clock itself.
Submit(in, t) ==
    /\ t = now
    /\ in.payload = Opaque /\ in.key # NoKey
    /\ EnqueueOnce(in, t) \/ Replace(in, t)
    /\ UNCHANGED <<now, worker, minted, live, calls, accepted, hooked>>

-----------------------------------------------------------------------------
(* One iteration of a worker: FencedRunner.work. *)

ClaimJob(w, id, t) ==
    /\ worker[w].pc = "idle"
    /\ LeaseIDs \ issued # {}
    /\ LET l == CHOOSE l \in LeaseIDs \ issued : TRUE
       IN /\ Claim(id, t, l, Lease, {})
          /\ Step(w, [Idle EXCEPT !.pc = "process", !.job = id, !.lease = l,
                                  !.claimed = jobs[id].payload,
                                  !.msg = jobs[id].payload,
                                  !.attempt = jobs[id].retries + 1,
                                  !.deadline = t + Lease - Margin])
    /\ UNCHANGED <<now, minted, live, calls, accepted, hooked>>

\* Before the handler: a job middleware defers the work (DeferUntil; the bound
\* leaves time for the lease to lapse should the deferral come too late), or
\* the sealed payload cannot be opened.
Gate(w) ==
    /\ worker[w].pc = "process"
    /\ \/ /\ now + Lease <= MaxTime
          /\ Step(w, [Returned(w, "defer") EXCEPT !.until = now + 1])
       \/ Finish(w, "permanent")
    /\ UNCHANGED <<jobs, issued, now, minted, live, calls, accepted, hooked>>

\* Engine.initialize, up to the checkpoint: the account is resolved and the
\* challenge issued and rendered; or that fails; or there is nothing to deliver.
Initialize(w) ==
    /\ worker[w].pc = "process" /\ worker[w].msg = Opaque
    /\ \/ /\ Secrets \ minted # {}
          /\ LET s == CHOOSE s \in Secrets \ minted : TRUE
             IN /\ minted' = minted \cup {s}
                /\ live' = live \cup {s}
                /\ Step(w, [worker[w] EXCEPT !.pc = "rendered", !.msg = s])
          /\ UNCHANGED accepted
       \/ /\ Finish(w, classify(worker[w].attempt))
          /\ UNCHANGED <<minted, live, accepted>>
       \/ /\ Finish(w, "ok")
          /\ accepted' = accepted \cup {worker[w].job}
          /\ UNCHANGED <<minted, live>>
    /\ UNCHANGED <<jobs, issued, now, calls, hooked>>

\* The claim-fenced checkpoint: no call may precede a successful one.
CheckpointMsg(w, t) ==
    /\ worker[w].pc = "rendered"
    /\ Checkpoint(worker[w].job, worker[w].lease, worker[w].msg, t)
    /\ Step(w, [worker[w] EXCEPT !.pc = "ready"])
    /\ UNCHANGED <<now, minted, live, calls, accepted, hooked>>

\* Mutated form of CheckpointFails: the error is ignored and the call made.
CheckpointFailsIgnored(w) ==
    /\ worker[w].pc = "rendered"
    /\ Step(w, [worker[w] EXCEPT !.pc = "ready"])
    /\ UNCHANGED <<jobs, issued, now, minted, live, calls, accepted, hooked>>

\* The checkpoint is refused (lost lease) or the store fails; or the rendered
\* message cannot be sealed.
CheckpointFails(w) ==
    /\ worker[w].pc = "rendered"
    /\ Finish(w, classify(worker[w].attempt)) \/ Finish(w, "permanent")
    /\ UNCHANGED <<jobs, issued, now, minted, live, calls, accepted, hooked>>

\* Engine.deliver starts the provider call, of a message rendered now or by an
\* earlier claim; it does not look at its context first.
CallProvider(w) ==
    /\ \/ worker[w].pc = "ready"
       \/ worker[w].pc = "process" /\ worker[w].msg # Opaque
    /\ calls' = calls \cup {<<worker[w].job, worker[w].msg>>}
    /\ Step(w, [worker[w] EXCEPT !.pc = "calling"])
    /\ UNCHANGED <<jobs, issued, now, minted, live, accepted, hooked>>

\* Mutated form of CallCutOff: an interrupted call counts as delivered.
CallCutOffCompletes(w) ==
    /\ \/ worker[w].pc = "ready"
       \/ worker[w].pc = "process" /\ worker[w].msg # Opaque
    /\ CtxDone(w)
    /\ Finish(w, "ok")
    /\ UNCHANGED <<jobs, issued, now, minted, live, calls, accepted, hooked>>

\* The provider's client sees that the context is done and sends nothing.
CallCutOff(w) ==
    /\ \/ worker[w].pc = "ready"
       \/ worker[w].pc = "process" /\ worker[w].msg # Opaque
    /\ CtxDone(w)
    /\ Finish(w, "retry")
    /\ UNCHANGED <<jobs, issued, now, minted, live, calls, accepted, hooked>>

\* The provider accepts, or the call fails: a failure after the handler's
\* context ended is an interruption, any other one is classified.
ProviderAnswers(w) ==
    /\ worker[w].pc = "calling"
    /\ \/ /\ Finish(w, "ok")
          /\ accepted' = accepted \cup {worker[w].job}
       \/ /\ Finish(w, IF CtxDone(w) THEN "retry" ELSE classify(worker[w].attempt))
          /\ UNCHANGED accepted
    /\ UNCHANGED <<jobs, issued, now, minted, live, calls, hooked>>

\* runProcess: a panic anywhere in the handler chain is recovered as an ordinary
\* error.
HandlerPanics(w) ==
    /\ worker[w].pc \in {"process", "rendered", "ready", "calling"}
    /\ Finish(w, "retry")
    /\ UNCHANGED <<jobs, issued, now, minted, live, calls, accepted, hooked>>

\* The runner's disposition of a processed claim: ordinary errors retry until
\* the runtime's own ceiling.
Disposition(w) ==
    IF worker[w].outcome = "retry" /\ worker[w].attempt >= RuntimeAttempts
    THEN "permanent"
    ELSE worker[w].outcome

\* The transition of a claim that succeeded, is retried or is deferred, at a
\* clock reading t.
Settle(w, t) ==
    LET id == worker[w].job
        l == worker[w].lease
    IN /\ worker[w].pc = "settle"
       /\ \/ Disposition(w) = "ok" /\ Complete(id, l, t)
          \/ Disposition(w) = "retry" /\ Reschedule(id, l, Later(t), t)
          \/ Disposition(w) = "defer" /\ Defer(id, l, worker[w].until, t)
       /\ Step(w, Idle)
       /\ UNCHANGED <<now, minted, live, calls, accepted, hooked>>

\* Mutated form of SettleFail: the hook runs whatever Fail returned.
SettleFailAlwaysHooks(w, t) ==
    /\ worker[w].pc = "settle" /\ Disposition(w) = "permanent"
    /\ Fail(worker[w].job, worker[w].lease, t) \/ UNCHANGED <<jobs, issued>>
    /\ Step(w, [worker[w] EXCEPT !.pc = "hook"])
    /\ UNCHANGED <<now, minted, live, calls, accepted, hooked>>

\* A permanent failure is dead-lettered first; the hook runs only afterwards.
SettleFail(w, t) ==
    /\ worker[w].pc = "settle" /\ Disposition(w) = "permanent"
    /\ Fail(worker[w].job, worker[w].lease, t)
    /\ Step(w, [worker[w] EXCEPT !.pc = "hook"])
    /\ UNCHANGED <<now, minted, live, calls, accepted, hooked>>

\* FencedRunner.transition: a refused transition is a lost lease, logged and
\* dropped; a deferral that is no longer in the future is refused before the
\* store is called and leaves the claim to lapse.
LoseLease(w, t) ==
    /\ worker[w].pc = "settle"
    /\ \/ worker[w].job \notin DOMAIN jobs
       \/ ~ heldBy(jobs[worker[w].job], worker[w].lease, t)
       \/ worker[w].outcome = "defer" /\ worker[w].until <= t
    /\ Step(w, Idle)
    /\ UNCHANGED <<jobs, issued, now, minted, live, calls, accepted, hooked>>

\* JobsProcessor.Discard, given the job as it was claimed: voids the challenge
\* of a rendered payload, and does nothing for an opaque one.
Discard(w) ==
    /\ worker[w].pc = "hook"
    /\ live' = live \ {worker[w].claimed}
    /\ hooked' = hooked \cup {worker[w].job}
    /\ Step(w, Idle)
    /\ UNCHANGED <<jobs, issued, now, minted, calls, accepted>>

-----------------------------------------------------------------------------
(* Failures and time. *)

\* A claim is abandoned and left to lapse: the process crashes, the drain
\* deadline cancels the iteration, or a store call fails without a conflict.
\* The bound leaves time for its lease to lapse.
Abandon(w) ==
    /\ worker[w].pc # "idle"
    /\ now + Lease <= MaxTime
    /\ Step(w, Idle)
    /\ UNCHANGED <<jobs, issued, now, minted, live, calls, accepted, hooked>>

Tick ==
    /\ now < MaxTime
    /\ now' = now + 1
    /\ UNCHANGED <<jobs, issued, worker, minted, live, calls, accepted, hooked>>

-----------------------------------------------------------------------------
DeliveryInit ==
    /\ Init
    /\ now = 0
    /\ worker = [w \in Workers |-> Idle]
    /\ minted = {} /\ live = {} /\ calls = {} /\ accepted = {} /\ hooked = {}

Progress(w) ==
    \/ \E t \in Readings : \/ \E id \in JobIDs : ClaimJob(w, id, t)
                           \/ CheckpointMsg(w, t)
                           \/ Settle(w, t) \/ SettleFail(w, t) \/ LoseLease(w, t)
    \/ Initialize(w) \/ CheckpointFails(w)
    \/ CallProvider(w) \/ CallCutOff(w) \/ ProviderAnswers(w) \/ Discard(w)

DeliveryNext ==
    \/ \E in \in Enqueue, t \in Readings : Submit(in, t)
    \/ \E w \in Workers : Progress(w) \/ Gate(w) \/ HandlerPanics(w) \/ Abandon(w)
    \/ Tick

DeliverySpec == DeliveryInit /\ [][DeliveryNext]_dvars

\* Pool workers keep iterating, every call returns (handlers cooperate with
\* their context) and time passes; crashes, deferrals and resends need not
\* happen.
Fairness == WF_dvars(Tick) /\ \A w \in Workers : WF_dvars(Progress(w))

FairSpec == DeliverySpec /\ Fairness

-----------------------------------------------------------------------------
(* Properties. *)

\* The store and the workers' locals are well formed: a claim's attempt count
\* and deferral instant stay in range through every retry and refund.
DeliveryTypeOK ==
    /\ TypeOK
    /\ now \in Times
    /\ worker \in [Workers -> WorkerState]
    /\ minted \subseteq Secrets /\ live \subseteq minted
    /\ calls \subseteq JobIDs \X Secrets
    /\ accepted \subseteq JobIDs /\ hooked \subseteq JobIDs

\* "Every retry resends the byte-identical secret" (command.Engine): whatever
\* the interleaving of stalled workers, reclaims and crashes, all provider calls
\* of one execution carry one message, and it is the one the store keeps.
SameMessageEveryCall ==
    /\ \A c, d \in calls : c[1] = d[1] => c[2] = d[2]
    /\ \A c \in calls : c[1] \in DOMAIN jobs => jobs[c[1]].payload = c[2]

\* No execution is reported completed unless the provider accepted its message
\* or there was nothing to deliver.
CompletedWasDelivered ==
    \A i \in DOMAIN jobs : jobs[i].status = "completed" => i \in accepted

\* The dead-letter hook runs only for an execution durably dead-lettered, and
\* at most one worker ever runs it (FencedDeadLetterFunc).
HookAfterDeadLetter ==
    /\ \A w \in Workers : worker[w].pc = "hook" =>
          /\ worker[w].job \in DOMAIN jobs
          /\ jobs[worker[w].job].status = "dead_letter"
          /\ jobs[worker[w].job].leaseID = worker[w].lease
          /\ worker[w].job \notin hooked
    /\ \A v, w \in Workers :
          (worker[v].pc = "hook" /\ worker[w].pc = "hook" /\ v # w) =>
              worker[v].job # worker[w].job
    /\ \A i \in hooked : i \in DOMAIN jobs => jobs[i].status = "dead_letter"

\* The contract seen through the store: the queue's statuses, with the two
\* active ones merged, and its rendered payloads.
Contract == INSTANCE DeliveryContract WITH
    Executions <- JobIDs, Messages <- Secrets, NoMessage <- Opaque,
    phase <- [e \in JobIDs |-> IF e \notin DOMAIN jobs THEN "unknown"
                               ELSE IF Terminal(jobs[e]) THEN jobs[e].status ELSE "active"],
    message <- [e \in JobIDs |-> IF e \in DOMAIN jobs THEN jobs[e].payload ELSE Opaque]

\* Workers, leases and retries implement the delivery contract: a message is
\* fixed once, only it is ever sent, and an execution ends once.
ImplementsContract == Contract!CSpec

\* Once failures stop, every admitted execution reaches a terminal state: no
\* crash, lost lease or refused checkpoint leaves it stuck.
EventuallySettled ==
    \A i \in JobIDs :
        i \in DOMAIN jobs ~> i \in DOMAIN jobs /\ Terminal(jobs[i])
=============================================================================
