------------------------- MODULE InProcessDelivery -------------------------
(***************************************************************************)
(* Delivery in the process itself (authentication's DeliveryMode           *)
(* "in_process"): the bounded admission queue with its per-key arbiter     *)
(* (InProcessQueue) and the fixed worker pool that drains it               *)
(* (InProcessRuntime), running the same engine as the durable mode.        *)
(*                                                                         *)
(* Admission reserves a generation under the arbiter's lock, sends the     *)
(* item into a bounded channel with the lock released, and then commits or *)
(* rolls the reservation back.  Meanwhile workers take, supersede, retry   *)
(* and settle generations of the same key, and the host may shut down.     *)
(***************************************************************************)
EXTENDS Naturals, Sequences, FiniteSets

CONSTANTS
    Keys,         \* logical keys
    Callers,      \* goroutines that call Submit and Replace
    Workers,      \* the pool's worker goroutines
    Capacity,     \* of the item channel
    MaxEntries,   \* status records kept before the oldest terminal one is evicted
    MaxAttempts,  \* the runtime's attempt cap
    MaxGen,       \* bound: the number of generations admitted
    Secrets,      \* challenge secrets; a rendered payload is its secret
    Opaque        \* the payload of an enumeration-safe start

ASSUME InProcessAssumption ==
    /\ Capacity \in Nat \ {0}
    /\ MaxEntries \in Nat /\ MaxEntries >= Capacity
    /\ MaxAttempts \in Nat \ {0}
    /\ MaxGen \in Nat
    /\ Opaque \notin Secrets

VARIABLES
    recs,      \* the arbiter's record of each key
    seq,       \* the last generation number given out
    ch,        \* the bounded channel of admitted items
    closed,    \* admission is closed (and the done channel with it)
    caller,    \* what each admitting goroutine is doing
    run,       \* the stage of the host's call of Run
    worker,    \* the locals of each pool goroutine
    live,      \* issued challenges that have not been voided
    minted,    \* secrets the initializer has issued
    calls,     \* provider calls made: pairs of generation and secret
    delivered, \* generations the provider accepted, or with nothing to deliver
    phase,     \* the lifecycle of each generation, kept when its record goes
    sealed,    \* the message each generation checkpointed
    late,      \* provider calls each generation started after it was superseded
    kept,      \* generations whose discard failed
    keyOf,     \* the key each generation was reserved under
    stopped    \* generations superseded while no attempt of theirs was under way

qvars == <<recs, seq, ch, closed, caller>>
history == <<live, minted, calls, delivered, phase, sealed, late, kept, keyOf, stopped>>
vars == <<recs, seq, ch, closed, caller, run, worker, live, minted, calls, delivered,
          phase, sealed, late, kept, keyOf, stopped>>

Gens == 1..MaxGen

NoRec == [gen |-> 0, state |-> "none", active |-> FALSE, admitting |-> FALSE]

Record ==
    [gen : Gens, state : {"pending", "running", "completed", "dead_letter"},
     active : BOOLEAN, admitting : BOOLEAN]

NoItem == [key |-> "none", gen |-> 0]
Item == [key : Keys, gen : Gens]

\* Between two calls of Submit or Replace.
NoCall == [pc |-> "idle", item |-> NoItem]

\* A goroutine waiting to receive from the channel.
IdleWorker ==
    [pc |-> "idle", item |-> NoItem, payload |-> Opaque, msg |-> Opaque, attempt |-> 0,
     result |-> "none"]

\* The item's generation is still the current one of its key: the fence of
\* claim, checkpoint, settle, deadLetter and current.
current(item) == recs[item.key].gen = item.gen

\* The records become new, and with them the phase of each generation: an active
\* one that loses its record ends as how.
SetRecs(new, how) ==
    /\ recs' = new
    /\ phase' = [g \in Gens |->
                    IF \E k \in Keys : new[k].gen = g /\ new[k].active THEN "active"
                    ELSE IF \E k \in Keys : new[k].gen = g
                    THEN (CHOOSE r \in {new[k] : k \in Keys} : r.gen = g).state
                    ELSE IF phase[g] = "active" THEN how ELSE phase[g]]

-----------------------------------------------------------------------------
(* Admission: Submit and Replace, through admit and sendItem. *)

\* The caller evaluates its key under the lock: on its first turn, or on a later
\* turn of a Submit whose wait is over.
Turn(c, k, replace) ==
    \/ caller[c].pc = "idle"
    \/ caller[c].pc = "retry" /\ caller[c].item.key = k /\ ~ replace

Call(c, pc, item) == caller' = [caller EXCEPT ![c] = [pc |-> pc, item |-> item]]

\* Submit onto an active generation returns its execution ID.
Coalesce(c, k) ==
    /\ ~ closed
    /\ Turn(c, k, FALSE)
    /\ recs[k].active /\ ~ recs[k].admitting
    /\ Call(c, "idle", NoItem)
    /\ UNCHANGED <<recs, seq, ch, closed, run, worker, live, minted, calls, delivered,
                   phase, sealed, late, kept, keyOf, stopped>>

\* Submit onto a reservation that may still be rolled back waits for it.
Await(c, k) ==
    /\ ~ closed
    /\ Turn(c, k, FALSE)
    /\ recs[k].active /\ recs[k].admitting
    /\ Call(c, "wait", [key |-> k, gen |-> recs[k].gen])
    /\ UNCHANGED <<recs, seq, ch, closed, run, worker, history>>

\* The reservation's ready channel is closed once its admission returns.
Resolved(c) ==
    /\ caller[c].pc = "wait"
    /\ \A d \in Callers :
          caller[d].pc \in {"send", "commit"} => caller[d].item.gen # caller[c].item.gen
    /\ Call(c, "retry", caller[c].item)
    /\ UNCHANGED <<recs, seq, ch, closed, run, worker, history>>

\* The wait ends without an answer (shutdown, the caller's context, the admission
\* deadline), or the next turn finds admission closed.
GiveUp(c) ==
    /\ caller[c].pc = "wait" \/ (caller[c].pc = "retry" /\ closed)
    /\ Call(c, "idle", NoItem)
    /\ UNCHANGED <<recs, seq, ch, closed, run, worker, history>>

\* evictLocked: the terminal records past their TTL are swept, then the oldest
\* terminal ones go while more than MaxEntries remain.
Evicted(m, swept) ==
    LET rest == [k \in Keys |-> IF k \in swept THEN NoRec ELSE m[k]]
        held == {k \in Keys : rest[k].gen # 0}
        terminal == {k \in held : ~ rest[k].active}
        excess == IF Cardinality(held) > MaxEntries THEN Cardinality(held) - MaxEntries ELSE 0
        older(k) == Cardinality({j \in terminal : rest[j].gen < rest[k].gen})
    IN [k \in Keys |-> IF k \in terminal /\ older(k) < excess THEN NoRec ELSE rest[k]]

\* An attempt of the generation is inside the engine.
Attempting(g) ==
    \E w \in Workers : /\ worker[w].item.gen = g
                       /\ worker[w].pc \in {"handle", "rendered", "ready", "calling"}

\* A fresh generation is reserved.  Submit does so when no generation of the key
\* is active; Replace always, superseding the one that is.
Reserve(c, k, replace) ==
    /\ ~ closed
    /\ Turn(c, k, replace)
    /\ replace \/ ~ recs[k].active
    /\ seq < MaxGen
    /\ seq' = seq + 1
    /\ LET reserved == [recs EXCEPT ![k] = [gen |-> seq + 1, state |-> "pending",
                                            active |-> TRUE, admitting |-> TRUE]]
       IN \E swept \in SUBSET {j \in Keys : reserved[j].gen # 0 /\ ~ reserved[j].active} :
              SetRecs(Evicted(reserved, swept), "superseded")
    /\ keyOf' = [keyOf EXCEPT ![seq + 1] = k]
    /\ stopped' = IF recs[k].active /\ ~ Attempting(recs[k].gen)
                  THEN stopped \cup {recs[k].gen} ELSE stopped
    /\ Call(c, "send", [key |-> k, gen |-> seq + 1])
    /\ UNCHANGED <<ch, closed, run, worker, live, minted, calls, delivered, sealed, late,
                   kept>>

\* The channel takes the item.
Send(c) ==
    /\ caller[c].pc = "send"
    /\ Len(ch) < Capacity
    /\ ch' = Append(ch, caller[c].item)
    /\ Call(c, "commit", caller[c].item)
    /\ UNCHANGED <<recs, seq, closed, run, worker, history>>

\* Commit: later Submits of the key coalesce, and the caller has its ID.
Commit(c) ==
    LET i == caller[c].item
    IN /\ caller[c].pc = "commit"
       /\ recs' = IF current(i) THEN [recs EXCEPT ![i.key].admitting = FALSE] ELSE recs
       /\ Call(c, "idle", NoItem)
       /\ UNCHANGED <<seq, ch, closed, run, worker, live, minted, calls, delivered,
                      phase, sealed, late, kept, keyOf, stopped>>

\* Mutated form of Rollback: the reservation stays behind.
RollbackForgotten(c) ==
    LET i == caller[c].item
    IN /\ caller[c].pc = "send"
       /\ SetRecs(recs, "canceled")
       /\ Call(c, "idle", NoItem)
       /\ UNCHANGED <<seq, ch, closed, run, worker, live, minted, calls, delivered,
                      sealed, late, kept, keyOf, stopped>>

\* The send fails (shutdown, the caller's context, the admission deadline) and
\* the reservation is rolled back unless a Replace has already overwritten it.
Rollback(c) ==
    LET i == caller[c].item
    IN /\ caller[c].pc = "send"
       /\ SetRecs(IF current(i) THEN [recs EXCEPT ![i.key] = NoRec] ELSE recs, "canceled")
       /\ Call(c, "idle", NoItem)
       /\ UNCHANGED <<seq, ch, closed, run, worker, live, minted, calls, delivered,
                      sealed, late, kept, keyOf, stopped>>

\* LatestStatus drops a terminal record that has outlived its TTL.
Expire(k) ==
    /\ recs[k].gen # 0 /\ ~ recs[k].active
    /\ SetRecs([recs EXCEPT ![k] = NoRec], "superseded")
    /\ UNCHANGED <<seq, ch, closed, caller, run, worker, live, minted, calls, delivered,
                   sealed, late, kept, keyOf, stopped>>

-----------------------------------------------------------------------------
(* The host's Run. *)

canceled == run \in {"canceled", "draining"}

\* Only one Run at a time; it launches the pool.  A later Run, after the drain,
\* finds the queue closed and works off what the last one left in the channel.
RunStart ==
    /\ run \in {"none", "draining"}
    /\ \A w \in Workers : worker[w].pc = "exited"
    /\ run' = "running"
    /\ worker' = [w \in Workers |-> IdleWorker]
    /\ UNCHANGED <<qvars, history>>

\* The host cancels the context Run and its workers watch.
Cancel ==
    /\ run = "running"
    /\ run' = "canceled"
    /\ UNCHANGED <<qvars, worker, history>>

beginShutdown ==
    /\ run = "canceled"
    /\ closed' = TRUE
    /\ run' = "draining"
    /\ UNCHANGED <<recs, seq, ch, caller, worker, history>>

-----------------------------------------------------------------------------
(* One worker: the receive loop, process and the engine it calls. *)

Step(w, pc) == worker' = [worker EXCEPT ![w].pc = pc]
Finish(w, result) ==
    worker' = [worker EXCEPT ![w].pc = "done", ![w].result = result, ![w].msg = Opaque]
NextItem(w) == worker' = [worker EXCEPT ![w] = IdleWorker]

\* A received item is dropped when the context is already done.
Receive(w) ==
    /\ worker[w].pc = "idle" /\ ch # <<>>
    /\ ch' = Tail(ch)
    /\ worker' = [worker EXCEPT ![w] = IF canceled
                                       THEN [IdleWorker EXCEPT !.pc = "exited"]
                                       ELSE [IdleWorker EXCEPT !.pc = "claim", !.item = Head(ch)]]
    /\ UNCHANGED <<recs, seq, closed, caller, run, history>>

Exit(w) ==
    /\ worker[w].pc = "idle" /\ canceled
    /\ Step(w, "exited")
    /\ UNCHANGED <<qvars, run, history>>

\* A generation replaced while it was queued never starts.
claim(w) ==
    LET i == worker[w].item
    IN /\ worker[w].pc = "claim"
       /\ \/ /\ current(i)
             /\ recs' = [recs EXCEPT ![i.key].state = "running"]
             /\ worker' = [worker EXCEPT ![w].pc = "handle", ![w].attempt = 1]
          \/ /\ ~ current(i)
             /\ NextItem(w)
             /\ UNCHANGED recs
       /\ UNCHANGED <<seq, ch, closed, caller, run, history>>

\* Engine.initialize, up to the checkpoint: the challenge is issued and the
\* message rendered; or that fails; or there is nothing to deliver.
Initialize(w) ==
    /\ worker[w].pc = "handle" /\ worker[w].payload = Opaque
    /\ \/ /\ Secrets \ minted # {}
          /\ LET s == CHOOSE s \in Secrets \ minted : TRUE
             IN /\ minted' = minted \cup {s}
                /\ live' = live \cup {s}
                /\ worker' = [worker EXCEPT ![w].pc = "rendered", ![w].msg = s]
          /\ UNCHANGED delivered
       \/ /\ Finish(w, "retry")
          /\ UNCHANGED <<minted, live, delivered>>
       \/ /\ Finish(w, "ok")
          /\ delivered' = delivered \cup {worker[w].item.gen}
          /\ UNCHANGED <<minted, live>>
    /\ UNCHANGED <<qvars, run, calls, phase, sealed, late, kept, keyOf, stopped>>

\* Mutated form of checkpoint: a superseded generation is not refused.
checkpointUnfenced(w) ==
    LET g == worker[w].item.gen
    IN /\ worker[w].pc = "rendered"
       /\ worker' = [worker EXCEPT ![w].pc = "ready", ![w].payload = worker[w].msg]
       /\ sealed' = [sealed EXCEPT ![g] = worker[w].msg]
       /\ UNCHANGED <<qvars, run, live, minted, calls, delivered, phase, late, kept, keyOf,
                      stopped>>

\* The fenced checkpoint replaces the worker's payload, so that a retry sends the
\* same secret; a superseded generation is refused and must not send.
checkpoint(w) ==
    LET g == worker[w].item.gen
    IN /\ worker[w].pc = "rendered"
       /\ IF current(worker[w].item)
          THEN /\ worker' = [worker EXCEPT ![w].pc = "ready", ![w].payload = worker[w].msg]
               /\ sealed' = [sealed EXCEPT ![g] = worker[w].msg]
          ELSE Finish(w, "retry") /\ UNCHANGED sealed
       /\ UNCHANGED <<qvars, run, live, minted, calls, delivered, phase, late, kept, keyOf, stopped>>

\* Engine.deliver starts the provider call, of a message rendered now or by an
\* earlier attempt.
CallProvider(w) ==
    LET g == worker[w].item.gen
        message == IF worker[w].pc = "ready" THEN worker[w].msg ELSE worker[w].payload
    IN /\ worker[w].pc = "ready" \/ (worker[w].pc = "handle" /\ worker[w].payload # Opaque)
       /\ calls' = calls \cup {<<g, message>>}
       /\ late' = [late EXCEPT ![g] = IF current(worker[w].item) THEN @ ELSE @ + 1]
       /\ Step(w, "calling")
       /\ UNCHANGED <<qvars, run, live, minted, delivered, phase, sealed, kept, keyOf, stopped>>

\* The provider accepts, or the call fails or is interrupted.
ProviderAnswers(w) ==
    /\ worker[w].pc = "calling"
    /\ \/ /\ Finish(w, "ok")
          /\ delivered' = delivered \cup {worker[w].item.gen}
       \/ /\ Finish(w, "retry")
          /\ UNCHANGED delivered
    /\ UNCHANGED <<qvars, run, live, minted, calls, phase, sealed, late, kept, keyOf, stopped>>

\* A permanent failure: a panic (handleOnce), a payload that cannot be opened or
\* sealed, or a failure that spends the engine's own attempt budget.
HandlerFails(w) ==
    /\ worker[w].pc \in {"handle", "rendered", "ready", "calling"}
    /\ Finish(w, "permanent")
    /\ UNCHANGED <<qvars, run, history>>

\* The branch process takes on a handler's result.
Spent(w) == worker[w].result = "permanent" \/ worker[w].attempt >= MaxAttempts

\* settle: completed, if the generation is still current.
settle(w) ==
    LET i == worker[w].item
    IN /\ worker[w].pc = "done" /\ worker[w].result = "ok"
       /\ SetRecs(IF current(i)
                  THEN [recs EXCEPT ![i.key].state = "completed", ![i.key].active = FALSE]
                  ELSE recs, "completed")
       /\ NextItem(w)
       /\ UNCHANGED <<seq, ch, closed, caller, run, live, minted, calls, delivered, sealed,
                      late, kept, keyOf, stopped>>

\* deadLetter: permanent, or the attempt budget is spent.  The discard follows
\* only if the generation was current and the end recorded.
deadLetter(w) ==
    LET i == worker[w].item
    IN /\ worker[w].pc = "done" /\ worker[w].result # "ok" /\ Spent(w)
       /\ \/ /\ current(i)
             /\ SetRecs([recs EXCEPT ![i.key].state = "dead_letter", ![i.key].active = FALSE],
                        "dead_letter")
             /\ Step(w, "discard")
          \/ /\ ~ current(i)
             /\ NextItem(w)
             /\ UNCHANGED <<recs, phase>>
       /\ UNCHANGED <<seq, ch, closed, caller, run, live, minted, calls, delivered, sealed,
                      late, kept, keyOf, stopped>>

\* Mutated form of Discard: given the item's payload, not the checkpointed one.
DiscardAdmitted(w) ==
    /\ worker[w].pc = "discard"
    /\ NextItem(w)
    /\ UNCHANGED <<qvars, run, history>>

\* The challenge of the checkpointed payload is voided; a failure is logged.
Discard(w) ==
    /\ worker[w].pc = "discard"
    /\ \/ live' = live \ {worker[w].payload} /\ UNCHANGED kept
       \/ kept' = kept \cup {worker[w].item.gen} /\ UNCHANGED live
    /\ NextItem(w)
    /\ UNCHANGED <<qvars, run, minted, calls, delivered, phase, sealed, late, keyOf, stopped>>

\* A transient failure under the cap: a superseded generation stops at once.
Retry(w) ==
    /\ worker[w].pc = "done" /\ worker[w].result = "retry" /\ ~ Spent(w)
    /\ IF current(worker[w].item) THEN Step(w, "backoff") ELSE NextItem(w)
    /\ UNCHANGED <<qvars, run, history>>

\* Mutated form of backoffWait: the generation is not checked again after the wait.
backoffWaitOnly(w) ==
    /\ worker[w].pc = "backoff"
    /\ worker' = [worker EXCEPT ![w].pc = "handle", ![w].attempt = @ + 1, ![w].result = "none"]
    /\ UNCHANGED <<qvars, run, history>>

\* The delay elapses and the next attempt begins, unless the generation was
\* superseded meanwhile; or cancellation drops the work.
backoffWait(w) ==
    /\ worker[w].pc = "backoff"
    /\ \/ /\ current(worker[w].item)
          /\ worker' = [worker EXCEPT ![w].pc = "handle", ![w].attempt = @ + 1,
                                      ![w].result = "none"]
       \/ ~ current(worker[w].item) /\ NextItem(w)
       \/ canceled /\ NextItem(w)
    /\ UNCHANGED <<qvars, run, history>>

-----------------------------------------------------------------------------
Init ==
    /\ recs = [k \in Keys |-> NoRec]
    /\ seq = 0
    /\ ch = <<>>
    /\ closed = FALSE
    /\ caller = [c \in Callers |-> NoCall]
    /\ run = "none"
    /\ worker = [w \in Workers |-> [IdleWorker EXCEPT !.pc = "exited"]]
    /\ live = {} /\ minted = {} /\ calls = {} /\ delivered = {} /\ kept = {}
    /\ phase = [g \in Gens |-> "unknown"]
    /\ sealed = [g \in Gens |-> Opaque]
    /\ late = [g \in Gens |-> 0]
    /\ keyOf = [g \in Gens |-> "none"]
    /\ stopped = {}

Admission(c) ==
    \/ \E k \in Keys : \/ Coalesce(c, k) \/ Await(c, k)
                       \/ \E replace \in BOOLEAN : Reserve(c, k, replace)
    \/ Resolved(c) \/ GiveUp(c) \/ Send(c) \/ Commit(c) \/ Rollback(c)

Work(w) ==
    \/ Receive(w) \/ Exit(w) \/ claim(w) \/ Initialize(w) \/ checkpoint(w)
    \/ CallProvider(w) \/ ProviderAnswers(w) \/ HandlerFails(w)
    \/ settle(w) \/ deadLetter(w) \/ Discard(w) \/ Retry(w) \/ backoffWait(w)

Host == RunStart \/ Cancel \/ beginShutdown

Next ==
    \/ \E c \in Callers : Admission(c)
    \/ \E k \in Keys : Expire(k)
    \/ Host
    \/ \E w \in Workers : Work(w)

Spec == Init /\ [][Next]_vars

-----------------------------------------------------------------------------
(* Properties. *)

TypeOK ==
    /\ recs \in [Keys -> Record \cup {NoRec}]
    /\ seq \in 0..MaxGen
    /\ ch \in Seq(Item) /\ Len(ch) <= Capacity
    /\ \A c \in Callers : caller[c].pc # "idle" => caller[c].item \in Item
    /\ \A w \in Workers :
          /\ worker[w].attempt \in 0..MaxAttempts
          /\ worker[w].pc \notin {"idle", "exited"} => worker[w].item \in Item
    /\ live \subseteq minted /\ minted \subseteq Secrets

NotCanceled == ~ closed /\ ~ canceled

\* Where the item of a generation is: with its admitting caller, in the channel,
\* or with a worker that may still act on it.
Carriers(g) ==
    {c \in Callers : caller[c].pc = "send" /\ caller[c].item.gen = g}
    \cup {i \in DOMAIN ch : ch[i].gen = g}
    \cup {w \in Workers : worker[w].item.gen = g /\ worker[w].pc # "discard"}

\* Submit coalesces onto an active record because its generation is still going
\* to be delivered.  Until the host cancels, every active generation is carried
\* by exactly one place (caller, channel or worker), whatever evictions,
\* replacements and failed sends of other generations do to the records.
ActiveIsCarried ==
    NotCanceled => \A k \in Keys : recs[k].active => Cardinality(Carriers(recs[k].gen)) = 1

\* LatestStatus never fabricates an outcome: the record of a key says completed
\* only if the provider accepted the message of that very generation, and running
\* only while a worker holds it (or dropped it when the host canceled).
StatusIsTrue ==
    \A k \in Keys :
        /\ recs[k].state = "completed" => recs[k].gen \in delivered
        /\ recs[k].state = "running" /\ NotCanceled =>
              \E w \in Workers : worker[w].item = [key |-> k, gen |-> recs[k].gen]

\* "Replacement cannot retract a provider call already in flight" but stops all
\* others: superseded while queued or between two attempts, a generation starts
\* no further call; superseded during an attempt, at most the one it was about to.
SupersededStops ==
    \A g \in Gens : late[g] <= IF g \in stopped THEN 0 ELSE 1

\* An active generation loses its key to a later reservation of the same key and
\* to nothing else: retention never evicts it, and a failed send rolls back only
\* its own reservation, never an item that is queued.
OnlyReplaceSupersedes ==
    \A g \in Gens :
        phase[g] \in {"superseded", "canceled"} =>
            \/ \E h \in Gens : h > g /\ keyOf[h] = keyOf[g]
            \/ phase[g] = "canceled" /\ \A i \in DOMAIN ch : ch[i].gen # g

\* A generation that was dead-lettered keeps no live challenge of a message it
\* sent once its discard has run (deadLetter passes the checkpointed payload).
SentSecretsVoided ==
    \A c \in calls :
        (/\ phase[c[1]] = "dead_letter" /\ c[1] \notin kept
         /\ \A w \in Workers : worker[w].item.gen # c[1])
              => c[2] \notin live

\* The contract, seen through the arbiter's records.
Contract == INSTANCE DeliveryContract WITH
    Executions <- Gens, Messages <- Secrets, NoMessage <- Opaque, message <- sealed

\* The in-process mode keeps the same delivery contract as the durable one: a
\* message is fixed once, only it is sent, and a generation ends once.
ImplementsContract == Contract!CSpec

\* The arbiter is sound: the records are well formed and true, each active one
\* has its item, and only a later reservation takes a key away (admit,
\* evictLocked, settle).
ArbiterSound == TypeOK /\ ActiveIsCarried /\ StatusIsTrue /\ OnlyReplaceSupersedes
=============================================================================
