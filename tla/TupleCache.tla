----------------------------- MODULE TupleCache -----------------------------
(***************************************************************************)
(* The authorization tuple cache (logic/tuplecache): replicas mirror the   *)
(* permission tuples of one SQL source (stores/pgx/tuple_source.go) in a   *)
(* shared backend (stores/memory/tuple_cache.go, whose contract the Redis  *)
(* backend follows) and answer checks from the mirror while it is fresh.   *)
(*                                                                         *)
(* Every source transaction, backend call and backend publication is one   *)
(* step.  A tuple stands for the two index sets it is filed under, so      *)
(* reading a set is reading whether one tuple is present.                  *)
(***************************************************************************)
EXTENDS Integers, Sequences

CONSTANTS
    Tuples,        \* canonical tuples
    Seeded,        \* the facts stored before the first replica starts
    NoTuple,       \* the payload of a reset (TRUNCATE) event
    Replicas,      \* processes sharing the database and the backend
    Readers,       \* the replicas that also evaluate checks
    Receipts,      \* delivery receipts (random, never repeated)
    NoReceipt,     \* the empty receipt
    MaxStaleness,  \* Policy.MaxStaleness
    MaxTime,       \* bound: clock ticks
    MaxEvents,     \* bound: outbox IDs
    MaxFaults      \* bound: rollbacks, resets, recreations, failed calls, evictions and closes

ASSUME TupleCacheAssumption ==
    /\ Seeded \subseteq Tuples
    /\ NoTuple \notin Tuples /\ NoReceipt \notin Receipts
    /\ Readers \subseteq Replicas
    /\ MaxStaleness \in Nat \ {0} /\ MaxTime \in Nat /\ MaxEvents \in Nat
    /\ MaxFaults \in Nat

VARIABLES
    facts,      \* iam_tuples
    outbox,     \* iam_tuple_outbox
    receipt,    \* the receipt in iam_tuple_cache
    lastID,     \* the outbox identity sequence
    writing,    \* open transactions: the event ID each changed tuple has reserved
    recreated,  \* the database behind the source was recreated or repointed
    mirror,     \* the backend's mirror
    issued,     \* receipts minted so far
    now,
    faults,     \* how many faults have happened
    status,     \* each replica's cache
    poll,       \* each replica's delivery in flight
    read,       \* each reader's operation in flight
    history     \* every version of facts, and when the next one replaced it

source == <<facts, outbox, receipt, lastID, writing, recreated, history>>
vars == <<source, mirror, issued, now, faults, status, poll, read>>

Times == 0..MaxTime
Never == MaxTime + MaxStaleness + 1
Event == [id : 1..MaxEvents, tuple : Tuples \cup {NoTuple}, add : BOOLEAN]
Mirror == [receipt : Receipts \cup {NoReceipt}, tuples : SUBSET Tuples,
           until : 0..(MaxTime + MaxStaleness), version : Nat]
NoMirror == [receipt |-> NoReceipt, tuples |-> {}, until |-> 0, version |-> 0]

Idle == [pc |-> "idle"]

\* The flags of a TupleCache: "ready" after a successful delivery, "detached"
\* once the source changed its identity, "closed" (which outranks both) by Close.
Statuses == {"cold", "ready", "detached", "closed"}

\* The locals of TupleCache.poll: "snapshot" before Source.Snapshot, "publish"
\* before Backend.Publish, "ack" before Source.Acknowledge.
Snap == [full : BOOLEAN, receipt : Receipts \cup {NoReceipt}, tuples : SUBSET Tuples,
         changes : SUBSET Event, version : Nat]
PollState ==
    {Idle}
    \cup [pc : {"snapshot"}, before : Receipts \cup {NoReceipt}, started : Times]
    \cup [pc : {"publish"}, before : Receipts \cup {NoReceipt}, started : Times,
          snap : Snap, next : Receipts]
    \cup [pc : {"ack"}, receipt : Receipts \cup {NoReceipt}, changes : SUBSET Event,
          next : Receipts]

\* The locals of TupleCache.attempt; view is what cachedReads has memoized.
IsRead(x) ==
    \/ x = Idle
    \/ /\ x.pc = "eval" /\ x.state \in Receipts
       /\ DOMAIN x.view \subseteq Tuples /\ \A t \in DOMAIN x.view : x.view[t] \in BOOLEAN

\* The facts in a set of tuples once the changes are applied in ID order: the
\* last change of a tuple decides.
Applied(tuples, changes) ==
    {t \in Tuples :
        LET own == {e \in changes : e.tuple = t}
        IN IF own = {} THEN t \in tuples
           ELSE \E e \in own : e.add /\ \A f \in own : f.id <= e.id}

\* A step that leaves the source alone; one the bound on faults counts, and one
\* it does not.
SourceQuiet == UNCHANGED source
Fault == faults < MaxFaults /\ faults' = faults + 1
NoFault == UNCHANGED faults

-----------------------------------------------------------------------------
(* The SQL source: writers, and the capture trigger in their transactions. *)

\* A committed change: the facts, and the version they replace.
Replace(newFacts) ==
    /\ facts' = newFacts
    /\ history' = Append([history EXCEPT ![Len(history)].ended = now],
                         [facts |-> newFacts, ended |-> Never])

\* A transaction inserts or deletes a tuple: the row lock is held and the event
\* ID reserved until it ends, so other IDs may commit in between.
Write(t) ==
    /\ t \notin DOMAIN writing /\ lastID < MaxEvents
    /\ lastID' = lastID + 1
    /\ writing' = [u \in DOMAIN writing \cup {t} |-> IF u = t THEN lastID' ELSE writing[u]]
    /\ UNCHANGED <<facts, outbox, receipt, recreated, history>>
    /\ UNCHANGED <<mirror, issued, now, status, poll, read>> /\ NoFault

Ended(t) == writing' = [u \in DOMAIN writing \ {t} |-> writing[u]]

Commit(t) ==
    /\ t \in DOMAIN writing
    /\ LET add == t \notin facts
       IN /\ Replace(IF add THEN facts \cup {t} ELSE facts \ {t})
          /\ outbox' = outbox \cup {[id |-> writing[t], tuple |-> t, add |-> add]}
    /\ Ended(t)
    /\ UNCHANGED <<receipt, lastID, recreated>>
    /\ UNCHANGED <<mirror, issued, now, status, poll, read>> /\ NoFault

Rollback(t) ==
    /\ Fault
    /\ t \in DOMAIN writing
    /\ Ended(t)
    /\ UNCHANGED <<facts, outbox, receipt, lastID, recreated, history>>
    /\ UNCHANGED <<mirror, issued, now, status, poll, read>>

\* TRUNCATE takes the table lock and captures one reset event.
Truncate ==
    /\ Fault
    /\ DOMAIN writing = {} /\ lastID < MaxEvents
    /\ lastID' = lastID + 1
    /\ Replace({})
    /\ outbox' = outbox \cup {[id |-> lastID', tuple |-> NoTuple, add |-> FALSE]}
    /\ UNCHANGED <<receipt, writing, recreated>>
    /\ UNCHANGED <<mirror, issued, now, status, poll, read>>

\* The database is recreated or repointed while the replicas run: another
\* identity, no facts, no events and an empty receipt.
Recreate ==
    /\ Fault
    /\ ~ recreated
    /\ recreated' = TRUE
    /\ Replace({})
    /\ outbox' = {} /\ receipt' = NoReceipt /\ writing' = << >>
    /\ UNCHANGED lastID
    /\ UNCHANGED <<mirror, issued, now, status, poll, read>>

-----------------------------------------------------------------------------
(* TupleCache.poll: one delivery at a time per replica. *)

\* Any error or timeout, and a crash that loses the delivery.
Fails(r) == poll' = [poll EXCEPT ![r] = Idle] /\ UNCHANGED status

Flag(r, flag) == status' = [status EXCEPT ![r] = IF @ = "closed" THEN @ ELSE flag]

\* Source.readReceipt saw another identity: the replica never publishes again.
Detaches(r) == poll' = [poll EXCEPT ![r] = Idle] /\ Flag(r, "detached")

Succeeds(r) == poll' = [poll EXCEPT ![r] = Idle] /\ Flag(r, "ready")

\* Poll or Rebuild takes the gate and reads the backend's state.
PollStart(r) ==
    /\ poll[r] = Idle
    /\ status[r] \notin {"closed", "detached"}
    /\ poll' = [poll EXCEPT ![r] = [pc |-> "snapshot", before |-> mirror.receipt, started |-> now]]
    /\ SourceQuiet /\ UNCHANGED <<mirror, issued, now, status, read>> /\ NoFault

\* Source.Snapshot: what one read transaction sees.
snapshotOf(mirrored) ==
    LET full == mirrored = NoReceipt \/ mirrored # receipt \/ \E e \in outbox : e.tuple = NoTuple
    IN [full |-> full, receipt |-> receipt, tuples |-> IF full THEN facts ELSE {},
        changes |-> outbox, version |-> Len(history)]

\* A full or changed snapshot goes under a fresh receipt, an unchanged one
\* renews the mirror under its own.  rebuild is a Rebuild, or a Poll that
\* fullRebuildDue promotes when its clock says so.  A cache closed by now drops it.
PollSnapshot(r, rebuild) ==
    /\ poll[r].pc = "snapshot"
    /\ \/ recreated /\ Detaches(r) /\ UNCHANGED issued
       \/ ~ recreated /\ status[r] = "closed" /\ Fails(r) /\ UNCHANGED issued
       \/ /\ ~ recreated /\ status[r] # "closed"
          /\ LET snap == snapshotOf(IF rebuild THEN NoReceipt ELSE poll[r].before)
                 held(next) == [pc |-> "publish", before |-> poll[r].before,
                                started |-> poll[r].started, snap |-> snap, next |-> next]
             IN IF snap.full \/ snap.changes # {}
                THEN \E next \in Receipts \ issued :
                        /\ poll' = [poll EXCEPT ![r] = held(next)]
                        /\ issued' = issued \cup {next}
                ELSE poll' = [poll EXCEPT ![r] = held(poll[r].before)] /\ UNCHANGED issued
          /\ UNCHANGED status
    /\ SourceQuiet /\ UNCHANGED <<mirror, now, read>> /\ NoFault

\* Mutated form of deadline: freshness is counted from the publication.
deadlineFromPublish(r) == now + MaxStaleness

\* The eligibility a publication gives: MaxStaleness from before the snapshot.
deadline(r) == poll[r].started + MaxStaleness

\* Backend.Publish's conditions: the expected mirror, and time left.
mayPublish(r) ==
    /\ mirror.receipt = poll[r].before
    /\ now < deadline(r)

Published(r) ==
    LET snap == poll[r].snap
    IN [receipt |-> poll[r].next,
        tuples |-> IF snap.full THEN snap.tuples ELSE Applied(mirror.tuples, snap.changes),
        until |-> deadline(r), version |-> snap.version]

\* A Close is noticed only if it comes before the call.
Publish(r) ==
    /\ poll[r].pc = "publish"
    /\ \/ /\ mayPublish(r)
          /\ mirror' = Published(r)
          /\ IF poll[r].next = poll[r].before
             THEN Succeeds(r)
             ELSE /\ poll' = [poll EXCEPT ![r] =
                        [pc |-> "ack", receipt |-> poll[r].snap.receipt,
                         changes |-> poll[r].snap.changes, next |-> poll[r].next]]
                  /\ UNCHANGED status
       \/ (~ mayPublish(r) \/ status[r] = "closed") /\ Fails(r) /\ UNCHANGED mirror
    /\ SourceQuiet /\ UNCHANGED <<issued, now, read>> /\ NoFault

\* Mutated form of Unacknowledged: everything up to the last ID is deleted.
UnacknowledgedBeyond(changes) == {e \in outbox : \A f \in changes : e.id > f.id}

\* The outbox without exactly the captured events.
Unacknowledged(changes) == outbox \ changes

\* Source.Acknowledge: the receipt and the captured events, in one transaction.
\* When its answer is lost, the replica does not become ready.
Acknowledge(r) ==
    /\ poll[r].pc = "ack"
    /\ \/ /\ ~ recreated /\ receipt = poll[r].receipt
          /\ receipt' = poll[r].next
          /\ outbox' = Unacknowledged(poll[r].changes)
          /\ Succeeds(r) \/ Fails(r)
       \/ /\ ~ recreated /\ receipt # poll[r].receipt
          /\ Fails(r) /\ UNCHANGED <<receipt, outbox>>
       \/ recreated /\ Detaches(r) /\ UNCHANGED <<receipt, outbox>>
    /\ UNCHANGED <<facts, lastID, writing, recreated, history>>
    /\ UNCHANGED <<mirror, issued, now, read>> /\ NoFault

\* A call fails, times out or is never answered, before or after it took effect.
PollFails(r) ==
    /\ Fault
    /\ poll[r] # Idle
    /\ Fails(r)
    /\ SourceQuiet /\ UNCHANGED <<mirror, issued, now, read>>

-----------------------------------------------------------------------------
(* TupleCache.Run: an attempt over the mirror, then the durable snapshot. *)

\* Backend.Read answers only from the publication the operation began with.
readable(state) == mirror.receipt = state /\ now < mirror.until

RunStart(r) ==
    /\ read[r] = Idle
    /\ status[r] = "ready" /\ mirror.receipt # NoReceipt
    /\ read' = [read EXCEPT ![r] = [pc |-> "eval", state |-> mirror.receipt, view |-> << >>]]
    /\ SourceQuiet /\ UNCHANGED <<mirror, issued, now, status, poll>> /\ NoFault

\* cachedReads.read: a set is fetched once and memoized.
ReadSet(r, t) ==
    /\ read[r].pc = "eval" /\ t \notin DOMAIN read[r].view
    /\ readable(read[r].state)
    /\ read' = [read EXCEPT ![r].view =
          [u \in DOMAIN @ \cup {t} |-> IF u = t THEN t \in mirror.tuples ELSE @[u]]]
    /\ SourceQuiet /\ UNCHANGED <<mirror, issued, now, status, poll>> /\ NoFault

\* The final validation: the publication is still eligible and the cache open.
mayServe(r) ==
    /\ read[r].pc = "eval"
    /\ readable(read[r].state) /\ status[r] # "closed"

\* The answer is handed out; or a set or the validation could not be read, the
\* read timed out or the cache closed, and the evaluation starts over inside one
\* durable snapshot of the source.
RunEnd(r) ==
    /\ read[r].pc = "eval"
    /\ read' = [read EXCEPT ![r] = Idle]
    /\ SourceQuiet /\ UNCHANGED <<mirror, issued, now, status, poll>> /\ NoFault

-----------------------------------------------------------------------------
(* The surroundings. *)

Close(r) ==
    /\ Fault
    /\ status[r] # "closed"
    /\ status' = [status EXCEPT ![r] = "closed"]
    /\ SourceQuiet /\ UNCHANGED <<mirror, issued, now, poll, read>>

\* The backend loses the mirror: expiry, eviction, a flush, a failed header.
Evict ==
    /\ Fault
    /\ mirror.receipt # NoReceipt
    /\ mirror' = NoMirror
    /\ SourceQuiet /\ UNCHANGED <<issued, now, status, poll, read>>

Tick ==
    /\ now < MaxTime
    /\ now' = now + 1
    /\ SourceQuiet /\ UNCHANGED <<mirror, issued, status, poll, read>> /\ NoFault

-----------------------------------------------------------------------------

Init ==
    /\ facts = Seeded
    /\ outbox = {} /\ receipt = NoReceipt /\ lastID = 0 /\ writing = << >>
    /\ recreated = FALSE
    /\ mirror = NoMirror /\ issued = {} /\ now = 0 /\ faults = 0
    /\ status = [r \in Replicas |-> "cold"]
    /\ poll = [r \in Replicas |-> Idle]
    /\ read = [r \in Readers |-> Idle]
    /\ history = <<[facts |-> Seeded, ended |-> Never]>>

Mutation == (\E t \in Tuples : Write(t) \/ Commit(t) \/ Rollback(t)) \/ Truncate \/ Recreate

Delivery ==
    \E r \in Replicas :
        \/ PollStart(r) \/ (\E rebuild \in BOOLEAN : PollSnapshot(r, rebuild))
        \/ Publish(r) \/ Acknowledge(r) \/ PollFails(r)

Reading ==
    \E r \in Readers :
        \/ RunStart(r) \/ RunEnd(r)
        \/ \E t \in Tuples : ReadSet(r, t)

Next == Mutation \/ Delivery \/ Reading \/ (\E r \in Replicas : Close(r)) \/ Evict \/ Tick

Spec == Init /\ [][Next]_vars

-----------------------------------------------------------------------------

\* The source's tables, the mirror, every delivery and every read in flight are
\* well formed; a mirror is published only under a receipt minted for it.
TypeOK ==
    /\ facts \subseteq Tuples /\ outbox \subseteq Event
    /\ receipt \in Receipts \cup {NoReceipt} /\ lastID \in 0..MaxEvents
    /\ DOMAIN writing \subseteq Tuples /\ \A t \in DOMAIN writing : writing[t] \in 1..lastID
    /\ recreated \in BOOLEAN /\ mirror \in Mirror /\ issued \subseteq Receipts
    /\ now \in Times /\ faults \in 0..MaxFaults
    /\ status \in [Replicas -> Statuses]
    /\ \A r \in Replicas : poll[r] \in PollState
    /\ \A r \in Readers : IsRead(read[r])

\* A receipt names one publication: whenever the mirror carries the source's
\* receipt, the mirror and the undelivered events together are exactly the
\* facts, so a later delta is complete.  Events may commit out of ID order,
\* deliveries of several replicas overlap and fail between publication and
\* acknowledgement.
MirrorPlusOutbox ==
    (mirror.receipt = receipt /\ receipt # NoReceipt /\ ~ \E e \in outbox : e.tuple = NoTuple) =>
        Applied(mirror.tuples, outbox) = facts

\* "MaxStaleness bounds how long a revocation may remain unseen" (Policy), and
\* an evaluation is one coherent view (ReadTupleSnapshot): every answer from the
\* cache is what the database held at one moment, and a change it has not seen
\* was committed less than MaxStaleness ago.
ServedRecently ==
    \A r \in Readers : mayServe(r) => \E v \in 1..Len(history) :
        /\ \A t \in DOMAIN read[r].view : read[r].view[t] = (t \in history[v].facts)
        /\ now < history[v].ended + MaxStaleness

\* The shared state is sound: well formed, and the mirror with the events still
\* to be delivered gives the facts (Snapshot, Publish, Acknowledge).
CacheSound == TypeOK /\ MirrorPlusOutbox
=============================================================================
