------------------------------- MODULE Events -------------------------------
(***************************************************************************)
(* The events pocket and the memory bus it runs on: the transactional      *)
(* outbox (stores/pgx/outbox.go) drained by its one poller                 *)
(* (logic/outbox/poller.go) through Memory.Dispatch, best-effort           *)
(* notifications through Memory.Emit and the bus workers                   *)
(* (sdk/capabilities/events/memory.go), and the hub that fans events out   *)
(* to streams (internal/hub/hub.go, logic/streams/stream.go).              *)
(*                                                                         *)
(* Records and notices are opaque, every stream accepts every event, and   *)
(* all streams belong to one subject.  The visibility policy answers       *)
(* freely.                                                                 *)
(***************************************************************************)
EXTENDS Naturals, Sequences, FiniteSets

CONSTANTS
    Records,        \* durable events, appended to the outbox, by event_id
    Notices,        \* best-effort events, emitted on the bus
    BusWorkers,     \* the bus's asynchronous workers
    Conns,          \* streams that may be opened
    Batch,          \* entries drained per Poll
    QueueSize,      \* capacity of the bus queue
    BufferSize,     \* capacity of a stream's channel
    MaxPerSubject,  \* streams one subject may hold
    MaxTime,        \* bound: the last instant of created_at
    MaxFaults,      \* bound: handler errors, failed marks and crashes
    Poller,         \* the poller as a dispatcher
    None            \* no event

ASSUME EventsAssumption ==
    /\ Records \subseteq Nat /\ Records \cap Notices = {} /\ None \notin Records \cup Notices
    /\ BusWorkers # {} /\ Poller \notin BusWorkers
    /\ {Batch, QueueSize, BufferSize, MaxPerSubject} \subseteq Nat \ {0}
    /\ {MaxTime, MaxFaults} \subseteq Nat

VARIABLES
    rows,       \* the outbox: the state of each record's row and its created_at
    poller,     \* Poll: its step, the entry in hand, the batch, all it saw
    canceled,   \* the poller's context is done
    disp,       \* the calls of Memory.dispatch in progress
    queue,      \* the bus queue
    bus,        \* "open", "closed" or, once drained, "done"
    hub,        \* "none", "open", "closing" or "closed"
    registered, \* the hub's connections
    stream,     \* the streams: "new", "open", "closing" or "closed"
    buffer,     \* the streams' channels
    hand,       \* the event Stream.Next has taken and not yet answered with
    faults,     \* handler errors, failed marks and crashes so far
    handled,    \* history: records the required handler accepted
    begun,      \* history: records handed over and not interrupted since
    emitted,    \* history: notices that were emitted
    accepted,   \* history: notices the running bus accepted
    finished,   \* history: notices the running bus dispatched
    leaked      \* history: streams that returned a frame after Close

gateway == <<hub, registered, stream, buffer, hand, leaked>>
history == <<handled, begun, emitted, accepted, finished>>
vars == <<rows, poller, canceled, disp, queue, bus, gateway, faults, history>>

Events == Records \cup Notices
Dispatchers == BusWorkers \cup {Poller}
Idle == [pc |-> "idle", ev |-> None, left |-> << >>, failed |-> FALSE, targets |-> {}]
IdlePoller == [pc |-> "idle", ev |-> None, batch |-> {}, seen |-> {}]
NoRow == [state |-> "none", at |-> 0]

\* Without the record Poll is delivering or about to mark.
Interrupted == begun \ {poller.ev}

-----------------------------------------------------------------------------
(* The outbox. *)

\* insertRecords stamps created_at with the clock of the host that emits, inside
\* the emitting store's transaction: hosts may disagree, and stamps may be equal.
AppendTx(e) ==
    /\ rows[e].state = "none"
    /\ \E at \in 0..MaxTime : rows' = [rows EXCEPT ![e] = [state |-> "open", at |-> at]]
    /\ UNCHANGED <<poller, canceled, disp, queue, bus, gateway, faults, history>>

\* The transaction ends; commits need not follow the order of the stamps.
EndTx(e) ==
    /\ rows[e].state = "open"
    /\ \/ rows' = [rows EXCEPT ![e].state = "stored"]
       \/ rows' = [rows EXCEPT ![e] = NoRow]
    /\ UNCHANGED <<poller, canceled, disp, queue, bus, gateway, faults, history>>

Published(e) == rows[e].state \in {"published", "purged"}

PurgePublished(e) ==
    /\ rows[e].state = "published"
    /\ rows' = [rows EXCEPT ![e] = [state |-> "purged", at |-> 0]]
    /\ UNCHANGED <<poller, canceled, disp, queue, bus, gateway, faults, history>>

\* ORDER BY created_at, event_id
Before(e, f) == rows[e].at < rows[f].at \/ (rows[e].at = rows[f].at /\ e < f)

-----------------------------------------------------------------------------
(* Poller.Poll *)

\* Mutated form of unpublished: published_at is not looked at.
anyEntry == {e \in Records : rows[e].state \in {"stored", "published"}}

unpublished == {e \in Records : rows[e].state = "stored"}

\* ListUnpublished: the oldest entries, as many as the batch takes.
listed(batch) ==
    /\ Cardinality(batch) = Batch \/ (batch = unpublished /\ Cardinality(batch) < Batch)
    /\ \A e \in batch, f \in unpublished \ batch : Before(e, f)

Poll ==
    /\ poller.pc = "idle" /\ ~ canceled /\ unpublished # {}
    /\ \E batch \in SUBSET unpublished :
          /\ listed(batch)
          /\ poller' = [pc |-> "admit", ev |-> None, batch |-> batch, seen |-> unpublished]
    /\ UNCHANGED <<rows, canceled, disp, queue, bus, gateway, faults, history>>

\* The loop over the batch goes on behind the entry in hand, or is over.
Onward ==
    poller' = IF poller.batch # {poller.ev}
              THEN [poller EXCEPT !.pc = "admit", !.ev = None, !.batch = @ \ {poller.ev}]
              ELSE IdlePoller

\* Mutated form of Abandon: the poller goes on with the next entry.
AbandonEntry ==
    /\ Onward
    /\ begun' = Interrupted

\* Poll returns an error; the rest of the batch stays unpublished.
Abandon == poller' = IdlePoller /\ begun' = Interrupted

\* The closed check of Memory.Dispatch, under the bus lock, counts the call in.
Admit ==
    /\ poller.pc = "admit"
    /\ \/ (canceled \/ bus # "open") /\ Abandon /\ UNCHANGED disp
       \/ /\ ~ canceled /\ bus = "open"
          /\ \E e \in poller.batch :
                /\ \A f \in poller.batch \ {e} : Before(e, f)
                /\ poller' = [poller EXCEPT !.pc = "dispatch", !.ev = e]
                /\ disp' = [disp EXCEPT ![Poller] = [Idle EXCEPT !.pc = "admitted", !.ev = e]]
                /\ begun' = begun \cup {e}
    /\ UNCHANGED <<rows, canceled, queue, bus, gateway, faults, handled, emitted, accepted,
                   finished>>

MarkPublished ==
    rows' = [rows EXCEPT ![poller.ev].state = IF @ = "stored" THEN "published" ELSE @]

\* The mark and the next entry.  A mark that fails or is cut off by a cancellation
\* may have been committed all the same.
Mark ==
    /\ poller.pc = "mark"
    /\ \/ /\ canceled \/ faults < MaxFaults
          /\ faults' = IF canceled THEN faults ELSE faults + 1
          /\ Abandon
          /\ UNCHANGED rows \/ MarkPublished
       \/ /\ ~ canceled
          /\ MarkPublished
          /\ Onward
          /\ UNCHANGED <<begun, faults>>
    /\ UNCHANGED <<canceled, disp, queue, bus, gateway, handled, emitted, accepted,
                   finished>>

CancelPoller ==
    /\ ~ canceled
    /\ canceled' = TRUE
    /\ UNCHANGED <<rows, poller, disp, queue, bus, gateway, faults, history>>

-----------------------------------------------------------------------------
(* Memory: emitting, dispatching and closing. *)

\* A full queue (ErrCapacity) and a closed bus (ErrClosed) accept nothing.
Emit(n) ==
    /\ n \notin emitted
    /\ emitted' = emitted \cup {n}
    /\ IF bus = "open" /\ Len(queue) < QueueSize
       THEN queue' = queue \o <<n>> /\ accepted' = accepted \cup {n}
       ELSE UNCHANGED <<queue, accepted>>
    /\ UNCHANGED <<rows, poller, canceled, disp, bus, gateway, faults, handled, begun, finished>>

\* Memory.worker: the next notice, or the end once the closed queue is empty.
Take(w) ==
    /\ disp[w].pc = "idle"
    /\ \/ /\ queue # << >>
          /\ disp' = [disp EXCEPT ![w] = [Idle EXCEPT !.pc = "admitted", !.ev = Head(queue)]]
          /\ queue' = Tail(queue)
       \/ /\ queue = << >> /\ bus = "closed"
          /\ disp' = [disp EXCEPT ![w].pc = "gone"]
          /\ UNCHANGED queue
    /\ UNCHANGED <<rows, poller, canceled, bus, gateway, faults, history>>

\* The subscriptions: the required handler, and the hub's ("*") from New until
\* Hub.Close has removed it.
subscriptions == IF hub \in {"open", "closing"} THEN <<"handler", "hub">> ELSE <<"handler">>

\* Memory.dispatch copies the handlers under the lock.
Snapshot(d) ==
    /\ disp[d].pc = "admitted"
    /\ disp' = [disp EXCEPT ![d].pc = "calling", ![d].left = subscriptions]
    /\ UNCHANGED <<rows, poller, canceled, queue, bus, gateway, faults, history>>

\* Only the poller's context is canceled: asynchronous work is detached.
Cut(d) == d = Poller /\ canceled

\* The error of the first handler that failed is the one returned.
firstErr(failed, fails) == failed \/ fails

\* The required handler is called and accepts the event, or fails or panics.
CallHandler(d) ==
    /\ disp[d].pc = "calling" /\ disp[d].left # << >> /\ ~ Cut(d)
    /\ Head(disp[d].left) = "handler"
    /\ \E fails \in BOOLEAN :
          /\ fails => faults < MaxFaults
          /\ faults' = IF fails THEN faults + 1 ELSE faults
          /\ handled' = IF fails THEN handled ELSE handled \cup ({disp[d].ev} \cap Records)
          /\ disp' = [disp EXCEPT ![d].left = Tail(@), ![d].failed = firstErr(@, fails)]
    /\ UNCHANGED <<rows, poller, canceled, queue, bus, gateway, begun, emitted, accepted,
                   finished>>

\* Hub.handle collects the connections under the hub's lock.
CallHub(d) ==
    /\ disp[d].pc = "calling" /\ disp[d].left # << >> /\ ~ Cut(d)
    /\ Head(disp[d].left) = "hub"
    /\ disp' = [disp EXCEPT ![d].pc = IF registered = {} THEN "calling" ELSE "fanout",
                            ![d].left = Tail(@), ![d].targets = registered,
                            ![d].failed = firstErr(@, FALSE)]
    /\ UNCHANGED <<rows, poller, canceled, queue, bus, gateway, faults, history>>

\* Mutated form of Send: the send waits for room.
SendBlocking(d, c) ==
    /\ disp[d].pc = "fanout" /\ c \in disp[d].targets
    /\ Len(buffer[c]) < BufferSize
    /\ buffer' = [buffer EXCEPT ![c] = @ \o <<disp[d].ev>>]
    /\ disp' = [disp EXCEPT ![d].targets = @ \ {c},
                            ![d].pc = IF disp[d].targets = {c} THEN "calling" ELSE "fanout"]
    /\ UNCHANGED <<rows, poller, canceled, queue, bus, hub, registered, stream, hand, leaked,
                   faults, history>>

\* It sends to each without waiting; a full channel drops the event.
Send(d, c) ==
    /\ disp[d].pc = "fanout" /\ c \in disp[d].targets
    /\ buffer' = IF Len(buffer[c]) < BufferSize
                 THEN [buffer EXCEPT ![c] = @ \o <<disp[d].ev>>] ELSE buffer
    /\ disp' = [disp EXCEPT ![d].targets = @ \ {c},
                            ![d].pc = IF disp[d].targets = {c} THEN "calling" ELSE "fanout"]
    /\ UNCHANGED <<rows, poller, canceled, queue, bus, hub, registered, stream, hand, leaked,
                   faults, history>>

\* The call returns.  Poll goes on to the mark only after a clean one.
Return(d) ==
    /\ disp[d].pc = "calling" /\ (disp[d].left = << >> \/ Cut(d))
    /\ disp' = [disp EXCEPT ![d] = Idle]
    /\ IF d = Poller
       THEN /\ IF disp[d].failed \/ canceled THEN Abandon
               ELSE poller' = [poller EXCEPT !.pc = "mark"] /\ UNCHANGED begun
            /\ UNCHANGED finished
       ELSE finished' = finished \cup {disp[d].ev} /\ UNCHANGED <<poller, begun>>
    /\ UNCHANGED <<rows, canceled, queue, bus, gateway, faults, handled, emitted, accepted>>

Close ==
    /\ bus = "open"
    /\ bus' = "closed"
    /\ UNCHANGED <<rows, poller, canceled, disp, queue, gateway, faults, history>>

\* All admitted calls are over: Close returns to everyone who waits.
Drained ==
    /\ bus = "closed" /\ disp[Poller].pc = "idle"
    /\ \A w \in BusWorkers : disp[w].pc = "gone"
    /\ bus' = "done"
    /\ UNCHANGED <<rows, poller, canceled, disp, queue, gateway, faults, history>>

-----------------------------------------------------------------------------
(* The hub and its streams. *)

HubNew ==
    /\ hub = "none" /\ bus = "open"
    /\ hub' = "open"
    /\ UNCHANGED <<rows, poller, canceled, disp, queue, bus, registered, stream, buffer, hand,
                   leaked, faults, history>>

\* Hub.Close forgets the connections, and then unsubscribes.
HubClose ==
    /\ \/ hub = "open" /\ hub' = "closing" /\ registered' = {}
       \/ hub = "closing" /\ hub' = "closed" /\ UNCHANGED registered
    /\ UNCHANGED <<rows, poller, canceled, disp, queue, bus, stream, buffer, hand, leaked,
                   faults, history>>

\* Hub.Connect refuses a closed hub and a subject at its cap.
mayConnect == hub = "open" /\ Cardinality(registered) < MaxPerSubject

\* Hub.remove
unregistered(c) == registered \ {c}

Open(c) ==
    /\ stream[c] = "new" /\ mayConnect
    /\ registered' = registered \cup {c}
    /\ stream' = [stream EXCEPT ![c] = "open"]
    /\ UNCHANGED <<rows, poller, canceled, disp, queue, bus, hub, buffer, hand, leaked, faults,
                   history>>

\* Stream.Next takes an event off the channel; one that was already waiting there
\* when the stream was closed may still do so.
Receive(c) ==
    /\ stream[c] # "new" /\ hand[c] = None /\ buffer[c] # << >>
    /\ hand' = [hand EXCEPT ![c] = Head(buffer[c])]
    /\ buffer' = [buffer EXCEPT ![c] = Tail(@)]
    /\ UNCHANGED <<rows, poller, canceled, disp, queue, bus, hub, registered, stream, leaked,
                   faults, history>>

\* Mutated form of answers: Close is not looked for again.
answersAnyway(c) == TRUE

\* The stream is looked at again once the policy has answered.
answers(c) == stream[c] = "open"

\* The policy denies the event, or allows it and Next returns the frame.
NextFrame(c) ==
    /\ hand[c] # None
    /\ hand' = [hand EXCEPT ![c] = None]
    /\ \/ UNCHANGED leaked
       \/ answers(c) /\ leaked' = IF stream[c] = "open" THEN leaked ELSE leaked \cup {c}
    /\ UNCHANGED <<rows, poller, canceled, disp, queue, bus, hub, registered, stream, buffer,
                   faults, history>>

\* Stream.Close closes done, and then unregisters.
StreamClose(c) ==
    /\ \/ stream[c] = "open" /\ stream' = [stream EXCEPT ![c] = "closing"] /\ UNCHANGED registered
       \/ /\ stream[c] = "closing" /\ stream' = [stream EXCEPT ![c] = "closed"]
          /\ registered' = unregistered(c)
    /\ UNCHANGED <<rows, poller, canceled, disp, queue, bus, hub, buffer, hand, leaked, faults,
                   history>>

-----------------------------------------------------------------------------
Init ==
    /\ rows = [e \in Records |-> NoRow]
    /\ poller = IdlePoller /\ canceled = FALSE
    /\ disp = [d \in Dispatchers |-> Idle]
    /\ queue = << >> /\ bus = "open" /\ hub = "none"
    /\ registered = {} /\ stream = [c \in Conns |-> "new"]
    /\ buffer = [c \in Conns |-> << >>] /\ hand = [c \in Conns |-> None] /\ leaked = {}
    /\ faults = 0 /\ handled = {} /\ begun = {}
    /\ emitted = {} /\ accepted = {} /\ finished = {}

\* The process dies and is started again: open transactions roll back, and what
\* was emitted and not dispatched is lost.
Crash ==
    /\ faults < MaxFaults /\ faults' = faults + 1
    /\ rows' = [e \in Records |-> IF rows[e].state = "open" THEN NoRow ELSE rows[e]]
    /\ poller' = IdlePoller /\ canceled' = FALSE
    /\ disp' = [d \in Dispatchers |-> Idle]
    /\ queue' = << >> /\ bus' = "open" /\ hub' = "none"
    /\ registered' = {} /\ stream' = [c \in Conns |-> "new"]
    /\ buffer' = [c \in Conns |-> << >>] /\ hand' = [c \in Conns |-> None]
    /\ begun' = Interrupted /\ accepted' = {} /\ finished' = {}
    /\ UNCHANGED <<leaked, handled, emitted>>

Dispatch(d) ==
    \/ Snapshot(d) \/ CallHandler(d) \/ CallHub(d) \/ Return(d)
    \/ \E c \in Conns : Send(d, c)

PollerStep == Poll \/ Admit \/ Mark \/ Dispatch(Poller)
WorkerStep(w) == Take(w) \/ Dispatch(w)

Next ==
    \/ \E e \in Records : AppendTx(e) \/ EndTx(e) \/ PurgePublished(e)
    \/ PollerStep \/ CancelPoller
    \/ \E w \in BusWorkers : WorkerStep(w)
    \/ \E n \in Notices : Emit(n)
    \/ Close \/ Drained \/ HubNew \/ HubClose
    \/ \E c \in Conns : Open(c) \/ Receive(c) \/ NextFrame(c) \/ StreamClose(c)
    \/ Crash

Spec == Init /\ [][Next]_vars

-----------------------------------------------------------------------------
(* Properties. *)

\* The queue, the channels and a subject's streams stay within their limits, and
\* the poller waits for a dispatch exactly while the bus runs one for it.
TypeOK ==
    /\ rows \in [Records -> [state : {"none", "open", "stored", "published", "purged"},
                             at : 0..MaxTime]]
    /\ poller.pc \in {"idle", "admit", "dispatch", "mark"}
    /\ poller.batch \subseteq Records /\ poller.seen \subseteq Records
    /\ (poller.pc = "dispatch") <=> (disp[Poller].pc # "idle")
    /\ Len(queue) <= QueueSize /\ \A c \in Conns : Len(buffer[c]) <= BufferSize
    /\ Cardinality(registered) <= MaxPerSubject
    /\ bus \in {"open", "closed", "done"} /\ faults \in 0..MaxFaults

\* A published entry was accepted by the required handler, whatever failed, was
\* canceled, closed or crashed on the way (Poll: "leaves entries unpublished on
\* delivery failure or cancellation").
PublishedWasHandled == \A e \in Records : Published(e) => e \in handled

\* "Later rows remain blocked until the head can be delivered" (README): an
\* entry is handed over only when every older one the poller saw is published.
HeadBlocks ==
    poller.pc \in {"dispatch", "mark"} =>
        \A e \in poller.seen : Before(e, poller.ev) => Published(e)

\* A record is handed over again only if its own delivery or mark was
\* interrupted: the failure of one entry replays no other.
ReplayIsConfined ==
    [][\A e \in Records :
          (disp[Poller].ev # e /\ disp'[Poller].ev = e) => e \notin begun]_vars

\* When Close returns, everything the bus accepted was dispatched and no handler
\* is running ("every caller waits for the same admitted work").
CloseDrains ==
    bus = "done" =>
        /\ accepted \subseteq finished /\ queue = << >>
        /\ \A d \in Dispatchers : disp[d].pc \in {"idle", "gone"}

\* No frame is returned by a stream that was closed, however the close falls
\* between the receipt of an event and the answer of the policy.
ClosedStreamSilent == leaked = {}

\* Nothing holds a delivery up: Poll, once begun, can always take its next step,
\* although a stream stops reading for ever, the hub is closed under a fan-out or
\* the bus is closed under a dispatch ("never blocking the emitter").
PollNeverStuck == poller.pc # "idle" => ENABLED PollerStep

\* Close never waits for something that cannot happen: until it returns, a call
\* that was admitted, or a worker that is about to end, can take its next step.
CloseNeverStuck ==
    bus = "closed" =>
        \/ ENABLED Drained
        \/ \E w \in BusWorkers : ENABLED Take(w)
        \/ \E d \in Dispatchers : disp[d].pc \in {"admitted", "calling", "fanout"} /\ ENABLED Dispatch(d)

\* The outbox is delivered in order and at least once: its rows and channels
\* are well formed, an entry is marked only after it was handled, and handed over
\* only after the ones before it were marked (Poll).
OutboxSound == TypeOK /\ PublishedWasHandled /\ HeadBlocks

\* Close is orderly: it returns only when all that was admitted is done, and a
\* closed stream says nothing (Memory.Close, Stream.Close).
CloseSound == CloseDrains /\ ClosedStreamSilent

\* Nobody is held up by a reader that stops or by a Close that races the work:
\* neither Poll nor Memory.Close can get stuck.
NeverHeldUp == PollNeverStuck /\ CloseNeverStuck
=============================================================================
