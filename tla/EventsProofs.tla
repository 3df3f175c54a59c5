---------------------------- MODULE EventsProofs ----------------------------
(***************************************************************************)
(* The outbox and the bus, for every number of records, notices, workers   *)
(* and streams.                                                            *)
(*                                                                         *)
(* The argument: of what a poll saw, an entry is published, or it is still *)
(* in the batch, or it is younger than the whole batch; and the entry in   *)
(* hand is the oldest of the batch.  A notice the bus accepted is queued,  *)
(* or a worker has it, or it was dispatched; and a worker ends only when   *)
(* the bus is closed and the queue empty.                                  *)
(***************************************************************************)
EXTENDS Events, FiniteSetTheorems, TLAPS

Row == [state : {"none", "open", "stored", "published", "purged"}, at : 0..MaxTime]
PollState == [pc : {"idle", "admit", "dispatch", "mark"}, ev : Records \cup {None},
              batch : SUBSET Records, seen : SUBSET Records]
Lefts == {<< >>, <<"hub">>, <<"handler">>, <<"handler", "hub">>}
Call == [pc : {"idle", "admitted", "calling", "fanout", "gone"}, ev : Events \cup {None},
         left : Lefts, failed : BOOLEAN, targets : SUBSET Conns]

\* The calls in progress.
Running(d) == disp[d].pc \in {"admitted", "calling", "fanout"}

\* The types of the state, with the limits of the queue, the channels and the
\* streams of a subject.
Shape ==
    /\ rows \in [Records -> Row] /\ poller \in PollState /\ canceled \in BOOLEAN
    /\ disp \in [Dispatchers -> Call]
    /\ queue \in Seq(Notices) /\ Len(queue) <= QueueSize
    /\ buffer \in [Conns -> Seq(Events)] /\ \A c \in Conns : Len(buffer[c]) <= BufferSize
    /\ registered \subseteq Conns /\ IsFiniteSet(registered)
    /\ Cardinality(registered) <= MaxPerSubject
    /\ bus \in {"open", "closed", "done"} /\ faults \in 0..MaxFaults
    /\ begun \subseteq Records /\ accepted \subseteq Notices /\ leaked = {}

\* The poller and the call the bus runs for it agree.
PollerCalls ==
    /\ poller.pc \in {"idle", "admit"} => poller.ev = None
    /\ poller.pc \in {"dispatch", "mark"} => poller.ev \in poller.batch
    /\ poller.pc = "admit" => poller.batch # {}
    /\ (poller.pc = "dispatch") <=> Running(Poller)
    /\ disp[Poller].pc # "gone"
    /\ disp[Poller].ev = IF poller.pc = "dispatch" THEN poller.ev ELSE None

\* What becomes of the entries a poll saw: they leave the batch published, the
\* ones left out are younger than the batch, and the one in hand is its oldest.
Settled(e) == rows[e].state \in {"stored", "published", "purged"}
EntriesHold ==
    poller.pc # "idle" =>
        /\ \A e \in poller.batch : rows[e].state = "stored"
        /\ \A e \in poller.seen : Settled(e)
        /\ \A e \in poller.seen \ poller.batch :
              Published(e) \/ \A f \in poller.batch : Before(f, e)
        /\ poller.ev # None => \A f \in poller.batch \ {poller.ev} : Before(poller.ev, f)

\* What was handed over was published since, or is in hand.
BegunHolds == \A e \in begun : Published(e) \/ e = poller.ev

\* The required handler comes first, so a call without an error that has passed
\* it was accepted.
Accepts(l) == l.pc \in {"calling", "fanout"} /\ l.left \in {<< >>, <<"hub">>} /\ ~ l.failed
HandledHolds ==
    /\ PublishedWasHandled
    /\ poller.pc = "mark" => poller.ev \in handled
    /\ Accepts(disp[Poller]) => disp[Poller].ev \in handled

\* Where an accepted notice is, and when a worker has ended.
Queued(n) == \E i \in 1..Len(queue) : queue[i] = n
BusHolds ==
    /\ \A w \in BusWorkers : Running(w) => disp[w].ev \in Notices
    /\ \A n \in accepted :
          \/ n \in finished \/ Queued(n)
          \/ \E w \in BusWorkers : Running(w) /\ disp[w].ev = n
    /\ \A w \in BusWorkers : disp[w].pc = "gone" => queue = << >> /\ bus # "open"
    /\ bus = "done" =>
          /\ \A w \in BusWorkers : disp[w].pc = "gone"
          /\ disp[Poller].pc = "idle"

EInv == Shape /\ PollerCalls /\ EntriesHold /\ BegunHolds /\ HandledHolds /\ BusHolds

\* The assumptions on the constants, as the proofs use them.
LEMMA Constants ==
  /\ None \notin Records /\ None \notin Notices /\ Records \subseteq Nat
  /\ Records \cap Notices = {} /\ Poller \notin BusWorkers /\ BusWorkers # {}
  /\ Batch \in Nat /\ Batch # 0 /\ QueueSize \in Nat /\ BufferSize \in Nat
  /\ MaxPerSubject \in Nat /\ MaxFaults \in Nat /\ MaxTime \in Nat
  BY EventsAssumption DEF EventsAssumption

\* The order of the listing is strict.
LEMMA BeforeStrict ==
  ASSUME Shape, NEW e \in Records, NEW f \in Records, Before(e, f)
  PROVE  e # f /\ ~ Before(f, e)
  <1>1. e \in Nat /\ f \in Nat /\ rows[e].at \in Nat /\ rows[f].at \in Nat
    BY Constants DEF Shape, Row
  <1> QED BY <1>1 DEF Before

\* The invariant has the properties of the outbox.
LEMMA EInvSound ==
  ASSUME EInv
  PROVE  OutboxSound
  <1>1. TypeOK
    <2>1. Poller \in Dispatchers /\ disp[Poller] \in Call
      BY DEF EInv, Shape, Dispatchers
    <2>2. (poller.pc = "dispatch") <=> (disp[Poller].pc # "idle")
      BY <2>1 DEF EInv, PollerCalls, Running, Call
    <2> QED BY <2>2 DEF EInv, Shape, TypeOK, Row, PollState
  <1>2. PublishedWasHandled
    BY DEF EInv, HandledHolds
  <1>3. HeadBlocks
    <2> SUFFICES ASSUME poller.pc \in {"dispatch", "mark"}, NEW e \in poller.seen,
                        Before(e, poller.ev)
                 PROVE  Published(e)
      BY DEF HeadBlocks
    <2>1. /\ poller.ev \in poller.batch /\ poller.ev \in Records /\ e \in Records
          /\ poller.ev # None
      BY Constants DEF EInv, Shape, PollState, PollerCalls
    <2>2. e # poller.ev /\ ~ Before(poller.ev, e)
      BY <2>1, BeforeStrict DEF EInv
    <2>3. e \notin poller.batch
      BY <2>1, <2>2 DEF EInv, EntriesHold
    <2> QED BY <2>1, <2>2, <2>3 DEF EInv, EntriesHold
  <1> QED BY <1>1, <1>2, <1>3 DEF OutboxSound

\* ... and of Close.
LEMMA EInvCloses ==
  ASSUME EInv
  PROVE  CloseSound
  <1>1. CloseDrains
    <2> SUFFICES ASSUME bus = "done"
                 PROVE  /\ accepted \subseteq finished /\ queue = << >>
                        /\ \A d \in Dispatchers : disp[d].pc \in {"idle", "gone"}
      BY DEF CloseDrains
    <2>1. /\ \A w \in BusWorkers : disp[w].pc = "gone" /\ ~ Running(w)
          /\ disp[Poller].pc = "idle"
      BY DEF EInv, BusHolds, Running
    <2>2. queue = << >>
      BY <2>1, Constants DEF EInv, BusHolds
    <2>3. \A n : ~ Queued(n)
      BY <2>2 DEF Queued
    <2>4. accepted \subseteq finished
      BY <2>1, <2>3 DEF EInv, BusHolds
    <2> QED BY <2>1, <2>2, <2>4 DEF Dispatchers
  <1> QED BY <1>1 DEF EInv, Shape, CloseSound, ClosedStreamSilent

LEMMA InitEInv ==
  ASSUME Init
  PROVE  EInv
  <1>1. NoRow \in Row /\ Idle \in Call /\ IdlePoller \in PollState
    BY Constants DEF NoRow, Row, Idle, Call, Lefts, IdlePoller, PollState
  <1>2. IsFiniteSet({}) /\ Cardinality({}) = 0
    BY FS_EmptySet
  <1>3. Shape
    <2>1. << >> \in Seq(Notices) /\ << >> \in Seq(Events) /\ Len(<< >>) = 0
      OBVIOUS
    <2>2. queue \in Seq(Notices) /\ Len(queue) <= QueueSize
      BY <2>1, Constants DEF Init
    <2>3. buffer \in [Conns -> Seq(Events)] /\ \A c \in Conns : Len(buffer[c]) <= BufferSize
      BY <2>1, Constants DEF Init
    <2>4. /\ registered \subseteq Conns /\ IsFiniteSet(registered)
          /\ Cardinality(registered) <= MaxPerSubject /\ faults \in 0..MaxFaults
      BY <1>2, Constants DEF Init
    <2>5. /\ rows \in [Records -> Row] /\ poller \in PollState /\ canceled \in BOOLEAN
          /\ disp \in [Dispatchers -> Call]
      BY <1>1 DEF Init
    <2> QED BY <2>2, <2>3, <2>4, <2>5 DEF Init, Shape
  <1>4. /\ disp[Poller] = Idle /\ \A w \in BusWorkers : disp[w] = Idle
        /\ \A e \in Records : rows[e] = NoRow
    BY DEF Init, Dispatchers
  <1>5. PollerCalls /\ EntriesHold /\ BegunHolds
    BY <1>4 DEF Init, PollerCalls, EntriesHold, BegunHolds, IdlePoller, Idle, Running
  <1>6. HandledHolds
    BY <1>4 DEF Init, HandledHolds, PublishedWasHandled, Published, NoRow, Accepts, IdlePoller, Idle
  <1>7. BusHolds
    <2>1. \A w \in BusWorkers : disp[w].pc = "idle" /\ ~ Running(w)
      BY <1>4 DEF Idle, Running
    <2>2. accepted = {} /\ bus = "open"
      BY DEF Init
    <2> QED BY <2>1, <2>2 DEF BusHolds
  <1> QED BY <1>3, <1>5, <1>6, <1>7 DEF EInv

\* A step that is neither the outbox's, nor the poller's, nor the bus's.
LEMMA QuietEInv ==
  ASSUME EInv, Shape', UNCHANGED <<rows, poller, disp, queue, begun, accepted, finished, handled>>,
         bus' = bus \/ (bus = "open" /\ bus' = "closed")
  PROVE  EInv'
  <1>1. PollerCalls' /\ EntriesHold' /\ BegunHolds'
    BY DEF EInv, PollerCalls, EntriesHold, BegunHolds, Running, Settled, Published, Before
  <1>2. HandledHolds'
    BY DEF EInv, HandledHolds, PublishedWasHandled, Published, Accepts
  <1>3. BusHolds'
    BY DEF EInv, BusHolds, Queued, Running
  <1> QED BY <1>1, <1>2, <1>3 DEF EInv

\* A row that no poll has seen yet moves on, or a published one is deleted.
LEMMA RowEInv ==
  ASSUME EInv, NEW e \in Records, NEW x \in Row, rows' = [rows EXCEPT ![e] = x],
         \/ rows[e].state \in {"none", "open"} /\ x.state \in {"none", "open", "stored"}
         \/ rows[e].state = "published" /\ x.state = "purged",
         UNCHANGED <<poller, canceled, disp, queue, bus, gateway, faults, history>>
  PROVE  EInv'
  <1>0. /\ rows'[e] = x /\ \A f \in Records \ {e} : rows'[f] = rows[f]
        /\ rows' \in [Records -> Row]
    BY DEF EInv, Shape
  <1>1. Shape'
    BY <1>0 DEF EInv, Shape, gateway, history
  <1>2. PollerCalls'
    BY DEF EInv, PollerCalls, Running
  <1>3. \A f \in Records : (Published(f)' <=> Published(f)) /\ (Settled(f) => Settled(f)')
    BY <1>0 DEF Published, Settled
  <1>4. EntriesHold'
    <2> SUFFICES ASSUME poller.pc # "idle"
                 PROVE  /\ \A f \in poller.batch : rows'[f].state = "stored"
                        /\ \A f \in poller.seen : Settled(f)'
                        /\ \A f \in poller.seen \ poller.batch :
                              Published(f)' \/ \A g \in poller.batch : Before(g, f)'
                        /\ poller.ev # None =>
                              \A f \in poller.batch \ {poller.ev} : Before(poller.ev, f)'
      BY DEF EntriesHold
    <2>1. /\ poller.batch \subseteq Records /\ poller.seen \subseteq Records
          /\ \A f \in poller.batch : rows[f].state = "stored"
          /\ \A f \in poller.seen : Settled(f)
          /\ poller.ev # None => poller.ev \in poller.batch
      BY DEF EInv, Shape, PollState, EntriesHold, PollerCalls
    <2>2. e \notin poller.batch /\ (e \in poller.seen => Published(e))
      BY <2>1 DEF Settled, Published
    <2>3. \A f, g \in Records \ {e} : Before(f, g)' <=> Before(f, g)
      BY <1>0 DEF Before
    <2>4. \A f \in poller.batch : rows'[f].state = "stored"
      BY <1>0, <2>1, <2>2
    <2>5. ASSUME NEW f \in poller.seen \ poller.batch
          PROVE  Published(f)' \/ \A g \in poller.batch : Before(g, f)'
      BY <1>3, <2>1, <2>2, <2>3 DEF EInv, EntriesHold
    <2>6. poller.ev # None => \A f \in poller.batch \ {poller.ev} : Before(poller.ev, f)'
      BY <2>1, <2>2, <2>3 DEF EInv, EntriesHold
    <2> QED BY <1>3, <2>1, <2>4, <2>5, <2>6
  <1>5. BegunHolds'
    BY <1>3 DEF EInv, Shape, BegunHolds, history
  <1>6. HandledHolds'
    BY <1>3 DEF EInv, HandledHolds, PublishedWasHandled, Accepts, history
  <1>7. BusHolds'
    BY DEF EInv, BusHolds, Queued, Running, history
  <1> QED BY <1>1, <1>2, <1>4, <1>5, <1>6, <1>7 DEF EInv

LEMMA OutboxEInv ==
  ASSUME EInv, NEW e \in Records, AppendTx(e) \/ EndTx(e) \/ PurgePublished(e)
  PROVE  EInv'
  <1>0. rows \in [Records -> Row] /\ rows[e] \in Row /\ 0 \in 0..MaxTime
    BY Constants DEF EInv, Shape
  <1>1. CASE AppendTx(e)
    <2>1. PICK at \in 0..MaxTime : rows' = [rows EXCEPT ![e] = [state |-> "open", at |-> at]]
      BY <1>1 DEF AppendTx
    <2>2. [state |-> "open", at |-> at] \in Row
      BY DEF Row
    <2> QED BY <1>1, <2>1, <2>2, RowEInv DEF AppendTx
  <1>2. CASE EndTx(e)
    <2>1. NoRow \in Row /\ NoRow.state = "none"
      BY <1>0 DEF NoRow, Row
    <2>2. PICK x : x = [rows[e] EXCEPT !.state = "stored"]
      OBVIOUS
    <2>3. x \in Row /\ x.state = "stored"
      BY <1>0, <2>2 DEF Row
    <2>4. rows' = [rows EXCEPT ![e] = x] \/ rows' = [rows EXCEPT ![e] = NoRow]
      BY <1>2, <2>2 DEF EndTx
    <2> QED BY <1>2, <2>1, <2>3, <2>4, RowEInv DEF EndTx
  <1>3. CASE PurgePublished(e)
    <2>1. PICK x : x = [state |-> "purged", at |-> 0]
      OBVIOUS
    <2>2. x \in Row /\ x.state = "purged"
      BY <1>0, <2>1 DEF Row
    <2> QED BY <1>3, <2>1, <2>2, RowEInv DEF PurgePublished
  <1> QED BY <1>1, <1>2, <1>3

\* A poll takes the oldest entries, and lets the others wait.
LEMMA PollEInv ==
  ASSUME EInv, Poll
  PROVE  EInv'
  <1>1. PICK batch \in SUBSET unpublished :
           /\ listed(batch)
           /\ poller' = [pc |-> "admit", ev |-> None, batch |-> batch, seen |-> unpublished]
    BY DEF Poll
  <1>2. /\ poller'.pc = "admit" /\ poller'.ev = None /\ poller'.batch = batch
        /\ poller'.seen = unpublished
    BY <1>1
  <1>3. UNCHANGED <<rows, canceled, disp, queue, bus, gateway, faults, history>> /\ unpublished # {}
    BY DEF Poll
  <1>4. unpublished \subseteq Records /\ \A e \in unpublished : rows[e].state = "stored"
    BY DEF unpublished
  <1>5. batch # {}
    <2>1. Cardinality({}) = 0
      BY FS_EmptySet
    <2> QED BY <1>1, <1>3, <2>1, Constants DEF listed
  <1>6. Shape'
    <2>1. poller' \in PollState
      BY <1>1, <1>4 DEF PollState
    <2> QED BY <1>3, <2>1 DEF EInv, Shape, gateway, history
  <1>7. PollerCalls'
    <2>1. poller.pc = "idle"
      BY DEF Poll
    <2> QED BY <1>2, <1>3, <1>5, <2>1 DEF EInv, PollerCalls, Running
  <1>8. EntriesHold'
    <2>1. \A e \in batch, f \in unpublished \ batch : Before(e, f)
      BY <1>1 DEF listed
    <2>2. \A e \in batch, f \in unpublished \ batch : Before(e, f)'
      BY <1>3, <2>1 DEF Before
    <2>3. \A e \in unpublished : rows'[e].state = "stored"
      BY <1>3, <1>4
    <2> QED BY <1>2, <2>2, <2>3 DEF EntriesHold, Settled
  <1>9. BegunHolds'
    <2>1. poller.ev = None /\ None \notin begun
      BY Constants DEF EInv, Shape, PollerCalls, Poll
    <2> QED BY <1>3, <2>1 DEF EInv, BegunHolds, Published, history
  <1>10. HandledHolds'
    BY <1>2, <1>3 DEF EInv, HandledHolds, PublishedWasHandled, Published, Accepts, history
  <1>11. BusHolds'
    BY <1>3 DEF EInv, BusHolds, Queued, Running, history
  <1> QED BY <1>6, <1>7, <1>8, <1>9, <1>10, <1>11 DEF EInv

\* Poll gives up without the bus: the entry in hand may be handed over again.
LEMMA AbandonEInv ==
  ASSUME EInv, Abandon, poller.pc # "dispatch", faults' \in 0..MaxFaults,
         UNCHANGED <<rows, canceled, disp, queue, bus, gateway, handled, emitted, accepted, finished>>
  PROVE  EInv'
  <1>1. /\ poller'.pc = "idle" /\ poller'.ev = None /\ poller' \in PollState
        /\ begun' = begun \ {poller.ev}
    BY DEF Abandon, Interrupted, IdlePoller, PollState
  <1>2. Shape'
    BY <1>1 DEF EInv, Shape, gateway
  <1>3. PollerCalls' /\ EntriesHold'
    BY <1>1 DEF EInv, PollerCalls, EntriesHold, Running
  <1>4. BegunHolds'
    BY <1>1 DEF EInv, BegunHolds, Published
  <1>5. HandledHolds'
    BY <1>1 DEF EInv, HandledHolds, PublishedWasHandled, Published, Accepts
  <1>6. BusHolds'
    <2>1. /\ \A w \in BusWorkers : Running(w)' <=> Running(w)
          /\ \A n : Queued(n)' <=> Queued(n)
      BY DEF Running, Queued
    <2> QED BY <2>1 DEF EInv, BusHolds
  <1> QED BY <1>2, <1>3, <1>4, <1>5, <1>6 DEF EInv

\* The bus admits the oldest entry of the batch, which has not been begun.
LEMMA AdmitEInv ==
  ASSUME EInv, Admit
  PROVE  EInv'
  <1>0. poller.pc = "admit" /\ faults \in 0..MaxFaults
    <2>1. poller.pc = "admit"
      BY DEF Admit
    <2> QED BY <2>1 DEF EInv, Shape
  <1>1. CASE Abandon /\ UNCHANGED disp
    BY <1>0, <1>1, AbandonEInv DEF Admit
  <1>2. ASSUME NEW e \in poller.batch, bus = "open",
               \A f \in poller.batch \ {e} : Before(e, f),
               poller' = [poller EXCEPT !.pc = "dispatch", !.ev = e],
               disp' = [disp EXCEPT ![Poller] = [Idle EXCEPT !.pc = "admitted", !.ev = e]],
               begun' = begun \cup {e}
        PROVE  EInv'
    <2>0. /\ poller \in PollState /\ disp \in [Dispatchers -> Call] /\ Poller \in Dispatchers
          /\ e \in Records /\ e # None /\ BusWorkers \subseteq Dispatchers
      BY Constants DEF EInv, Shape, PollState, Dispatchers
    <2>1. /\ poller' \in PollState /\ poller'.pc = "dispatch" /\ poller'.ev = e
          /\ poller'.batch = poller.batch /\ poller'.seen = poller.seen
      BY <1>2, <2>0 DEF PollState
    <2>2. PICK l : l = [Idle EXCEPT !.pc = "admitted", !.ev = e]
      OBVIOUS
    <2>3. l \in Call /\ l.pc = "admitted" /\ l.ev = e
      BY <2>0, <2>2 DEF Idle, Call, Lefts, Events
    <2>4. /\ disp'[Poller] = l /\ \A w \in BusWorkers : disp'[w] = disp[w]
          /\ disp' \in [Dispatchers -> Call]
      BY <1>2, <2>0, <2>2, <2>3, Constants
    <2>5. UNCHANGED <<rows, canceled, queue, bus, gateway, faults, handled, emitted, accepted,
                      finished>>
      BY DEF Admit
    <2>6. Shape'
      BY <1>2, <2>0, <2>1, <2>4, <2>5 DEF EInv, Shape, gateway
    <2>7. PollerCalls'
      BY <2>1, <2>3, <2>4 DEF PollerCalls, Running
    <2>8. EntriesHold'
      <3>1. \A f, g : Before(f, g)' <=> Before(f, g)
        BY <2>5 DEF Before
      <3>2. \A f : (Published(f)' <=> Published(f)) /\ (Settled(f)' <=> Settled(f))
        BY <2>5 DEF Published, Settled
      <3> QED BY <1>0, <1>2, <2>1, <2>5, <3>1, <3>2 DEF EInv, EntriesHold
    <2>9. BegunHolds'
      <3>1. poller.ev = None /\ None \notin begun
        BY <1>0, Constants DEF EInv, Shape, PollerCalls
      <3> QED BY <1>2, <2>1, <2>5, <3>1 DEF EInv, BegunHolds, Published
    <2>10. HandledHolds'
      BY <2>1, <2>3, <2>4, <2>5 DEF EInv, HandledHolds, PublishedWasHandled, Published, Accepts
    <2>11. BusHolds'
      <3>1. /\ \A w \in BusWorkers : (Running(w)' <=> Running(w)) /\ disp'[w] = disp[w]
            /\ \A n : Queued(n)' <=> Queued(n)
        BY <2>4, <2>5 DEF Running, Queued
      <3> QED BY <1>2, <2>5, <3>1 DEF EInv, BusHolds
    <2> QED BY <2>6, <2>7, <2>8, <2>9, <2>10, <2>11 DEF EInv
  <1> QED BY <1>1, <1>2 DEF Admit

\* The entry in hand is published, and the loop goes on behind it or Poll gives up.
LEMMA MarkEInv ==
  ASSUME EInv, Mark
  PROVE  EInv'
  <1>0. poller.pc = "mark" /\ faults \in Nat /\ faults \in 0..MaxFaults
    BY Constants DEF Mark, EInv, Shape
  <1>1. faults' \in 0..MaxFaults
    <2>1. faults' = faults \/ (faults < MaxFaults /\ faults' = faults + 1)
      BY DEF Mark
    <2> QED BY <1>0, <2>1, Constants
  <1>2. CASE Abandon /\ UNCHANGED rows
    BY <1>0, <1>1, <1>2, AbandonEInv DEF Mark
  <1>3. CASE MarkPublished /\ (Abandon \/ (Onward /\ UNCHANGED begun))
    <2>0. PICK e : e = poller.ev
      OBVIOUS
    <2>1. /\ e \in Records /\ e \in poller.batch /\ e # None /\ rows[e].state = "stored"
          /\ rows[e] \in Row /\ rows \in [Records -> Row] /\ poller \in PollState
          /\ e \in handled /\ poller.batch \subseteq Records /\ poller.seen \subseteq Records
      BY <1>0, <2>0, Constants
      DEF EInv, Shape, PollerCalls, EntriesHold, HandledHolds, PollState
    <2>2. /\ rows'[e].state = "published" /\ rows'[e].at = rows[e].at
          /\ \A f \in Records \ {e} : rows'[f] = rows[f]
          /\ rows' \in [Records -> Row]
      BY <1>3, <2>0, <2>1 DEF MarkPublished, Row
    <2>3. /\ poller' \in PollState /\ poller'.pc \in {"idle", "admit"} /\ poller'.ev = None
          /\ poller'.pc = "admit" =>
                /\ poller'.batch = poller.batch \ {e} /\ poller'.batch # {}
                /\ poller'.seen = poller.seen
      <3>1. CASE Abandon
        BY <3>1 DEF Abandon, IdlePoller, PollState
      <3>2. CASE Onward
        BY <2>0, <2>1, <3>2 DEF Onward, IdlePoller, PollState
      <3> QED BY <1>3, <3>1, <3>2
    <2>4. /\ UNCHANGED <<canceled, disp, queue, bus, gateway, handled, emitted, accepted, finished>>
          /\ begun' \subseteq begun
      <3>1. UNCHANGED <<canceled, disp, queue, bus, gateway, handled, emitted, accepted, finished>>
        BY DEF Mark
      <3> QED BY <1>3, <3>1 DEF Abandon, Interrupted
    <2>5. Shape'
      BY <1>1, <2>2, <2>3, <2>4 DEF EInv, Shape, gateway
    <2>6. PollerCalls'
      BY <1>0, <2>3, <2>4 DEF EInv, PollerCalls, Running
    <2>7. /\ \A f, g \in Records : Before(f, g)' <=> Before(f, g)
          /\ \A f \in Records : /\ Published(f)' <=> (Published(f) \/ f = e)
                                /\ Settled(f) => Settled(f)'
      <3>1. \A f \in Records : rows'[f].at = rows[f].at
        BY <2>2
      <3> QED BY <2>1, <2>2, <3>1 DEF Before, Published, Settled
    <2>8. EntriesHold'
      <3> SUFFICES ASSUME poller'.pc = "admit"
                   PROVE  /\ \A f \in poller'.batch : rows'[f].state = "stored"
                          /\ \A f \in poller'.seen : Settled(f)'
                          /\ \A f \in poller'.seen \ poller'.batch :
                                Published(f)' \/ \A g \in poller'.batch : Before(g, f)'
        BY <2>3 DEF EntriesHold
      <3>1. \A f \in poller'.batch : rows'[f].state = "stored"
        BY <1>0, <2>1, <2>2, <2>3 DEF EInv, EntriesHold
      <3>2. \A f \in poller'.seen : Settled(f)'
        BY <1>0, <2>1, <2>3, <2>7 DEF EInv, EntriesHold
      <3>3. ASSUME NEW f \in poller'.seen \ poller'.batch
            PROVE  Published(f)' \/ \A g \in poller'.batch : Before(g, f)'
        <4>1. f \in Records /\ f \in poller.seen /\ (f = e \/ f \notin poller.batch)
          BY <2>1, <2>3
        <4>2. CASE f = e
          BY <2>7, <4>1, <4>2
        <4>3. CASE f \notin poller.batch
          <5>1. Published(f) \/ \A g \in poller.batch : Before(g, f)
            BY <1>0, <4>1, <4>3 DEF EInv, EntriesHold
          <5> QED BY <2>1, <2>3, <2>7, <4>1, <5>1
        <4> QED BY <4>1, <4>2, <4>3
      <3> QED BY <3>1, <3>2, <3>3
    <2>9. BegunHolds'
      BY <2>0, <2>4, <2>7 DEF EInv, Shape, BegunHolds
    <2>10. HandledHolds'
      BY <2>1, <2>3, <2>4, <2>7 DEF EInv, HandledHolds, PublishedWasHandled, Accepts
    <2>11. BusHolds'
      BY <2>4 DEF EInv, BusHolds, Queued, Running
    <2> QED BY <2>5, <2>6, <2>8, <2>9, <2>10, <2>11 DEF EInv
  <1> QED BY <1>2, <1>3 DEF Mark

\* A call in progress goes on.
LEMMA CallEInv ==
  ASSUME EInv, NEW d \in Dispatchers, Running(d), NEW l \in Call, l.pc \in {"calling", "fanout"},
         l.ev = disp[d].ev, disp' = [disp EXCEPT ![d] = l], Shape',
         handled \subseteq handled', d = Poller /\ Accepts(l) => l.ev \in handled',
         UNCHANGED <<rows, poller, queue, bus, begun, accepted, finished>>
  PROVE  EInv'
  <1>0. /\ disp'[d] = l /\ \A c \in Dispatchers \ {d} : disp'[c] = disp[c]
        /\ Poller \in Dispatchers /\ BusWorkers \subseteq Dispatchers
    BY DEF EInv, Shape, Dispatchers
  <1>1. \A c \in Dispatchers :
           /\ Running(c)' <=> Running(c)
           /\ disp'[c].ev = disp[c].ev
           /\ disp'[c].pc = "gone" <=> disp[c].pc = "gone"
           /\ disp'[c].pc = "idle" <=> disp[c].pc = "idle"
    BY <1>0 DEF Running
  <1>2. PollerCalls'
    BY <1>0, <1>1 DEF EInv, PollerCalls
  <1>3. EntriesHold' /\ BegunHolds'
    BY DEF EInv, EntriesHold, BegunHolds, Settled, Published, Before
  <1>4. HandledHolds'
    <2>1. Accepts(disp[Poller])' => disp'[Poller].ev \in handled'
      <3>1. CASE d = Poller
        BY <1>0, <3>1 DEF Accepts
      <3>2. CASE d # Poller
        BY <1>0, <3>2 DEF EInv, HandledHolds, Accepts
      <3> QED BY <3>1, <3>2
    <2> QED BY <2>1 DEF EInv, HandledHolds, PublishedWasHandled, Published
  <1>5. BusHolds'
    BY <1>0, <1>1 DEF EInv, BusHolds, Queued
  <1> QED BY <1>2, <1>3, <1>4, <1>5 DEF EInv

\* What is left of the subscriptions.
LEMMA LeftShrinks ==
  ASSUME NEW s \in Lefts, s # << >>
  PROVE  /\ Head(s) = "handler" => Tail(s) \in {<< >>, <<"hub">>} /\ s \notin {<< >>, <<"hub">>}
         /\ Head(s) = "hub" => Tail(s) = << >> /\ s = <<"hub">>
         /\ Tail(s) \in Lefts
  <1>1. CASE s = <<"hub">>
    BY <1>1 DEF Lefts
  <1>2. CASE s = <<"handler">>
    BY <1>2 DEF Lefts
  <1>3. CASE s = <<"handler", "hub">>
    <2>1. Tail(s) = <<"hub">> /\ Head(s) = "handler"
      BY <1>3
    <2>2. Len(s) = 2 /\ Len(<<"hub">>) = 1 /\ Len(<< >>) = 0
      BY <1>3
    <2> QED BY <2>1, <2>2 DEF Lefts
  <1> QED BY <1>1, <1>2, <1>3 DEF Lefts

LEMMA StepEInv ==
  ASSUME EInv, NEW d \in Dispatchers,
         Snapshot(d) \/ CallHandler(d) \/ CallHub(d) \/ \E c \in Conns : Send(d, c)
  PROVE  EInv'
  <1>0. /\ disp \in [Dispatchers -> Call] /\ disp[d] \in Call /\ faults \in Nat
        /\ disp[d].left \in Lefts /\ disp[d].failed \in BOOLEAN /\ disp[d].ev \in Events \cup {None}
    BY Constants DEF EInv, Shape, Call
  <1>1. CASE Snapshot(d)
    <2>1. PICK l : l = [disp[d] EXCEPT !.pc = "calling", !.left = subscriptions]
      OBVIOUS
    <2>2. subscriptions \in Lefts /\ subscriptions \notin {<< >>, <<"hub">>}
      <3>1. /\ <<"handler">> # << >> /\ <<"handler", "hub">> # << >>
            /\ <<"handler">> # <<"hub">> /\ <<"handler", "hub">> # <<"hub">>
        OBVIOUS
      <3> QED BY <3>1 DEF subscriptions, Lefts
    <2>3. l \in Call /\ l.pc = "calling" /\ l.ev = disp[d].ev /\ l.left = subscriptions
      BY <1>0, <2>1, <2>2 DEF Call
    <2>4. disp' = [disp EXCEPT ![d] = l] /\ Running(d)
      BY <1>1, <2>1 DEF Snapshot, Running
    <2>5. UNCHANGED <<rows, poller, canceled, queue, bus, gateway, faults, history>>
      BY <1>1 DEF Snapshot
    <2>6. Shape'
      BY <1>0, <2>3, <2>4, <2>5 DEF EInv, Shape, gateway, history
    <2>7. ~ Accepts(l)
      BY <2>2, <2>3 DEF Accepts
    <2> QED BY <2>3, <2>4, <2>5, <2>6, <2>7, CallEInv DEF history
  <1>2. CASE CallHandler(d)
    <2>1. PICK fails \in BOOLEAN :
             /\ fails => faults < MaxFaults
             /\ faults' = IF fails THEN faults + 1 ELSE faults
             /\ handled' = IF fails THEN handled ELSE handled \cup ({disp[d].ev} \cap Records)
             /\ disp' = [disp EXCEPT ![d].left = Tail(@), ![d].failed = firstErr(@, fails)]
      BY <1>2 DEF CallHandler
    <2>2. PICK l : l = [disp[d] EXCEPT !.left = Tail(@), !.failed = firstErr(@, fails)]
      OBVIOUS
    <2>3. /\ disp[d].left # << >> /\ Head(disp[d].left) = "handler" /\ disp[d].pc = "calling"
          /\ Tail(disp[d].left) \in Lefts
      BY <1>0, <1>2, LeftShrinks DEF CallHandler
    <2>4. firstErr(disp[d].failed, fails) \in BOOLEAN /\ (fails => firstErr(disp[d].failed, fails))
      BY <1>0, <2>1 DEF firstErr
    <2>5. /\ l \in Call /\ l.pc = "calling" /\ l.ev = disp[d].ev
          /\ l.failed = firstErr(disp[d].failed, fails)
      BY <1>0, <2>2, <2>3, <2>4 DEF Call
    <2>6. disp' = [disp EXCEPT ![d] = l] /\ Running(d)
      BY <2>1, <2>2, <2>3 DEF Running
    <2>7. UNCHANGED <<rows, poller, canceled, queue, bus, gateway, begun, emitted, accepted, finished>>
      BY <1>2 DEF CallHandler
    <2>8. faults' \in 0..MaxFaults
      BY <1>0, <2>1, Constants DEF EInv, Shape
    <2>9. Shape'
      BY <1>0, <2>5, <2>6, <2>7, <2>8 DEF EInv, Shape, gateway
    <2>10. handled \subseteq handled'
      BY <2>1
    <2>11. d = Poller /\ Accepts(l) => l.ev \in handled'
      <3> SUFFICES ASSUME d = Poller, Accepts(l) PROVE l.ev \in handled'
        OBVIOUS
      <3>1. ~ fails
        BY <2>4, <2>5 DEF Accepts
      <3>2. disp[d].ev \in Records
        BY <2>6 DEF EInv, Shape, PollState, PollerCalls
      <3> QED BY <2>1, <2>5, <3>1, <3>2
    <2> QED BY <2>5, <2>6, <2>7, <2>9, <2>10, <2>11, CallEInv
  <1>3. CASE CallHub(d)
    <2>1. PICK l : l = [disp[d] EXCEPT !.pc = IF registered = {} THEN "calling" ELSE "fanout",
                                       !.left = Tail(@), !.targets = registered,
                                       !.failed = firstErr(@, FALSE)]
      OBVIOUS
    <2>2. /\ disp[d].left # << >> /\ Head(disp[d].left) = "hub" /\ disp[d].pc = "calling"
          /\ Tail(disp[d].left) \in Lefts /\ disp[d].left = <<"hub">>
      BY <1>0, <1>3, LeftShrinks DEF CallHub
    <2>3. firstErr(disp[d].failed, FALSE) = disp[d].failed
      BY <1>0 DEF firstErr
    <2>4. registered \subseteq Conns
      BY DEF EInv, Shape
    <2>5. /\ l \in Call /\ l.pc \in {"calling", "fanout"} /\ l.ev = disp[d].ev
          /\ l.failed = disp[d].failed
      BY <1>0, <2>1, <2>2, <2>3, <2>4 DEF Call
    <2>6. disp' = [disp EXCEPT ![d] = l] /\ Running(d)
      BY <1>3, <2>1, <2>2 DEF CallHub, Running
    <2>7. UNCHANGED <<rows, poller, canceled, queue, bus, gateway, faults, history>>
      BY <1>3 DEF CallHub
    <2>8. Shape'
      BY <1>0, <2>5, <2>6, <2>7 DEF EInv, Shape, gateway, history
    <2>9. d = Poller /\ Accepts(l) => l.ev \in handled
      BY <2>2, <2>5 DEF EInv, HandledHolds, Accepts
    <2> QED BY <2>5, <2>6, <2>7, <2>8, <2>9, CallEInv DEF history
  <1>4. ASSUME NEW c \in Conns, Send(d, c) PROVE EInv'
    <2>1. PICK l : l = [disp[d] EXCEPT !.targets = @ \ {c},
                                       !.pc = IF disp[d].targets = {c} THEN "calling" ELSE "fanout"]
      OBVIOUS
    <2>2. disp[d].pc = "fanout" /\ disp[d].targets \subseteq Conns
      BY <1>0, <1>4 DEF Send, Call
    <2>3. /\ l \in Call /\ l.pc \in {"calling", "fanout"} /\ l.ev = disp[d].ev
          /\ l.failed = disp[d].failed /\ l.left = disp[d].left
      BY <1>0, <2>1, <2>2 DEF Call
    <2>4. disp' = [disp EXCEPT ![d] = l] /\ Running(d)
      <3>1. disp' = [disp EXCEPT ![d] = l]
        BY <1>4, <2>1 DEF Send
      <3> QED BY <2>2, <3>1 DEF Running
    <2>5. UNCHANGED <<rows, poller, canceled, queue, bus, hub, registered, stream, hand, leaked,
                      faults, history>>
      BY <1>4 DEF Send
    <2>6. disp[d].ev \in Events
      <3>1. CASE d = Poller
        BY <2>4, <3>1, Constants DEF EInv, Shape, PollState, PollerCalls, Events
      <3>2. CASE d \in BusWorkers
        BY <2>4, <3>2 DEF EInv, BusHolds, Events
      <3> QED BY <3>1, <3>2 DEF Dispatchers
    <2>7. /\ buffer' \in [Conns -> Seq(Events)]
          /\ \A k \in Conns : Len(buffer'[k]) <= BufferSize
      <3>1. buffer[c] \in Seq(Events) /\ Len(buffer[c]) \in Nat
        BY DEF EInv, Shape
      <3>2. PICK s : s = buffer[c] \o <<disp[d].ev>>
        OBVIOUS
      <3>3. s \in Seq(Events) /\ Len(s) = Len(buffer[c]) + 1
        BY <2>6, <3>1, <3>2
      <3>4. CASE Len(buffer[c]) < BufferSize
        <4>1. buffer' = [buffer EXCEPT ![c] = s] /\ Len(s) <= BufferSize
          BY <1>4, <3>1, <3>2, <3>3, <3>4, Constants DEF Send
        <4> QED BY <3>3, <4>1 DEF EInv, Shape
      <3>5. CASE ~ (Len(buffer[c]) < BufferSize)
        BY <1>4, <3>5 DEF Send, EInv, Shape
      <3> QED BY <3>4, <3>5
    <2>8. Shape'
      BY <1>0, <2>3, <2>4, <2>5, <2>7 DEF EInv, Shape, history
    <2>9. d = Poller /\ Accepts(l) => l.ev \in handled
      BY <2>2, <2>3 DEF EInv, HandledHolds, Accepts
    <2> QED BY <2>3, <2>4, <2>5, <2>8, <2>9, CallEInv DEF history
  <1> QED BY <1>1, <1>2, <1>3, <1>4

\* The poller's call returns: to the mark when the handler accepted the entry.
LEMMA ReturnPollerEInv ==
  ASSUME EInv, Return(Poller)
  PROVE  EInv'
  <1>0. /\ disp \in [Dispatchers -> Call] /\ Poller \in Dispatchers /\ Idle \in Call
        /\ BusWorkers \subseteq Dispatchers /\ disp[Poller].failed \in BOOLEAN
        /\ disp[Poller].pc = "calling" /\ poller.pc = "dispatch" /\ poller \in PollState
        /\ Idle.pc = "idle" /\ Idle.ev = None
    BY DEF EInv, Shape, Dispatchers, Idle, Call, Lefts, Return, PollerCalls, Running
  <1>1. /\ disp' = [disp EXCEPT ![Poller] = Idle]
        /\ UNCHANGED <<rows, canceled, queue, bus, gateway, faults, handled, emitted, accepted,
                       finished>>
    BY DEF Return
  <1>2. /\ disp'[Poller] = Idle /\ \A w \in BusWorkers : disp'[w] = disp[w]
        /\ disp' \in [Dispatchers -> Call]
    BY <1>0, <1>1, Constants
  <1>3. /\ poller' \in PollState /\ begun' \subseteq begun
        /\ \/ poller'.pc = "idle" /\ poller'.ev = None /\ begun' = begun \ {poller.ev}
           \/ /\ poller'.pc = "mark" /\ poller'.ev = poller.ev /\ poller'.batch = poller.batch
              /\ poller'.seen = poller.seen /\ begun' = begun /\ poller.ev \in handled
    <2>1. CASE disp[Poller].failed \/ canceled
      <3>1. poller' = IdlePoller /\ begun' = begun \ {poller.ev}
        BY <2>1 DEF Return, Abandon, Interrupted
      <3> QED BY <3>1 DEF IdlePoller, PollState
    <2>2. CASE ~ (disp[Poller].failed \/ canceled)
      <3>1. poller' = [poller EXCEPT !.pc = "mark"] /\ begun' = begun
        BY <2>2 DEF Return
      <3>2. disp[Poller].left = << >>
        BY <2>2 DEF Return, Cut
      <3>3. poller.ev \in handled
        BY <1>0, <2>2, <3>2 DEF EInv, HandledHolds, Accepts, PollerCalls
      <3> QED BY <1>0, <3>1, <3>3 DEF PollState
    <2> QED BY <2>1, <2>2
  <1>4. Shape'
    BY <1>1, <1>2, <1>3 DEF EInv, Shape, gateway
  <1>5. PollerCalls'
    BY <1>0, <1>2, <1>3 DEF EInv, PollerCalls, Running
  <1>6. EntriesHold'
    <2>1. \A f, g : Before(f, g)' <=> Before(f, g)
      BY <1>1 DEF Before
    <2>2. \A f : (Published(f)' <=> Published(f)) /\ (Settled(f)' <=> Settled(f))
      BY <1>1 DEF Published, Settled
    <2> QED BY <1>0, <1>1, <1>3, <2>1, <2>2 DEF EInv, EntriesHold
  <1>7. BegunHolds'
    BY <1>1, <1>3 DEF EInv, BegunHolds, Published
  <1>8. HandledHolds'
    BY <1>0, <1>1, <1>2, <1>3 DEF EInv, HandledHolds, PublishedWasHandled, Published, Accepts
  <1>9. BusHolds'
    <2>1. \A w \in BusWorkers : Running(w)' <=> Running(w)
      BY <1>2 DEF Running
    <2> QED BY <1>0, <1>1, <1>2, <2>1 DEF EInv, BusHolds, Queued
  <1> QED BY <1>4, <1>5, <1>6, <1>7, <1>8, <1>9 DEF EInv

\* A worker's call begins or returns, or the worker ends.
LEMMA WorkerEInv ==
  ASSUME EInv, NEW w \in BusWorkers, NEW l \in Call, disp' = [disp EXCEPT ![w] = l],
         queue' \in Seq(Notices), Len(queue') <= QueueSize, BusHolds',
         UNCHANGED <<rows, poller, canceled, bus, gateway, faults, handled, begun, accepted>>
  PROVE  EInv'
  <1>1. /\ disp'[Poller] = disp[Poller] /\ disp' \in [Dispatchers -> Call]
    BY Constants DEF EInv, Shape, Dispatchers
  <1>2. Shape'
    BY <1>1 DEF EInv, Shape, gateway
  <1>3. PollerCalls'
    BY <1>1 DEF EInv, PollerCalls, Running
  <1>4. EntriesHold' /\ BegunHolds'
    BY DEF EInv, EntriesHold, BegunHolds, Settled, Published, Before
  <1>5. HandledHolds'
    BY <1>1 DEF EInv, HandledHolds, PublishedWasHandled, Published, Accepts
  <1> QED BY <1>2, <1>3, <1>4, <1>5 DEF EInv

LEMMA ReturnWorkerEInv ==
  ASSUME EInv, NEW w \in BusWorkers, Return(w)
  PROVE  EInv'
  <1>0. /\ disp \in [Dispatchers -> Call] /\ w \in Dispatchers /\ Idle \in Call /\ w # Poller
        /\ BusWorkers \subseteq Dispatchers /\ Idle.pc = "idle" /\ Poller \in Dispatchers
        /\ disp[w].pc = "calling"
    BY Constants DEF EInv, Shape, Dispatchers, Idle, Call, Lefts, Return
  <1>1. /\ disp' = [disp EXCEPT ![w] = Idle] /\ finished' = finished \cup {disp[w].ev}
        /\ UNCHANGED <<rows, poller, begun, canceled, queue, bus, gateway, faults, handled, emitted,
                       accepted>>
    BY <1>0 DEF Return
  <1>2. disp'[w] = Idle /\ \A v \in Dispatchers \ {w} : disp'[v] = disp[v]
    BY <1>0, <1>1
  <1>3. /\ ~ Running(w)' /\ disp'[w].pc = "idle"
        /\ \A v \in BusWorkers \ {w} : Running(v)' <=> Running(v)
    BY <1>0, <1>2 DEF Running
  <1>4. BusHolds'
    <2>1. bus # "done"
      BY <1>0 DEF EInv, BusHolds
    <2>2. \A n : Queued(n)' <=> Queued(n)
      BY <1>1 DEF Queued
    <2>3. \A n \in accepted' : \/ n \in finished' \/ Queued(n)'
                               \/ \E v \in BusWorkers : Running(v)' /\ disp'[v].ev = n
      BY <1>0, <1>1, <1>2, <1>3, <2>2 DEF EInv, BusHolds
    <2>4. \A v \in BusWorkers : Running(v)' => disp'[v].ev \in Notices
      BY <1>0, <1>2, <1>3 DEF EInv, BusHolds
    <2>5. \A v \in BusWorkers : disp'[v].pc = "gone" => queue' = << >> /\ bus' # "open"
      BY <1>0, <1>1, <1>2, <1>3 DEF EInv, BusHolds
    <2> QED BY <1>1, <2>1, <2>3, <2>4, <2>5 DEF BusHolds
  <1> QED BY <1>0, <1>1, <1>4, WorkerEInv DEF EInv, Shape

\* A worker takes the head of the queue, or ends with the queue.
LEMMA TakeEInv ==
  ASSUME EInv, NEW w \in BusWorkers, Take(w)
  PROVE  EInv'
  <1>0. /\ disp \in [Dispatchers -> Call] /\ w \in Dispatchers /\ disp[w] \in Call
        /\ BusWorkers \subseteq Dispatchers /\ disp[w].pc = "idle" /\ Poller \in Dispatchers
        /\ queue \in Seq(Notices) /\ Len(queue) <= QueueSize /\ w # Poller
    BY Constants DEF EInv, Shape, Dispatchers, Take
  <1>1. UNCHANGED <<rows, poller, canceled, bus, gateway, faults, history>> /\ bus # "done"
    BY <1>0 DEF Take, EInv, BusHolds
  <1>2. CASE /\ queue # << >>
             /\ disp' = [disp EXCEPT ![w] = [Idle EXCEPT !.pc = "admitted", !.ev = Head(queue)]]
             /\ queue' = Tail(queue)
    <2>0. /\ Len(queue) \in Nat /\ Len(queue) >= 1 /\ Head(queue) = queue[1]
          /\ Head(queue) \in Notices
      BY <1>0, <1>2
    <2>1. PICK l : l = [Idle EXCEPT !.pc = "admitted", !.ev = Head(queue)]
      OBVIOUS
    <2>2. l \in Call /\ l.pc = "admitted" /\ l.ev = Head(queue)
      BY <2>0, <2>1 DEF Idle, Call, Lefts, Events
    <2>3. /\ queue' \in Seq(Notices) /\ Len(queue') = Len(queue) - 1
          /\ \A i \in 1..Len(queue') : queue'[i] = queue[i + 1]
      BY <1>0, <1>2
    <2>4. Len(queue') <= QueueSize
      BY <1>0, <2>0, <2>3, Constants
    <2>5. disp'[w] = l /\ \A v \in Dispatchers \ {w} : disp'[v] = disp[v]
      BY <1>0, <1>2, <2>1
    <2>6. Running(w)' /\ ~ Running(w) /\ \A v \in BusWorkers \ {w} : Running(v)' <=> Running(v)
      BY <1>0, <2>2, <2>5 DEF Running
    <2>7. \A n : Queued(n) => Queued(n)' \/ n = Head(queue)
      <3> SUFFICES ASSUME NEW n, NEW i \in 1..Len(queue), queue[i] = n, i # 1
                   PROVE  Queued(n)'
        BY <2>0 DEF Queued
      <3>1. i - 1 \in 1..Len(queue') /\ queue'[i - 1] = n
        <4>1. i - 1 \in 1..Len(queue')
          BY <2>0, <2>3
        <4>2. (i - 1) + 1 = i
          OBVIOUS
        <4> QED BY <2>3, <4>1, <4>2
      <3> QED BY <3>1 DEF Queued
    <2>8. BusHolds'
      <3>1. \A n \in accepted' : \/ n \in finished' \/ Queued(n)'
                                 \/ \E v \in BusWorkers : Running(v)' /\ disp'[v].ev = n
        BY <1>0, <1>1, <2>2, <2>5, <2>6, <2>7 DEF EInv, BusHolds, history
      <3>2. \A v \in BusWorkers : Running(v)' => disp'[v].ev \in Notices
        BY <1>0, <2>0, <2>2, <2>5, <2>6 DEF EInv, BusHolds
      <3>3. \A v \in BusWorkers : disp'[v].pc # "gone"
        BY <1>0, <1>2, <2>2, <2>5 DEF EInv, BusHolds
      <3> QED BY <1>1, <3>1, <3>2, <3>3 DEF BusHolds
    <2> QED BY <1>1, <1>2, <2>1, <2>2, <2>3, <2>4, <2>8, WorkerEInv DEF history
  <1>3. CASE queue = << >> /\ bus = "closed" /\ disp' = [disp EXCEPT ![w].pc = "gone"] /\ UNCHANGED queue
    <2>1. PICK l : l = [disp[w] EXCEPT !.pc = "gone"]
      OBVIOUS
    <2>2. l \in Call /\ l.pc = "gone"
      BY <1>0, <2>1 DEF Call
    <2>3. disp' = [disp EXCEPT ![w] = l]
      BY <1>3, <2>1
    <2>4. disp'[w] = l /\ \A v \in Dispatchers \ {w} : disp'[v] = disp[v]
      BY <1>0, <2>3
    <2>5. ~ Running(w)' /\ ~ Running(w) /\ \A v \in BusWorkers \ {w} : Running(v)' <=> Running(v)
      BY <1>0, <2>2, <2>4 DEF Running
    <2>6. \A n : Queued(n)' <=> Queued(n)
      BY <1>3 DEF Queued
    <2>7. BusHolds'
      <3>1. \A n \in accepted' : \/ n \in finished' \/ Queued(n)'
                                 \/ \E v \in BusWorkers : Running(v)' /\ disp'[v].ev = n
        BY <1>0, <1>1, <2>4, <2>5, <2>6 DEF EInv, BusHolds, history
      <3>2. \A v \in BusWorkers : Running(v)' => disp'[v].ev \in Notices
        BY <1>0, <2>4, <2>5 DEF EInv, BusHolds
      <3> QED BY <1>1, <1>3, <3>1, <3>2 DEF BusHolds
    <2> QED BY <1>0, <1>1, <1>3, <2>2, <2>3, <2>7, WorkerEInv DEF history
  <1> QED BY <1>2, <1>3 DEF Take

\* A notice is accepted by an open bus with room, and by no other.
LEMMA EmitEInv ==
  ASSUME EInv, NEW n \in Notices, Emit(n)
  PROVE  EInv'
  <1>1. UNCHANGED <<rows, poller, canceled, disp, bus, gateway, faults, handled, begun, finished>>
    BY DEF Emit
  <1>2. PollerCalls' /\ EntriesHold' /\ BegunHolds' /\ HandledHolds'
    BY <1>1 DEF EInv, PollerCalls, EntriesHold, BegunHolds, HandledHolds, PublishedWasHandled,
       Running, Settled, Published, Before, Accepts
  <1>3. CASE queue' = queue /\ accepted' = accepted
    <2>1. Shape'
      BY <1>1, <1>3 DEF EInv, Shape, gateway
    <2>2. BusHolds'
      BY <1>1, <1>3 DEF EInv, BusHolds, Queued, Running
    <2> QED BY <1>2, <2>1, <2>2 DEF EInv
  <1>4. CASE /\ bus = "open" /\ Len(queue) < QueueSize
             /\ queue' = queue \o <<n>> /\ accepted' = accepted \cup {n}
    <2>0. queue \in Seq(Notices) /\ Len(queue) \in Nat
      BY DEF EInv, Shape
    <2>1. /\ queue' \in Seq(Notices) /\ Len(queue') = Len(queue) + 1 /\ queue'[Len(queue) + 1] = n
          /\ \A i \in 1..Len(queue) : queue'[i] = queue[i]
      BY <1>4, <2>0
    <2>2. Len(queue') <= QueueSize
      BY <1>4, <2>0, <2>1, Constants
    <2>3. Shape'
      BY <1>1, <1>4, <2>1, <2>2 DEF EInv, Shape, gateway
    <2>4. Queued(n)' /\ \A m : Queued(m) => Queued(m)'
      <3>1. Len(queue) + 1 \in 1..Len(queue') /\ 1..Len(queue) \subseteq 1..Len(queue')
        BY <2>0, <2>1
      <3> QED BY <2>1, <3>1 DEF Queued
    <2>5. \A w \in BusWorkers : (Running(w)' <=> Running(w)) /\ disp[w].pc # "gone"
      BY <1>1, <1>4 DEF EInv, BusHolds, Running
    <2>6. BusHolds'
      BY <1>1, <1>4, <2>4, <2>5 DEF EInv, BusHolds
    <2> QED BY <1>2, <2>3, <2>6 DEF EInv
  <1> QED BY <1>3, <1>4 DEF Emit

\* Close returns when the workers are gone and the poller is not dispatching.
LEMMA DrainedEInv ==
  ASSUME EInv, Drained
  PROVE  EInv'
  <1>1. /\ UNCHANGED <<rows, poller, canceled, disp, queue, gateway, faults, history>>
        /\ bus = "closed" /\ bus' = "done" /\ disp[Poller].pc = "idle"
        /\ \A w \in BusWorkers : disp[w].pc = "gone"
    BY DEF Drained
  <1>2. Shape'
    BY <1>1 DEF EInv, Shape, gateway, history
  <1>3. PollerCalls' /\ EntriesHold' /\ BegunHolds' /\ HandledHolds'
    BY <1>1 DEF EInv, PollerCalls, EntriesHold, BegunHolds, HandledHolds, PublishedWasHandled,
       Running, Settled, Published, Before, Accepts, history
  <1>4. BusHolds'
    BY <1>1 DEF EInv, BusHolds, Queued, Running, history
  <1> QED BY <1>2, <1>3, <1>4 DEF EInv

\* The poller is canceled, the bus is closed, the hub comes or goes.
LEMMA ControlEInv ==
  ASSUME EInv, CancelPoller \/ Close \/ HubNew \/ HubClose
  PROVE  EInv'
  <1>1. CASE CancelPoller
    <2>1. Shape'
      BY <1>1 DEF CancelPoller, EInv, Shape, gateway, history
    <2> QED BY <1>1, <2>1, QuietEInv DEF CancelPoller, history
  <1>2. CASE Close
    <2>1. Shape'
      BY <1>2 DEF Close, EInv, Shape, gateway, history
    <2> QED BY <1>2, <2>1, QuietEInv DEF Close, history
  <1>3. CASE HubNew
    <2>1. Shape'
      BY <1>3 DEF HubNew, EInv, Shape, history
    <2> QED BY <1>3, <2>1, QuietEInv DEF HubNew, history
  <1>4. CASE HubClose
    <2>1. UNCHANGED <<rows, poller, canceled, disp, queue, bus, stream, buffer, hand, leaked,
                      faults, history>>
      BY <1>4 DEF HubClose
    <2>2. /\ registered' \subseteq Conns /\ IsFiniteSet(registered')
          /\ Cardinality(registered') <= MaxPerSubject
      <3>1. IsFiniteSet({}) /\ Cardinality({}) = 0
        BY FS_EmptySet
      <3>2. registered' = {} \/ registered' = registered
        BY <1>4 DEF HubClose
      <3>3. CASE registered' = {}
        BY <3>1, <3>3, Constants
      <3>4. CASE registered' = registered
        BY <3>4 DEF EInv, Shape
      <3> QED BY <3>2, <3>3, <3>4
    <2>3. Shape'
      BY <2>1, <2>2 DEF EInv, Shape, history
    <2> QED BY <2>1, <2>3, QuietEInv DEF history
  <1> QED BY <1>1, <1>2, <1>3, <1>4

\* A stream is opened below the cap, reads its channel, and is closed; none
\* returns a frame once it is closed.
LEMMA StreamEInv ==
  ASSUME EInv, NEW c \in Conns, Open(c) \/ Receive(c) \/ NextFrame(c) \/ StreamClose(c)
  PROVE  EInv'
  <1>0. UNCHANGED <<rows, poller, canceled, disp, queue, bus, hub, faults, history>>
    BY DEF Open, Receive, NextFrame, StreamClose
  <1>1. /\ IsFiniteSet(registered) /\ registered \subseteq Conns
        /\ Cardinality(registered) \in Nat /\ Cardinality(registered) <= MaxPerSubject
    BY FS_CardinalityType DEF EInv, Shape
  <1>2. CASE Open(c)
    <2>1. registered' = registered \cup {c} /\ Cardinality(registered) < MaxPerSubject
      BY <1>2 DEF Open, mayConnect
    <2>2. /\ IsFiniteSet(registered \cup {c})
          /\ Cardinality(registered \cup {c}) <= Cardinality(registered) + 1
      <3>1. /\ IsFiniteSet(registered \cup {c})
            /\ Cardinality(registered \cup {c}) =
                  IF c \in registered THEN Cardinality(registered) ELSE Cardinality(registered) + 1
        BY <1>1, FS_AddElement
      <3> QED BY <1>1, <3>1
    <2>3. IsFiniteSet(registered') /\ Cardinality(registered') <= MaxPerSubject
      <3>1. Cardinality(registered \cup {c}) \in Nat
        BY <2>2, FS_CardinalityType
      <3> QED BY <1>1, <2>1, <2>2, <3>1, Constants
    <2>4. Shape'
      BY <1>0, <1>1, <1>2, <2>1, <2>3 DEF Open, EInv, Shape, history
    <2> QED BY <1>0, <2>4, QuietEInv DEF history
  <1>3. CASE Receive(c)
    <2>1. buffer[c] \in Seq(Events) /\ buffer[c] # << >> /\ Len(buffer[c]) <= BufferSize
      BY <1>3 DEF Receive, EInv, Shape
    <2>2. PICK s : s = Tail(buffer[c])
      OBVIOUS
    <2>3. s \in Seq(Events) /\ Len(s) <= BufferSize
      BY <2>1, <2>2, Constants
    <2>4. /\ buffer' \in [Conns -> Seq(Events)]
          /\ \A k \in Conns : Len(buffer'[k]) <= BufferSize
      BY <1>3, <2>2, <2>3 DEF Receive, EInv, Shape
    <2>5. Shape'
      BY <1>0, <1>3, <2>4 DEF Receive, EInv, Shape, history
    <2> QED BY <1>0, <2>5, QuietEInv DEF history
  <1>4. CASE NextFrame(c)
    <2>1. leaked' = {}
      BY <1>4 DEF NextFrame, answers, EInv, Shape
    <2>2. Shape'
      BY <1>0, <1>4, <2>1 DEF NextFrame, EInv, Shape, history
    <2> QED BY <1>0, <2>2, QuietEInv DEF history
  <1>5. CASE StreamClose(c)
    <2>1. registered' = registered \/ registered' = registered \ {c}
      BY <1>5 DEF StreamClose, unregistered
    <2>2. /\ IsFiniteSet(registered \ {c})
          /\ Cardinality(registered \ {c}) <= Cardinality(registered)
      BY <1>1, FS_Subset
    <2>3. Cardinality(registered \ {c}) \in Nat
      BY <2>2, FS_CardinalityType
    <2>4. /\ IsFiniteSet(registered') /\ registered' \subseteq Conns
          /\ Cardinality(registered') <= MaxPerSubject
      BY <1>1, <2>1, <2>2, <2>3, Constants
    <2>5. Shape'
      BY <1>0, <1>5, <2>4 DEF StreamClose, EInv, Shape, history
    <2> QED BY <1>0, <2>5, QuietEInv DEF history
  <1> QED BY <1>2, <1>3, <1>4, <1>5

\* A restart keeps what was stored and what was published, and nothing of the bus.
LEMMA CrashEInv ==
  ASSUME EInv, Crash
  PROVE  EInv'
  <1>1. NoRow \in Row /\ Idle \in Call /\ IdlePoller \in PollState
    BY Constants DEF NoRow, Row, Idle, Call, Lefts, IdlePoller, PollState
  <1>2. rows' \in [Records -> Row] /\ \A e \in Records : Published(e)' <=> Published(e)
    BY <1>1 DEF Crash, EInv, Shape, Row, Published, NoRow
  <1>3. /\ poller' = IdlePoller /\ canceled' = FALSE /\ disp' \in [Dispatchers -> Call]
        /\ disp'[Poller] = Idle /\ \A w \in BusWorkers : disp'[w] = Idle
    BY <1>1 DEF Crash, Dispatchers
  <1>4. /\ queue' = << >> /\ bus' = "open" /\ registered' = {} /\ accepted' = {}
        /\ buffer' = [c \in Conns |-> << >>] /\ begun' = begun \ {poller.ev}
        /\ UNCHANGED <<leaked, handled>>
    BY DEF Crash, Interrupted
  <1>5. Shape'
    <2>1. << >> \in Seq(Notices) /\ << >> \in Seq(Events) /\ Len(<< >>) = 0
      OBVIOUS
    <2>2. queue' \in Seq(Notices) /\ Len(queue') <= QueueSize
      BY <1>4, <2>1, Constants
    <2>3. buffer' \in [Conns -> Seq(Events)] /\ \A c \in Conns : Len(buffer'[c]) <= BufferSize
      BY <1>4, <2>1, Constants
    <2>4. /\ registered' \subseteq Conns /\ IsFiniteSet(registered')
          /\ Cardinality(registered') <= MaxPerSubject
      BY <1>4, FS_EmptySet, Constants
    <2>5. faults' \in 0..MaxFaults
      BY Constants DEF Crash, EInv, Shape
    <2>6. begun' \subseteq Records /\ accepted' \subseteq Notices /\ leaked' = {}
      BY <1>4 DEF EInv, Shape
    <2> QED BY <1>1, <1>2, <1>3, <1>4, <2>2, <2>3, <2>4, <2>5, <2>6 DEF Shape
  <1>6. PollerCalls' /\ EntriesHold'
    BY <1>3 DEF PollerCalls, EntriesHold, IdlePoller, Idle, Running
  <1>7. BegunHolds'
    BY <1>2, <1>4 DEF EInv, Shape, BegunHolds
  <1>8. HandledHolds'
    BY <1>2, <1>3, <1>4 DEF EInv, HandledHolds, PublishedWasHandled, Accepts, IdlePoller, Idle
  <1>9. BusHolds'
    <2>1. \A w \in BusWorkers : disp'[w].pc = "idle" /\ ~ Running(w)'
      BY <1>3 DEF Idle, Running
    <2> QED BY <1>4, <2>1 DEF BusHolds
  <1> QED BY <1>5, <1>6, <1>7, <1>8, <1>9 DEF EInv

\* Every step keeps the invariant.
LEMMA NextEInv ==
  ASSUME EInv, [Next]_vars
  PROVE  EInv'
  <1>1. CASE \E e \in Records : AppendTx(e) \/ EndTx(e) \/ PurgePublished(e)
    BY <1>1, OutboxEInv
  <1>2. CASE Poll \/ Admit \/ Mark
    BY <1>2, PollEInv, AdmitEInv, MarkEInv
  <1>3. ASSUME NEW d \in Dispatchers, Dispatch(d)
        PROVE  EInv'
    <2>1. CASE Return(d)
      BY <2>1, ReturnPollerEInv, ReturnWorkerEInv DEF Dispatchers
    <2>2. CASE Snapshot(d) \/ CallHandler(d) \/ CallHub(d) \/ \E c \in Conns : Send(d, c)
      BY <2>2, StepEInv
    <2> QED BY <1>3, <2>1, <2>2 DEF Dispatch
  <1>4. ASSUME NEW w \in BusWorkers, WorkerStep(w)
        PROVE  EInv'
    BY <1>3, <1>4, TakeEInv DEF WorkerStep, Dispatchers
  <1>5. CASE PollerStep
    BY <1>2, <1>3, <1>5 DEF PollerStep, Dispatchers
  <1>6. CASE \E n \in Notices : Emit(n)
    BY <1>6, EmitEInv
  <1>7. CASE CancelPoller \/ Close \/ Drained \/ HubNew \/ HubClose
    BY <1>7, ControlEInv, DrainedEInv
  <1>8. CASE \E c \in Conns : Open(c) \/ Receive(c) \/ NextFrame(c) \/ StreamClose(c)
    BY <1>8, StreamEInv
  <1>9. CASE Crash
    BY <1>9, CrashEInv
  <1>10. CASE UNCHANGED vars
    <2>1. Shape'
      BY <1>10 DEF EInv, Shape, vars, gateway, history
    <2> QED BY <1>10, <2>1, QuietEInv DEF vars, gateway, history
  <1> QED BY <1>1, <1>4, <1>5, <1>6, <1>7, <1>8, <1>9, <1>10 DEF Next

\* What holds between the outbox, its poller, the bus and the streams.
THEOREM EventsInvariant == Spec => []EInv
  <1>1. Init => EInv
    BY InitEInv
  <1>2. EInv /\ [Next]_vars => EInv'
    BY NextEInv
  <1> QED BY <1>1, <1>2, PTL DEF Spec

\* Delivery in order and at least once, through errors, cancellation, Close and
\* restarts (Poller.Poll): a published entry was accepted by the required
\* handler, and an entry is handed over only when every older one the poll saw
\* is published; no queue, channel or subject exceeds its limit.
THEOREM OutboxSoundHolds == Spec => []OutboxSound
  <1>1. EInv => OutboxSound
    BY EInvSound
  <1> QED BY <1>1, EventsInvariant, PTL

\* When Memory.Close returns, every accepted notice was dispatched and no call is
\* running; and no stream returns a frame after Stream.Close.
THEOREM CloseSoundHolds == Spec => []CloseSound
  <1>1. EInv => CloseSound
    BY EInvCloses
  <1> QED BY <1>1, EventsInvariant, PTL

\* A record is handed over twice only if its own delivery or mark was
\* interrupted: Poll's failure on one entry replays no other.
THEOREM ReplayIsConfinedHolds == Spec => ReplayIsConfined
  <1> DEFINE Confined == \A e \in Records :
                            (disp[Poller].ev # e /\ disp'[Poller].ev = e) => e \notin begun
  <1>1. ASSUME EInv, [Next]_vars PROVE [Confined]_vars
    <2> SUFFICES ASSUME NEW e \in Records, disp[Poller].ev # e, disp'[Poller].ev = e,
                        e \in begun
                 PROVE  FALSE
      OBVIOUS
    <2>1. /\ Poller \in Dispatchers /\ disp \in [Dispatchers -> Call] /\ e # None
          /\ \A w \in BusWorkers : w # Poller
      BY <1>1, Constants DEF EInv, Shape, Dispatchers
    <2>2. CASE Admit
      <3>1. PICK f \in poller.batch :
               disp' = [disp EXCEPT ![Poller] = [Idle EXCEPT !.pc = "admitted", !.ev = f]]
        BY <1>1, <2>2 DEF Admit
      <3>2. e = f /\ poller.ev = None /\ rows[e].state = "stored"
        BY <1>1, <2>1, <2>2, <3>1 DEF Admit, Idle, EInv, PollerCalls, EntriesHold
      <3>3. \A k \in begun : Published(k) \/ k = poller.ev
        BY <1>1 DEF EInv, BegunHolds
      <3> QED BY <2>1, <3>2, <3>3 DEF Published
    <2>3. CASE Dispatch(Poller)
      <3>1. CASE Return(Poller)
        BY <2>1, <3>1 DEF Return, Idle
      <3>2. CASE \/ Snapshot(Poller) \/ CallHandler(Poller) \/ CallHub(Poller)
                 \/ \E c \in Conns : Send(Poller, c)
        <4>1. disp[Poller] \in Call
          BY <2>1
        <4>2. disp'[Poller].ev = disp[Poller].ev
          <5>1. CASE Snapshot(Poller)
            BY <2>1, <4>1, <5>1 DEF Snapshot, Call
          <5>2. CASE CallHandler(Poller)
            BY <2>1, <4>1, <5>2 DEF CallHandler, Call
          <5>3. CASE CallHub(Poller)
            BY <2>1, <4>1, <5>3 DEF CallHub, Call
          <5>4. CASE \E c \in Conns : Send(Poller, c)
            <6>1. PICK c \in Conns : Send(Poller, c)
              BY <5>4
            <6>2. disp' = [disp EXCEPT ![Poller] =
                             [disp[Poller] EXCEPT
                                !.targets = @ \ {c},
                                !.pc = IF disp[Poller].targets = {c} THEN "calling" ELSE "fanout"]]
              BY <6>1 DEF Send
            <6> QED BY <2>1, <4>1, <6>2 DEF Call
          <5> QED BY <3>2, <5>1, <5>2, <5>3, <5>4
        <4> QED BY <4>2
      <3> QED BY <2>3, <3>1, <3>2 DEF Dispatch
    <2>4. ASSUME NEW w \in BusWorkers, WorkerStep(w) PROVE FALSE
      BY <2>1, <2>4 DEF WorkerStep, Take, Dispatch, Snapshot, CallHandler, CallHub, Send, Return
    <2>5. CASE Crash
      BY <2>1, <2>5 DEF Crash, Idle
    <2>6. CASE disp' = disp
      BY <2>6
    <2>7. CASE \/ \E r \in Records : AppendTx(r) \/ EndTx(r) \/ PurgePublished(r)
               \/ Poll \/ Mark \/ CancelPoller \/ Close \/ Drained \/ HubNew \/ HubClose
               \/ \E n \in Notices : Emit(n)
               \/ \E c \in Conns : Open(c) \/ Receive(c) \/ NextFrame(c) \/ StreamClose(c)
      BY <2>6, <2>7 DEF AppendTx, EndTx, PurgePublished, Poll, Mark, CancelPoller, Close,
         Drained, HubNew, HubClose, Emit, Open, Receive, NextFrame, StreamClose
    <2>8. CASE UNCHANGED vars
      BY <2>6, <2>8 DEF vars
    <2> QED BY <1>1, <2>2, <2>3, <2>4, <2>5, <2>7, <2>8 DEF Next, PollerStep
  <1>2. EInv /\ [Next]_vars => [Confined]_vars
    BY <1>1
  <1> QED BY <1>2, EventsInvariant, PTL DEF Spec, ReplayIsConfined
=============================================================================
