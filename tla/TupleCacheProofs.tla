--------------------------- MODULE TupleCacheProofs ---------------------------
(* The tuple cache, for every set of tuples, replicas, readers and receipts    *)
(* and every bound on staleness.                                               *)
EXTENDS TupleCache, TLAPS

\* A delivery between its snapshot and the end of its acknowledgement: the
\* source receipt it is based on, the events it has taken, and whether the
\* receipt it carries was minted for it.
Delivers(l) == l.pc \in {"publish", "ack"}
Base(l) == IF l.pc = "publish" THEN l.snap.receipt ELSE l.receipt
Taken(l) == IF l.pc = "publish" THEN l.snap.changes ELSE l.changes
Mints(l) == l.pc = "ack" \/ (l.pc = "publish" /\ l.next # l.before)
Polls(l) == l.pc \in {"snapshot", "publish"}

\* The functions and the locals of a reader have their domains.
ReadFields(x) == x.pc = "eval" => DOMAIN x = {"pc", "state", "view"}
TInv ==
    /\ TypeOK /\ DOMAIN poll = Replicas /\ DOMAIN read = Readers
    /\ \A r \in Readers : ReadFields(read[r])

\* Receipts in use have been issued.
Known(c) == c \in issued \cup {NoReceipt}
ReceiptsKnown ==
    /\ Known(receipt) /\ Known(mirror.receipt)
    /\ \A r \in Replicas :
          /\ Polls(poll[r]) => Known(poll[r].before)
          /\ Delivers(poll[r]) => Known(Base(poll[r])) /\ poll[r].next \in issued
    /\ \A r \in Readers : read[r].pc = "eval" => read[r].state \in issued

\* A minted receipt is nobody else's until its delivery is acknowledged, and
\* nobody has seen it before it is published.
ReceiptsApart ==
    /\ \A r \in Replicas : Mints(poll[r]) =>
          /\ receipt # poll[r].next
          /\ \A q \in Replicas : Delivers(poll[q]) => Base(poll[q]) # poll[r].next
          /\ \A q \in Replicas \ {r} : Mints(poll[q]) => poll[q].next # poll[r].next
    /\ \A r \in Replicas : (Mints(poll[r]) /\ poll[r].pc = "publish") =>
          /\ mirror.receipt # poll[r].next
          /\ \A q \in Replicas : Polls(poll[q]) => poll[q].before # poll[r].next
          /\ \A q \in Readers : read[q].pc = "eval" => read[q].state # poll[r].next

\* Events of one tuple commit in the order of their IDs.
IdsOrdered ==
    /\ \A e \in outbox : e.id <= lastID
    /\ \A t \in DOMAIN writing : \A e \in outbox : e.tuple = t => e.id < writing[t]

\* Tuples with events applied give a result, unless the events hold a reset.
Gives(tuples, events, result) ==
    (\A e \in events : e.tuple # NoTuple) => Applied(tuples, events) = result

\* While the source receipt stands, the events taken are in the outbox and older
\* than the others of their tuples.
DeltaHolds(l) ==
    (Delivers(l) /\ ~ recreated /\ receipt = Base(l)) =>
        /\ Taken(l) \subseteq outbox
        /\ \A e \in outbox \ Taken(l), f \in Taken(l) : e.tuple = f.tuple => f.id < e.id

\* What a delivery about to publish will leave, with the events it has not taken.
PublishHolds(l) ==
    l.pc = "publish" =>
        /\ l.next = l.before => ~ l.snap.full /\ l.snap.changes = {}
        /\ ~ l.snap.full => /\ l.snap.receipt = l.before /\ l.before # NoReceipt
                            /\ \A e \in l.snap.changes : e.tuple # NoTuple
        /\ (l.snap.full /\ ~ recreated /\ receipt = l.snap.receipt) =>
              Gives(l.snap.tuples, outbox \ l.snap.changes, facts)

\* A publication still in the mirror is worth acknowledging.
AckHolds(l) ==
    (l.pc = "ack" /\ ~ recreated /\ receipt = l.receipt /\ mirror.receipt = l.next) =>
        Gives(mirror.tuples, outbox \ l.changes, facts)

\* The mirror the source's receipt names is complete with the outbox.
Complete ==
    (mirror.receipt = receipt /\ receipt # NoReceipt) => Gives(mirror.tuples, outbox, facts)

\* What keeps a mirror and its outbox complete.
DInv ==
    /\ IdsOrdered /\ (recreated => receipt = NoReceipt) /\ Complete
    /\ \A r \in Replicas : DeltaHolds(poll[r]) /\ PublishHolds(poll[r]) /\ AckHolds(poll[r])

\* The history ends with the present facts.
HistoryOK ==
    /\ history \in Seq([facts : SUBSET Tuples, ended : Nat])
    /\ Len(history) >= 1
    /\ history[Len(history)].facts = facts /\ history[Len(history)].ended = Never

\* What a delivery will publish is the version its snapshot saw, which was
\* current when the delivery started or later.
VersionHolds(l) ==
    /\ Polls(l) => l.started <= now
    /\ l.pc = "publish" =>
          /\ l.snap.version \in 1..Len(history)
          /\ l.started <= history[l.snap.version].ended
          /\ l.snap.full => l.snap.tuples = history[l.snap.version].facts
          /\ (~ l.snap.full /\ mirror.receipt = l.before) =>
                Applied(mirror.tuples, l.snap.changes) = history[l.snap.version].facts

\* The mirror is one version, and expires before that is too old.
MirrorHolds ==
    mirror.receipt # NoReceipt =>
        /\ mirror.until <= now + MaxStaleness
        /\ mirror.version \in 1..Len(history)
        /\ mirror.tuples = history[mirror.version].facts
        /\ mirror.until <= history[mirror.version].ended + MaxStaleness

\* What a reader has memoized is what the publication it reads holds.
ReadHolds(x) ==
    (x.pc = "eval" /\ mirror.receipt = x.state) =>
        \A t \in DOMAIN x.view : x.view[t] = (t \in mirror.tuples)

\* What keeps an answer recent.
VInv ==
    /\ HistoryOK /\ MirrorHolds
    /\ \A r \in Replicas : VersionHolds(poll[r])
    /\ \A r \in Readers : ReadHolds(read[r])

\* Receipts in use have been issued, and the fresh ones are apart.
RInv == ReceiptsKnown /\ ReceiptsApart

\* The inductive invariant.
CInv == TInv /\ RInv /\ DInv /\ VInv


-----------------------------------------------------------------------------
(* The model's operators. *)

\* The locals of a delivery, by where it is.
LEMMA PollFields ==
  ASSUME NEW l \in PollState
  PROVE  /\ l.pc \in {"idle", "snapshot", "publish", "ack"}
         /\ l.pc = "idle" => l = Idle
         /\ Polls(l) => l.before \in Receipts \cup {NoReceipt} /\ l.started \in Times
         /\ l.pc = "publish" => l.snap \in Snap /\ l.next \in Receipts
         /\ l.pc = "ack" => /\ l.receipt \in Receipts \cup {NoReceipt}
                            /\ l.changes \subseteq Event /\ l.next \in Receipts
  BY DEF PollState, Idle, Polls

\* The fields of a snapshot.
LEMMA SnapFields ==
  ASSUME NEW s \in Snap
  PROVE  /\ s.full \in BOOLEAN /\ s.receipt \in Receipts \cup {NoReceipt}
         /\ s.tuples \subseteq Tuples /\ s.changes \subseteq Event /\ s.version \in Nat
  BY DEF Snap

\* Nothing happens in an idle delivery.
LEMMA IdlePoll ==
  /\ Idle.pc = "idle" /\ Idle \in PollState
  /\ ~ Delivers(Idle) /\ ~ Mints(Idle) /\ ~ Polls(Idle)
  BY DEF Idle, PollState, Delivers, Mints, Polls

\* A delivery that mints a receipt is between its snapshot and its answer.
LEMMA MintsDelivers ==
  ASSUME NEW l
  PROVE  Mints(l) => Delivers(l)
  BY DEF Mints, Delivers

\* One replica's delivery moves on.
LEMMA PollMove ==
  ASSUME TInv, NEW r \in Replicas, NEW l, poll' = [poll EXCEPT ![r] = l]
  PROVE  /\ poll'[r] = l /\ \A q \in Replicas \ {r} : poll'[q] = poll[q]
         /\ DOMAIN poll' = Replicas
  BY DEF TInv

\* A set of events leaves tuples alone when it is empty.
LEMMA AppliedNone ==
  ASSUME NEW m \in SUBSET Tuples
  PROVE  Applied(m, {}) = m
  BY DEF Applied

\* Facts after one event.
After(F, e) == IF e.add THEN F \cup {e.tuple} ELSE F \ {e.tuple}

\* A newer event takes effect after all the others.
LEMMA AppliedOne ==
  ASSUME NEW m, NEW S \in SUBSET Event, NEW e \in Event, e.tuple \in Tuples,
         \A f \in S : f.tuple = e.tuple => f.id < e.id
  PROVE  Applied(m, S \cup {e}) = After(Applied(m, S), e)
  <1>0. e.id \in Int /\ \A f \in S : f.id \in Int
    BY DEF Event
  <1>1. ASSUME NEW t \in Tuples, t # e.tuple
        PROVE  t \in Applied(m, S \cup {e}) <=> t \in Applied(m, S)
    <2>1. {f \in S \cup {e} : f.tuple = t} = {f \in S : f.tuple = t}
      BY <1>1
    <2> QED BY <2>1 DEF Applied
  <1>2. e.tuple \in Applied(m, S \cup {e}) <=> e.add
    <2> DEFINE own == {f \in S \cup {e} : f.tuple = e.tuple}
    <2>1. e \in own /\ own # {}
      OBVIOUS
    <2>2. \A f \in own : f.id <= e.id /\ (f # e => ~ (e.id <= f.id))
      BY <1>0
    <2>3. e.tuple \in Applied(m, S \cup {e}) <=> \E f \in own : f.add /\ \A g \in own : g.id <= f.id
      BY <2>1 DEF Applied
    <2> HIDE DEF own
    <2> QED BY <2>1, <2>2, <2>3
  <1>3. Applied(m, S \cup {e}) \subseteq Tuples /\ Applied(m, S) \subseteq Tuples
    BY DEF Applied
  <1> QED BY <1>1, <1>2, <1>3 DEF After

\* Events may be applied in two portions, when the second has the newer ones.
LEMMA AppliedTwice ==
  ASSUME NEW m, NEW C \in SUBSET Event, NEW O \in SUBSET Event, C \subseteq O,
         \A e \in O \ C, f \in C : e.tuple = f.tuple => f.id < e.id
  PROVE  Applied(Applied(m, C), O \ C) = Applied(m, O)
  <1>0. \A f \in O : f.id \in Int
    BY DEF Event
  <1>1. ASSUME NEW t \in Tuples
        PROVE  t \in Applied(Applied(m, C), O \ C) <=> t \in Applied(m, O)
    <2> DEFINE old == {e \in C : e.tuple = t}
               new == {e \in O \ C : e.tuple = t}
               own == {e \in O : e.tuple = t}
    <2>1. own = old \cup new
      OBVIOUS
    <2>2. \A e \in new, f \in old : f.id < e.id
      OBVIOUS
    <2>3. t \in Applied(m, O) <=>
             IF own = {} THEN t \in m ELSE \E e \in own : e.add /\ \A f \in own : f.id <= e.id
      BY DEF Applied
    <2>4. t \in Applied(m, C) <=>
             IF old = {} THEN t \in m ELSE \E e \in old : e.add /\ \A f \in old : f.id <= e.id
      BY DEF Applied
    <2>5. t \in Applied(Applied(m, C), O \ C) <=>
             IF new = {} THEN t \in Applied(m, C)
             ELSE \E e \in new : e.add /\ \A f \in new : f.id <= e.id
      BY DEF Applied
    <2>6. \A e \in own : e.id \in Int
      BY <1>0
    <2> HIDE DEF old, new, own
    <2>7. CASE new = {}
      BY <2>1, <2>3, <2>4, <2>5, <2>7
    <2>8. CASE new # {}
      <3>1. ASSUME NEW e \in own, \A f \in own : f.id <= e.id PROVE e \in new
        <4>1. PICK g \in new : TRUE
          BY <2>8
        <4>2. g.id <= e.id /\ g \in own
          BY <2>1, <3>1, <4>1
        <4> QED BY <2>1, <2>2, <2>6, <3>1, <4>2
      <3>2. ASSUME NEW e \in new, \A f \in new : f.id <= e.id
            PROVE  \A f \in own : f.id <= e.id
        BY <2>1, <2>2, <2>6, <3>2
      <3> QED BY <2>1, <2>3, <2>5, <2>8, <3>1, <3>2
    <2> QED BY <2>7, <2>8
  <1>2. Applied(Applied(m, C), O \ C) \subseteq Tuples /\ Applied(m, O) \subseteq Tuples
    <2>1. \A q, S : Applied(q, S) \subseteq Tuples
      BY DEF Applied
    <2> QED BY <2>1, Zenon
  <1> QED BY <1>1, <1>2

\* A committed change: the version it replaces ends now, the others stay.
LEMMA ReplaceHistory ==
  ASSUME HistoryOK, NEW new \in SUBSET Tuples, Replace(new), now \in Nat
  PROVE  /\ HistoryOK' /\ Len(history') = Len(history) + 1 /\ Len(history) \in Nat
         /\ \A v \in 1..Len(history) :
               /\ history'[v].facts = history[v].facts
               /\ history'[v].ended = IF v = Len(history) THEN now ELSE history[v].ended
  <1> DEFINE H == [history EXCEPT ![Len(history)].ended = now]
             n == Len(history)
             Version == [facts : SUBSET Tuples, ended : Nat]
  <1>1. history \in Seq(Version) /\ n \in Nat /\ n >= 1 /\ DOMAIN history = 1..n
    BY DEF HistoryOK
  <1>2. \A v \in 1..n : history[v] \in Version
    <2> HIDE DEF H, n, Version
    <2> QED BY <1>1 DEF n
  <1>3. DOMAIN H = 1..n
    BY <1>1
  <1>4. \A v \in 1..n : H[v] = IF v = n THEN [history[v] EXCEPT !.ended = now] ELSE history[v]
    BY <1>1
  <1>5. \A v \in 1..n : /\ H[v] \in Version /\ H[v].facts = history[v].facts
                        /\ H[v].ended = IF v = n THEN now ELSE history[v].ended
    <2>1. ASSUME NEW x \in Version
          PROVE  /\ [x EXCEPT !.ended = now] \in Version
                 /\ [x EXCEPT !.ended = now].facts = x.facts
                 /\ [x EXCEPT !.ended = now].ended = now
      OBVIOUS
    <2> HIDE DEF H, n, Version
    <2> QED BY <1>2, <1>4, <2>1
  <1>6. H \in Seq(Version) /\ Len(H) = n
    <2>1. H = [v \in 1..n |-> H[v]]
      BY <1>3
    <2> HIDE DEF H, n, Version
    <2> QED BY <1>1, <1>5, <2>1
  <1>7. Never \in Nat
    BY TupleCacheAssumption DEF Never
  <1>8. [facts |-> new, ended |-> Never] \in Version
    BY <1>7
  <1>9. history' = Append(H, [facts |-> new, ended |-> Never]) /\ facts' = new
    BY DEF Replace
  <1> HIDE DEF H, n, Version
  <1>10. /\ history' \in Seq(Version) /\ Len(history') = n + 1
         /\ history'[n + 1] = [facts |-> new, ended |-> Never]
         /\ \A v \in 1..n : history'[v] = H[v]
    BY <1>1, <1>6, <1>8, <1>9
  <1>11. Never' = Never
    BY DEF Never
  <1>12. HistoryOK'
    BY <1>1, <1>9, <1>10, <1>11 DEF HistoryOK, Version
  <1> QED BY <1>1, <1>5, <1>10, <1>12 DEF n

-----------------------------------------------------------------------------
(* What a step does to a delivery. *)

\* A poll starts from the mirror's receipt.
LEMMA StartStep ==
  ASSUME TInv, NEW r \in Replicas, PollStart(r)
  PROVE  \E l : /\ poll' = [poll EXCEPT ![r] = l] /\ l \in PollState
                /\ l.pc = "snapshot" /\ l.before = mirror.receipt /\ l.started = now
  <1>1. PICK l : l = [pc |-> "snapshot", before |-> mirror.receipt, started |-> now]
    OBVIOUS
  <1>2. mirror.receipt \in Receipts \cup {NoReceipt} /\ now \in Times
    BY DEF TInv, TypeOK, Mirror
  <1>3. l \in PollState
    BY <1>1, <1>2 DEF PollState
  <1>4. l.pc = "snapshot" /\ l.before = mirror.receipt /\ l.started = now
    BY <1>1
  <1>5. poll' = [poll EXCEPT ![r] = l]
    BY <1>1 DEF PollStart
  <1> QED BY <1>3, <1>4, <1>5

\* What a snapshot sees.
LEMMA SnapshotOf ==
  ASSUME TInv, HistoryOK, NEW mirrored, NEW s, s = snapshotOf(mirrored)
  PROVE  /\ s \in Snap /\ s.receipt = receipt /\ s.changes = outbox /\ s.version = Len(history)
         /\ s.full => s.tuples = facts
         /\ ~ s.full => /\ mirrored = receipt /\ mirrored # NoReceipt
                        /\ \A e \in outbox : e.tuple # NoTuple
  <1>1. PICK full : full = (mirrored = NoReceipt \/ mirrored # receipt
                               \/ \E e \in outbox : e.tuple = NoTuple)
    OBVIOUS
  <1>2. PICK tuples : tuples = IF full THEN facts ELSE {}
    OBVIOUS
  <1>3. s = [full |-> full, receipt |-> receipt, tuples |-> tuples,
             changes |-> outbox, version |-> Len(history)]
    BY <1>1, <1>2 DEF snapshotOf
  <1>4. /\ s.full = full /\ s.receipt = receipt /\ s.tuples = tuples
        /\ s.changes = outbox /\ s.version = Len(history)
    BY <1>3
  <1>5. full \in BOOLEAN /\ tuples \subseteq Tuples
    BY <1>1, <1>2 DEF TInv, TypeOK
  <1>6. receipt \in Receipts \cup {NoReceipt} /\ outbox \subseteq Event /\ Len(history) \in Nat
    BY DEF TInv, TypeOK, HistoryOK
  <1>7. s \in Snap
    BY <1>3, <1>5, <1>6 DEF Snap
  <1> QED BY <1>1, <1>2, <1>4, <1>7

\* The delivery a snapshot leads to: minted or a renewal.
Snapshots(r, l) ==
    /\ ~ recreated
    /\ l.pc = "publish" /\ l.before = poll[r].before /\ l.started = poll[r].started
    /\ l.snap \in Snap /\ l.snap.receipt = receipt /\ l.snap.changes = outbox
    /\ l.snap.version = Len(history)
    /\ l.snap.full => l.snap.tuples = facts
    /\ ~ l.snap.full => /\ l.before = receipt /\ l.before # NoReceipt
                        /\ \A e \in outbox : e.tuple # NoTuple
    /\ \/ l.next \in Receipts \ issued /\ issued' = issued \cup {l.next}
       \/ l.next = l.before /\ ~ l.snap.full /\ l.snap.changes = {} /\ UNCHANGED issued

\* A snapshot is dropped, or leads to a publication.
LEMMA SnapshotStep ==
  ASSUME TInv, HistoryOK, NEW r \in Replicas, NEW rebuild \in BOOLEAN, PollSnapshot(r, rebuild)
  PROVE  /\ poll[r].pc = "snapshot"
         /\ \/ poll' = [poll EXCEPT ![r] = Idle] /\ UNCHANGED issued
            \/ \E l \in PollState : poll' = [poll EXCEPT ![r] = l] /\ Snapshots(r, l)
  <1>1. poll[r].pc = "snapshot"
    BY DEF PollSnapshot
  <1>2. CASE recreated \/ status[r] = "closed"
    BY <1>1, <1>2 DEF PollSnapshot, Detaches, Fails
  <1>3. CASE ~ recreated /\ status[r] # "closed"
    <2>1. PICK mirrored : mirrored = IF rebuild THEN NoReceipt ELSE poll[r].before
      OBVIOUS
    <2>2. PICK s : s = snapshotOf(mirrored)
      OBVIOUS
    <2>3. /\ s \in Snap /\ s.receipt = receipt /\ s.changes = outbox /\ s.version = Len(history)
          /\ s.full => s.tuples = facts
          /\ ~ s.full => /\ mirrored = receipt /\ mirrored # NoReceipt
                         /\ \A e \in outbox : e.tuple # NoTuple
      BY <2>2, SnapshotOf
    <2>4. PICK next :
             /\ poll' = [poll EXCEPT ![r] =
                   [pc |-> "publish", before |-> poll[r].before,
                    started |-> poll[r].started, snap |-> s, next |-> next]]
             /\ \/ next \in Receipts \ issued /\ issued' = issued \cup {next}
                \/ next = poll[r].before /\ ~ s.full /\ s.changes = {} /\ UNCHANGED issued
      BY <1>3, <2>1, <2>2 DEF PollSnapshot
    <2>5. PICK l : l = [pc |-> "publish", before |-> poll[r].before,
                        started |-> poll[r].started, snap |-> s, next |-> next]
      OBVIOUS
    <2>6. /\ l.pc = "publish" /\ l.before = poll[r].before /\ l.started = poll[r].started
          /\ l.snap = s /\ l.next = next
      BY <2>5
    <2>7. Snapshots(r, l)
      BY <1>3, <2>1, <2>3, <2>4, <2>6 DEF Snapshots
    <2>8. poll[r].before \in Receipts \cup {NoReceipt} /\ poll[r].started \in Times
      BY <1>1, PollFields DEF TInv, TypeOK, Polls
    <2>9. next \in Receipts
      BY <2>1, <2>3, <2>4, <2>8
    <2>10. l \in PollState
      BY <2>3, <2>5, <2>8, <2>9 DEF PollState
    <2> QED BY <1>1, <2>4, <2>5, <2>7, <2>10
  <1> QED BY <1>2, <1>3

\* A publication replaces the mirror, and what is left is its acknowledgement,
\* or nothing when it only renewed the mirror.
Publishes(r, l) ==
    /\ mirror.receipt = poll[r].before /\ now < poll[r].started + MaxStaleness
    /\ mirror' \in Mirror /\ mirror'.receipt = poll[r].next
    /\ mirror'.tuples = IF poll[r].snap.full THEN poll[r].snap.tuples
                        ELSE Applied(mirror.tuples, poll[r].snap.changes)
    /\ mirror'.until = poll[r].started + MaxStaleness
    /\ mirror'.version = poll[r].snap.version
    /\ IF poll[r].next = poll[r].before THEN l = Idle
       ELSE /\ l.pc = "ack" /\ l.receipt = poll[r].snap.receipt
            /\ l.changes = poll[r].snap.changes /\ l.next = poll[r].next

\* A publication happens, or the delivery is dropped.
LEMMA PublishStep ==
  ASSUME TInv, NEW r \in Replicas, Publish(r)
  PROVE  /\ poll[r].pc = "publish"
         /\ \E l \in PollState :
               /\ poll' = [poll EXCEPT ![r] = l]
               /\ Publishes(r, l) \/ (l = Idle /\ UNCHANGED mirror)
  <1>1. poll[r].pc = "publish"
    BY DEF Publish
  <1>2. /\ poll[r].before \in Receipts \cup {NoReceipt} /\ poll[r].started \in Times
        /\ poll[r].snap \in Snap /\ poll[r].next \in Receipts
    BY <1>1, PollFields DEF TInv, TypeOK, Polls
  <1>3. PICK s : s = poll[r].snap
    OBVIOUS
  <1>4. /\ s.full \in BOOLEAN /\ s.receipt \in Receipts \cup {NoReceipt}
        /\ s.tuples \subseteq Tuples /\ s.changes \subseteq Event /\ s.version \in Nat
    BY <1>2, <1>3, SnapFields
  <1>5. CASE mayPublish(r) /\ mirror' = Published(r)
    <2>1. PICK tuples : tuples = IF s.full THEN s.tuples ELSE Applied(mirror.tuples, s.changes)
      OBVIOUS
    <2>2. tuples \subseteq Tuples
      BY <1>4, <2>1 DEF Applied
    <2>3. mirror' = [receipt |-> poll[r].next, tuples |-> tuples,
                     until |-> poll[r].started + MaxStaleness, version |-> s.version]
      BY <1>3, <1>5, <2>1 DEF Published, deadline
    <2>4. poll[r].started + MaxStaleness \in 0..(MaxTime + MaxStaleness)
      BY <1>2, TupleCacheAssumption DEF Times
    <2>5. /\ mirror' \in Mirror /\ mirror'.receipt = poll[r].next /\ mirror'.tuples = tuples
          /\ mirror'.until = poll[r].started + MaxStaleness /\ mirror'.version = s.version
      BY <1>2, <1>4, <2>2, <2>3, <2>4 DEF Mirror
    <2>6. mirror.receipt = poll[r].before /\ now < poll[r].started + MaxStaleness
      BY <1>5 DEF mayPublish, deadline
    <2>7. CASE poll[r].next = poll[r].before
      <3>1. poll' = [poll EXCEPT ![r] = Idle]
        <4>1. CASE Fails(r)
          BY <4>1 DEF Fails
        <4>2. CASE ~ Fails(r)
          BY <2>7, <4>2 DEF Publish, Succeeds
        <4> QED BY <4>1, <4>2
      <3>2. Publishes(r, Idle)
        BY <1>3, <2>1, <2>5, <2>6, <2>7 DEF Publishes
      <3> QED BY <1>1, <3>1, <3>2, IdlePoll
    <2>8. CASE poll[r].next # poll[r].before
      <3>1. PICK l : l = [pc |-> "ack", receipt |-> s.receipt, changes |-> s.changes,
                          next |-> poll[r].next]
        OBVIOUS
      <3>2. l.pc = "ack" /\ l.receipt = s.receipt /\ l.changes = s.changes /\ l.next = poll[r].next
        BY <3>1
      <3>3. l \in PollState
        BY <1>2, <1>4, <3>1 DEF PollState
      <3>4. Publishes(r, l)
        BY <1>3, <2>1, <2>5, <2>6, <2>8, <3>2 DEF Publishes
      <3>5. CASE poll' = [poll EXCEPT ![r] = l]
        BY <1>1, <3>3, <3>4, <3>5
      <3>6. CASE poll' # [poll EXCEPT ![r] = l]
        <4>1. Fails(r) /\ UNCHANGED mirror
          BY <1>3, <2>8, <3>1, <3>6 DEF Publish
        <4> QED BY <1>1, <4>1, IdlePoll DEF Fails
      <3> QED BY <3>5, <3>6
    <2> QED BY <2>7, <2>8
  <1>6. CASE ~ (mayPublish(r) /\ mirror' = Published(r))
    <2>1. Fails(r) /\ UNCHANGED mirror
      BY <1>6 DEF Publish
    <2> QED BY <1>1, <2>1, IdlePoll DEF Fails
  <1> QED BY <1>5, <1>6

\* An acknowledgement installs the receipt and removes the events taken, or
\* leaves the source alone; the delivery is over.
LEMMA AckStep ==
  ASSUME TInv, NEW r \in Replicas, Acknowledge(r)
  PROVE  /\ poll[r].pc = "ack" /\ poll' = [poll EXCEPT ![r] = Idle]
         /\ UNCHANGED <<facts, lastID, writing, recreated, history, mirror, issued, now, read, faults>>
         /\ \/ /\ ~ recreated /\ receipt = poll[r].receipt
               /\ receipt' = poll[r].next /\ outbox' = outbox \ poll[r].changes
            \/ UNCHANGED <<receipt, outbox>>
  BY DEF Acknowledge, Succeeds, Fails, Detaches, Unacknowledged, NoFault

-----------------------------------------------------------------------------
(* Types. *)

\* A step that leaves the source and the readers alone.
LEMMA DeliveryTypes ==
  ASSUME TInv, NEW r \in Replicas, NEW l \in PollState, poll' = [poll EXCEPT ![r] = l],
         status' \in [Replicas -> Statuses], mirror' \in Mirror, issued' \subseteq Receipts,
         receipt' \in Receipts \cup {NoReceipt}, outbox' \subseteq Event, faults' \in 0..MaxFaults,
         UNCHANGED <<facts, lastID, writing, recreated, now, read>>
  PROVE  TInv'
  <1>1. DOMAIN poll' = Replicas /\ \A q \in Replicas : poll'[q] \in PollState
    BY PollMove DEF TInv, TypeOK
  <1>2. DOMAIN read' = Readers /\ \A q \in Readers : IsRead(read'[q]) /\ ReadFields(read'[q])
    BY DEF TInv, TypeOK
  <1>3. /\ facts' \subseteq Tuples /\ lastID' \in 0..MaxEvents /\ DOMAIN writing' \subseteq Tuples
        /\ \A t \in DOMAIN writing' : writing'[t] \in 1..lastID'
        /\ recreated' \in BOOLEAN /\ now' \in Times
    BY DEF TInv, TypeOK
  <1>4. \A q \in Readers : IsRead(read[q])' /\ ReadFields(read[q])'
    BY <1>2 DEF IsRead, Idle, ReadFields
  <1>5. PollState' = PollState /\ Mirror' = Mirror
    BY DEF PollState, Mirror, Idle, Times, Event, Snap
  <1> QED BY <1>1, <1>2, <1>3, <1>4, <1>5 DEF TInv, TypeOK

\* A replica's flag.
LEMMA FlagType ==
  ASSUME TInv, NEW r \in Replicas, NEW flag \in Statuses, Flag(r, flag)
  PROVE  status' \in [Replicas -> Statuses]
  BY DEF TInv, TypeOK, Flag

\* A fault is counted.
LEMMA FaultType ==
  ASSUME TInv, Fault \/ NoFault
  PROVE  faults' \in 0..MaxFaults
  BY TupleCacheAssumption DEF TInv, TypeOK, Fault, NoFault

\* Deliveries keep the types.
LEMMA DeliveryTInv ==
  ASSUME TInv, HistoryOK, NEW r \in Replicas
  PROVE  /\ PollStart(r) => TInv'
         /\ \A rebuild \in BOOLEAN : PollSnapshot(r, rebuild) => TInv'
         /\ Publish(r) \/ Acknowledge(r) \/ PollFails(r) => TInv'
  <1>0. /\ status \in [Replicas -> Statuses] /\ mirror \in Mirror /\ issued \subseteq Receipts
        /\ receipt \in Receipts \cup {NoReceipt} /\ outbox \subseteq Event
        /\ {"ready", "detached"} \subseteq Statuses
    BY DEF TInv, TypeOK, Statuses
  <1>1. ASSUME PollStart(r) PROVE TInv'
    <2>1. PICK l : l \in PollState /\ poll' = [poll EXCEPT ![r] = l]
      BY <1>1, StartStep
    <2>2. faults' \in 0..MaxFaults
      BY <1>1, FaultType DEF PollStart
    <2> QED BY <1>0, <1>1, <2>1, <2>2, DeliveryTypes DEF PollStart, SourceQuiet, source
  <1>2. ASSUME NEW rebuild \in BOOLEAN, PollSnapshot(r, rebuild) PROVE TInv'
    <2>1. PICK l \in PollState : poll' = [poll EXCEPT ![r] = l] /\ issued' \subseteq Receipts
      BY <1>0, <1>2, SnapshotStep, IdlePoll DEF Snapshots
    <2>2. status' \in [Replicas -> Statuses]
      BY <1>0, <1>2, FlagType DEF PollSnapshot, Fails, Detaches
    <2>3. faults' \in 0..MaxFaults
      BY <1>2, FaultType DEF PollSnapshot
    <2> QED BY <1>0, <1>2, <2>1, <2>2, <2>3, DeliveryTypes DEF PollSnapshot, SourceQuiet, source
  <1>3. ASSUME Publish(r) PROVE TInv'
    <2>1. PICK l \in PollState : poll' = [poll EXCEPT ![r] = l] /\ mirror' \in Mirror
      BY <1>0, <1>3, PublishStep DEF Publishes
    <2>2. status' \in [Replicas -> Statuses]
      BY <1>0, <1>3, FlagType DEF Publish, Fails, Succeeds
    <2>3. faults' \in 0..MaxFaults
      BY <1>3, FaultType DEF Publish
    <2> QED BY <1>0, <1>3, <2>1, <2>2, <2>3, DeliveryTypes DEF Publish, SourceQuiet, source
  <1>4. ASSUME Acknowledge(r) PROVE TInv'
    <2>1. status' \in [Replicas -> Statuses]
      BY <1>0, <1>4, FlagType DEF Acknowledge, Fails, Succeeds, Detaches
    <2>2. poll[r].pc = "ack" => poll[r].next \in Receipts
      BY PollFields DEF TInv, TypeOK
    <2>3. receipt' \in Receipts \cup {NoReceipt} /\ outbox' \subseteq Event
      BY <1>0, <1>4, <2>2, AckStep
    <2>4. faults' \in 0..MaxFaults
      BY <1>4, FaultType DEF Acknowledge
    <2> QED BY <1>0, <1>4, <2>1, <2>3, <2>4, AckStep, IdlePoll, DeliveryTypes
  <1>5. ASSUME PollFails(r) PROVE TInv'
    <2>1. faults' \in 0..MaxFaults
      BY <1>5, FaultType DEF PollFails
    <2> QED BY <1>0, <1>5, <2>1, IdlePoll, DeliveryTypes DEF PollFails, Fails, SourceQuiet, source
  <1> QED BY <1>1, <1>2, <1>3, <1>4, <1>5

\* A step of the source keeps the types.
LEMMA SourceTypes ==
  ASSUME TInv, UNCHANGED <<mirror, issued, now, status, poll, read>>, faults' \in 0..MaxFaults,
         facts' \subseteq Tuples, outbox' \subseteq Event, receipt' \in Receipts \cup {NoReceipt},
         lastID' \in 0..MaxEvents, DOMAIN writing' \subseteq Tuples,
         \A t \in DOMAIN writing' : writing'[t] \in 1..lastID', recreated' \in BOOLEAN
  PROVE  TInv'
  <1>1. /\ DOMAIN poll' = Replicas /\ \A q \in Replicas : poll'[q] \in PollState
        /\ DOMAIN read' = Readers /\ \A q \in Readers : IsRead(read'[q]) /\ ReadFields(read'[q])
        /\ mirror' \in Mirror /\ issued' \subseteq Receipts /\ now' \in Times
        /\ status' \in [Replicas -> Statuses]
    BY DEF TInv, TypeOK
  <1>2. \A q \in Readers : IsRead(read[q])' /\ ReadFields(read[q])'
    BY <1>1 DEF IsRead, Idle, ReadFields
  <1>3. PollState' = PollState /\ Mirror' = Mirror
    BY DEF PollState, Mirror, Idle, Times, Event, Snap
  <1> QED BY <1>1, <1>2, <1>3 DEF TInv, TypeOK

\* The event a commit captures.
LEMMA CommitEvent ==
  ASSUME TInv, NEW t \in DOMAIN writing
  PROVE  /\ [id |-> writing[t], tuple |-> t, add |-> t \notin facts] \in Event
         /\ writing[t] \in Nat /\ writing[t] <= lastID /\ t \in Tuples
  <1>1. writing[t] \in 1..lastID /\ lastID \in 0..MaxEvents /\ t \in Tuples /\ MaxEvents \in Nat
    BY TupleCacheAssumption DEF TInv, TypeOK
  <1>2. writing[t] \in 1..MaxEvents
    BY <1>1
  <1> QED BY <1>1, <1>2 DEF Event

\* The event a reset captures.
LEMMA TruncateEvent ==
  ASSUME TInv, lastID < MaxEvents
  PROVE  [id |-> lastID + 1, tuple |-> NoTuple, add |-> FALSE] \in Event
  <1>1. lastID + 1 \in 1..MaxEvents
    BY TupleCacheAssumption DEF TInv, TypeOK
  <1> QED BY <1>1 DEF Event

\* Writers keep the types.
LEMMA MutationTInv ==
  ASSUME TInv, Mutation
  PROVE  TInv'
  <1>0. /\ facts \subseteq Tuples /\ outbox \subseteq Event /\ receipt \in Receipts \cup {NoReceipt}
        /\ lastID \in 0..MaxEvents /\ MaxEvents \in Nat /\ DOMAIN writing \subseteq Tuples
        /\ \A t \in DOMAIN writing : writing[t] \in 1..lastID
        /\ recreated \in BOOLEAN
    BY TupleCacheAssumption DEF TInv, TypeOK
  <1>1. faults' \in 0..MaxFaults
    BY FaultType DEF Mutation, Write, Commit, Rollback, Truncate, Recreate
  <1>2. ASSUME NEW t \in Tuples, Write(t) PROVE TInv'
    <2>1. /\ DOMAIN writing' \subseteq Tuples /\ lastID' \in 0..MaxEvents
          /\ \A u \in DOMAIN writing' : writing'[u] \in 1..lastID'
      BY <1>0, <1>2 DEF Write
    <2> QED BY <1>0, <1>1, <1>2, <2>1, SourceTypes DEF Write
  <1>3. ASSUME NEW t \in Tuples, Commit(t) PROVE TInv'
    <2>1. /\ DOMAIN writing' \subseteq Tuples
          /\ \A u \in DOMAIN writing' : writing'[u] \in 1..lastID
      BY <1>0, <1>3 DEF Commit, Ended
    <2>2. outbox' \subseteq Event /\ facts' \subseteq Tuples
      BY <1>0, <1>3, CommitEvent DEF Commit, Replace
    <2> QED BY <1>0, <1>1, <1>3, <2>1, <2>2, SourceTypes DEF Commit
  <1>4. ASSUME NEW t \in Tuples, Rollback(t) PROVE TInv'
    <2>1. /\ DOMAIN writing' \subseteq Tuples
          /\ \A u \in DOMAIN writing' : writing'[u] \in 1..lastID
      BY <1>0, <1>4 DEF Rollback, Ended
    <2> QED BY <1>0, <1>1, <1>4, <2>1, SourceTypes DEF Rollback
  <1>5. ASSUME Truncate PROVE TInv'
    <2>1. lastID' \in 0..MaxEvents /\ lastID' = lastID + 1
      BY <1>0, <1>5 DEF Truncate
    <2>2. outbox' \subseteq Event /\ facts' \subseteq Tuples
      BY <1>0, <1>5, TruncateEvent DEF Truncate, Replace
    <2>3. /\ DOMAIN writing' \subseteq Tuples
          /\ \A u \in DOMAIN writing' : writing'[u] \in 1..lastID'
      BY <1>0, <1>5, <2>1 DEF Truncate
    <2> QED BY <1>0, <1>1, <1>5, <2>1, <2>2, <2>3, SourceTypes DEF Truncate
  <1>6. ASSUME Recreate PROVE TInv'
    <2>1. writing' = << >> /\ DOMAIN writing' = {}
      BY <1>6 DEF Recreate
    <2> QED BY <1>0, <1>1, <1>6, <2>1, SourceTypes DEF Recreate, Replace
  <1> QED BY <1>2, <1>3, <1>4, <1>5, <1>6 DEF Mutation

\* A set is read and memoized.
LEMMA ReadSetStep ==
  ASSUME TInv, NEW r \in Readers, NEW t \in Tuples, ReadSet(r, t)
  PROVE  \E x : /\ read' = [read EXCEPT ![r] = x] /\ IsRead(x) /\ ReadFields(x)
                /\ x.pc = "eval" /\ x.state = read[r].state
                /\ DOMAIN x.view = DOMAIN read[r].view \cup {t}
                /\ x.view[t] = (t \in mirror.tuples)
                /\ \A u \in DOMAIN read[r].view : x.view[u] = read[r].view[u]
  <1>1. PICK seen : seen = (t \in mirror.tuples)
    OBVIOUS
  <1>2. PICK view : view = [u \in DOMAIN read[r].view \cup {t} |->
                               IF u = t THEN seen ELSE read[r].view[u]]
    OBVIOUS
  <1>3. PICK x : x = [read[r] EXCEPT !.view = view]
    OBVIOUS
  <1>4. read' = [read EXCEPT ![r] = x] /\ t \notin DOMAIN read[r].view
    BY <1>1, <1>2, <1>3 DEF ReadSet, TInv
  <1>5. /\ read[r].pc = "eval" /\ DOMAIN read[r] = {"pc", "state", "view"}
        /\ read[r].state \in Receipts /\ DOMAIN read[r].view \subseteq Tuples
        /\ \A u \in DOMAIN read[r].view : read[r].view[u] \in BOOLEAN
    BY DEF ReadSet, TInv, TypeOK, IsRead, ReadFields, Idle
  <1>6. seen \in BOOLEAN
    BY <1>1
  <1>7. /\ DOMAIN view = DOMAIN read[r].view \cup {t} /\ view[t] = seen
        /\ \A u \in DOMAIN read[r].view : view[u] = read[r].view[u]
    BY <1>2, <1>4
  <1>8. DOMAIN view \subseteq Tuples /\ \A u \in DOMAIN view : view[u] \in BOOLEAN
    BY <1>5, <1>6, <1>7
  <1>9. /\ DOMAIN x = {"pc", "state", "view"} /\ x.pc = "eval" /\ x.state = read[r].state
        /\ x.view = view
    BY <1>3, <1>5
  <1>10. IsRead(x) /\ ReadFields(x)
    BY <1>5, <1>8, <1>9 DEF IsRead, ReadFields
  <1> QED BY <1>1, <1>4, <1>7, <1>9, <1>10

\* Readers keep the types: the publication and the memo of each.
LEMMA ReadingTInv ==
  ASSUME TInv, NEW r \in Readers
  PROVE  /\ RunStart(r) \/ RunEnd(r) => TInv'
         /\ \A t \in Tuples : ReadSet(r, t) => TInv'
  <1>1. ASSUME NEW x, IsRead(x), ReadFields(x), read' = [read EXCEPT ![r] = x],
               UNCHANGED <<source, mirror, issued, now, status, poll, faults>>
        PROVE  TInv'
    <2>1. DOMAIN read' = Readers /\ \A q \in Readers : IsRead(read'[q]) /\ ReadFields(read'[q])
      BY <1>1 DEF TInv, TypeOK
    <2>2. \A q \in Readers : IsRead(read[q])' /\ ReadFields(read[q])'
      BY <2>1 DEF IsRead, Idle, ReadFields
    <2>3. PollState' = PollState /\ Mirror' = Mirror
      BY DEF PollState, Mirror, Idle, Times, Event, Snap
    <2> QED BY <1>1, <2>1, <2>2, <2>3 DEF TInv, TypeOK, source
  <1>2. ASSUME RunStart(r) PROVE TInv'
    <2>1. PICK x : x = [pc |-> "eval", state |-> mirror.receipt, view |-> << >>]
      OBVIOUS
    <2>2. mirror.receipt \in Receipts
      BY <1>2 DEF RunStart, TInv, TypeOK, Mirror
    <2>3. IsRead(x) /\ ReadFields(x)
      BY <2>1, <2>2 DEF IsRead, ReadFields
    <2> QED BY <1>1, <1>2, <2>1, <2>3 DEF RunStart, SourceQuiet, NoFault
  <1>3. ASSUME RunEnd(r) PROVE TInv'
    <2>1. IsRead(Idle) /\ ReadFields(Idle)
      BY DEF IsRead, ReadFields, Idle
    <2> QED BY <1>1, <1>3, <2>1 DEF RunEnd, SourceQuiet, NoFault
  <1>4. ASSUME NEW t \in Tuples, ReadSet(r, t) PROVE TInv'
    <2>1. PICK x : IsRead(x) /\ ReadFields(x) /\ read' = [read EXCEPT ![r] = x]
      BY <1>4, ReadSetStep
    <2> QED BY <1>1, <1>4, <2>1 DEF ReadSet, SourceQuiet, NoFault
  <1> QED BY <1>2, <1>3, <1>4

\* The surroundings keep the types.
LEMMA OtherTInv ==
  ASSUME TInv, Evict \/ Tick \/ (\E r \in Replicas : Close(r)) \/ UNCHANGED vars
  PROVE  TInv'
  <1>1. faults' \in 0..MaxFaults
    BY FaultType DEF Evict, Tick, Close, vars, NoFault
  <1>2. mirror' \in Mirror
    <2>1. NoMirror \in Mirror
      BY TupleCacheAssumption DEF NoMirror, Mirror
    <2> QED BY <2>1 DEF Evict, Tick, Close, vars, TInv, TypeOK
  <1>3. now' \in Times
    BY TupleCacheAssumption DEF Evict, Tick, Close, vars, TInv, TypeOK, Times
  <1>4. status' \in [Replicas -> Statuses]
    BY DEF Evict, Tick, Close, vars, TInv, TypeOK, Statuses
  <1>5. UNCHANGED <<source, issued, poll, read>>
    BY DEF Evict, Tick, Close, vars, SourceQuiet, source
  <1>6. \A q \in Readers : IsRead(read[q])' /\ ReadFields(read[q])'
    BY <1>5 DEF TInv, TypeOK, IsRead, ReadFields, Idle
  <1>7. PollState' = PollState /\ Mirror' = Mirror
    BY DEF PollState, Mirror, Idle, Times, Event, Snap
  <1> QED BY <1>1, <1>2, <1>3, <1>4, <1>5, <1>6, <1>7 DEF TInv, TypeOK, source

-----------------------------------------------------------------------------
(* Receipts. *)

\* A receipt being delivered is a receipt that was issued.
LEMMA MintedKnown ==
  ASSUME TInv, RInv, NEW r \in Replicas
  PROVE  Delivers(poll[r]) => poll[r].next \in issued /\ poll[r].next # NoReceipt
  BY TupleCacheAssumption DEF TInv, TypeOK, RInv, ReceiptsKnown

\* A poll starts.
LEMMA StartRInv ==
  ASSUME TInv, RInv, NEW r \in Replicas, PollStart(r)
  PROVE  RInv'
  <1>1. PICK l : /\ poll' = [poll EXCEPT ![r] = l] /\ l.pc = "snapshot"
                 /\ l.before = mirror.receipt
    BY StartStep
  <1>2. UNCHANGED <<receipt, mirror, issued, read>>
    BY DEF PollStart, SourceQuiet, source
  <1>3. poll'[r] = l /\ \A q \in Replicas \ {r} : poll'[q] = poll[q]
    BY <1>1, PollMove
  <1>4. ~ Delivers(l) /\ ~ Mints(l) /\ Polls(l)
    BY <1>1 DEF Delivers, Mints, Polls
  <1>5. ReceiptsKnown'
    BY <1>1, <1>2, <1>3, <1>4 DEF RInv, ReceiptsKnown, Known
  <1>6. ReceiptsApart'
    BY <1>1, <1>2, <1>3, <1>4 DEF RInv, ReceiptsApart
  <1> QED BY <1>5, <1>6 DEF RInv

\* A delivery ends without effect.
LEMMA DropRInv ==
  ASSUME TInv, RInv, NEW r \in Replicas, poll' = [poll EXCEPT ![r] = Idle],
         UNCHANGED <<receipt, mirror, issued, read>>
  PROVE  RInv'
  <1>1. poll'[r] = Idle /\ \A q \in Replicas \ {r} : poll'[q] = poll[q]
    BY PollMove
  <1>2. ReceiptsKnown'
    BY <1>1, IdlePoll DEF RInv, ReceiptsKnown, Known
  <1>3. ReceiptsApart'
    BY <1>1, IdlePoll DEF RInv, ReceiptsApart
  <1> QED BY <1>2, <1>3 DEF RInv

\* A snapshot is taken: the receipt minted for it is fresh.
LEMMA SnapshotRInv ==
  ASSUME TInv, RInv, NEW r \in Replicas, NEW l \in PollState, poll[r].pc = "snapshot",
         poll' = [poll EXCEPT ![r] = l], Snapshots(r, l), UNCHANGED <<receipt, mirror, read>>
  PROVE  RInv'
  <1>1. poll'[r] = l /\ \A q \in Replicas \ {r} : poll'[q] = poll[q]
    BY PollMove
  <1>2. /\ Delivers(l) /\ Polls(l) /\ Base(l) = receipt /\ Polls(poll[r])
        /\ l.before = poll[r].before /\ (Mints(l) <=> l.next # l.before)
    BY DEF Snapshots, Delivers, Polls, Base, Mints
  <1>3. Known(receipt) /\ Known(mirror.receipt) /\ Known(l.before) /\ issued \subseteq issued'
    BY <1>2 DEF RInv, ReceiptsKnown, Snapshots
  <1>4. l.next \in Receipts /\ l.next # NoReceipt
    BY PollFields, TupleCacheAssumption DEF Snapshots
  <1>5. l.next \in issued'
    BY <1>3, <1>4 DEF Snapshots, Known
  <1>6. Mints(l) => l.next \notin issued \cup {NoReceipt}
    BY <1>2, <1>4 DEF Snapshots
  <1>7. ReceiptsKnown'
    <2>1. receipt \in issued' \cup {NoReceipt} /\ mirror.receipt \in issued' \cup {NoReceipt}
      BY <1>3 DEF Known
    <2>2. ASSUME NEW q \in Replicas
          PROVE  /\ Polls(poll'[q]) => poll'[q].before \in issued' \cup {NoReceipt}
                 /\ Delivers(poll'[q]) => /\ Base(poll'[q]) \in issued' \cup {NoReceipt}
                                          /\ poll'[q].next \in issued'
      <3>1. CASE q = r
        BY <1>1, <1>2, <1>3, <1>5, <3>1 DEF Known
      <3>2. CASE q # r
        BY <1>1, <1>3, <3>2 DEF RInv, ReceiptsKnown, Known
      <3> QED BY <3>1, <3>2
    <2>3. \A q \in Readers : read'[q].pc = "eval" => read'[q].state \in issued'
      BY <1>3 DEF RInv, ReceiptsKnown
    <2> QED BY <2>1, <2>2, <2>3 DEF ReceiptsKnown, Known
  <1>8. ReceiptsApart'
    <2>1. ASSUME Mints(l)
          PROVE  /\ receipt # l.next /\ mirror.receipt # l.next
                 /\ \A q \in Replicas :
                       /\ Delivers(poll[q]) => Base(poll[q]) # l.next /\ poll[q].next # l.next
                       /\ Polls(poll[q]) => poll[q].before # l.next
                 /\ \A q \in Readers : read[q].pc = "eval" => read[q].state # l.next
      BY <1>3, <1>6, <2>1 DEF RInv, ReceiptsKnown, Known
    <2>2. ASSUME NEW q \in Replicas, Mints(poll[q])
          PROVE  receipt # poll[q].next
      BY <2>2 DEF RInv, ReceiptsApart
    <2>3. ASSUME NEW q \in Replicas, Mints(poll[q]), poll[q].pc = "publish"
          PROVE  l.before # poll[q].next
      BY <1>2, <2>3 DEF RInv, ReceiptsApart
    <2>4. \A q \in Replicas : Mints(poll[q]) => Delivers(poll[q])
      BY MintsDelivers
    <2>5. \A p \in Replicas : Mints(poll'[p]) =>
             /\ receipt # poll'[p].next
             /\ \A q \in Replicas : Delivers(poll'[q]) => Base(poll'[q]) # poll'[p].next
             /\ \A q \in Replicas \ {p} : Mints(poll'[q]) => poll'[q].next # poll'[p].next
      BY <1>1, <1>2, <2>1, <2>2, <2>4 DEF RInv, ReceiptsApart
    <2>6. \A p \in Replicas : (Mints(poll'[p]) /\ poll'[p].pc = "publish") =>
             /\ mirror.receipt # poll'[p].next
             /\ \A q \in Replicas : Polls(poll'[q]) => poll'[q].before # poll'[p].next
             /\ \A q \in Readers : read[q].pc = "eval" => read[q].state # poll'[p].next
      BY <1>1, <1>2, <2>1, <2>3 DEF RInv, ReceiptsApart
    <2> QED BY <2>5, <2>6 DEF ReceiptsApart
  <1> QED BY <1>7, <1>8 DEF RInv

\* A mirror is published: under a receipt no other delivery carries.
LEMMA PublishRInv ==
  ASSUME TInv, RInv, NEW r \in Replicas, NEW l \in PollState, poll[r].pc = "publish",
         poll' = [poll EXCEPT ![r] = l], Publishes(r, l), UNCHANGED <<receipt, issued, read>>
  PROVE  RInv'
  <1>1. poll'[r] = l /\ \A q \in Replicas \ {r} : poll'[q] = poll[q]
    BY PollMove
  <1>2. mirror'.receipt = poll[r].next /\ mirror.receipt = poll[r].before
    BY DEF Publishes
  <1>3. /\ Delivers(poll[r]) /\ Polls(poll[r]) /\ ~ Polls(l)
        /\ (Mints(poll[r]) <=> poll[r].next # poll[r].before)
        /\ (Mints(l) <=> Mints(poll[r])) /\ (Delivers(l) <=> Mints(l))
        /\ Mints(l) => l.next = poll[r].next /\ Base(l) = Base(poll[r])
        /\ l.pc # "publish"
    BY IdlePoll DEF Publishes, Delivers, Polls, Base, Mints
  <1>4. ReceiptsKnown'
    BY <1>1, <1>2, <1>3 DEF RInv, ReceiptsKnown, Known
  <1>5. ASSUME NEW q \in Replicas \ {r}, Mints(poll[q]), poll[q].pc = "publish"
        PROVE  poll[r].next # poll[q].next
    BY <1>2, <1>3, <1>5 DEF RInv, ReceiptsApart
  <1>6. \A p \in Replicas : Mints(poll'[p]) =>
           /\ receipt # poll'[p].next
           /\ \A q \in Replicas : Delivers(poll'[q]) => Base(poll'[q]) # poll'[p].next
           /\ \A q \in Replicas \ {p} : Mints(poll'[q]) => poll'[q].next # poll'[p].next
    BY <1>1, <1>3 DEF RInv, ReceiptsApart
  <1>7. \A p \in Replicas : (Mints(poll'[p]) /\ poll'[p].pc = "publish") =>
           /\ mirror'.receipt # poll'[p].next
           /\ \A q \in Replicas : Polls(poll'[q]) => poll'[q].before # poll'[p].next
           /\ \A q \in Readers : read[q].pc = "eval" => read[q].state # poll'[p].next
    BY <1>1, <1>2, <1>3, <1>5 DEF RInv, ReceiptsApart
  <1> QED BY <1>4, <1>6, <1>7 DEF RInv, ReceiptsApart

\* A delivery is acknowledged: its receipt becomes the source's.
LEMMA AckRInv ==
  ASSUME TInv, RInv, NEW r \in Replicas, Acknowledge(r)
  PROVE  RInv'
  <1>1. /\ poll[r].pc = "ack" /\ poll' = [poll EXCEPT ![r] = Idle]
        /\ UNCHANGED <<mirror, issued, read>>
        /\ receipt' = poll[r].next \/ UNCHANGED receipt
    BY AckStep
  <1>2. CASE UNCHANGED receipt
    BY <1>1, <1>2, DropRInv
  <1>3. CASE receipt' = poll[r].next
    <2>1. poll'[r] = Idle /\ \A q \in Replicas \ {r} : poll'[q] = poll[q]
      BY <1>1, PollMove
    <2>2. Delivers(poll[r]) /\ Mints(poll[r])
      BY <1>1 DEF Delivers, Mints
    <2>3. ReceiptsKnown'
      BY <1>1, <1>3, <2>1, <2>2, IdlePoll DEF RInv, ReceiptsKnown, Known
    <2>4. ReceiptsApart'
      BY <1>1, <1>3, <2>1, <2>2, IdlePoll DEF RInv, ReceiptsApart
    <2> QED BY <2>3, <2>4 DEF RInv
  <1> QED BY <1>1, <1>2, <1>3

\* The source may lose its receipt.
LEMMA SourceRInv ==
  ASSUME TInv, RInv, receipt' \in {receipt, NoReceipt}, UNCHANGED <<mirror, issued, poll, read>>
  PROVE  RInv'
  <1>1. ReceiptsKnown'
    BY DEF RInv, ReceiptsKnown, Known
  <1>2. \A r \in Replicas : Mints(poll[r]) => receipt' # poll[r].next
    BY MintedKnown, MintsDelivers DEF RInv, ReceiptsApart
  <1>3. ReceiptsApart'
    BY <1>2 DEF RInv, ReceiptsApart
  <1> QED BY <1>1, <1>3 DEF RInv

\* The backend may lose its mirror.
LEMMA EvictRInv ==
  ASSUME TInv, RInv, Evict
  PROVE  RInv'
  <1>1. mirror'.receipt = NoReceipt /\ UNCHANGED <<receipt, issued, poll, read>>
    BY DEF Evict, NoMirror, SourceQuiet, source
  <1>2. ReceiptsKnown'
    BY <1>1 DEF RInv, ReceiptsKnown, Known
  <1>3. \A r \in Replicas : Mints(poll[r]) => mirror'.receipt # poll[r].next
    BY <1>1, MintedKnown, MintsDelivers
  <1>4. ReceiptsApart'
    BY <1>1, <1>3 DEF RInv, ReceiptsApart
  <1> QED BY <1>2, <1>4 DEF RInv

\* A reader moves on, in the publication it began with or in the mirror's.
LEMMA ReadRInv ==
  ASSUME TInv, RInv, NEW r \in Readers, NEW x, read' = [read EXCEPT ![r] = x],
         UNCHANGED <<receipt, mirror, issued, poll>>,
         x.pc = "eval" => \/ read[r].pc = "eval" /\ x.state = read[r].state
                          \/ x.state = mirror.receipt /\ mirror.receipt # NoReceipt
  PROVE  RInv'
  <1>1. read'[r] = x /\ \A q \in Readers \ {r} : read'[q] = read[q]
    BY DEF TInv
  <1>2. ReceiptsKnown'
    BY <1>1 DEF RInv, ReceiptsKnown, Known
  <1>3. ReceiptsApart'
    BY <1>1 DEF RInv, ReceiptsApart
  <1> QED BY <1>2, <1>3 DEF RInv

-----------------------------------------------------------------------------
(* The mirror and the outbox. *)

\* One more event, the newest of its tuple.
LEMMA GivesOneMore ==
  ASSUME NEW S \in SUBSET Event, NEW e \in Event, NEW m, NEW F, NEW G,
         \A f \in S : f.tuple = e.tuple => f.id < e.id,
         \/ e.tuple = NoTuple
         \/ e.tuple \in Tuples /\ G = After(F, e),
         Gives(m, S, F)
  PROVE  Gives(m, S \cup {e}, G)
  <1>1. CASE e.tuple = NoTuple
    BY <1>1 DEF Gives
  <1>2. CASE e.tuple \in Tuples /\ G = After(F, e)
    <2>1. e.tuple \in Tuples /\ \A f \in S : f.tuple = e.tuple => f.id < e.id
      BY <1>2
    <2>2. Applied(m, S \cup {e}) = After(Applied(m, S), e)
      BY <2>1, AppliedOne
    <2> QED BY <1>2, <2>2 DEF Gives, After
  <1> QED BY <1>1, <1>2

\* The source captures one event with the change it stands for.
Captures(e) ==
    /\ e \in Event /\ e \notin outbox /\ outbox' = outbox \cup {e}
    /\ \A f \in outbox : f.tuple = e.tuple => f.id < e.id
    /\ \/ e.tuple = NoTuple
       \/ e.tuple \in Tuples /\ facts' = After(facts, e)
    /\ UNCHANGED <<receipt, recreated, mirror, poll>>

\* A commit and a reset capture their event.
LEMMA MutationCaptures ==
  ASSUME TInv, IdsOrdered
  PROVE  /\ \A t \in Tuples : Commit(t) => \E e : Captures(e) /\ e.tuple = t /\ e.id = writing[t]
         /\ Truncate => \E e : Captures(e) /\ e.tuple = NoTuple /\ e.id = lastID + 1
  <1>0. outbox \subseteq Event /\ NoTuple \notin Tuples /\ lastID \in Nat
    BY TupleCacheAssumption DEF TInv, TypeOK
  <1>1. ASSUME NEW t \in Tuples, Commit(t)
        PROVE  \E e : Captures(e) /\ e.tuple = t /\ e.id = writing[t]
    <2>1. t \in DOMAIN writing
      BY <1>1 DEF Commit
    <2>2. PICK add : add = (t \notin facts)
      OBVIOUS
    <2>3. PICK e : e = [id |-> writing[t], tuple |-> t, add |-> add]
      OBVIOUS
    <2>4. e.id = writing[t] /\ e.tuple = t /\ e.add = add
      BY <2>3
    <2>5. e \in Event /\ writing[t] \in Nat
      BY <2>1, <2>2, <2>3, CommitEvent
    <2>6. \A f \in outbox : f.tuple = e.tuple => f.id < e.id
      BY <2>1, <2>4 DEF IdsOrdered
    <2>7. e \notin outbox
      BY <2>4, <2>5, <2>6
    <2>8. outbox' = outbox \cup {e}
      BY <1>1, <2>2, <2>3 DEF Commit
    <2>9. facts' = After(facts, e)
      BY <1>1, <2>2, <2>4 DEF Commit, Replace, After
    <2>10. UNCHANGED <<receipt, recreated, mirror, poll>>
      BY <1>1 DEF Commit
    <2>11. Captures(e)
      BY <2>4, <2>5, <2>6, <2>7, <2>8, <2>9, <2>10 DEF Captures
    <2> QED BY <2>4, <2>11
  <1>2. ASSUME Truncate PROVE \E e : Captures(e) /\ e.tuple = NoTuple /\ e.id = lastID + 1
    <2>1. PICK e : e = [id |-> lastID + 1, tuple |-> NoTuple, add |-> FALSE]
      OBVIOUS
    <2>2. e \in Event
      BY <1>2, <2>1, TruncateEvent DEF Truncate
    <2>3. e.id = lastID + 1 /\ e.tuple = NoTuple
      BY <2>1
    <2>4. \A f \in outbox : f.id \in Nat /\ f.id <= lastID
      BY <1>0 DEF Event, IdsOrdered
    <2>5. e \notin outbox /\ \A f \in outbox : f.id < e.id
      BY <1>0, <2>3, <2>4
    <2>6. outbox' = outbox \cup {e}
      BY <1>2, <2>1 DEF Truncate
    <2>7. UNCHANGED <<receipt, recreated, mirror, poll>>
      BY <1>2 DEF Truncate
    <2>8. Captures(e)
      BY <2>2, <2>3, <2>5, <2>6, <2>7 DEF Captures
    <2> QED BY <2>3, <2>8
  <1> QED BY <1>1, <1>2

\* What a captured event keeps, for a mirror and for a portion of the outbox.
LEMMA CapturesGives ==
  ASSUME TInv, NEW e, Captures(e), NEW C, C \subseteq outbox, NEW m,
         Gives(m, outbox \ C, facts)
  PROVE  Gives(m, outbox' \ C, facts')
  <1>1. outbox' \ C = (outbox \ C) \cup {e}
    BY DEF Captures
  <1>2. outbox \ C \in SUBSET Event
    BY DEF TInv, TypeOK
  <1>3. Gives(m, (outbox \ C) \cup {e}, facts')
    BY <1>2, GivesOneMore DEF Captures
  <1> QED BY <1>1, <1>3

\* A captured event keeps the mirror and the deliveries.
LEMMA CapturesDInv ==
  ASSUME TInv, DInv, NEW e, Captures(e), IdsOrdered'
  PROVE  DInv'
  <1>0. UNCHANGED <<receipt, recreated, mirror, poll>> /\ outbox \subseteq outbox'
    BY DEF Captures
  <1>1. Complete'
    <2>1. ASSUME mirror.receipt = receipt, receipt # NoReceipt
          PROVE  Gives(mirror.tuples, outbox', facts')
      <3>1. Gives(mirror.tuples, outbox \ {}, facts)
        BY <2>1 DEF DInv, Complete
      <3>2. Gives(mirror.tuples, outbox' \ {}, facts')
        BY <3>1, CapturesGives
      <3> QED BY <3>2
    <2> QED BY <1>0, <2>1 DEF Complete
  <1>2. ASSUME NEW r \in Replicas
        PROVE  DeltaHolds(poll[r])' /\ PublishHolds(poll[r])' /\ AckHolds(poll[r])'
    <2>1. PICK l : l = poll[r] /\ l = poll'[r]
      BY <1>0
    <2>2. DeltaHolds(l) /\ PublishHolds(l) /\ AckHolds(l)
      BY <2>1 DEF DInv
    <2>3. DeltaHolds(l)'
      BY <1>0, <2>2 DEF DeltaHolds, Captures
    <2>4. PublishHolds(l)'
      <3>1. ASSUME l.pc = "publish", l.snap.full, ~ recreated, receipt = l.snap.receipt
            PROVE  Gives(l.snap.tuples, outbox' \ l.snap.changes, facts')
        <4>1. l.snap.changes \subseteq outbox
          BY <2>2, <3>1 DEF DeltaHolds, Delivers, Base, Taken
        <4>2. Gives(l.snap.tuples, outbox \ l.snap.changes, facts)
          BY <2>2, <3>1 DEF PublishHolds
        <4> QED BY <4>1, <4>2, CapturesGives
      <3> QED BY <1>0, <2>2, <3>1 DEF PublishHolds
    <2>5. AckHolds(l)'
      <3>1. ASSUME l.pc = "ack", ~ recreated, receipt = l.receipt, mirror.receipt = l.next
            PROVE  Gives(mirror.tuples, outbox' \ l.changes, facts')
        <4>1. l.changes \subseteq outbox
          BY <2>2, <3>1 DEF DeltaHolds, Delivers, Base, Taken
        <4>2. Gives(mirror.tuples, outbox \ l.changes, facts)
          BY <2>2, <3>1 DEF AckHolds
        <4> QED BY <4>1, <4>2, CapturesGives
      <3> QED BY <1>0, <3>1 DEF AckHolds
    <2> QED BY <2>1, <2>3, <2>4, <2>5 DEF DeltaHolds, PublishHolds, AckHolds
  <1> QED BY <1>0, <1>1, <1>2 DEF DInv

\* A step that leaves the facts, the outbox, the mirror and the deliveries alone.
LEMMA SameDInv ==
  ASSUME DInv, IdsOrdered', UNCHANGED <<facts, outbox, receipt, recreated, mirror, poll>>
  PROVE  DInv'
  <1>1. \A r \in Replicas : DeltaHolds(poll[r])' /\ PublishHolds(poll[r])' /\ AckHolds(poll[r])'
    BY DEF DInv, DeltaHolds, PublishHolds, AckHolds
  <1> QED BY <1>1 DEF DInv, Complete

\* Writers keep the mirror and the outbox complete.
LEMMA MutationDInv ==
  ASSUME TInv, DInv, Mutation
  PROVE  DInv'
  <1>0. /\ IdsOrdered /\ lastID \in Nat /\ outbox \subseteq Event /\ NoTuple \notin Tuples
        /\ DOMAIN writing \subseteq Tuples
        /\ \A t \in DOMAIN writing : writing[t] \in Nat /\ writing[t] <= lastID
        /\ \A f \in outbox : f.id \in Nat
    BY TupleCacheAssumption DEF DInv, TInv, TypeOK, Event
  <1>1. ASSUME NEW t \in Tuples, Write(t) PROVE DInv'
    <2>1. IdsOrdered'
      BY <1>0, <1>1 DEF Write, IdsOrdered
    <2> QED BY <1>1, <2>1, SameDInv DEF Write
  <1>2. ASSUME NEW t \in Tuples, Commit(t) PROVE DInv'
    <2>1. PICK e : Captures(e) /\ e.tuple = t /\ e.id = writing[t]
      BY <1>0, <1>2, MutationCaptures
    <2>2. /\ DOMAIN writing' = DOMAIN writing \ {t} /\ lastID' = lastID /\ t \in DOMAIN writing
          /\ \A u \in DOMAIN writing' : writing'[u] = writing[u]
      BY <1>2 DEF Commit, Ended
    <2>3. IdsOrdered'
      BY <1>0, <2>1, <2>2 DEF IdsOrdered, Captures
    <2> QED BY <2>1, <2>3, CapturesDInv
  <1>3. ASSUME NEW t \in Tuples, Rollback(t) PROVE DInv'
    <2>1. IdsOrdered'
      BY <1>0, <1>3 DEF Rollback, Ended, IdsOrdered
    <2> QED BY <1>3, <2>1, SameDInv DEF Rollback
  <1>4. ASSUME Truncate PROVE DInv'
    <2>1. PICK e : Captures(e) /\ e.tuple = NoTuple /\ e.id = lastID + 1
      BY <1>0, <1>4, MutationCaptures
    <2>2. IdsOrdered'
      BY <1>0, <1>4, <2>1 DEF IdsOrdered, Captures, Truncate
    <2> QED BY <2>1, <2>2, CapturesDInv
  <1>5. ASSUME Recreate PROVE DInv'
    <2>1. /\ outbox' = {} /\ receipt' = NoReceipt /\ writing' = << >> /\ recreated'
          /\ UNCHANGED <<mirror, poll>>
      BY <1>5 DEF Recreate
    <2>2. IdsOrdered'
      BY <2>1 DEF IdsOrdered
    <2>3. \A r \in Replicas : DeltaHolds(poll[r])' /\ PublishHolds(poll[r])' /\ AckHolds(poll[r])'
      BY <2>1 DEF DInv, DeltaHolds, PublishHolds, AckHolds
    <2> QED BY <2>1, <2>2, <2>3 DEF DInv, Complete
  <1> QED BY <1>1, <1>2, <1>3, <1>4, <1>5 DEF Mutation

\* A delivery moves on while the source and the mirror stay.
LEMMA MoveDInv ==
  ASSUME TInv, DInv, NEW r \in Replicas, NEW l, poll' = [poll EXCEPT ![r] = l],
         UNCHANGED <<source, mirror>>, DeltaHolds(l), PublishHolds(l), AckHolds(l)
  PROVE  DInv'
  <1>1. poll'[r] = l /\ \A q \in Replicas \ {r} : poll'[q] = poll[q]
    BY PollMove
  <1>2. IdsOrdered' /\ Complete' /\ (recreated' => receipt' = NoReceipt)
    BY DEF DInv, IdsOrdered, Complete, source
  <1>3. ASSUME NEW q \in Replicas
        PROVE  DeltaHolds(poll[q])' /\ PublishHolds(poll[q])' /\ AckHolds(poll[q])'
    <2>1. PICK k : k = poll'[q]
      OBVIOUS
    <2>2. DeltaHolds(k) /\ PublishHolds(k) /\ AckHolds(k)
      <3>1. CASE q = r
        BY <1>1, <2>1, <3>1
      <3>2. CASE q # r
        BY <1>1, <2>1, <3>2 DEF DInv
      <3> QED BY <3>1, <3>2
    <2>3. DeltaHolds(k)' /\ PublishHolds(k)' /\ AckHolds(k)'
      BY <2>2 DEF DeltaHolds, PublishHolds, AckHolds, source
    <2> QED BY <2>1, <2>3 DEF DeltaHolds, PublishHolds, AckHolds
  <1> QED BY <1>2, <1>3 DEF DInv

\* A delivery that has taken nothing promises nothing.
LEMMA NothingTaken ==
  ASSUME NEW l, l.pc \in {"idle", "snapshot"}
  PROVE  DeltaHolds(l) /\ PublishHolds(l) /\ AckHolds(l)
  BY DEF DeltaHolds, PublishHolds, AckHolds, Delivers

\* A snapshot takes everything in the outbox.
LEMMA SnapshotDInv ==
  ASSUME TInv, RInv, DInv, NEW r \in Replicas, NEW l \in PollState, poll[r].pc = "snapshot",
         poll' = [poll EXCEPT ![r] = l], Snapshots(r, l), UNCHANGED <<source, mirror>>
  PROVE  DInv'
  <1>1. l.pc = "publish" /\ Taken(l) = outbox
    BY DEF Snapshots, Taken
  <1>2. DeltaHolds(l) /\ AckHolds(l)
    BY <1>1 DEF DeltaHolds, AckHolds
  <1>3. PublishHolds(l)
    <2>1. l.next = l.before => ~ l.snap.full /\ l.snap.changes = {}
      <3>1. Known(l.before)
        BY DEF RInv, ReceiptsKnown, Polls, Snapshots
      <3> QED BY <3>1, TupleCacheAssumption DEF Snapshots, Known
    <2>2. l.snap.full => Gives(l.snap.tuples, outbox \ l.snap.changes, facts)
      <3>1. facts \in SUBSET Tuples /\ outbox \ l.snap.changes = {}
        BY DEF Snapshots, TInv, TypeOK
      <3> QED BY <3>1, AppliedNone DEF Snapshots, Gives
    <2> QED BY <1>1, <2>1, <2>2 DEF PublishHolds, Snapshots
  <1> QED BY <1>2, <1>3, MoveDInv

\* What a publication leaves: the same mirror, or one that no acknowledged
\* receipt and no other delivery names yet.
LEMMA PublishEffect ==
  ASSUME TInv, RInv, DInv, NEW r \in Replicas, NEW l \in PollState, poll[r].pc = "publish",
         Publishes(r, l)
  PROVE  \/ /\ ~ Mints(poll[r]) /\ l = Idle
            /\ mirror'.receipt = mirror.receipt /\ mirror'.tuples = mirror.tuples
         \/ /\ Mints(poll[r]) /\ mirror'.receipt = poll[r].next /\ mirror'.receipt # receipt
            /\ l.pc = "ack" /\ l.receipt = Base(poll[r]) /\ l.changes = Taken(poll[r])
            /\ l.next = poll[r].next
  <1>1. CASE poll[r].next = poll[r].before
    <2>1. ~ poll[r].snap.full /\ poll[r].snap.changes = {}
      BY <1>1 DEF DInv, PublishHolds
    <2>2. mirror.tuples \in SUBSET Tuples
      BY DEF TInv, TypeOK, Mirror
    <2> QED BY <1>1, <2>1, <2>2, AppliedNone DEF Publishes, Mints
  <1>2. CASE poll[r].next # poll[r].before
    <2>1. Mints(poll[r])
      BY <1>2 DEF Mints
    <2> QED BY <1>2, <2>1 DEF Publishes, Base, Taken, RInv, ReceiptsApart
  <1> QED BY <1>1, <1>2

\* A publication keeps the promises.
LEMMA PublishDInv ==
  ASSUME TInv, RInv, DInv, NEW r \in Replicas, NEW l \in PollState, poll[r].pc = "publish",
         poll' = [poll EXCEPT ![r] = l], Publishes(r, l), UNCHANGED source
  PROVE  DInv'
  <1>1. poll'[r] = l /\ \A q \in Replicas \ {r} : poll'[q] = poll[q]
    BY PollMove
  <1>2. IdsOrdered' /\ (recreated' => receipt' = NoReceipt)
    BY DEF DInv, IdsOrdered, source
  <1>3. Complete'
    <2>1. \/ mirror'.receipt = mirror.receipt /\ mirror'.tuples = mirror.tuples
          \/ mirror'.receipt # receipt
      BY PublishEffect
    <2>2. UNCHANGED <<receipt, outbox, facts>> /\ Complete
      BY DEF source, DInv
    <2> QED BY <2>1, <2>2 DEF Complete
  <1>4. ASSUME NEW q \in Replicas, NEW k, k = poll'[q]
        PROVE  DeltaHolds(k) /\ PublishHolds(k)
    <2>1. CASE q # r
      BY <1>1, <1>4, <2>1 DEF DInv
    <2>2. CASE q = r
      <3>1. CASE l = Idle
        BY <1>1, <1>4, <2>2, <3>1, NothingTaken, IdlePoll
      <3>2. CASE l # Idle
        <4>1. /\ l.pc = "ack" /\ l.receipt = Base(poll[r]) /\ l.changes = Taken(poll[r])
          BY <3>2, PublishEffect
        <4>2. Delivers(l) /\ Delivers(poll[r]) /\ Base(l) = Base(poll[r]) /\ Taken(l) = Taken(poll[r])
          BY <4>1 DEF Delivers, Base, Taken
        <4>3. DeltaHolds(l)
          BY <4>2 DEF DInv, DeltaHolds
        <4>4. PublishHolds(l)
          BY <4>1 DEF PublishHolds
        <4> QED BY <1>1, <1>4, <2>2, <4>3, <4>4
      <3> QED BY <3>1, <3>2
    <2> QED BY <2>1, <2>2
  <1>5. ASSUME NEW q \in Replicas \ {r}, poll[q].pc = "ack", ~ recreated,
               receipt = poll[q].receipt, mirror'.receipt = poll[q].next
        PROVE  Gives(mirror'.tuples, outbox \ poll[q].changes, facts)
    <2>1. Mints(poll[q])
      BY <1>5 DEF Mints
    <2>2. Mints(poll[r]) => poll[r].next # poll[q].next
      BY <2>1 DEF RInv, ReceiptsApart
    <2>3. mirror'.receipt = mirror.receipt /\ mirror'.tuples = mirror.tuples
      BY <1>5, <2>2, PublishEffect
    <2> QED BY <1>5, <2>3 DEF DInv, AckHolds
  <1>6. ASSUME l.pc = "ack", ~ recreated, receipt = l.receipt
        PROVE  Gives(mirror'.tuples, outbox \ l.changes, facts)
    <2>1. PICK s : s = poll[r].snap
      OBVIOUS
    <2>2. l.receipt = s.receipt /\ l.changes = s.changes
      BY <1>6, <2>1, PublishEffect, IdlePoll DEF Base, Taken
    <2>3. PublishHolds(poll[r]) /\ DeltaHolds(poll[r]) /\ Complete
      BY DEF DInv
    <2>4. CASE s.full
      BY <1>6, <2>1, <2>2, <2>3, <2>4 DEF PublishHolds, Publishes
    <2>5. CASE ~ s.full
      <3>1. /\ s.receipt = poll[r].before /\ poll[r].before # NoReceipt
            /\ \A e \in s.changes : e.tuple # NoTuple
        BY <2>1, <2>3, <2>5 DEF PublishHolds
      <3>2. mirror.receipt = receipt /\ receipt # NoReceipt
        BY <1>6, <2>2, <3>1 DEF Publishes
      <3>3. Gives(mirror.tuples, outbox, facts)
        BY <2>3, <3>2 DEF Complete
      <3>4. /\ s.changes \subseteq outbox
            /\ \A e \in outbox \ s.changes, f \in s.changes : e.tuple = f.tuple => f.id < e.id
        BY <1>6, <2>1, <2>2, <2>3 DEF DeltaHolds, Delivers, Base, Taken
      <3>5. outbox \in SUBSET Event /\ s.changes \in SUBSET Event
        BY <3>4 DEF TInv, TypeOK
      <3>6. Applied(Applied(mirror.tuples, s.changes), outbox \ s.changes)
               = Applied(mirror.tuples, outbox)
        BY <3>4, <3>5, AppliedTwice
      <3>7. mirror'.tuples = Applied(mirror.tuples, s.changes)
        BY <2>1, <2>5 DEF Publishes
      <3> QED BY <2>2, <3>1, <3>3, <3>4, <3>6, <3>7 DEF Gives
    <2> QED BY <2>4, <2>5
  <1>7. ASSUME NEW q \in Replicas
        PROVE  DeltaHolds(poll[q])' /\ PublishHolds(poll[q])' /\ AckHolds(poll[q])'
    <2>1. PICK k : k = poll'[q]
      OBVIOUS
    <2>2. DeltaHolds(k) /\ PublishHolds(k)
      BY <1>4, <2>1
    <2>3. DeltaHolds(k)' /\ PublishHolds(k)'
      BY <2>2 DEF DeltaHolds, PublishHolds, source
    <2>4. AckHolds(k)'
      BY <1>1, <1>5, <1>6, <2>1 DEF AckHolds, source
    <2> QED BY <2>1, <2>3, <2>4 DEF DeltaHolds, PublishHolds, AckHolds
  <1> QED BY <1>2, <1>3, <1>7 DEF DInv

\* An acknowledgement keeps the promises: the mirror it vouches for is complete,
\* and every other delivery rests on a receipt that no longer stands.
LEMMA AckDInv ==
  ASSUME TInv, RInv, DInv, NEW r \in Replicas, Acknowledge(r)
  PROVE  DInv'
  <1>1. /\ poll[r].pc = "ack" /\ poll' = [poll EXCEPT ![r] = Idle]
        /\ UNCHANGED <<facts, lastID, writing, recreated, history, mirror>>
        /\ \/ /\ ~ recreated /\ receipt = poll[r].receipt
              /\ receipt' = poll[r].next /\ outbox' = outbox \ poll[r].changes
           \/ UNCHANGED <<receipt, outbox>>
    BY AckStep
  <1>2. CASE UNCHANGED <<receipt, outbox>>
    <2>1. UNCHANGED <<source, mirror>>
      BY <1>1, <1>2 DEF source
    <2>2. DeltaHolds(Idle) /\ PublishHolds(Idle) /\ AckHolds(Idle)
      BY IdlePoll, NothingTaken
    <2> QED BY <1>1, <2>1, <2>2, MoveDInv
  <1>3. CASE ~ recreated /\ receipt = poll[r].receipt
             /\ receipt' = poll[r].next /\ outbox' = outbox \ poll[r].changes
    <2>1. poll'[r] = Idle /\ \A q \in Replicas \ {r} : poll'[q] = poll[q]
      BY <1>1, PollMove
    <2>2. IdsOrdered' /\ ~ recreated'
      BY <1>1, <1>3 DEF DInv, IdsOrdered
    <2>3. Complete'
      BY <1>1, <1>3 DEF DInv, AckHolds, Complete
    <2>4. ASSUME NEW q \in Replicas \ {r}, Delivers(poll[q])
          PROVE  Base(poll[q]) # receipt'
      BY <1>1, <1>3, <2>4 DEF RInv, ReceiptsApart, Mints
    <2>5. ASSUME NEW q \in Replicas
          PROVE  DeltaHolds(poll[q])' /\ PublishHolds(poll[q])' /\ AckHolds(poll[q])'
      <3>1. CASE q = r
        BY <2>1, <3>1, IdlePoll DEF DeltaHolds, PublishHolds, AckHolds
      <3>2. CASE q # r
        <4>1. PICK k : k = poll[q] /\ k = poll'[q]
          BY <2>1, <3>2
        <4>2. /\ k.pc = "publish" => k.snap.receipt # receipt'
              /\ k.pc = "ack" => k.receipt # receipt'
              /\ Delivers(k) => Base(k) # receipt'
          BY <2>4, <3>2, <4>1 DEF Delivers, Base
        <4>3. PublishHolds(k)
          BY <4>1 DEF DInv
        <4>4. DeltaHolds(k)' /\ PublishHolds(k)' /\ AckHolds(k)'
          BY <4>2, <4>3 DEF DeltaHolds, PublishHolds, AckHolds
        <4> QED BY <4>1, <4>4 DEF DeltaHolds, PublishHolds, AckHolds
      <3> QED BY <3>1, <3>2
    <2> QED BY <2>2, <2>3, <2>5 DEF DInv
  <1> QED BY <1>1, <1>2, <1>3

\* The backend may lose its mirror.
LEMMA EvictDInv ==
  ASSUME TInv, RInv, DInv, Evict
  PROVE  DInv'
  <1>1. mirror'.receipt = NoReceipt /\ UNCHANGED <<source, poll>>
    BY DEF Evict, NoMirror, SourceQuiet
  <1>2. IdsOrdered' /\ Complete' /\ (recreated' => receipt' = NoReceipt)
    BY <1>1 DEF DInv, IdsOrdered, Complete, source
  <1>3. \A q \in Replicas : poll[q].pc = "ack" => poll[q].next # NoReceipt
    BY MintedKnown DEF Delivers
  <1>4. \A q \in Replicas : DeltaHolds(poll[q])' /\ PublishHolds(poll[q])' /\ AckHolds(poll[q])'
    BY <1>1, <1>3 DEF DInv, DeltaHolds, PublishHolds, AckHolds, source
  <1> QED BY <1>2, <1>4 DEF DInv

-----------------------------------------------------------------------------
(* Versions, deadlines and answers. *)

\* The numbers involved.
LEMMA TimeTypes ==
  ASSUME TInv
  PROVE  /\ now \in Nat /\ MaxStaleness \in Nat /\ Never \in Nat /\ now < Never
         /\ mirror.until \in Nat
         /\ \A r \in Replicas : Polls(poll[r]) => poll[r].started \in Nat
  <1>1. now \in Times /\ MaxTime \in Nat /\ MaxStaleness \in Nat /\ mirror \in Mirror
    BY TupleCacheAssumption DEF TInv, TypeOK
  <1>2. now \in Nat /\ Never \in Nat /\ now < Never
    BY <1>1 DEF Times, Never
  <1>3. mirror.until \in Nat
    BY <1>1 DEF Mirror
  <1>4. \A r \in Replicas : Polls(poll[r]) => poll[r].started \in Nat
    BY <1>1, PollFields DEF TInv, TypeOK, Times
  <1> QED BY <1>1, <1>2, <1>3, <1>4

\* A version's end is a time.
LEMMA HistoryTypes ==
  ASSUME HistoryOK
  PROVE  Len(history) \in Nat /\ \A v \in 1..Len(history) : history[v].ended \in Nat
  <1>1. PICK Version : Version = [facts : SUBSET Tuples, ended : Nat]
    OBVIOUS
  <1>2. history \in Seq(Version)
    BY <1>1 DEF HistoryOK
  <1>3. \A v \in 1..Len(history) : history[v] \in Version
    BY <1>2
  <1>4. \A x \in Version : x.ended \in Nat
    BY <1>1
  <1> QED BY <1>2, <1>3, <1>4

\* The facts change: a mirror and a delivery of the version replaced stay recent
\* from now on.
LEMMA ReplaceVInv ==
  ASSUME TInv, VInv, NEW new \in SUBSET Tuples, Replace(new), UNCHANGED <<mirror, poll, read, now>>
  PROVE  VInv'
  <1>0. /\ now \in Nat /\ MaxStaleness \in Nat /\ mirror.until \in Nat
        /\ \A r \in Replicas : Polls(poll[r]) => poll[r].started \in Nat
    BY TimeTypes
  <1>1. Len(history) \in Nat /\ \A v \in 1..Len(history) : history[v].ended \in Nat
    BY HistoryTypes DEF VInv
  <1>2. /\ HistoryOK' /\ Len(history') = Len(history) + 1
        /\ \A v \in 1..Len(history) :
              /\ history'[v].facts = history[v].facts
              /\ history'[v].ended = IF v = Len(history) THEN now ELSE history[v].ended
    BY <1>0, ReplaceHistory DEF VInv
  <1>3. 1..Len(history) \subseteq 1..Len(history')
    BY <1>1, <1>2
  <1>4. MirrorHolds'
    <2>1. ASSUME mirror.receipt # NoReceipt
          PROVE  /\ mirror.version \in 1..Len(history')
                 /\ mirror.tuples = history'[mirror.version].facts
                 /\ mirror.until <= history'[mirror.version].ended + MaxStaleness
      <3>1. /\ mirror.version \in 1..Len(history) /\ mirror.tuples = history[mirror.version].facts
            /\ mirror.until <= history[mirror.version].ended + MaxStaleness
            /\ mirror.until <= now + MaxStaleness
        BY <2>1 DEF VInv, MirrorHolds
      <3> QED BY <1>0, <1>2, <1>3, <3>1
    <2> QED BY <2>1 DEF VInv, MirrorHolds
  <1>5. ASSUME NEW r \in Replicas PROVE VersionHolds(poll[r])'
    <2>1. PICK l : l = poll[r] /\ l = poll'[r]
      OBVIOUS
    <2>2. VersionHolds(l)
      BY <2>1 DEF VInv
    <2>3. l.pc = "publish" => l.started \in Nat /\ l.started <= now
      BY <1>0, <2>1, <2>2 DEF VersionHolds, Polls
    <2>4. VersionHolds(l)'
      BY <1>0, <1>1, <1>2, <1>3, <2>2, <2>3 DEF VersionHolds
    <2> QED BY <2>1, <2>4 DEF VersionHolds
  <1>6. \A r \in Readers : ReadHolds(read[r])'
    BY DEF VInv, ReadHolds
  <1> QED BY <1>2, <1>4, <1>5, <1>6 DEF VInv

\* Time passes, or nothing VInv speaks of changes.
LEMMA SameVInv ==
  ASSUME TInv, VInv, UNCHANGED <<facts, history, mirror, poll, read>>, now' \in Nat, now <= now'
  PROVE  VInv'
  <1>0. /\ now \in Nat /\ MaxStaleness \in Nat /\ mirror.until \in Nat
        /\ \A r \in Replicas : Polls(poll[r]) => poll[r].started \in Nat
    BY TimeTypes
  <1>1. HistoryOK'
    BY DEF VInv, HistoryOK, Never
  <1>2. MirrorHolds'
    BY <1>0 DEF VInv, MirrorHolds
  <1>3. \A r \in Replicas : VersionHolds(poll[r])'
    BY <1>0 DEF VInv, VersionHolds
  <1>4. \A r \in Readers : ReadHolds(read[r])'
    BY DEF VInv, ReadHolds
  <1> QED BY <1>1, <1>2, <1>3, <1>4 DEF VInv

\* Writers keep the versions.
LEMMA MutationVInv ==
  ASSUME TInv, VInv, Mutation
  PROVE  VInv'
  <1>0. now \in Nat /\ now <= now /\ facts \subseteq Tuples
    BY TimeTypes DEF TInv, TypeOK
  <1>1. ASSUME NEW t \in Tuples, Write(t) \/ Rollback(t) PROVE VInv'
    BY <1>0, <1>1, SameVInv DEF Write, Rollback
  <1>2. ASSUME NEW t \in Tuples, Commit(t) PROVE VInv'
    <2>1. PICK new : /\ Replace(new)
                     /\ new = IF t \notin facts THEN facts \cup {t} ELSE facts \ {t}
      BY <1>2 DEF Commit
    <2> QED BY <1>0, <1>2, <2>1, ReplaceVInv DEF Commit
  <1>3. ASSUME Truncate \/ Recreate PROVE VInv'
    <2>1. Replace({}) /\ UNCHANGED <<mirror, poll, read, now>>
      BY <1>3 DEF Truncate, Recreate
    <2> QED BY <2>1, ReplaceVInv
  <1> QED BY <1>1, <1>2, <1>3 DEF Mutation

\* A delivery moves on while the facts and the mirror stay.
LEMMA MoveVInv ==
  ASSUME TInv, VInv, NEW r \in Replicas, NEW l, poll' = [poll EXCEPT ![r] = l],
         UNCHANGED <<facts, history, mirror, read, now>>, VersionHolds(l)
  PROVE  VInv'
  <1>1. poll'[r] = l /\ \A q \in Replicas \ {r} : poll'[q] = poll[q]
    BY PollMove
  <1>2. HistoryOK' /\ MirrorHolds' /\ \A q \in Readers : ReadHolds(read[q])'
    BY DEF VInv, HistoryOK, Never, MirrorHolds, ReadHolds
  <1>3. ASSUME NEW q \in Replicas PROVE VersionHolds(poll[q])'
    <2>1. PICK k : k = poll'[q]
      OBVIOUS
    <2>2. VersionHolds(k)
      BY <1>1, <2>1 DEF VInv
    <2>3. VersionHolds(k)'
      BY <2>2 DEF VersionHolds
    <2> QED BY <2>1, <2>3 DEF VersionHolds
  <1> QED BY <1>2, <1>3 DEF VInv

\* An idle delivery publishes nothing.
LEMMA IdleVersion == VersionHolds(Idle)
  BY IdlePoll DEF VersionHolds

\* A snapshot sees the present version.
LEMMA SnapshotVInv ==
  ASSUME TInv, DInv, VInv, NEW r \in Replicas, NEW l \in PollState, poll[r].pc = "snapshot",
         poll' = [poll EXCEPT ![r] = l], Snapshots(r, l), UNCHANGED <<source, mirror, read, now>>
  PROVE  VInv'
  <1>1. /\ now \in Nat /\ Never \in Nat /\ now < Never /\ poll[r].started \in Nat
        /\ poll[r].started <= now
    BY TimeTypes DEF VInv, VersionHolds, Polls
  <1>2. /\ Len(history) \in 1..Len(history) /\ history[Len(history)].facts = facts
        /\ history[Len(history)].ended = Never
    BY HistoryTypes DEF VInv, HistoryOK
  <1>3. /\ l.pc = "publish" /\ l.started = poll[r].started /\ l.snap.version = Len(history)
        /\ l.snap.full => l.snap.tuples = facts
    BY DEF Snapshots
  <1>4. ASSUME ~ l.snap.full, mirror.receipt = l.before
        PROVE  Applied(mirror.tuples, l.snap.changes) = facts
    <2>1. /\ mirror.receipt = receipt /\ receipt # NoReceipt /\ l.snap.changes = outbox
          /\ \A e \in outbox : e.tuple # NoTuple
      BY <1>4 DEF Snapshots
    <2> QED BY <2>1 DEF DInv, Complete, Gives
  <1>5. VersionHolds(l)
    BY <1>1, <1>2, <1>3, <1>4 DEF VersionHolds
  <1> QED BY <1>5, MoveVInv DEF source

\* A publication is the version its snapshot saw, and nothing that is about to
\* extend the mirror or is reading it takes it for the one before.
LEMMA PublishVInv ==
  ASSUME TInv, RInv, DInv, VInv, NEW r \in Replicas, NEW l \in PollState,
         poll[r].pc = "publish", poll' = [poll EXCEPT ![r] = l], Publishes(r, l),
         UNCHANGED <<source, read, now>>
  PROVE  VInv'
  <1>0. /\ now \in Nat /\ MaxStaleness \in Nat /\ poll[r].started \in Nat
        /\ Len(history) \in Nat /\ \A v \in 1..Len(history) : history[v].ended \in Nat
    BY TimeTypes, HistoryTypes DEF VInv, Polls
  <1>1. poll'[r] = l /\ \A q \in Replicas \ {r} : poll'[q] = poll[q]
    BY PollMove
  <1>2. HistoryOK' /\ UNCHANGED history
    BY DEF VInv, HistoryOK, Never, source
  <1>3. VersionHolds(poll[r])
    BY DEF VInv
  <1>4. MirrorHolds'
    <2>0. /\ poll[r].snap.version \in 1..Len(history)
          /\ mirror'.version = poll[r].snap.version
      BY <1>3 DEF Publishes, VersionHolds
    <2>1. /\ mirror'.version \in 1..Len(history)
          /\ mirror'.tuples = history[mirror'.version].facts
      <3>1. CASE poll[r].snap.full
        BY <1>3, <2>0, <3>1 DEF Publishes, VersionHolds
      <3>2. CASE ~ poll[r].snap.full
        BY <1>3, <2>0, <3>2 DEF Publishes, VersionHolds
      <3> QED BY <3>1, <3>2
    <2>2. /\ mirror'.until <= now + MaxStaleness
          /\ mirror'.until <= history[mirror'.version].ended + MaxStaleness
      <3>0. PICK s, d : s = poll[r].started /\ d = history[mirror'.version].ended
        OBVIOUS
      <3>1. mirror'.until = s + MaxStaleness /\ s <= now /\ s <= d
        BY <1>3, <2>0, <3>0 DEF Publishes, VersionHolds, Polls
      <3>2. s \in Nat /\ d \in Nat
        BY <1>0, <2>1, <3>0
      <3>3. s + MaxStaleness <= now + MaxStaleness /\ s + MaxStaleness <= d + MaxStaleness
        BY <1>0, <3>1, <3>2
      <3> QED BY <3>0, <3>1, <3>3
    <2> QED BY <1>2, <2>1, <2>2 DEF MirrorHolds
  <1>5. \/ mirror'.receipt = mirror.receipt /\ mirror'.tuples = mirror.tuples
        \/ /\ \A q \in Replicas : Polls(poll[q]) => poll[q].before # mirror'.receipt
           /\ \A q \in Readers : read[q].pc = "eval" => read[q].state # mirror'.receipt
    BY PublishEffect DEF RInv, ReceiptsApart
  <1>6. ASSUME NEW q \in Replicas PROVE VersionHolds(poll[q])'
    <2>1. CASE q = r
      <3>1. ~ Polls(l) /\ l.pc # "publish"
        BY IdlePoll DEF Publishes, Polls
      <3> QED BY <1>1, <2>1, <3>1 DEF VersionHolds
    <2>2. CASE q # r
      <3>1. PICK k : k = poll[q] /\ k = poll'[q]
        BY <1>1, <2>2
      <3>2. VersionHolds(k)
        BY <3>1 DEF VInv
      <3>3. VersionHolds(k)'
        BY <1>2, <1>5, <3>1, <3>2 DEF VersionHolds, Polls
      <3> QED BY <3>1, <3>3 DEF VersionHolds
    <2> QED BY <2>1, <2>2
  <1>7. \A q \in Readers : ReadHolds(read[q])'
    BY <1>5 DEF VInv, ReadHolds
  <1> QED BY <1>2, <1>4, <1>6, <1>7 DEF VInv

\* The backend may lose its mirror.
LEMMA EvictVInv ==
  ASSUME TInv, RInv, DInv, VInv, Evict
  PROVE  VInv'
  <1>1. mirror'.receipt = NoReceipt /\ UNCHANGED <<source, poll, read, now>>
    BY DEF Evict, NoMirror, SourceQuiet
  <1>2. HistoryOK' /\ MirrorHolds'
    BY <1>1 DEF VInv, HistoryOK, Never, MirrorHolds, source
  <1>3. ASSUME NEW q \in Replicas PROVE VersionHolds(poll[q])'
    <2>1. PICK k : k = poll[q] /\ k = poll'[q]
      BY <1>1
    <2>2. VersionHolds(k) /\ PublishHolds(k)
      BY <2>1 DEF VInv, DInv
    <2>3. VersionHolds(k)'
      BY <1>1, <2>2 DEF VersionHolds, PublishHolds, source
    <2> QED BY <2>1, <2>3 DEF VersionHolds
  <1>4. ASSUME NEW q \in Readers, read[q].pc = "eval" PROVE read[q].state # NoReceipt
    BY <1>4, TupleCacheAssumption DEF RInv, ReceiptsKnown, TInv, TypeOK
  <1>5. \A q \in Readers : ReadHolds(read[q])'
    BY <1>1, <1>4 DEF ReadHolds
  <1> QED BY <1>2, <1>3, <1>5 DEF VInv

\* A reader moves on.
LEMMA ReadVInv ==
  ASSUME TInv, VInv, NEW r \in Readers, NEW x, read' = [read EXCEPT ![r] = x], ReadHolds(x),
         UNCHANGED <<facts, history, mirror, poll, now>>
  PROVE  VInv'
  <1>1. read'[r] = x /\ \A q \in Readers \ {r} : read'[q] = read[q]
    BY DEF TInv
  <1>2. HistoryOK' /\ MirrorHolds' /\ \A q \in Replicas : VersionHolds(poll[q])'
    BY DEF VInv, HistoryOK, Never, MirrorHolds, VersionHolds
  <1>3. ASSUME NEW q \in Readers PROVE ReadHolds(read[q])'
    <2>1. PICK y : y = read'[q]
      OBVIOUS
    <2>2. ReadHolds(y)
      BY <1>1, <2>1 DEF VInv
    <2>3. ReadHolds(y)'
      BY <2>2 DEF ReadHolds
    <2> QED BY <2>1, <2>3 DEF ReadHolds
  <1> QED BY <1>2, <1>3 DEF VInv

-----------------------------------------------------------------------------
(* The invariant. *)

\* A delivery keeps the invariant.
LEMMA DeliveryCInv ==
  ASSUME CInv, Delivery
  PROVE  CInv'
  <1>0. TInv /\ RInv /\ DInv /\ VInv /\ HistoryOK
    BY DEF CInv, VInv
  <1>1. PICK r \in Replicas :
           \/ PollStart(r) \/ (\E rebuild \in BOOLEAN : PollSnapshot(r, rebuild))
           \/ Publish(r) \/ Acknowledge(r) \/ PollFails(r)
    BY DEF Delivery
  <1>2. TInv'
    BY <1>0, <1>1, DeliveryTInv
  <1>3. DeltaHolds(Idle) /\ PublishHolds(Idle) /\ AckHolds(Idle) /\ VersionHolds(Idle)
    BY IdlePoll, NothingTaken, IdleVersion
  <1>4. ASSUME poll' = [poll EXCEPT ![r] = Idle], UNCHANGED <<source, mirror, issued, read, now>>
        PROVE  CInv'
    <2>1. RInv'
      BY <1>0, <1>4, DropRInv DEF source
    <2>2. DInv'
      BY <1>0, <1>3, <1>4, MoveDInv
    <2>3. VInv'
      BY <1>0, <1>3, <1>4, MoveVInv DEF source
    <2> QED BY <1>2, <2>1, <2>2, <2>3 DEF CInv
  <1>5. CASE PollStart(r)
    <2>1. UNCHANGED <<source, mirror, read, now>>
      BY <1>5 DEF PollStart, SourceQuiet
    <2>2. PICK l : /\ poll' = [poll EXCEPT ![r] = l] /\ l.pc = "snapshot" /\ l.started = now
      BY <1>0, <1>5, StartStep
    <2>3. VersionHolds(l)
      BY <1>0, <2>2, TimeTypes DEF VersionHolds
    <2>4. RInv'
      BY <1>0, <1>5, StartRInv
    <2>5. DInv'
      <3>1. DeltaHolds(l) /\ PublishHolds(l) /\ AckHolds(l)
        BY <2>2, NothingTaken
      <3> QED BY <1>0, <2>1, <2>2, <3>1, MoveDInv
    <2>6. VInv'
      BY <1>0, <2>1, <2>2, <2>3, MoveVInv DEF source
    <2> QED BY <1>2, <2>4, <2>5, <2>6 DEF CInv
  <1>6. ASSUME NEW rebuild \in BOOLEAN, PollSnapshot(r, rebuild) PROVE CInv'
    <2>1. UNCHANGED <<source, mirror, read, now>> /\ poll[r].pc = "snapshot"
      BY <1>6 DEF PollSnapshot, SourceQuiet
    <2>2. CASE poll' = [poll EXCEPT ![r] = Idle] /\ UNCHANGED issued
      BY <1>4, <2>1, <2>2
    <2>3. CASE \E l \in PollState : poll' = [poll EXCEPT ![r] = l] /\ Snapshots(r, l)
      <3>1. PICK l \in PollState : poll' = [poll EXCEPT ![r] = l] /\ Snapshots(r, l)
        BY <2>3
      <3>2. RInv'
        BY <1>0, <2>1, <3>1, SnapshotRInv DEF source
      <3>3. DInv'
        BY <1>0, <2>1, <3>1, SnapshotDInv
      <3>4. VInv'
        BY <1>0, <2>1, <3>1, SnapshotVInv
      <3> QED BY <1>2, <3>2, <3>3, <3>4 DEF CInv
    <2> QED BY <1>0, <1>6, <2>2, <2>3, SnapshotStep
  <1>7. CASE Publish(r)
    <2>1. UNCHANGED <<source, issued, read, now>> /\ poll[r].pc = "publish"
      BY <1>7 DEF Publish, SourceQuiet
    <2>2. PICK l \in PollState : /\ poll' = [poll EXCEPT ![r] = l]
                                 /\ Publishes(r, l) \/ (l = Idle /\ UNCHANGED mirror)
      BY <1>0, <1>7, PublishStep
    <2>3. CASE l = Idle /\ UNCHANGED mirror
      BY <1>4, <2>1, <2>2, <2>3
    <2>4. CASE Publishes(r, l)
      <3>1. RInv'
        BY <1>0, <2>1, <2>2, <2>4, PublishRInv DEF source
      <3>2. DInv'
        BY <1>0, <2>1, <2>2, <2>4, PublishDInv
      <3>3. VInv'
        BY <1>0, <2>1, <2>2, <2>4, PublishVInv
      <3> QED BY <1>2, <3>1, <3>2, <3>3 DEF CInv
    <2> QED BY <2>2, <2>3, <2>4
  <1>8. CASE Acknowledge(r)
    <2>1. RInv'
      BY <1>0, <1>8, AckRInv
    <2>2. DInv'
      BY <1>0, <1>8, AckDInv
    <2>3. VInv'
      BY <1>0, <1>3, <1>8, AckStep, MoveVInv
    <2> QED BY <1>2, <2>1, <2>2, <2>3 DEF CInv
  <1>9. CASE PollFails(r)
    BY <1>4, <1>9 DEF PollFails, Fails, SourceQuiet
  <1> QED BY <1>1, <1>5, <1>6, <1>7, <1>8, <1>9

\* A reader keeps the invariant.
LEMMA ReadingCInv ==
  ASSUME CInv, Reading
  PROVE  CInv'
  <1>0. TInv /\ RInv /\ DInv /\ VInv
    BY DEF CInv
  <1>1. PICK r \in Readers :
           \/ RunStart(r) \/ RunEnd(r) \/ \E t \in Tuples : ReadSet(r, t)
    BY DEF Reading
  <1>2. TInv'
    BY <1>0, <1>1, ReadingTInv
  <1>3. UNCHANGED <<source, mirror, issued, now, poll>>
    BY <1>1 DEF RunStart, RunEnd, ReadSet, SourceQuiet
  <1>4. PICK x : /\ read' = [read EXCEPT ![r] = x] /\ ReadHolds(x)
                 /\ x.pc = "eval" => \/ read[r].pc = "eval" /\ x.state = read[r].state
                                     \/ x.state = mirror.receipt /\ mirror.receipt # NoReceipt
    <2>1. CASE RunStart(r)
      <3>1. PICK x : x = [pc |-> "eval", state |-> mirror.receipt, view |-> << >>]
        OBVIOUS
      <3>2. x.state = mirror.receipt /\ DOMAIN x.view = {}
        BY <3>1
      <3>3. read' = [read EXCEPT ![r] = x] /\ mirror.receipt # NoReceipt
        BY <2>1, <3>1 DEF RunStart
      <3> QED BY <3>2, <3>3 DEF ReadHolds
    <2>2. CASE RunEnd(r)
      <3>1. Idle.pc # "eval"
        BY IdlePoll
      <3> QED BY <2>2, <3>1 DEF RunEnd, ReadHolds
    <2>3. ASSUME NEW t \in Tuples, ReadSet(r, t)
          PROVE  \E x : /\ read' = [read EXCEPT ![r] = x] /\ ReadHolds(x)
                        /\ read[r].pc = "eval" /\ x.state = read[r].state
      <3>1. PICK x : /\ read' = [read EXCEPT ![r] = x] /\ x.pc = "eval" /\ x.state = read[r].state
                     /\ DOMAIN x.view = DOMAIN read[r].view \cup {t}
                     /\ x.view[t] = (t \in mirror.tuples)
                     /\ \A u \in DOMAIN read[r].view : x.view[u] = read[r].view[u]
        BY <1>0, <2>3, ReadSetStep
      <3>2. read[r].pc = "eval" /\ ReadHolds(read[r])
        BY <1>0, <2>3 DEF ReadSet, VInv
      <3>3. ReadHolds(x)
        BY <3>1, <3>2 DEF ReadHolds
      <3> QED BY <3>1, <3>2, <3>3
    <2> QED BY <1>1, <2>1, <2>2, <2>3
  <1>5. RInv'
    BY <1>0, <1>3, <1>4, ReadRInv DEF source
  <1>6. DInv'
    <2>1. IdsOrdered'
      BY <1>0, <1>3 DEF DInv, IdsOrdered, source
    <2> QED BY <1>0, <1>3, <2>1, SameDInv DEF source
  <1>7. VInv'
    BY <1>0, <1>3, <1>4, ReadVInv DEF source
  <1> QED BY <1>2, <1>5, <1>6, <1>7 DEF CInv

\* Writers keep the invariant.
LEMMA MutationCInv ==
  ASSUME CInv, Mutation
  PROVE  CInv'
  <1>1. receipt' \in {receipt, NoReceipt} /\ UNCHANGED <<mirror, issued, poll, read>>
    BY DEF Mutation, Write, Commit, Rollback, Truncate, Recreate
  <1> QED BY <1>1, MutationTInv, SourceRInv, MutationDInv, MutationVInv DEF CInv

\* The surroundings keep the invariant.
LEMMA OtherCInv ==
  ASSUME CInv, Evict \/ Tick \/ (\E r \in Replicas : Close(r)) \/ UNCHANGED vars
  PROVE  CInv'
  <1>0. TInv /\ RInv /\ DInv /\ VInv
    BY DEF CInv
  <1>1. TInv'
    BY <1>0, OtherTInv
  <1>2. CASE Evict
    BY <1>0, <1>1, <1>2, EvictRInv, EvictDInv, EvictVInv DEF CInv
  <1>3. CASE Tick \/ (\E r \in Replicas : Close(r)) \/ UNCHANGED vars
    <2>1. UNCHANGED <<source, mirror, issued, poll, read>>
      BY <1>3 DEF Tick, Close, vars, SourceQuiet
    <2>2. now \in Nat /\ now' \in Nat /\ now <= now'
      BY <1>0, <1>3, TimeTypes DEF Tick, Close, vars
    <2>3. IdsOrdered'
      BY <1>0, <2>1 DEF DInv, IdsOrdered, source
    <2>4. RInv'
      BY <1>0, <2>1, SourceRInv DEF source
    <2>5. DInv'
      BY <1>0, <2>1, <2>3, SameDInv DEF source
    <2>6. VInv'
      BY <1>0, <2>1, <2>2, SameVInv DEF source
    <2> QED BY <1>1, <2>4, <2>5, <2>6 DEF CInv
  <1> QED BY <1>2, <1>3

\* The invariant holds at the start: an empty mirror and the seeded facts.
LEMMA InitCInv == Init => CInv
  <1> SUFFICES ASSUME Init PROVE CInv
    OBVIOUS
  <1>1. /\ \A r \in Replicas : poll[r] = Idle
        /\ \A r \in Readers : read[r] = Idle
        /\ DOMAIN poll = Replicas /\ DOMAIN read = Readers
    BY DEF Init
  <1>2. mirror.receipt = NoReceipt /\ mirror \in Mirror
    BY TupleCacheAssumption DEF Init, NoMirror, Mirror
  <1>3. TInv
    <2>1. \A r \in Readers : IsRead(read[r]) /\ ReadFields(read[r])
      BY <1>1, IdlePoll DEF IsRead, ReadFields
    <2>2. \A r \in Replicas : poll[r] \in PollState
      BY <1>1, IdlePoll
    <2>3. DOMAIN writing = {}
      BY DEF Init
    <2>4. /\ facts \subseteq Tuples /\ outbox \subseteq Event /\ issued \subseteq Receipts
          /\ receipt \in Receipts \cup {NoReceipt} /\ recreated \in BOOLEAN
      BY TupleCacheAssumption DEF Init
    <2>5. lastID \in 0..MaxEvents /\ now \in Times /\ faults \in 0..MaxFaults
      BY TupleCacheAssumption DEF Init, Times
    <2>6. status \in [Replicas -> Statuses]
      BY DEF Init, Statuses
    <2> QED BY <1>1, <1>2, <2>1, <2>2, <2>3, <2>4, <2>5, <2>6 DEF TInv, TypeOK
  <1>4. RInv
    BY <1>1, <1>2, IdlePoll DEF Init, RInv, ReceiptsKnown, ReceiptsApart, Known
  <1>5. DInv
    <2>1. \A r \in Replicas : DeltaHolds(poll[r]) /\ PublishHolds(poll[r]) /\ AckHolds(poll[r])
      BY <1>1, IdlePoll, NothingTaken
    <2>2. DOMAIN writing = {} /\ outbox = {}
      BY DEF Init
    <2> QED BY <2>1, <2>2 DEF Init, DInv, IdsOrdered, Complete
  <1>6. VInv
    <2>1. Seeded \in SUBSET Tuples /\ Never \in Nat
      BY TupleCacheAssumption DEF Never
    <2>2. [facts |-> Seeded, ended |-> Never] \in [facts : SUBSET Tuples, ended : Nat]
      BY <2>1
    <2>3. HistoryOK
      BY <2>2 DEF Init, HistoryOK
    <2>4. \A r \in Replicas : VersionHolds(poll[r])
      BY <1>1, IdleVersion
    <2>5. \A r \in Readers : ReadHolds(read[r])
      BY <1>1, IdlePoll DEF ReadHolds
    <2> QED BY <1>2, <2>3, <2>4, <2>5 DEF VInv, MirrorHolds
  <1> QED BY <1>3, <1>4, <1>5, <1>6 DEF CInv

\* The invariant: receipts name one publication each, every delivery in flight
\* keeps the mirror and the outbox complete, and the mirror is a version of the
\* facts that was current within MaxStaleness of its deadline.
THEOREM TupleCacheInvariant == Spec => []CInv
  <1>1. CInv /\ [Next]_vars => CInv'
    BY MutationCInv, DeliveryCInv, ReadingCInv, OtherCInv DEF Next
  <1> QED BY <1>1, InitCInv, PTL DEF Spec

\* Whenever the mirror carries the source's receipt, the mirror and the events
\* not yet acknowledged give the facts (Snapshot, Publish, Acknowledge), for
\* any number of replicas whose deliveries overlap, fail and are retried.
THEOREM CacheSoundHolds == Spec => []CacheSound
  <1>1. CInv => CacheSound
    BY DEF CInv, TInv, DInv, Complete, Gives, CacheSound, MirrorPlusOutbox
  <1> QED BY <1>1, TupleCacheInvariant, PTL

\* Every answer the cache hands out is what the database held at one moment,
\* and no change older than MaxStaleness is missing from it (Policy, Run).
THEOREM ServedRecentlyHolds == Spec => []ServedRecently
  <1>1. CInv => ServedRecently
    <2> SUFFICES ASSUME CInv, NEW r \in Readers, mayServe(r)
                 PROVE  \E v \in 1..Len(history) :
                           /\ \A t \in DOMAIN read[r].view : read[r].view[t] = (t \in history[v].facts)
                           /\ now < history[v].ended + MaxStaleness
      BY DEF ServedRecently
    <2>1. TInv /\ RInv /\ VInv
      BY DEF CInv
    <2>2. read[r].pc = "eval" /\ mirror.receipt = read[r].state /\ now < mirror.until
      BY DEF mayServe, readable
    <2>3. mirror.receipt # NoReceipt
      BY <2>1, <2>2, TupleCacheAssumption DEF RInv, ReceiptsKnown, TInv, TypeOK
    <2>4. /\ mirror.version \in 1..Len(history)
          /\ mirror.tuples = history[mirror.version].facts
          /\ mirror.until <= history[mirror.version].ended + MaxStaleness
      BY <2>1, <2>3 DEF VInv, MirrorHolds
    <2>5. \A t \in DOMAIN read[r].view : read[r].view[t] = (t \in mirror.tuples)
      BY <2>1, <2>2 DEF VInv, ReadHolds
    <2>6. /\ now \in Nat /\ mirror.until \in Nat /\ MaxStaleness \in Nat
          /\ history[mirror.version].ended \in Nat
      BY <2>1, <2>4, TimeTypes, HistoryTypes DEF VInv
    <2>7. now < history[mirror.version].ended + MaxStaleness
      BY <2>2, <2>4, <2>6
    <2>8. /\ \A t \in DOMAIN read[r].view : read[r].view[t] = (t \in history[mirror.version].facts)
          /\ now < history[mirror.version].ended + MaxStaleness
      BY <2>4, <2>5, <2>7
    <2> QED BY <2>4, <2>8
  <1> QED BY <1>1, TupleCacheInvariant, PTL
=============================================================================
