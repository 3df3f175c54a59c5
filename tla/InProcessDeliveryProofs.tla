----------------------- MODULE InProcessDeliveryProofs -----------------------
(***************************************************************************)
(* In-process delivery, for every number of keys, callers, workers and     *)
(* generations, every channel and status map size: the arbiter is sound,   *)
(* superseded work stops, a dead letter voids what it sent, and the mode   *)
(* keeps the delivery contract.                                            *)
(***************************************************************************)
EXTENDS InProcessDelivery, FiniteSetTheorems, TLAPS

CallerState ==
    [pc : {"idle", "wait", "retry", "send", "commit"}, item : Item \cup {NoItem}]

WorkerState ==
    [pc : {"idle", "exited", "claim", "handle", "rendered", "ready", "calling", "done",
           "backoff", "discard"},
     item : Item \cup {NoItem}, payload : Secrets \cup {Opaque}, msg : Secrets \cup {Opaque},
     attempt : 0..MaxAttempts, result : {"none", "ok", "retry", "permanent"}]

Shape ==
    /\ recs \in [Keys -> Record \cup {NoRec}] /\ seq \in 0..MaxGen
    /\ ch \in Seq(Item) /\ Len(ch) <= Capacity /\ closed \in BOOLEAN
    /\ caller \in [Callers -> CallerState] /\ worker \in [Workers -> WorkerState]
    /\ run \in {"none", "running", "canceled", "draining"} /\ (run = "draining" => closed)
    /\ live \subseteq minted /\ minted \subseteq Secrets /\ delivered \subseteq Gens
    /\ phase \in [Gens -> {"unknown", "active", "completed", "dead_letter", "superseded",
                           "canceled"}]
    /\ sealed \in [Gens -> minted \cup {Opaque}] /\ late \in [Gens -> Nat]
    /\ kept \subseteq Gens /\ stopped \subseteq Gens
    /\ DOMAIN keyOf = Gens

\* An item names a generation that was given out, under its own key.
Known(i) == i \in Item /\ i.gen <= seq /\ keyOf[i.gen] = i.key

ItemsKnown ==
    /\ \A c \in Callers : caller[c].pc # "idle" => Known(caller[c].item)
    /\ \A i \in DOMAIN ch : Known(ch[i])
    /\ \A w \in Workers :
          IF worker[w].pc \in {"idle", "exited"} THEN worker[w].item = NoItem
          ELSE Known(worker[w].item)

Held(g) == \E k \in Keys : recs[k].gen = g

\* The records and the phases agree, and a generation is unknown until reserved.
PhaseTrue ==
    /\ \A k \in Keys : recs[k].gen # 0 =>
          /\ recs[k].gen <= seq /\ keyOf[recs[k].gen] = k
          /\ recs[k].active <=> recs[k].state \in {"pending", "running"}
          /\ phase[recs[k].gen] = IF recs[k].active THEN "active" ELSE recs[k].state
    /\ \A g \in Gens :
          /\ phase[g] = "active" => Held(g)
          /\ phase[g] = "unknown" <=> g > seq
          /\ g > seq => sealed[g] = Opaque /\ late[g] = 0 /\ g \notin stopped

Sending(c, g) == caller[c].pc = "send" /\ caller[c].item.gen = g
Queued(g) ==
    (\E c \in Callers : Sending(c, g)) \/ (\E i \in DOMAIN ch : ch[i].gen = g)

\* The item of a generation is in one place.
OnePlace ==
    \A g \in Gens :
        /\ \A c, d \in Callers : Sending(c, g) /\ Sending(d, g) => c = d
        /\ \A i, j \in DOMAIN ch : ch[i].gen = g /\ ch[j].gen = g => i = j
        /\ \A v, w \in Workers : worker[v].item.gen = g /\ worker[w].item.gen = g => v = w
        /\ \A c \in Callers, i \in DOMAIN ch : ~ (Sending(c, g) /\ ch[i].gen = g)
        /\ \A c \in Callers, w \in Workers : ~ (Sending(c, g) /\ worker[w].item.gen = g)
        /\ \A i \in DOMAIN ch, w \in Workers : ~ (ch[i].gen = g /\ worker[w].item.gen = g)

\* Until the host cancels, active work is somewhere, and running work with a worker.
Carried ==
    NotCanceled => \A k \in Keys :
        /\ recs[k].active =>
              Queued(recs[k].gen) \/ \E w \in Workers : worker[w].item.gen = recs[k].gen
        /\ recs[k].state = "running" => \E w \in Workers : worker[w].item.gen = recs[k].gen

\* A generation that has ended is not queued, and only its discard is left to do.
Ended ==
    \A g \in Gens :
        /\ phase[g] \in {"completed", "dead_letter", "canceled"} => ~ Queued(g)
        /\ phase[g] \in {"completed", "dead_letter"} =>
              \A w \in Workers : worker[w].item.gen = g =>
                  phase[g] = "dead_letter" /\ worker[w].pc = "discard"
        /\ phase[g] = "completed" => g \in delivered
        /\ phase[g] = "superseded" =>
              \E h \in Gens : h > g /\ h <= seq /\ keyOf[h] = keyOf[g]

\* What a worker holds is what its generation checkpointed.
Sealing ==
    /\ \A g \in Gens : Queued(g) => sealed[g] = Opaque
    /\ \A w \in Workers :
          /\ worker[w].pc \notin {"idle", "exited"} => worker[w].payload = sealed[worker[w].item.gen]
          /\ worker[w].pc = "claim" => worker[w].payload = Opaque
          /\ worker[w].pc = "rendered" => worker[w].payload = Opaque /\ worker[w].msg \in minted
          /\ worker[w].pc = "ready" =>
                worker[w].msg = worker[w].payload /\ worker[w].payload \in minted
          /\ worker[w].pc = "done" /\ worker[w].result = "ok" => worker[w].item.gen \in delivered
          /\ worker[w].pc = "backoff" => worker[w].attempt < MaxAttempts
          /\ worker[w].pc = "discard" => phase[worker[w].item.gen] = "dead_letter"
    /\ \A c \in calls : c \in Gens \X Secrets /\ c[2] = sealed[c[1]]

\* Once it has started a call too many, or was stopped, a generation starts no more.
Quiet ==
    \A g \in Gens :
        /\ late[g] <= 1
        /\ late[g] = 1 =>
              ~ Held(g) /\ \A w \in Workers :
                  worker[w].item.gen = g => worker[w].pc \notin {"handle", "rendered", "ready"}
        /\ g \in stopped =>
              late[g] = 0 /\ ~ Held(g) /\ \A w \in Workers :
                  worker[w].item.gen = g =>
                      worker[w].pc \notin {"handle", "rendered", "ready", "calling"}

\* The inductive invariant.
PInv ==
    /\ Shape /\ ItemsKnown /\ PhaseTrue /\ OnePlace /\ Carried /\ Ended /\ Sealing /\ Quiet
    /\ SentSecretsVoided

-----------------------------------------------------------------------------
(* Records, items and places. *)

\* What a record says of itself.
LEMMA RecFields ==
  ASSUME PInv, NEW k \in Keys
  PROVE  /\ recs[k].gen \in Nat /\ recs[k].active \in BOOLEAN
         /\ recs[k].gen = 0 =>
               recs[k] = NoRec /\ ~ recs[k].active /\ recs[k].state = "none"
         /\ recs[k].gen # 0 =>
               recs[k] \in Record /\ recs[k].gen \in Gens
               /\ recs[k].state \in {"pending", "running", "completed", "dead_letter"}
  <1>1. recs[k] \in Record \/ recs[k] = NoRec
    BY DEF PInv, Shape
  <1>2. CASE recs[k] \in Record
    BY <1>2, InProcessAssumption DEF InProcessAssumption, Record, Gens
  <1>3. CASE recs[k] = NoRec
    BY <1>3 DEF NoRec
  <1> QED BY <1>1, <1>2, <1>3

\* A generation is the current one of its own key or of none.
LEMMA CurrentIsHeld ==
  ASSUME PInv, NEW i, Known(i)
  PROVE  /\ i.key \in Keys /\ i.gen \in Gens /\ i.gen \in Nat /\ i.gen # 0
         /\ current(i) <=> Held(i.gen)
         /\ \A k \in Keys : recs[k].gen = i.gen => k = i.key
  <1>1. i.key \in Keys /\ i.gen \in Gens
    BY DEF Known, Item
  <1>2. i.gen \in Nat /\ i.gen # 0
    BY <1>1, InProcessAssumption DEF Gens, InProcessAssumption
  <1>3. \A k \in Keys : recs[k].gen = i.gen => k = i.key
    BY <1>2 DEF PInv, PhaseTrue, Known
  <1> QED BY <1>1, <1>2, <1>3 DEF current, Held

\* Two keys never share a generation.
LEMMA RecsApart ==
  ASSUME PInv, NEW j \in Keys, NEW k \in Keys, recs[j].gen = recs[k].gen, recs[j].gen # 0
  PROVE  j = k
  BY DEF PInv, PhaseTrue

\* The worker of a generation.
LEMMA WorkerFields ==
  ASSUME PInv, NEW w \in Workers
  PROVE  /\ worker[w] \in WorkerState
         /\ worker[w].pc \in {"idle", "exited"} => worker[w].item = NoItem /\ worker[w].item.gen = 0
         /\ worker[w].pc \notin {"idle", "exited"} =>
               Known(worker[w].item) /\ worker[w].item \in Item /\ worker[w].item.gen \in Gens
               /\ worker[w].item.gen <= seq
  <1>1. worker[w] \in WorkerState
    BY DEF PInv, Shape
  <1>2. worker[w].pc \in {"idle", "exited"} => worker[w].item = NoItem /\ worker[w].item.gen = 0
    BY DEF PInv, ItemsKnown, NoItem
  <1>3. worker[w].pc \notin {"idle", "exited"} => Known(worker[w].item)
    BY DEF PInv, ItemsKnown
  <1> QED BY <1>1, <1>2, <1>3 DEF Known, Item

\* The phases SetRecs gives.
LEMMA SetRecsPhase ==
  ASSUME PInv, NEW new \in [Keys -> Record \cup {NoRec}], NEW how, SetRecs(new, how),
         \A j, k \in Keys : new[j].gen = new[k].gen /\ new[j].gen # 0 => j = k
  PROVE  /\ recs' = new /\ DOMAIN phase' = Gens
         /\ \A g \in Gens :
               /\ \A k \in Keys :
                     new[k].gen = g => phase'[g] = IF new[k].active THEN "active" ELSE new[k].state
               /\ (\A k \in Keys : new[k].gen # g) =>
                     phase'[g] = IF phase[g] = "active" THEN how ELSE phase[g]
  <1>1. recs' = new /\ DOMAIN phase' = Gens
    BY DEF SetRecs
  <1>2. ASSUME NEW g \in Gens, NEW k \in Keys, new[k].gen = g
        PROVE  phase'[g] = IF new[k].active THEN "active" ELSE new[k].state
    <2>1. g # 0
      BY InProcessAssumption DEF Gens, InProcessAssumption
    <2>2. \A j \in Keys : new[j].gen = g => j = k
      BY <1>2, <2>1
    <2>3. \A r \in {new[j] : j \in Keys} : r.gen = g => r = new[k]
      BY <2>2
    <2>4. (CHOOSE r \in {new[j] : j \in Keys} : r.gen = g) = new[k]
      BY <1>2, <2>3
    <2>5. phase'[g] = IF \E j \in Keys : new[j].gen = g /\ new[j].active THEN "active"
                      ELSE (CHOOSE r \in {new[j] : j \in Keys} : r.gen = g).state
      BY <1>2 DEF SetRecs
    <2> QED BY <1>2, <2>2, <2>4, <2>5
  <1>3. ASSUME NEW g \in Gens, \A k \in Keys : new[k].gen # g
        PROVE  phase'[g] = IF phase[g] = "active" THEN how ELSE phase[g]
    BY <1>3 DEF SetRecs
  <1> QED BY <1>1, <1>2, <1>3

\* Setting the records to what they are changes no phase.
LEMMA SetRecsSame ==
  ASSUME PInv, NEW how, SetRecs(recs, how)
  PROVE  recs' = recs /\ phase' = phase
  <1>1. PICK new : new = recs
    OBVIOUS
  <1>2. /\ new \in [Keys -> Record \cup {NoRec}] /\ SetRecs(new, how)
        /\ \A j, k \in Keys : new[j].gen = new[k].gen /\ new[j].gen # 0 => j = k
    BY <1>1, RecsApart DEF PInv, Shape
  <1>3. /\ recs' = new /\ DOMAIN phase' = Gens
        /\ \A g \in Gens :
               /\ \A k \in Keys :
                     new[k].gen = g => phase'[g] = IF new[k].active THEN "active" ELSE new[k].state
               /\ (\A k \in Keys : new[k].gen # g) =>
                     phase'[g] = IF phase[g] = "active" THEN how ELSE phase[g]
    BY <1>2, SetRecsPhase
  <1>4. ASSUME NEW g \in Gens PROVE phase'[g] = phase[g]
    <2>1. CASE \E k \in Keys : recs[k].gen = g
      BY <1>1, <1>3, <2>1 DEF PInv, PhaseTrue, Gens
    <2>2. CASE \A k \in Keys : recs[k].gen # g
      BY <1>1, <1>3, <2>2 DEF PInv, PhaseTrue, Held
    <2> QED BY <2>1, <2>2
  <1>5. phase = [g \in Gens |-> phase[g]] /\ phase' = [g \in Gens |-> phase'[g]]
    BY DEF PInv, Shape, SetRecs
  <1> QED BY <1>1, <1>3, <1>4, <1>5

\* Workers that keep their item or go idle leave every item where it was.
LEMMA PlacesKept ==
  ASSUME PInv, UNCHANGED <<seq, keyOf, caller, ch>>, DOMAIN worker' = Workers,
         \A v \in Workers :
            \/ worker'[v] = worker[v]
            \/ /\ worker'[v].item = worker[v].item
               /\ worker[v].pc \notin {"idle", "exited"} /\ worker'[v].pc \notin {"idle", "exited"}
            \/ worker'[v].item = NoItem /\ worker'[v].pc \in {"idle", "exited"}
  PROVE  ItemsKnown' /\ OnePlace' /\ \A g : Queued(g)' <=> Queued(g)
  <1>1. \A i : Known(i)' <=> Known(i)
    BY DEF Known
  <1>2. ItemsKnown'
    BY <1>1 DEF PInv, ItemsKnown
  <1>3. \A c, g : Sending(c, g)' <=> Sending(c, g)
    BY DEF Sending
  <1>4. \A g : Queued(g)' <=> Queued(g)
    BY <1>3 DEF Queued
  <1>5. \A g \in Gens, v \in Workers : worker'[v].item.gen = g => worker[v].item.gen = g
    BY InProcessAssumption DEF NoItem, Gens, InProcessAssumption
  <1>6. OnePlace'
    BY <1>3, <1>5 DEF PInv, OnePlace
  <1> QED BY <1>2, <1>4, <1>6
-----------------------------------------------------------------------------
(* A worker inside the engine. *)

\* A step inside the engine keeps the records, the places and the phases.
LEMMA EngineFrame ==
  ASSUME PInv, NEW w \in Workers, NEW u \in WorkerState,
         worker' = [worker EXCEPT ![w] = u], u.item = worker[w].item,
         worker[w].pc \notin {"idle", "exited", "discard"}, u.pc \notin {"idle", "exited", "discard"},
         UNCHANGED <<qvars, run, phase, kept, keyOf, stopped>>,
         delivered \subseteq delivered', delivered' \subseteq Gens,
         live' \subseteq minted', minted \subseteq minted', minted' \subseteq Secrets,
         live' \subseteq live \cup (Secrets \ minted),
         sealed' \in [Gens -> minted' \cup {Opaque}], late' \in [Gens -> Nat],
         \A g \in Gens \ {u.item.gen} : sealed'[g] = sealed[g] /\ late'[g] = late[g],
         \A c \in calls' : c \in calls \/ c[1] = u.item.gen
  PROVE  /\ Shape' /\ ItemsKnown' /\ PhaseTrue' /\ OnePlace' /\ Carried' /\ Ended'
         /\ SentSecretsVoided'
         /\ \A g \in Gens : (Queued(g)' => sealed'[g] = Opaque) /\ (Held(g)' <=> Held(g))
         /\ \A v \in Workers \ {w} : worker'[v] = worker[v] /\ worker[v].item.gen # u.item.gen
         /\ worker'[w] = u /\ u.item.gen \in Gens /\ u.item.gen <= seq
  <1> DEFINE g0 == u.item.gen
  <1>0. worker'[w] = u /\ DOMAIN worker' = Workers /\ \A v \in Workers \ {w} : worker'[v] = worker[v]
    BY DEF PInv, Shape
  <1>1. Known(u.item) /\ g0 \in Gens /\ g0 <= seq
    BY WorkerFields
  <1>2. \A v \in Workers \ {w} : worker[v].item.gen # g0
    BY <1>1 DEF PInv, OnePlace
  <1>3. \A v \in Workers : worker'[v].item = worker[v].item
    BY <1>0
  <1>4. ItemsKnown' /\ OnePlace' /\ \A g : Queued(g)' <=> Queued(g)
    BY <1>0, PlacesKept DEF qvars
  <1>5. /\ recs' = recs /\ seq' = seq /\ ch' = ch /\ closed' = closed /\ caller' = caller
        /\ run' = run /\ phase' = phase /\ kept' = kept /\ keyOf' = keyOf /\ stopped' = stopped
    BY DEF qvars
  <1>6. Shape'
    <2>1. worker' \in [Workers -> WorkerState]
      BY DEF PInv, Shape
    <2> QED BY <1>5, <2>1 DEF PInv, Shape
  <1>7. \A g : Held(g)' <=> Held(g)
    BY <1>5 DEF Held
  <1>8. PhaseTrue'
    <2>1. \A g \in Gens : g > seq => sealed'[g] = sealed[g] /\ late'[g] = late[g]
      BY <1>1 DEF PInv, Shape, Gens
    <2> QED BY <1>5, <1>7, <2>1 DEF PInv, PhaseTrue
  <1>9. Carried'
    <2>1. NotCanceled' <=> NotCanceled
      BY <1>5 DEF NotCanceled, canceled
    <2> QED BY <1>3, <1>4, <1>5, <2>1 DEF PInv, Carried
  <1>10. Ended'
    <2>1. phase[g0] \notin {"completed", "dead_letter"}
      BY <1>1 DEF PInv, Ended
    <2>2. \A g \in Gens :
            /\ phase[g] \in {"completed", "dead_letter", "canceled"} => ~ Queued(g)'
            /\ phase[g] = "completed" => g \in delivered'
            /\ phase[g] = "superseded" => \E h \in Gens : h > g /\ h <= seq /\ keyOf[h] = keyOf[g]
      BY <1>4 DEF PInv, Ended
    <2>3. \A g \in Gens : phase[g] \in {"completed", "dead_letter"} =>
             \A v \in Workers : worker'[v].item.gen = g =>
                  phase[g] = "dead_letter" /\ worker'[v].pc = "discard"
      BY <1>0, <2>1 DEF PInv, Ended
    <2> QED BY <1>5, <2>2, <2>3 DEF Ended
  <1>11. SentSecretsVoided'
    <2> SUFFICES ASSUME NEW c \in calls', phase[c[1]] = "dead_letter", c[1] \notin kept,
                        \A v \in Workers : worker[v].item.gen # c[1]
                 PROVE  c[2] \notin live'
      BY <1>3, <1>5 DEF SentSecretsVoided
    <2>1. c \in calls
      OBVIOUS
    <2>2. c[2] \notin live
      BY <2>1 DEF PInv, SentSecretsVoided
    <2>3. c \in Gens \X Secrets /\ c[2] = sealed[c[1]]
      BY <2>1 DEF PInv, Sealing
    <2>4. c[2] \in minted
      BY <2>3, InProcessAssumption DEF PInv, Shape, InProcessAssumption
    <2> QED BY <2>2, <2>4
  <1>12. \A g \in Gens : Queued(g)' => sealed'[g] = Opaque
    <2>1. ~ Queued(g0)
      BY <1>1 DEF PInv, OnePlace, Queued
    <2> QED BY <1>4, <2>1 DEF PInv, Sealing
  <1> QED BY <1>0, <1>1, <1>2, <1>4, <1>6, <1>7, <1>8, <1>9, <1>10, <1>11, <1>12

\* What remains to show of such a step is about its own worker and generation.
LEMMA EngineStep ==
  ASSUME PInv, NEW w \in Workers, NEW u \in WorkerState,
         worker' = [worker EXCEPT ![w] = u], u.item = worker[w].item,
         worker[w].pc \notin {"idle", "exited", "discard"}, u.pc \notin {"idle", "exited", "discard"},
         UNCHANGED <<qvars, run, phase, kept, keyOf, stopped>>,
         delivered \subseteq delivered', delivered' \subseteq Gens,
         live' \subseteq minted', minted \subseteq minted', minted' \subseteq Secrets,
         live' \subseteq live \cup (Secrets \ minted),
         sealed' \in [Gens -> minted' \cup {Opaque}], late' \in [Gens -> Nat],
         \A g \in Gens \ {u.item.gen} : sealed'[g] = sealed[g] /\ late'[g] = late[g],
         \A c \in calls' : c \in calls \/ c = <<u.item.gen, sealed'[u.item.gen]>>,
         sealed[u.item.gen] # Opaque => sealed'[u.item.gen] = sealed[u.item.gen],
         calls' # calls => sealed'[u.item.gen] # Opaque,
         u.payload = sealed'[u.item.gen], u.pc # "claim",
         u.pc = "rendered" => u.payload = Opaque /\ u.msg \in minted',
         u.pc = "ready" => u.msg = u.payload /\ u.payload \in minted',
         u.pc = "done" /\ u.result = "ok" => u.item.gen \in delivered',
         u.pc = "backoff" => u.attempt < MaxAttempts,
         late'[u.item.gen] <= 1,
         late'[u.item.gen] = 1 =>
             ~ Held(u.item.gen) /\ u.pc \notin {"handle", "rendered", "ready"},
         u.item.gen \in stopped =>
             late'[u.item.gen] = 0 /\ u.pc \notin {"handle", "rendered", "ready", "calling"}
  PROVE  PInv'
  <1> DEFINE g0 == u.item.gen
  <1>1. /\ Shape' /\ ItemsKnown' /\ PhaseTrue' /\ OnePlace' /\ Carried' /\ Ended'
        /\ SentSecretsVoided'
        /\ \A g \in Gens : (Queued(g)' => sealed'[g] = Opaque) /\ (Held(g)' <=> Held(g))
        /\ \A v \in Workers \ {w} : worker'[v] = worker[v] /\ worker[v].item.gen # g0
        /\ worker'[w] = u /\ g0 \in Gens /\ g0 <= seq
    <2>1. \A c \in calls' : c \in calls \/ c[1] = g0
      OBVIOUS
    <2> QED BY <2>1, EngineFrame
  <1>2. phase' = phase /\ stopped' = stopped
    OBVIOUS
  <1>3. Sealing'
    <2>1. \A v \in Workers \ {w} :
            /\ worker[v].pc \notin {"idle", "exited"} =>
                  worker[v].item.gen \in Gens
                  /\ worker[v].payload = sealed'[worker[v].item.gen]
      BY <1>1, WorkerFields DEF PInv, Sealing
    <2>2. \A v \in Workers \ {w} :
          /\ worker'[v].pc \notin {"idle", "exited"} =>
                worker'[v].payload = sealed'[worker'[v].item.gen]
          /\ worker'[v].pc = "claim" => worker'[v].payload = Opaque
          /\ worker'[v].pc = "rendered" => worker'[v].payload = Opaque /\ worker'[v].msg \in minted'
          /\ worker'[v].pc = "ready" =>
                worker'[v].msg = worker'[v].payload /\ worker'[v].payload \in minted'
          /\ worker'[v].pc = "done" /\ worker'[v].result = "ok" => worker'[v].item.gen \in delivered'
          /\ worker'[v].pc = "backoff" => worker'[v].attempt < MaxAttempts
          /\ worker'[v].pc = "discard" => phase'[worker'[v].item.gen] = "dead_letter"
      BY <1>1, <1>2, <2>1 DEF PInv, Sealing
    <2>3. ASSUME NEW c \in calls' PROVE c \in Gens \X Secrets /\ c[2] = sealed'[c[1]]
      <3>1. CASE c \in calls
        <4>1. c \in Gens \X Secrets /\ c[2] = sealed[c[1]]
          BY <3>1 DEF PInv, Sealing
        <4>2. c[2] # Opaque
          BY <4>1, InProcessAssumption DEF InProcessAssumption
        <4> QED BY <4>1, <4>2
      <3>2. CASE c \notin calls
        <4>1. c = <<g0, sealed'[g0]>> /\ sealed'[g0] # Opaque
          BY <2>3, <3>2
        <4>2. sealed'[g0] \in Secrets
          BY <1>1, <4>1
        <4> QED BY <1>1, <4>1, <4>2
      <3> QED BY <3>1, <3>2
    <2> QED BY <1>1, <1>2, <2>2, <2>3 DEF Sealing
  <1>4. Quiet'
    BY <1>1, <1>2 DEF PInv, Quiet
  <1> QED BY <1>1, <1>3, <1>4 DEF PInv
\* Finish, as one update.
LEMMA FinishIs ==
  ASSUME PInv, NEW w \in Workers, NEW result \in {"ok", "retry", "permanent"}, Finish(w, result)
  PROVE  \E u \in WorkerState :
            /\ worker' = [worker EXCEPT ![w] = u] /\ u.item = worker[w].item
            /\ u.payload = worker[w].payload /\ u.pc = "done" /\ u.result = result
  <1>1. worker[w] \in WorkerState /\ DOMAIN worker = Workers
    BY DEF PInv, Shape
  <1>2. PICK u : u = [worker[w] EXCEPT !.pc = "done", !.result = result, !.msg = Opaque]
    OBVIOUS
  <1>3. /\ u \in WorkerState /\ u.item = worker[w].item /\ u.payload = worker[w].payload
        /\ u.pc = "done" /\ u.result = result
    BY <1>1, <1>2 DEF WorkerState
  <1>4. worker' = [worker EXCEPT ![w] = u]
    BY <1>1, <1>2 DEF Finish
  <1> QED BY <1>3, <1>4

\* An attempt that ends with its result.
LEMMA FinishStep ==
  ASSUME PInv, NEW w \in Workers, NEW result \in {"ok", "retry", "permanent"}, Finish(w, result),
         worker[w].pc \in {"handle", "rendered", "ready", "calling"},
         UNCHANGED <<qvars, run, live, minted, calls, phase, sealed, late, kept, keyOf, stopped>>,
         delivered' = IF result = "ok" THEN delivered \cup {worker[w].item.gen} ELSE delivered
  PROVE  PInv'
  <1>1. PICK u \in WorkerState :
            /\ worker' = [worker EXCEPT ![w] = u] /\ u.item = worker[w].item
            /\ u.payload = worker[w].payload /\ u.pc = "done" /\ u.result = result
    BY FinishIs
  <1>2. worker[w].item.gen \in Gens /\ worker[w].payload = sealed[worker[w].item.gen]
    BY WorkerFields DEF PInv, Sealing
  <1>3. /\ live \subseteq minted /\ minted \subseteq Secrets /\ delivered \subseteq Gens
        /\ sealed \in [Gens -> minted \cup {Opaque}] /\ late \in [Gens -> Nat]
    BY DEF PInv, Shape
  <1>4. /\ late[worker[w].item.gen] <= 1
        /\ late[worker[w].item.gen] = 1 => ~ Held(worker[w].item.gen)
        /\ worker[w].item.gen \in stopped => late[worker[w].item.gen] = 0
    BY <1>2 DEF PInv, Quiet
  <1>5. UNCHANGED <<live, minted, calls, sealed, late>> /\ UNCHANGED <<qvars, run, phase, kept, keyOf, stopped>>
    OBVIOUS
  <1>6. delivered \subseteq delivered' /\ delivered' \subseteq Gens /\
        (result = "ok" => worker[w].item.gen \in delivered')
    BY <1>2, <1>3
  <1> QED BY <1>1, <1>2, <1>3, <1>4, <1>5, <1>6, EngineStep

\* A generation under way was neither stopped nor late.
LEMMA UnderWay ==
  ASSUME PInv, NEW w \in Workers, worker[w].pc \in {"handle", "rendered", "ready"}
  PROVE  late[worker[w].item.gen] = 0 /\ worker[w].item.gen \notin stopped
  <1>1. PICK g \in Gens : g = worker[w].item.gen
    BY WorkerFields
  <1>2. late[g] \in Nat /\ late[g] <= 1 /\ late[g] # 1 /\ g \notin stopped
    BY <1>1 DEF PInv, Shape, Quiet
  <1> QED BY <1>1, <1>2

\* A challenge is issued, or the attempt ends without one.
LEMMA InitializePInv ==
  ASSUME PInv, NEW w \in Workers, Initialize(w)
  PROVE  PInv'
  <1>1. worker[w].pc = "handle" /\ worker[w].payload = Opaque
    BY DEF Initialize
  <1>2. CASE Finish(w, "retry") /\ UNCHANGED <<minted, live, delivered>>
    BY <1>1, <1>2, FinishStep DEF Initialize
  <1>3. CASE /\ Finish(w, "ok") /\ delivered' = delivered \cup {worker[w].item.gen}
             /\ UNCHANGED <<minted, live>>
    BY <1>1, <1>3, FinishStep DEF Initialize
  <1>4. CASE /\ Secrets \ minted # {} /\ delivered' = delivered
             /\ LET s == CHOOSE s \in Secrets \ minted : TRUE
                IN /\ minted' = minted \cup {s} /\ live' = live \cup {s}
                   /\ worker' = [worker EXCEPT ![w].pc = "rendered", ![w].msg = s]
    <2>1. PICK s \in Secrets \ minted :
             /\ minted' = minted \cup {s} /\ live' = live \cup {s}
             /\ worker' = [worker EXCEPT ![w].pc = "rendered", ![w].msg = s]
      BY <1>4
    <2>2. worker[w] \in WorkerState /\ DOMAIN worker = Workers
      BY DEF PInv, Shape
    <2>3. PICK u : u = [worker[w] EXCEPT !.pc = "rendered", !.msg = s]
      OBVIOUS
    <2>4. /\ u \in WorkerState /\ u.item = worker[w].item /\ u.payload = worker[w].payload
          /\ u.pc = "rendered" /\ u.msg = s
      BY <2>1, <2>2, <2>3 DEF WorkerState
    <2>5. worker' = [worker EXCEPT ![w] = u]
      BY <2>1, <2>2, <2>3
    <2>6. worker[w].item.gen \in Gens /\ worker[w].payload = sealed[worker[w].item.gen]
      BY <1>1, WorkerFields DEF PInv, Sealing
    <2>7. /\ live \subseteq minted /\ minted \subseteq Secrets /\ delivered \subseteq Gens
          /\ sealed \in [Gens -> minted \cup {Opaque}] /\ late \in [Gens -> Nat]
      BY DEF PInv, Shape
    <2>8. late[worker[w].item.gen] = 0 /\ worker[w].item.gen \notin stopped
      BY <1>1, UnderWay
    <2>9. sealed \in [Gens -> minted' \cup {Opaque}]
      BY <2>1, <2>7
    <2>10. /\ UNCHANGED <<calls, sealed, late, delivered>>
           /\ UNCHANGED <<qvars, run, phase, kept, keyOf, stopped>>
      BY <1>4 DEF Initialize
    <2>11. /\ u.payload = sealed'[u.item.gen] /\ late'[u.item.gen] = 0 /\ 0 <= 1
           /\ u.item.gen \notin stopped /\ u.payload = Opaque
           /\ worker[w].pc \notin {"idle", "exited", "discard"}
      BY <1>1, <2>4, <2>6, <2>8, <2>10
    <2>12. /\ live' \subseteq minted' /\ minted \subseteq minted' /\ minted' \subseteq Secrets
           /\ live' \subseteq live \cup (Secrets \ minted) /\ s \in minted'
      BY <2>1, <2>7
    <2>13. /\ sealed' \in [Gens -> minted' \cup {Opaque}] /\ late' \in [Gens -> Nat]
           /\ u.msg \in minted' /\ calls' = calls /\ delivered' = delivered
           /\ \A g \in Gens \ {u.item.gen} : sealed'[g] = sealed[g] /\ late'[g] = late[g]
           /\ sealed[u.item.gen] = sealed'[u.item.gen]
      BY <2>4, <2>7, <2>9, <2>10, <2>12
    <2>14. /\ u.item = worker[w].item /\ worker[w].pc \notin {"idle", "exited", "discard"}
           /\ u.pc \notin {"idle", "exited", "discard"} /\ u.pc # "claim"
           /\ delivered \subseteq delivered' /\ delivered' \subseteq Gens
           /\ live' \subseteq minted' /\ minted \subseteq minted' /\ minted' \subseteq Secrets
           /\ live' \subseteq live \cup (Secrets \ minted)
           /\ \A c \in calls' : c \in calls \/ c = <<u.item.gen, sealed'[u.item.gen]>>
           /\ sealed[u.item.gen] # Opaque => sealed'[u.item.gen] = sealed[u.item.gen]
           /\ calls' # calls => sealed'[u.item.gen] # Opaque
           /\ u.payload = sealed'[u.item.gen]
           /\ u.pc = "rendered" => u.payload = Opaque /\ u.msg \in minted'
           /\ u.pc = "ready" => u.msg = u.payload /\ u.payload \in minted'
           /\ u.pc = "done" /\ u.result = "ok" => u.item.gen \in delivered'
           /\ u.pc = "backoff" => u.attempt < MaxAttempts
      BY <2>4, <2>7, <2>10, <2>11, <2>12, <2>13
    <2>15. /\ late'[u.item.gen] <= 1
           /\ late'[u.item.gen] = 1 =>
                ~ Held(u.item.gen) /\ u.pc \notin {"handle", "rendered", "ready"}
           /\ u.item.gen \in stopped =>
                late'[u.item.gen] = 0 /\ u.pc \notin {"handle", "rendered", "ready", "calling"}
      BY <2>11
    <2> QED BY <2>4, <2>5, <2>10, <2>12, <2>13, <2>14, <2>15, EngineStep
  <1> QED BY <1>2, <1>3, <1>4 DEF Initialize

\* The checkpoint stores the message, or refuses a superseded generation.
LEMMA CheckpointPInv ==
  ASSUME PInv, NEW w \in Workers, checkpoint(w)
  PROVE  PInv'
  <1>1. worker[w].pc = "rendered"
    BY DEF checkpoint
  <1>2. CASE ~ current(worker[w].item)
    BY <1>1, <1>2, FinishStep DEF checkpoint
  <1>3. CASE current(worker[w].item)
    <2>1. /\ worker' = [worker EXCEPT ![w].pc = "ready", ![w].payload = worker[w].msg]
          /\ sealed' = [sealed EXCEPT ![worker[w].item.gen] = worker[w].msg]
      BY <1>3 DEF checkpoint
    <2>2. worker[w] \in WorkerState /\ DOMAIN worker = Workers
      BY DEF PInv, Shape
    <2>3. PICK u : u = [worker[w] EXCEPT !.pc = "ready", !.payload = worker[w].msg]
      OBVIOUS
    <2>4. /\ u \in WorkerState /\ u.item = worker[w].item /\ u.payload = worker[w].msg
          /\ u.pc = "ready" /\ u.msg = worker[w].msg
      BY <2>2, <2>3 DEF WorkerState
    <2>5. worker' = [worker EXCEPT ![w] = u]
      BY <2>1, <2>2, <2>3
    <2>6. /\ worker[w].item.gen \in Gens /\ worker[w].msg \in minted
          /\ sealed[worker[w].item.gen] = Opaque
      BY <1>1, WorkerFields DEF PInv, Sealing
    <2>7. /\ live \subseteq minted /\ minted \subseteq Secrets /\ delivered \subseteq Gens
          /\ sealed \in [Gens -> minted \cup {Opaque}] /\ late \in [Gens -> Nat]
      BY DEF PInv, Shape
    <2>8. late[worker[w].item.gen] = 0 /\ worker[w].item.gen \notin stopped
      BY <1>1, UnderWay
    <2>9. /\ sealed' \in [Gens -> minted \cup {Opaque}]
          /\ sealed'[worker[w].item.gen] = worker[w].msg
          /\ \A g \in Gens \ {worker[w].item.gen} : sealed'[g] = sealed[g]
      BY <2>1, <2>6, <2>7
    <2>10. /\ UNCHANGED <<calls, live, minted, late, delivered>>
           /\ UNCHANGED <<qvars, run, phase, kept, keyOf, stopped>>
      BY <1>3 DEF checkpoint
    <2>11. /\ u.payload = sealed'[u.item.gen] /\ late'[u.item.gen] = 0 /\ 0 <= 1
           /\ u.item.gen \notin stopped /\ sealed[u.item.gen] = Opaque
           /\ worker[w].pc \notin {"idle", "exited", "discard"}
      BY <1>1, <2>4, <2>6, <2>8, <2>9, <2>10
    <2>12. /\ sealed' \in [Gens -> minted' \cup {Opaque}] /\ late' \in [Gens -> Nat]
           /\ u.msg = u.payload /\ u.payload \in minted' /\ calls' = calls
           /\ live' = live /\ minted' = minted /\ delivered' = delivered
           /\ \A g \in Gens \ {u.item.gen} : sealed'[g] = sealed[g] /\ late'[g] = late[g]
      BY <2>4, <2>6, <2>7, <2>9, <2>10
    <2>14. /\ u.item = worker[w].item /\ worker[w].pc \notin {"idle", "exited", "discard"}
           /\ u.pc \notin {"idle", "exited", "discard"} /\ u.pc # "claim"
           /\ delivered \subseteq delivered' /\ delivered' \subseteq Gens
           /\ live' \subseteq minted' /\ minted \subseteq minted' /\ minted' \subseteq Secrets
           /\ live' \subseteq live \cup (Secrets \ minted)
           /\ \A c \in calls' : c \in calls \/ c = <<u.item.gen, sealed'[u.item.gen]>>
           /\ sealed[u.item.gen] # Opaque => sealed'[u.item.gen] = sealed[u.item.gen]
           /\ calls' # calls => sealed'[u.item.gen] # Opaque
           /\ u.payload = sealed'[u.item.gen]
           /\ u.pc = "rendered" => u.payload = Opaque /\ u.msg \in minted'
           /\ u.pc = "ready" => u.msg = u.payload /\ u.payload \in minted'
           /\ u.pc = "done" /\ u.result = "ok" => u.item.gen \in delivered'
           /\ u.pc = "backoff" => u.attempt < MaxAttempts
      BY <2>4, <2>7, <2>10, <2>11, <2>12
    <2>15. /\ late'[u.item.gen] <= 1
           /\ late'[u.item.gen] = 1 =>
                ~ Held(u.item.gen) /\ u.pc \notin {"handle", "rendered", "ready"}
           /\ u.item.gen \in stopped =>
                late'[u.item.gen] = 0 /\ u.pc \notin {"handle", "rendered", "ready", "calling"}
      BY <2>11
    <2> QED BY <2>4, <2>5, <2>10, <2>12, <2>14, <2>15, EngineStep
  <1> QED BY <1>2, <1>3

\* The provider is called with what was checkpointed.
LEMMA CallIs ==
  ASSUME PInv, NEW w \in Workers, CallProvider(w)
  PROVE  /\ worker[w].item.gen \in Gens
         /\ sealed[worker[w].item.gen] # Opaque
         /\ calls' = calls \cup {<<worker[w].item.gen, sealed[worker[w].item.gen]>>}
  <1>1. /\ worker[w].pc \in {"ready", "handle"}
        /\ worker[w].pc = "handle" => worker[w].payload # Opaque
        /\ calls' = calls \cup {<<worker[w].item.gen, IF worker[w].pc = "ready" THEN worker[w].msg
                                                     ELSE worker[w].payload>>}
    BY DEF CallProvider
  <1>2. worker[w].item.gen \in Gens /\ worker[w].payload = sealed[worker[w].item.gen]
    BY <1>1, WorkerFields DEF PInv, Sealing
  <1>3. worker[w].pc = "ready" => worker[w].msg = worker[w].payload /\ worker[w].payload # Opaque
    BY InProcessAssumption DEF PInv, Sealing, Shape, InProcessAssumption
  <1> QED BY <1>1, <1>2, <1>3

\* The call is counted as late if its generation was superseded before it.
LEMMA CallPInv ==
  ASSUME PInv, NEW w \in Workers, CallProvider(w)
  PROVE  PInv'
  <1> DEFINE g == worker[w].item.gen
  <1>1. /\ worker[w].pc \in {"ready", "handle"}
        /\ late' = [late EXCEPT ![g] = IF current(worker[w].item) THEN late[g] ELSE late[g] + 1]
        /\ worker' = [worker EXCEPT ![w].pc = "calling"]
        /\ UNCHANGED <<qvars, run, phase, kept, keyOf, stopped>>
        /\ UNCHANGED <<live, minted, delivered, sealed>>
    BY DEF CallProvider, Step
  <1>2. worker[w] \in WorkerState /\ DOMAIN worker = Workers
    BY DEF PInv, Shape
  <1>3. PICK u : u = [worker[w] EXCEPT !.pc = "calling"]
    OBVIOUS
  <1>4. /\ u \in WorkerState /\ u.item = worker[w].item /\ u.payload = worker[w].payload
        /\ u.pc = "calling"
    BY <1>2, <1>3 DEF WorkerState
  <1>5. worker' = [worker EXCEPT ![w] = u]
    BY <1>1, <1>2, <1>3
  <1>6. /\ g \in Gens /\ worker[w].payload = sealed[g] /\ Known(worker[w].item)
        /\ sealed[g] # Opaque /\ calls' = calls \cup {<<g, sealed[g]>>}
    BY <1>1, WorkerFields, CallIs DEF PInv, Sealing
  <1>7. /\ live \subseteq minted /\ minted \subseteq Secrets /\ delivered \subseteq Gens
        /\ sealed \in [Gens -> minted \cup {Opaque}] /\ late \in [Gens -> Nat]
    BY DEF PInv, Shape
  <1>8. late[g] = 0 /\ g \notin stopped
    BY <1>1, UnderWay
  <1>9. current(worker[w].item) <=> Held(g)
    BY <1>6, CurrentIsHeld
  <1> HIDE DEF g
  <1>n. /\ DOMAIN late' = Gens /\ \A h \in Gens \ {g} : late'[h] = late[h]
        /\ late'[g] = IF current(worker[w].item) THEN late[g] ELSE late[g] + 1
    BY <1>1, <1>6, <1>7
  <1>m. late'[g] \in Nat /\ late'[g] <= 1 /\ (late'[g] = 1 => ~ Held(g))
    BY <1>8, <1>9, <1>n
  <1>l. \A h \in Gens : late'[h] \in Nat
    BY <1>7, <1>m, <1>n
  <1>f. late' = [h \in Gens |-> late'[h]]
    BY <1>1, <1>7
  <1>10. late' \in [Gens -> Nat]
    BY <1>l, <1>f
  <1>11. \A c \in calls' : c \in calls \/ c = <<g, sealed'[g]>>
    BY <1>1, <1>6
  <1>12. u.item.gen = g /\ u.payload = sealed'[g] /\ sealed'[g] # Opaque /\ sealed' = sealed
    BY <1>1, <1>4, <1>6 DEF g
  <1>13. /\ delivered' = delivered /\ live' = live /\ minted' = minted
         /\ UNCHANGED <<qvars, run, phase, kept, keyOf, stopped>>
    BY <1>1
  <1>14. worker[w].pc \notin {"idle", "exited", "discard"}
    BY <1>1
  <1> QED BY <1>4, <1>5, <1>7, <1>8, <1>10, <1>m, <1>n, <1>11, <1>12, <1>13, <1>14, EngineStep

\* The provider answers, or the handler fails for good.
LEMMA AnswerPInv ==
  ASSUME PInv, NEW w \in Workers, ProviderAnswers(w) \/ HandlerFails(w)
  PROVE  PInv'
  <1>1. CASE ProviderAnswers(w)
    <2>1. CASE Finish(w, "ok") /\ delivered' = delivered \cup {worker[w].item.gen}
      BY <1>1, <2>1, FinishStep DEF ProviderAnswers
    <2>2. CASE Finish(w, "retry") /\ UNCHANGED delivered
      BY <1>1, <2>2, FinishStep DEF ProviderAnswers
    <2> QED BY <1>1, <2>1, <2>2 DEF ProviderAnswers
  <1>2. CASE HandlerFails(w)
    BY <1>2, FinishStep DEF HandlerFails, history
  <1> QED BY <1>1, <1>2
-----------------------------------------------------------------------------
(* A worker that lets its item go, or records the end of its generation. *)

\* An item is let go when the host canceled, or when its generation has no
\* active record; the discard of a dead letter was tried before.
LEMMA DropStep ==
  ASSUME PInv, NEW w \in Workers, worker' = [worker EXCEPT ![w] = IdleWorker],
         worker[w].pc \notin {"idle", "exited"},
         UNCHANGED <<qvars, run, phase, keyOf, stopped, sealed, late, calls, minted, delivered>>,
         live' \subseteq live, kept \subseteq kept', kept' \subseteq Gens,
         canceled \/ ~ current(worker[w].item) \/ phase[worker[w].item.gen] = "dead_letter",
         phase[worker[w].item.gen] = "dead_letter" =>
             worker[w].item.gen \in kept' \/ sealed[worker[w].item.gen] \notin live'
  PROVE  PInv'
  <1> DEFINE g0 == worker[w].item.gen
  <1>0. /\ worker'[w] = IdleWorker /\ \A v \in Workers \ {w} : worker'[v] = worker[v]
        /\ DOMAIN worker' = Workers
    BY DEF PInv, Shape
  <1>1. /\ IdleWorker \in WorkerState /\ IdleWorker.pc = "idle" /\ IdleWorker.item = NoItem
        /\ IdleWorker.item.gen = 0
    BY InProcessAssumption DEF IdleWorker, WorkerState, NoItem, InProcessAssumption
  <1>2. Known(worker[w].item) /\ g0 \in Gens
    BY WorkerFields
  <1>3. 0 \notin Gens
    BY DEF Gens
  <1>4. /\ recs' = recs /\ seq' = seq /\ ch' = ch /\ closed' = closed /\ caller' = caller
        /\ run' = run /\ phase' = phase /\ keyOf' = keyOf /\ stopped' = stopped
        /\ sealed' = sealed /\ late' = late /\ calls' = calls /\ minted' = minted
        /\ delivered' = delivered
    BY DEF qvars
  <1>5. ItemsKnown' /\ OnePlace' /\ \A g : Queued(g)' <=> Queued(g)
    BY <1>0, <1>1, <1>4, PlacesKept
  <1>6. Shape'
    <2>1. worker' \in [Workers -> WorkerState]
      BY <1>1 DEF PInv, Shape
    <2> QED BY <1>4, <2>1 DEF PInv, Shape
  <1>7. \A g : Held(g)' <=> Held(g)
    BY <1>4 DEF Held
  <1>8. PhaseTrue'
    BY <1>4, <1>7 DEF PInv, PhaseTrue
  <1>9. Carried'
    <2> SUFFICES ASSUME NotCanceled, NEW k \in Keys
                 PROVE  /\ recs[k].active => \/ Queued(recs[k].gen)
                                             \/ \E v \in Workers : worker'[v].item.gen = recs[k].gen
                        /\ recs[k].state = "running" =>
                              \E v \in Workers : worker'[v].item.gen = recs[k].gen
      BY <1>4, <1>5 DEF Carried, NotCanceled, canceled
    <2>1. recs[k].active \/ recs[k].state = "running" => recs[k].gen # g0
      <3> SUFFICES ASSUME recs[k].active \/ recs[k].state = "running", recs[k].gen = g0 PROVE FALSE
        OBVIOUS
      <3>1. Held(g0) /\ current(worker[w].item)
        BY <1>2, CurrentIsHeld DEF Held
      <3>2. phase[g0] = "dead_letter"
        BY <3>1 DEF NotCanceled
      <3>3. recs[k].gen # 0
        BY <1>2, <1>3
      <3> QED BY <3>2, <3>3 DEF PInv, PhaseTrue
    <2>2. \A v \in Workers : worker[v].item.gen = recs[k].gen /\ recs[k].gen # g0 =>
             worker'[v].item.gen = recs[k].gen
      BY <1>0
    <2> QED BY <2>1, <2>2 DEF PInv, Carried
  <1>10. Ended'
    BY <1>0, <1>1, <1>3, <1>4, <1>5 DEF PInv, Ended
  <1>11. Sealing'
    <2>1. \A v \in Workers : worker'[v] = worker[v] \/ worker'[v].pc = "idle"
      BY <1>0, <1>1
    <2> QED BY <1>4, <1>5, <2>1 DEF PInv, Sealing
  <1>12. Quiet'
    BY <1>0, <1>1, <1>3, <1>4, <1>7 DEF PInv, Quiet
  <1>13. SentSecretsVoided'
    <2> SUFFICES ASSUME NEW c \in calls, phase[c[1]] = "dead_letter", c[1] \notin kept',
                        \A v \in Workers : worker'[v].item.gen # c[1]
                 PROVE  c[2] \notin live'
      BY <1>4 DEF SentSecretsVoided
    <2>1. CASE c[1] = g0
      BY <2>1 DEF PInv, Sealing
    <2>2. CASE c[1] # g0
      <3>1. \A v \in Workers : worker[v].item.gen # c[1]
        BY <1>0, <2>2
      <3> QED BY <3>1 DEF PInv, SentSecretsVoided
    <2> QED BY <2>1, <2>2
  <1> QED BY <1>5, <1>6, <1>8, <1>9, <1>10, <1>11, <1>12, <1>13 DEF PInv

\* A worker that is not discarding holds no dead letter.
LEMMA NotDeadYet ==
  ASSUME PInv, NEW w \in Workers, worker[w].pc \notin {"idle", "exited", "discard"}
  PROVE  phase[worker[w].item.gen] \notin {"completed", "dead_letter"}
  <1>1. worker[w].item.gen \in Gens
    BY WorkerFields
  <1> QED BY <1>1 DEF PInv, Ended

\* The challenge is voided, or the failure is known.
LEMMA DiscardPInv ==
  ASSUME PInv, NEW w \in Workers, Discard(w)
  PROVE  PInv'
  <1>1. /\ worker[w].pc = "discard" /\ worker' = [worker EXCEPT ![w] = IdleWorker]
        /\ UNCHANGED <<qvars, run, phase, keyOf, stopped, sealed, late, calls, minted, delivered>>
        /\ \/ live' = live \ {worker[w].payload} /\ kept' = kept
           \/ kept' = kept \cup {worker[w].item.gen} /\ live' = live
    BY DEF Discard, NextItem
  <1>2. /\ worker[w].payload = sealed[worker[w].item.gen] /\ phase[worker[w].item.gen] = "dead_letter"
        /\ worker[w].item.gen \in Gens
    BY <1>1, WorkerFields DEF PInv, Sealing
  <1>3. /\ live' \subseteq live /\ kept \subseteq kept' /\ kept' \subseteq Gens
        /\ worker[w].item.gen \in kept' \/ sealed[worker[w].item.gen] \notin live'
    BY <1>1, <1>2 DEF PInv, Shape
  <1> QED BY <1>1, <1>2, <1>3, DropStep

\* A drop without a discard.
LEMMA LetGo ==
  ASSUME PInv, NEW w \in Workers, NextItem(w),
         worker[w].pc \notin {"idle", "exited", "discard"},
         canceled \/ ~ current(worker[w].item), UNCHANGED <<qvars, run, history>>
  PROVE  PInv'
  <1>1. phase[worker[w].item.gen] # "dead_letter"
    BY NotDeadYet
  <1>2. /\ worker' = [worker EXCEPT ![w] = IdleWorker]
        /\ UNCHANGED <<qvars, run, phase, keyOf, stopped, sealed, late, calls, minted, delivered>>
        /\ live' = live /\ kept' = kept
    BY DEF NextItem, history
  <1>3. kept \subseteq Gens
    BY DEF PInv, Shape
  <1> QED BY <1>1, <1>2, <1>3, DropStep

\* A step that only moves the worker on.
LEMMA MoveOn ==
  ASSUME PInv, NEW w \in Workers, NEW u \in WorkerState, worker' = [worker EXCEPT ![w] = u],
         u.item = worker[w].item, u.payload = worker[w].payload,
         worker[w].pc \in {"done", "backoff"}, u.pc \in {"handle", "backoff"},
         u.pc = "backoff" => u.attempt < MaxAttempts,
         current(worker[w].item), UNCHANGED <<qvars, run, history>>
  PROVE  PInv'
  <1> DEFINE g == worker[w].item.gen
  <1>1. g \in Gens /\ Known(worker[w].item) /\ u.payload = sealed[g]
    BY WorkerFields DEF PInv, Sealing
  <1>2. Held(g)
    BY <1>1, CurrentIsHeld
  <1>3. late[g] \in Nat /\ late[g] <= 1 /\ late[g] # 1 /\ g \notin stopped
    BY <1>1, <1>2 DEF PInv, Quiet, Shape
  <1>4. /\ live \subseteq minted /\ minted \subseteq Secrets /\ delivered \subseteq Gens
        /\ sealed \in [Gens -> minted \cup {Opaque}] /\ late \in [Gens -> Nat]
    BY DEF PInv, Shape
  <1>5. /\ UNCHANGED <<qvars, run, phase, kept, keyOf, stopped>>
        /\ live' = live /\ minted' = minted /\ delivered' = delivered /\ sealed' = sealed
        /\ late' = late /\ calls' = calls
    BY DEF history
  <1>6. /\ worker[w].pc \notin {"idle", "exited", "discard"}
        /\ u.pc \notin {"idle", "exited", "discard"} /\ u.pc # "claim" /\ u.pc # "rendered"
        /\ u.pc # "ready" /\ u.pc # "done"
    OBVIOUS
  <1> QED BY <1>1, <1>3, <1>4, <1>5, <1>6, EngineStep

\* A retry goes on only with the current generation of its key.
LEMMA RetryPInv ==
  ASSUME PInv, NEW w \in Workers, Retry(w) \/ backoffWait(w)
  PROVE  PInv'
  <1>0. worker[w] \in WorkerState /\ DOMAIN worker = Workers /\ worker[w].attempt \in 0..MaxAttempts
        /\ UNCHANGED <<qvars, run, history>> /\ worker[w].pc \in {"done", "backoff"}
    BY DEF PInv, Shape, WorkerState, Retry, backoffWait
  <1>1. CASE NextItem(w) /\ (canceled \/ ~ current(worker[w].item))
    BY <1>0, <1>1, LetGo
  <1>2. CASE Retry(w) /\ current(worker[w].item)
    <2>1. /\ worker' = [worker EXCEPT ![w].pc = "backoff"] /\ ~ (worker[w].attempt >= MaxAttempts)
      BY <1>2 DEF Retry, Step, Spent
    <2>2. PICK u : u = [worker[w] EXCEPT !.pc = "backoff"]
      OBVIOUS
    <2>3. /\ u \in WorkerState /\ u.item = worker[w].item /\ u.payload = worker[w].payload
          /\ u.pc = "backoff" /\ u.attempt = worker[w].attempt
          /\ worker' = [worker EXCEPT ![w] = u]
      BY <1>0, <2>1, <2>2 DEF WorkerState
    <2>4. worker[w].attempt < MaxAttempts
      BY <1>0, <2>1, InProcessAssumption DEF InProcessAssumption
    <2> QED BY <1>0, <1>2, <2>3, <2>4, MoveOn
  <1>3. CASE /\ backoffWait(w) /\ current(worker[w].item)
             /\ worker' = [worker EXCEPT ![w].pc = "handle", ![w].attempt = @ + 1,
                                         ![w].result = "none"]
    <2>1. worker[w].attempt < MaxAttempts
      BY <1>3 DEF backoffWait, PInv, Sealing
    <2>2. PICK n : n = worker[w].attempt + 1
      OBVIOUS
    <2>3. n \in 0..MaxAttempts
      BY <1>0, <2>1, <2>2, InProcessAssumption DEF InProcessAssumption
    <2>4. PICK u : u = [worker[w] EXCEPT !.pc = "handle", !.attempt = n, !.result = "none"]
      OBVIOUS
    <2>5. /\ u \in WorkerState /\ u.item = worker[w].item /\ u.payload = worker[w].payload
          /\ u.pc = "handle"
      BY <1>0, <2>3, <2>4 DEF WorkerState
    <2>6. worker' = [worker EXCEPT ![w] = u]
      BY <1>0, <1>3, <2>2, <2>4
    <2> QED BY <1>0, <1>3, <2>5, <2>6, MoveOn
  <1> QED BY <1>1, <1>2, <1>3 DEF Retry, backoffWait
\* A worker starts the current generation of its key, or lets an old one go.
LEMMA ClaimPInv ==
  ASSUME PInv, NEW w \in Workers, claim(w)
  PROVE  PInv'
  <1> DEFINE k0 == worker[w].item.key
             g0 == worker[w].item.gen
  <1>0. /\ worker[w].pc = "claim" /\ UNCHANGED <<seq, ch, closed, caller, run, history>>
        /\ worker[w] \in WorkerState /\ DOMAIN worker = Workers
    BY DEF claim, PInv, Shape
  <1>1. CASE ~ current(worker[w].item) /\ NextItem(w) /\ UNCHANGED recs
    BY <1>0, <1>1, LetGo DEF qvars
  <1>2. CASE /\ current(worker[w].item) /\ recs' = [recs EXCEPT ![k0].state = "running"]
             /\ worker' = [worker EXCEPT ![w].pc = "handle", ![w].attempt = 1]
    <2>1. Known(worker[w].item) /\ g0 \in Gens /\ k0 \in Keys /\ recs[k0].gen = g0 /\ g0 # 0
      BY <1>0, <1>2, WorkerFields, CurrentIsHeld DEF current
    <2>2. recs[k0] \in Record /\ recs[k0].active
      BY <1>0, <2>1, RecFields, NotDeadYet DEF PInv, PhaseTrue
    <2>3. /\ recs' \in [Keys -> Record \cup {NoRec}]
          /\ \A k \in Keys : recs'[k].gen = recs[k].gen /\ recs'[k].active = recs[k].active
          /\ \A k \in Keys \ {k0} : recs'[k] = recs[k]
          /\ recs'[k0].state = "running"
      <3>1. PICK r : r = [recs[k0] EXCEPT !.state = "running"]
        OBVIOUS
      <3>2. r \in Record /\ r.gen = recs[k0].gen /\ r.active = recs[k0].active /\ r.state = "running"
        BY <2>2, <3>1 DEF Record
      <3>3. recs' = [recs EXCEPT ![k0] = r] /\ recs \in [Keys -> Record \cup {NoRec}]
        BY <1>2, <3>1 DEF PInv, Shape
      <3> QED BY <2>1, <3>2, <3>3
    <2>4. PICK u : u = [worker[w] EXCEPT !.pc = "handle", !.attempt = 1]
      OBVIOUS
    <2>5. 1 \in 0..MaxAttempts
      BY InProcessAssumption DEF InProcessAssumption
    <2>6. /\ u \in WorkerState /\ u.item = worker[w].item /\ u.payload = worker[w].payload
          /\ u.pc = "handle"
      BY <1>0, <2>4, <2>5 DEF WorkerState
    <2>7. worker' = [worker EXCEPT ![w] = u]
      BY <1>0, <1>2, <2>4
    <2>8. /\ worker'[w] = u /\ \A v \in Workers \ {w} : worker'[v] = worker[v]
          /\ DOMAIN worker' = Workers /\ worker' \in [Workers -> WorkerState]
          /\ \A v \in Workers : worker'[v].item = worker[v].item
      BY <1>0, <2>6, <2>7 DEF PInv, Shape
    <2>9. /\ seq' = seq /\ ch' = ch /\ closed' = closed /\ caller' = caller /\ run' = run
          /\ phase' = phase /\ keyOf' = keyOf /\ stopped' = stopped /\ kept' = kept
          /\ sealed' = sealed /\ late' = late /\ calls' = calls /\ minted' = minted
          /\ delivered' = delivered /\ live' = live
      BY <1>0 DEF history
    <2>10. ItemsKnown' /\ OnePlace' /\ \A g : Queued(g)' <=> Queued(g)
      BY <1>0, <2>6, <2>8, <2>9, PlacesKept
    <2>11. Shape'
      BY <2>3, <2>8, <2>9 DEF PInv, Shape
    <2>12. \A g : Held(g)' <=> Held(g)
      BY <2>3 DEF Held
    <2>13. PhaseTrue'
      <3>1. \A k \in Keys : recs'[k].gen # 0 =>
              /\ recs'[k].gen <= seq /\ keyOf[recs'[k].gen] = k
              /\ recs'[k].active <=> recs'[k].state \in {"pending", "running"}
              /\ phase[recs'[k].gen] = IF recs'[k].active THEN "active" ELSE recs'[k].state
        BY <2>2, <2>3 DEF PInv, PhaseTrue
      <3>2. \A g \in Gens :
              /\ phase[g] = "active" => Held(g)'
              /\ phase[g] = "unknown" <=> g > seq
              /\ g > seq => sealed[g] = Opaque /\ late[g] = 0 /\ g \notin stopped
        BY <2>12 DEF PInv, PhaseTrue
      <3> QED BY <2>9, <3>1, <3>2 DEF PhaseTrue
    <2>14. Carried'
      <3>1. NotCanceled' <=> NotCanceled
        BY <2>9 DEF NotCanceled, canceled
      <3> QED BY <2>1, <2>3, <2>8, <2>10, <3>1 DEF PInv, Carried
    <2>15. Ended'
      <3>1. phase[g0] \notin {"completed", "dead_letter"}
        BY <1>0, NotDeadYet
      <3>2. \A g \in Gens :
              /\ phase[g] \in {"completed", "dead_letter", "canceled"} => ~ Queued(g)'
              /\ phase[g] = "completed" => g \in delivered
              /\ phase[g] = "superseded" =>
                    \E h \in Gens : h > g /\ h <= seq /\ keyOf[h] = keyOf[g]
        BY <2>10 DEF PInv, Ended
      <3>3. \A g \in Gens : phase[g] \in {"completed", "dead_letter"} =>
               \A v \in Workers : worker'[v].item.gen = g =>
                    phase[g] = "dead_letter" /\ worker'[v].pc = "discard"
        BY <2>8, <3>1 DEF PInv, Ended
      <3> QED BY <2>9, <3>2, <3>3 DEF Ended
    <2>16. Sealing'
      <3>1. u.payload = sealed[g0]
        BY <1>0, <2>6 DEF PInv, Sealing
      <3> QED BY <2>6, <2>8, <2>9, <2>10, <3>1 DEF PInv, Sealing
    <2>17. Quiet'
      <3>1. Held(g0)
        BY <2>1 DEF Held
      <3>2. late[g0] # 1 /\ g0 \notin stopped
        BY <2>1, <3>1 DEF PInv, Quiet
      <3> QED BY <2>6, <2>8, <2>9, <2>12, <3>2 DEF PInv, Quiet
    <2>18. SentSecretsVoided'
      BY <2>8, <2>9 DEF PInv, SentSecretsVoided
    <2> QED BY <2>10, <2>11, <2>13, <2>14, <2>15, <2>16, <2>17, <2>18 DEF PInv
  <1> QED BY <1>1, <1>2 DEF claim

\* The end of the current generation, recorded.
LEMMA EndIs ==
  ASSUME PInv, NEW i, Known(i), current(i), phase[i.gen] = "active",
         NEW how \in {"completed", "dead_letter"},
         SetRecs([recs EXCEPT ![i.key].state = how, ![i.key].active = FALSE], how)
  PROVE  /\ i.gen \in Gens /\ i.key \in Keys
         /\ recs' \in [Keys -> Record \cup {NoRec}]
         /\ \A k \in Keys : recs'[k].gen = recs[k].gen
         /\ \A k \in Keys \ {i.key} : recs'[k] = recs[k]
         /\ recs'[i.key].gen = i.gen /\ recs'[i.key].state = how /\ recs'[i.key].active = FALSE
         /\ phase' = [phase EXCEPT ![i.gen] = how]
  <1>1. i.gen \in Gens /\ i.key \in Keys /\ recs[i.key].gen = i.gen /\ i.gen # 0
    BY CurrentIsHeld DEF current
  <1>2. recs[i.key] \in Record
    BY <1>1, RecFields
  <1>3. PICK r : r = [recs[i.key] EXCEPT !.state = how, !.active = FALSE]
    OBVIOUS
  <1>4. r \in Record /\ r.gen = i.gen /\ r.state = how /\ r.active = FALSE
    BY <1>1, <1>2, <1>3 DEF Record
  <1>5. PICK new : new = [recs EXCEPT ![i.key] = r]
    OBVIOUS
  <1>6. recs \in [Keys -> Record \cup {NoRec}]
    BY DEF PInv, Shape
  <1>7. SetRecs(new, how)
    BY <1>1, <1>3, <1>5, <1>6
  <1>8. /\ new \in [Keys -> Record \cup {NoRec}] /\ new[i.key] = r
        /\ \A k \in Keys \ {i.key} : new[k] = recs[k]
        /\ \A k \in Keys : new[k].gen = recs[k].gen
    BY <1>1, <1>4, <1>5, <1>6
  <1>9. \A j, k \in Keys : new[j].gen = new[k].gen /\ new[j].gen # 0 => j = k
    BY <1>8, RecsApart
  <1>10. /\ recs' = new /\ DOMAIN phase' = Gens
         /\ \A g \in Gens :
               /\ \A k \in Keys :
                     new[k].gen = g => phase'[g] = IF new[k].active THEN "active" ELSE new[k].state
               /\ (\A k \in Keys : new[k].gen # g) =>
                     phase'[g] = IF phase[g] = "active" THEN how ELSE phase[g]
    BY <1>7, <1>8, <1>9, SetRecsPhase
  <1>11. phase'[i.gen] = how
    BY <1>1, <1>4, <1>8, <1>10
  <1>12. ASSUME NEW g \in Gens, g # i.gen PROVE phase'[g] = phase[g]
    <2>1. CASE \E k \in Keys : recs[k].gen = g
      <3>1. PICK k \in Keys : recs[k].gen = g
        BY <2>1
      <3>2. k # i.key /\ new[k] = recs[k] /\ g # 0
        BY <1>1, <1>8, <1>12, <3>1 DEF Gens
      <3>3. phase[g] = IF recs[k].active THEN "active" ELSE recs[k].state
        BY <3>1, <3>2 DEF PInv, PhaseTrue
      <3> QED BY <1>10, <3>1, <3>2, <3>3
    <2>2. CASE \A k \in Keys : recs[k].gen # g
      <3>1. phase[g] # "active"
        BY <2>2 DEF PInv, PhaseTrue, Held
      <3> QED BY <1>8, <1>10, <2>2, <3>1
    <2> QED BY <2>1, <2>2
  <1>13. phase' = [phase EXCEPT ![i.gen] = how]
    <2>1. DOMAIN phase = Gens /\ phase' = [g \in Gens |-> phase'[g]]
      BY DEF PInv, Shape, SetRecs
    <2> QED BY <1>1, <1>11, <1>12, <2>1
  <1> QED BY <1>1, <1>4, <1>8, <1>10, <1>13

\* The worker that recorded the end has its item to discard, or nothing.
LEMMA EndStep ==
  ASSUME PInv, NEW w \in Workers, worker[w].pc = "done", current(worker[w].item),
         NEW how \in {"completed", "dead_letter"},
         SetRecs([recs EXCEPT ![worker[w].item.key].state = how,
                              ![worker[w].item.key].active = FALSE], how),
         NEW u \in WorkerState, worker' = [worker EXCEPT ![w] = u],
         how = "completed" => u = IdleWorker /\ worker[w].item.gen \in delivered,
         how = "dead_letter" =>
            u.pc = "discard" /\ u.item = worker[w].item /\ u.payload = worker[w].payload,
         UNCHANGED <<seq, ch, closed, caller, run, live, minted, calls, delivered, sealed,
                     late, kept, keyOf, stopped>>
  PROVE  PInv'
  <1> DEFINE g0 == worker[w].item.gen
             k0 == worker[w].item.key
  <1>1. Known(worker[w].item) /\ g0 \in Gens /\ g0 <= seq
    BY WorkerFields
  <1>2. Held(g0) /\ phase[g0] = "active"
    <2>1. k0 \in Keys /\ recs[k0].gen = g0 /\ g0 # 0 /\ Held(g0)
      BY <1>1, CurrentIsHeld DEF current
    <2> QED BY <2>1, RecFields, NotDeadYet DEF PInv, PhaseTrue
  <1>3. /\ k0 \in Keys /\ recs' \in [Keys -> Record \cup {NoRec}]
        /\ \A k \in Keys : recs'[k].gen = recs[k].gen
        /\ \A k \in Keys \ {k0} : recs'[k] = recs[k]
        /\ recs'[k0].gen = g0 /\ recs'[k0].state = how /\ recs'[k0].active = FALSE
        /\ phase' = [phase EXCEPT ![g0] = how]
    BY <1>1, <1>2, EndIs
  <1>4. phase'[g0] = how /\ \A g \in Gens \ {g0} : phase'[g] = phase[g]
    BY <1>1, <1>3 DEF PInv, Shape
  <1>5. /\ worker'[w] = u /\ DOMAIN worker' = Workers
        /\ \A v \in Workers \ {w} : worker'[v] = worker[v] /\ worker[v].item.gen # g0
        /\ worker' \in [Workers -> WorkerState]
    BY <1>1 DEF PInv, Shape, OnePlace
  <1>6. IdleWorker.pc = "idle" /\ IdleWorker.item = NoItem /\ IdleWorker.item.gen = 0 /\ 0 \notin Gens
    BY DEF IdleWorker, NoItem, Gens
  <1>7. ItemsKnown' /\ OnePlace' /\ \A g : Queued(g)' <=> Queued(g)
    BY <1>5, <1>6, PlacesKept
  <1>8. ~ Queued(g0)
    BY <1>1 DEF PInv, OnePlace, Queued
  <1>9. Shape'
    BY <1>1, <1>3, <1>5 DEF PInv, Shape
  <1>10. \A g : Held(g)' <=> Held(g)
    BY <1>3 DEF Held
  <1>11. PhaseTrue'
    <2>1. ASSUME NEW k \in Keys, recs'[k].gen # 0
          PROVE  /\ recs'[k].gen <= seq /\ keyOf[recs'[k].gen] = k
                 /\ recs'[k].active <=> recs'[k].state \in {"pending", "running"}
                 /\ phase'[recs'[k].gen] = IF recs'[k].active THEN "active" ELSE recs'[k].state
      <3>1. CASE k = k0
        BY <1>1, <1>3, <1>4, <3>1 DEF Known
      <3>2. CASE k # k0
        <4>1. recs'[k] = recs[k] /\ recs[k].gen # g0 /\ recs[k].gen \in Gens
          BY <1>1, <1>3, <2>1, <3>2, CurrentIsHeld, RecFields
        <4> QED BY <1>4, <2>1, <4>1 DEF PInv, PhaseTrue
      <3> QED BY <3>1, <3>2
    <2>2. \A g \in Gens :
            /\ phase'[g] = "active" => Held(g)'
            /\ phase'[g] = "unknown" <=> g > seq
            /\ g > seq => sealed[g] = Opaque /\ late[g] = 0 /\ g \notin stopped
      BY <1>2, <1>4, <1>10 DEF PInv, PhaseTrue
    <2> QED BY <2>1, <2>2 DEF PhaseTrue
  <1>12. Carried'
    <2>1. NotCanceled' <=> NotCanceled
      BY DEF NotCanceled, canceled
    <2>2. ASSUME NEW k \in Keys, recs'[k].active \/ recs'[k].state = "running"
          PROVE  recs'[k] = recs[k] /\ recs[k].gen # g0
      <3>1. k # k0
        BY <1>3, <2>2
      <3> QED BY <1>1, <1>3, <3>1, CurrentIsHeld
    <2>3. \A v \in Workers, k \in Keys :
             worker[v].item.gen = recs[k].gen /\ recs[k].gen # g0 => worker'[v].item.gen = recs[k].gen
      BY <1>5
    <2> QED BY <1>7, <2>1, <2>2, <2>3 DEF PInv, Carried
  <1>13. Ended'
    <2>1. \A g \in Gens \ {g0} :
            /\ phase'[g] \in {"completed", "dead_letter", "canceled"} => ~ Queued(g)'
            /\ phase'[g] \in {"completed", "dead_letter"} =>
                 \A v \in Workers : worker'[v].item.gen = g =>
                     phase'[g] = "dead_letter" /\ worker'[v].pc = "discard"
            /\ phase'[g] = "completed" => g \in delivered
            /\ phase'[g] = "superseded" => \E h \in Gens : h > g /\ h <= seq /\ keyOf[h] = keyOf[g]
      BY <1>4, <1>5, <1>6, <1>7 DEF PInv, Ended
    <2>2. ASSUME NEW g \in Gens, g = g0
          PROVE  /\ ~ Queued(g)' /\ phase'[g] # "superseded"
                 /\ phase'[g] = "completed" => g \in delivered
                 /\ \A v \in Workers : worker'[v].item.gen = g =>
                        phase'[g] = "dead_letter" /\ worker'[v].pc = "discard"
      <3>1. phase'[g] = how /\ ~ Queued(g)'
        BY <1>4, <1>7, <1>8, <2>2
      <3>2. \A v \in Workers : worker'[v].item.gen = g => v = w
        BY <1>5, <2>2
      <3>3. how = "completed" => worker'[w].item.gen = 0
        BY <1>5, <1>6
      <3> QED BY <1>5, <1>6, <2>2, <3>1, <3>2, <3>3
    <2> QED BY <2>1, <2>2 DEF Ended
  <1>14. Sealing'
    <2>1. \A v \in Workers \ {w} : worker[v].pc = "discard" => phase'[worker[v].item.gen] = "dead_letter"
      BY <1>4, <1>5, WorkerFields DEF PInv, Sealing
    <2>2. worker[w].payload = sealed[g0]
      BY DEF PInv, Sealing
    <2>3. u.pc = "idle" \/ (u.pc = "discard" /\ how = "dead_letter")
      BY <1>6
    <2>4. u.pc = "discard" => u.payload = sealed[u.item.gen] /\ phase'[u.item.gen] = "dead_letter"
      BY <1>4, <1>6, <2>2, <2>3
    <2>5. \A v \in Workers \ {w} :
          /\ worker'[v].pc \notin {"idle", "exited"} =>
                worker'[v].payload = sealed[worker'[v].item.gen]
          /\ worker'[v].pc = "claim" => worker'[v].payload = Opaque
          /\ worker'[v].pc = "rendered" => worker'[v].payload = Opaque /\ worker'[v].msg \in minted
          /\ worker'[v].pc = "ready" =>
                worker'[v].msg = worker'[v].payload /\ worker'[v].payload \in minted
          /\ worker'[v].pc = "done" /\ worker'[v].result = "ok" => worker'[v].item.gen \in delivered
          /\ worker'[v].pc = "backoff" => worker'[v].attempt < MaxAttempts
          /\ worker'[v].pc = "discard" => phase'[worker'[v].item.gen] = "dead_letter"
      BY <1>5, <2>1 DEF PInv, Sealing
    <2>6. (\A g \in Gens : Queued(g)' => sealed[g] = Opaque) /\
          (\A c \in calls : c \in Gens \X Secrets /\ c[2] = sealed[c[1]])
      BY <1>7 DEF PInv, Sealing
    <2> QED BY <1>5, <2>3, <2>4, <2>5, <2>6 DEF Sealing
  <1>15. Quiet'
    BY <1>2, <1>5, <1>6, <1>10 DEF PInv, Quiet
  <1>16. SentSecretsVoided'
    <2> SUFFICES ASSUME NEW c \in calls, phase'[c[1]] = "dead_letter", c[1] \notin kept,
                        \A v \in Workers : worker'[v].item.gen # c[1]
                 PROVE  c[2] \notin live
      BY DEF SentSecretsVoided
    <2>1. c[1] \in Gens
      BY DEF PInv, Sealing
    <2>2. c[1] # g0
      BY <1>4, <1>5
    <2>3. phase[c[1]] = "dead_letter" /\ \A v \in Workers : worker[v].item.gen # c[1]
      BY <1>4, <1>5, <2>1, <2>2
    <2> QED BY <2>3 DEF PInv, SentSecretsVoided
  <1> QED BY <1>7, <1>9, <1>11, <1>12, <1>13, <1>14, <1>15, <1>16 DEF PInv
\* settle records a completion, or nothing for a generation that was replaced.
LEMMA SettlePInv ==
  ASSUME PInv, NEW w \in Workers, settle(w)
  PROVE  PInv'
  <1> DEFINE i == worker[w].item
  <1>0. /\ worker[w].pc = "done" /\ worker' = [worker EXCEPT ![w] = IdleWorker]
        /\ SetRecs(IF current(i) THEN [recs EXCEPT ![i.key].state = "completed",
                                                    ![i.key].active = FALSE]
                   ELSE recs, "completed")
        /\ UNCHANGED <<seq, ch, closed, caller, run, live, minted, calls, delivered, sealed,
                       late, kept, keyOf, stopped>>
        /\ i.gen \in delivered
    BY DEF settle, NextItem, PInv, Sealing
  <1>1. CASE current(i)
    <2>1. IdleWorker \in WorkerState
      BY InProcessAssumption DEF IdleWorker, WorkerState, NoItem, InProcessAssumption
    <2>2. SetRecs([recs EXCEPT ![i.key].state = "completed", ![i.key].active = FALSE], "completed")
      BY <1>0, <1>1
    <2> QED BY <1>0, <1>1, <2>1, <2>2, EndStep
  <1>2. CASE ~ current(i)
    <2>1. SetRecs(recs, "completed")
      BY <1>0, <1>2
    <2>2. recs' = recs /\ phase' = phase
      BY <2>1, SetRecsSame
    <2> QED BY <1>0, <1>2, <2>2, LetGo DEF qvars, history, NextItem
  <1> QED BY <1>1, <1>2

\* deadLetter records the end and keeps the item for its discard.
LEMMA DeadLetterPInv ==
  ASSUME PInv, NEW w \in Workers, deadLetter(w)
  PROVE  PInv'
  <1> DEFINE i == worker[w].item
  <1>0. /\ worker[w].pc = "done"
        /\ UNCHANGED <<seq, ch, closed, caller, run, live, minted, calls, delivered, sealed,
                       late, kept, keyOf, stopped>>
        /\ worker[w] \in WorkerState /\ DOMAIN worker = Workers
    BY DEF deadLetter, PInv, Shape
  <1>1. CASE /\ current(i) /\ Step(w, "discard")
             /\ SetRecs([recs EXCEPT ![i.key].state = "dead_letter", ![i.key].active = FALSE],
                        "dead_letter")
    <2>1. PICK u : u = [worker[w] EXCEPT !.pc = "discard"]
      OBVIOUS
    <2>2. /\ u \in WorkerState /\ u.item = worker[w].item /\ u.payload = worker[w].payload
          /\ u.pc = "discard"
      BY <1>0, <2>1 DEF WorkerState
    <2>3. worker' = [worker EXCEPT ![w] = u]
      BY <1>0, <1>1, <2>1 DEF Step
    <2> QED BY <1>0, <1>1, <2>2, <2>3, EndStep
  <1>2. CASE ~ current(i) /\ NextItem(w) /\ UNCHANGED <<recs, phase>>
    BY <1>0, <1>2, LetGo DEF qvars, history
  <1> QED BY <1>1, <1>2 DEF deadLetter

-----------------------------------------------------------------------------
(* The host, and the receive loop. *)

\* Steps that move no item and touch no record.
LEMMA QuietFrame ==
  ASSUME PInv, UNCHANGED <<recs, seq, caller, history>>, ch' = ch,
         run' \in {"none", "running", "canceled", "draining"}, closed' \in BOOLEAN,
         run' = "draining" => closed', NotCanceled' => NotCanceled,
         worker' \in [Workers -> WorkerState],
         \A v \in Workers : \/ worker'[v] = worker[v]
                            \/ /\ worker[v].item = NoItem /\ worker'[v].item = NoItem
                               /\ worker'[v].pc \in {"idle", "exited"}
  PROVE  PInv'
  <1>1. /\ seq' = seq /\ recs' = recs /\ caller' = caller
        /\ phase' = phase /\ keyOf' = keyOf /\ stopped' = stopped /\ kept' = kept
        /\ sealed' = sealed /\ late' = late /\ calls' = calls /\ minted' = minted
        /\ delivered' = delivered /\ live' = live
    BY DEF history
  <1>2. DOMAIN worker' = Workers /\ \A v \in Workers : worker'[v].item = worker[v].item
    OBVIOUS
  <1>3. ItemsKnown' /\ OnePlace' /\ \A g : Queued(g)' <=> Queued(g)
    BY <1>1, <1>2, PlacesKept
  <1>4. Shape'
    BY <1>1 DEF PInv, Shape
  <1>5. \A g : Held(g)' <=> Held(g)
    BY <1>1 DEF Held
  <1>6. PhaseTrue'
    BY <1>1, <1>5 DEF PInv, PhaseTrue
  <1>7. Carried'
    BY <1>1, <1>2, <1>3 DEF PInv, Carried
  <1>8. \A g \in Gens, v \in Workers : worker'[v].item.gen = g =>
           worker'[v] = worker[v] /\ worker[v].item.gen = g
    BY DEF NoItem, Gens
  <1>9. Ended'
    BY <1>1, <1>3, <1>8 DEF PInv, Ended
  <1>10. Sealing'
    BY <1>1, <1>3 DEF PInv, Sealing
  <1>11. Quiet'
    BY <1>1, <1>5, <1>8 DEF PInv, Quiet
  <1>12. SentSecretsVoided'
    BY <1>1, <1>2 DEF PInv, SentSecretsVoided
  <1> QED BY <1>3, <1>4, <1>6, <1>7, <1>9, <1>10, <1>11, <1>12 DEF PInv

\* A worker without an item.
LEMMA IdleStates ==
  /\ IdleWorker \in WorkerState /\ IdleWorker.pc = "idle" /\ IdleWorker.item = NoItem
  /\ [IdleWorker EXCEPT !.pc = "exited"] \in WorkerState
  /\ [IdleWorker EXCEPT !.pc = "exited"].pc = "exited"
  /\ [IdleWorker EXCEPT !.pc = "exited"].item = NoItem
  BY InProcessAssumption DEF IdleWorker, WorkerState, NoItem, InProcessAssumption

\* Starting, canceling and draining move no item.
LEMMA HostPInv ==
  ASSUME PInv, Host
  PROVE  PInv'
  <1>0. /\ worker \in [Workers -> WorkerState] /\ closed \in BOOLEAN
        /\ run = "draining" => closed
    BY DEF PInv, Shape
  <1>1. CASE RunStart
    <2>1. /\ UNCHANGED <<recs, seq, caller, history>> /\ ch' = ch /\ closed' = closed
          /\ run' = "running" /\ run \in {"none", "draining"}
          /\ worker' = [v \in Workers |-> IdleWorker]
          /\ \A v \in Workers : worker[v].pc = "exited"
      BY <1>1 DEF RunStart, qvars
    <2>2. NotCanceled' => NotCanceled
      BY <1>0, <2>1 DEF NotCanceled, canceled
    <2>3. \A v \in Workers : worker[v].item = NoItem /\ worker'[v].item = NoItem
                             /\ worker'[v].pc \in {"idle", "exited"}
      BY <2>1, IdleStates, WorkerFields
    <2>4. worker' \in [Workers -> WorkerState]
      BY <2>1, IdleStates
    <2> QED BY <1>0, <2>1, <2>2, <2>3, <2>4, QuietFrame
  <1>2. CASE Cancel
    <2>1. UNCHANGED <<recs, seq, caller, history>> /\ UNCHANGED <<ch, closed, worker>>
          /\ run' = "canceled"
      BY <1>2 DEF Cancel, qvars
    <2>2. ~ NotCanceled'
      BY <2>1 DEF NotCanceled, canceled
    <2> QED BY <1>0, <2>1, <2>2, QuietFrame
  <1>3. CASE beginShutdown
    <2>1. UNCHANGED <<recs, seq, caller, history>> /\ UNCHANGED <<ch, worker>>
          /\ run' = "draining" /\ closed' = TRUE
      BY <1>3 DEF beginShutdown
    <2>2. ~ NotCanceled'
      BY <2>1 DEF NotCanceled, canceled
    <2> QED BY <1>0, <2>1, <2>2, QuietFrame
  <1> QED BY <1>1, <1>2, <1>3 DEF Host

\* A worker that leaves holds nothing.
LEMMA ExitPInv ==
  ASSUME PInv, NEW w \in Workers, Exit(w)
  PROVE  PInv'
  <1>0. /\ worker \in [Workers -> WorkerState] /\ closed \in BOOLEAN
        /\ run = "draining" => closed
        /\ run \in {"none", "running", "canceled", "draining"}
    BY DEF PInv, Shape
  <1>1. /\ UNCHANGED <<recs, seq, caller, history>> /\ ch' = ch /\ closed' = closed /\ run' = run
        /\ worker[w].pc = "idle" /\ worker' = [worker EXCEPT ![w].pc = "exited"]
    BY DEF Exit, Step, qvars
  <1>2. NotCanceled' <=> NotCanceled
    BY <1>1 DEF NotCanceled, canceled
  <1>3. PICK u : u = [worker[w] EXCEPT !.pc = "exited"]
    OBVIOUS
  <1>4. u \in WorkerState /\ u.item = worker[w].item /\ u.pc = "exited"
    BY <1>0, <1>3 DEF WorkerState
  <1>5. worker' = [worker EXCEPT ![w] = u] /\ worker[w].item = NoItem
    BY <1>0, <1>1, <1>3, WorkerFields
  <1>6. /\ worker' \in [Workers -> WorkerState]
        /\ \A v \in Workers : \/ worker'[v] = worker[v]
                              \/ /\ worker[v].item = NoItem /\ worker'[v].item = NoItem
                                 /\ worker'[v].pc \in {"idle", "exited"}
    BY <1>0, <1>4, <1>5
  <1> QED BY <1>0, <1>1, <1>2, <1>6, QuietFrame
\* The first item of the channel, and the others behind it.
LEMMA TailItems ==
  ASSUME PInv, ch # <<>>
  PROVE  /\ Tail(ch) \in Seq(Item) /\ Len(Tail(ch)) <= Capacity
         /\ 1 \in DOMAIN ch /\ Head(ch) = ch[1]
         /\ \A i \in DOMAIN Tail(ch) : i + 1 \in DOMAIN ch /\ i + 1 # 1 /\ Tail(ch)[i] = ch[i + 1]
         /\ \A i \in DOMAIN ch : i # 1 => i - 1 \in DOMAIN Tail(ch) /\ Tail(ch)[i - 1] = ch[i]
  <1>1. ch \in Seq(Item) /\ Len(ch) <= Capacity /\ Capacity \in Nat
    BY InProcessAssumption DEF PInv, Shape, InProcessAssumption
  <1> QED BY <1>1

\* A worker receives the first item; after the cancellation it is dropped.
LEMMA ReceivePInv ==
  ASSUME PInv, NEW w \in Workers, Receive(w)
  PROVE  PInv'
  <1>0. /\ worker[w].pc = "idle" /\ ch # <<>> /\ ch' = Tail(ch)
        /\ worker' = [worker EXCEPT ![w] =
                         IF canceled THEN [IdleWorker EXCEPT !.pc = "exited"]
                         ELSE [IdleWorker EXCEPT !.pc = "claim", !.item = Head(ch)]]
        /\ UNCHANGED <<recs, seq, closed, caller, run, history>>
    BY DEF Receive
  <1>1. /\ Tail(ch) \in Seq(Item) /\ Len(Tail(ch)) <= Capacity
        /\ 1 \in DOMAIN ch /\ Head(ch) = ch[1]
        /\ \A i \in DOMAIN Tail(ch) : i + 1 \in DOMAIN ch /\ i + 1 # 1 /\ Tail(ch)[i] = ch[i + 1]
        /\ \A i \in DOMAIN ch : i # 1 => i - 1 \in DOMAIN Tail(ch) /\ Tail(ch)[i - 1] = ch[i]
    BY <1>0, TailItems
  <1>2. PICK h : h = Head(ch)
    OBVIOUS
  <1>3. h = ch[1] /\ Known(h) /\ h \in Item /\ h.gen \in Gens /\ h.gen <= seq
    BY <1>1, <1>2 DEF PInv, ItemsKnown, Known, Item
  <1>4. PICK u : u = IF canceled THEN [IdleWorker EXCEPT !.pc = "exited"]
                     ELSE [IdleWorker EXCEPT !.pc = "claim", !.item = h]
    OBVIOUS
  <1>5. /\ u \in WorkerState
        /\ \/ canceled /\ u.pc = "exited" /\ u.item = NoItem /\ u.item.gen = 0
           \/ ~ canceled /\ u.pc = "claim" /\ u.item = h /\ u.payload = Opaque
    <2>1. CASE canceled
      BY <1>4, <2>1, IdleStates DEF NoItem
    <2>2. CASE ~ canceled
      <3>1. u = [IdleWorker EXCEPT !.pc = "claim", !.item = h]
        BY <1>4, <2>2
      <3>2. IdleWorker \in WorkerState /\ IdleWorker.payload = Opaque
        BY IdleStates DEF IdleWorker
      <3>3. u \in WorkerState /\ u.pc = "claim" /\ u.item = h /\ u.payload = Opaque
        BY <1>3, <3>1, <3>2 DEF WorkerState
      <3> QED BY <2>2, <3>3
    <2> QED BY <2>1, <2>2
  <1>6. /\ worker'[w] = u /\ DOMAIN worker' = Workers /\ worker' \in [Workers -> WorkerState]
        /\ \A v \in Workers \ {w} : worker'[v] = worker[v]
    BY <1>0, <1>2, <1>4, <1>5 DEF PInv, Shape
  <1>7. /\ seq' = seq /\ recs' = recs /\ caller' = caller /\ run' = run /\ closed' = closed
        /\ phase' = phase /\ keyOf' = keyOf /\ stopped' = stopped /\ kept' = kept
        /\ sealed' = sealed /\ late' = late /\ calls' = calls /\ minted' = minted
        /\ delivered' = delivered /\ live' = live
    BY <1>0 DEF history
  <1>8. worker[w].item.gen = 0 /\ 0 \notin Gens
    BY <1>0, WorkerFields DEF Gens
  <1>9. \A c, g : Sending(c, g)' <=> Sending(c, g)
    BY <1>7 DEF Sending
  <1>10. /\ \A g : Queued(g)' => Queued(g)
         /\ \A g : Queued(g) => Queued(g)' \/ g = h.gen
    <2>1. \A i \in DOMAIN ch' : \E j \in DOMAIN ch : ch'[i] = ch[j]
      BY <1>0, <1>1
    <2>2. \A j \in DOMAIN ch : ch[j] = h \/ \E i \in DOMAIN ch' : ch'[i] = ch[j]
      BY <1>0, <1>1, <1>3
    <2>3. ASSUME NEW g, Queued(g)' PROVE Queued(g)
      BY <1>9, <2>1, <2>3 DEF Queued
    <2>4. ASSUME NEW g, Queued(g) PROVE Queued(g)' \/ g = h.gen
      BY <1>9, <2>2, <2>4 DEF Queued
    <2> QED BY <2>3, <2>4
  <1>11. Queued(h.gen) /\ \A v \in Workers : worker[v].item.gen # h.gen
    BY <1>1, <1>3 DEF Queued, PInv, OnePlace
  <1>12. \A g \in Gens \ {h.gen}, v \in Workers :
            worker'[v].item.gen = g => worker'[v] = worker[v]
    BY <1>5, <1>6, <1>8
  <1>13. \A v \in Workers : worker'[v].item.gen = h.gen => v = w /\ u.pc = "claim"
    BY <1>3, <1>5, <1>6, <1>8, <1>11
  <1>14. ~ Queued(h.gen)'
    <2>1. \A c \in Callers : ~ Sending(c, h.gen)
      BY <1>1, <1>3 DEF PInv, OnePlace
    <2>2. \A i \in DOMAIN ch' : ch'[i].gen # h.gen
      BY <1>0, <1>1, <1>3 DEF PInv, OnePlace
    <2> QED BY <1>9, <2>1, <2>2 DEF Queued
  <1>15. ItemsKnown'
    <2>1. \A i : Known(i)' <=> Known(i)
      BY <1>7 DEF Known
    <2>2. \A i \in DOMAIN ch' : Known(ch'[i])
      BY <1>0, <1>1 DEF PInv, ItemsKnown
    <2>3. \A v \in Workers : IF worker'[v].pc \in {"idle", "exited"} THEN worker'[v].item = NoItem
                             ELSE Known(worker'[v].item)
      BY <1>3, <1>5, <1>6 DEF PInv, ItemsKnown
    <2> QED BY <1>7, <2>1, <2>2, <2>3 DEF PInv, ItemsKnown
  <1>16. OnePlace'
    <2> SUFFICES ASSUME NEW g \in Gens
                 PROVE
        /\ \A c, d \in Callers : Sending(c, g) /\ Sending(d, g) => c = d
        /\ \A i, j \in DOMAIN ch' : ch'[i].gen = g /\ ch'[j].gen = g => i = j
        /\ \A v, x \in Workers : worker'[v].item.gen = g /\ worker'[x].item.gen = g => v = x
        /\ \A c \in Callers, i \in DOMAIN ch' : ~ (Sending(c, g) /\ ch'[i].gen = g)
        /\ \A c \in Callers, v \in Workers : ~ (Sending(c, g) /\ worker'[v].item.gen = g)
        /\ \A i \in DOMAIN ch', v \in Workers : ~ (ch'[i].gen = g /\ worker'[v].item.gen = g)
      BY <1>9 DEF OnePlace
    <2>1. \A c, d \in Callers : Sending(c, g) /\ Sending(d, g) => c = d
      BY DEF PInv, OnePlace
    <2>2. \A i, j \in DOMAIN ch' : ch'[i].gen = g /\ ch'[j].gen = g => i = j
      <3> SUFFICES ASSUME NEW i \in DOMAIN ch', NEW j \in DOMAIN ch', ch'[i].gen = g, ch'[j].gen = g
                   PROVE  i = j
        OBVIOUS
      <3>1. i + 1 = j + 1
        BY <1>0, <1>1 DEF PInv, OnePlace
      <3>2. i \in Nat /\ j \in Nat
        BY <1>0, <1>1
      <3> QED BY <3>1, <3>2
    <2>3. \A c \in Callers, i \in DOMAIN ch' : ~ (Sending(c, g) /\ ch'[i].gen = g)
      BY <1>0, <1>1 DEF PInv, OnePlace
    <2>4. CASE g = h.gen
      <3>1. \A v \in Workers : worker'[v].item.gen = g => v = w
        BY <1>13, <2>4
      <3>2. \A i \in DOMAIN ch' : ch'[i].gen # g
        BY <1>14, <2>4 DEF Queued
      <3>3. \A c \in Callers : ~ Sending(c, g)
        BY <1>9, <1>14, <2>4 DEF Queued
      <3> QED BY <2>1, <2>2, <2>3, <3>1, <3>2, <3>3
    <2>5. CASE g # h.gen
      <3>1. \A v \in Workers : worker'[v].item.gen = g => worker[v].item.gen = g
        BY <1>12, <2>5
      <3>2. \A i \in DOMAIN ch' : ch'[i].gen = g => \E j \in DOMAIN ch : ch[j].gen = g
        BY <1>0, <1>1
      <3> QED BY <2>1, <2>2, <2>3, <3>1, <3>2 DEF PInv, OnePlace
    <2> QED BY <2>4, <2>5
  <1>17. Shape'
    BY <1>0, <1>1, <1>6, <1>7 DEF PInv, Shape
  <1>18. \A g : Held(g)' <=> Held(g)
    BY <1>7 DEF Held
  <1>19. PhaseTrue'
    BY <1>7, <1>18 DEF PInv, PhaseTrue
  <1>20. Carried'
    <2> SUFFICES ASSUME NotCanceled
                 PROVE  \A k \in Keys :
                          /\ recs[k].active => \/ Queued(recs[k].gen)'
                                               \/ \E v \in Workers : worker'[v].item.gen = recs[k].gen
                          /\ recs[k].state = "running" =>
                                \E v \in Workers : worker'[v].item.gen = recs[k].gen
      BY <1>7 DEF Carried, NotCanceled, canceled
    <2>1. worker'[w].item.gen = h.gen
      BY <1>5, <1>6 DEF NotCanceled
    <2>2. \A v \in Workers : worker[v].item.gen # 0 => worker'[v].item.gen = worker[v].item.gen
      BY <1>6, <1>8
    <2>3. \A k \in Keys : recs[k].active \/ recs[k].state = "running" => recs[k].gen # 0
      BY RecFields
    <2> SUFFICES ASSUME NEW k \in Keys
                 PROVE  /\ recs[k].active => \/ Queued(recs[k].gen)'
                                             \/ \E v \in Workers : worker'[v].item.gen = recs[k].gen
                        /\ recs[k].state = "running" =>
                                \E v \in Workers : worker'[v].item.gen = recs[k].gen
      OBVIOUS
    <2>4. PICK g : g = recs[k].gen
      OBVIOUS
    <2>5. recs'[k].gen = g
      BY <1>7, <2>4
    <2>6. Queued(g) => Queued(g)' \/ \E v \in Workers : worker'[v].item.gen = g
      BY <1>10, <2>1
    <2>7. /\ recs[k].active => \/ Queued(g)'
                               \/ \E v \in Workers : worker'[v].item.gen = g
          /\ recs[k].state = "running" => \E v \in Workers : worker'[v].item.gen = g
      <3>1. /\ recs[k].active => Queued(g) \/ \E v \in Workers : worker[v].item.gen = g
            /\ recs[k].state = "running" => \E v \in Workers : worker[v].item.gen = g
        BY <2>4 DEF PInv, Carried
      <3>2. recs[k].active \/ recs[k].state = "running" => g # 0
        BY <2>3, <2>4
      <3> QED BY <2>2, <2>6, <3>1, <3>2
    <2> QED BY <2>4, <2>5, <2>7
  <1>21. Ended'
    <2>1. phase[h.gen] \notin {"completed", "dead_letter", "canceled"}
      BY <1>3, <1>11 DEF PInv, Ended
    <2>2. \A g \in Gens : phase[g] \in {"completed", "dead_letter"} =>
             \A v \in Workers : worker'[v].item.gen = g =>
                  phase[g] = "dead_letter" /\ worker'[v].pc = "discard"
      BY <1>12, <2>1 DEF PInv, Ended
    <2> QED BY <1>7, <1>10, <2>2 DEF PInv, Ended
  <1>22. Sealing'
    <2>1. sealed[h.gen] = Opaque
      BY <1>3, <1>11 DEF PInv, Sealing
    <2>2. \A g \in Gens : Queued(g)' => sealed[g] = Opaque
      BY <1>10 DEF PInv, Sealing
    <2>3. /\ u.pc \in {"exited", "claim"}
          /\ u.pc = "claim" => u.payload = Opaque /\ u.payload = sealed[u.item.gen]
      BY <1>5, <2>1
    <2> QED BY <1>6, <1>7, <2>2, <2>3 DEF PInv, Sealing
  <1>23. Quiet'
    <2>1. \A g \in Gens, v \in Workers : worker'[v].item.gen = g =>
             worker'[v] = worker[v] \/ worker'[v].pc = "claim"
      BY <1>6, <1>12, <1>13
    <2> QED BY <1>7, <1>18, <2>1 DEF PInv, Quiet
  <1>24. SentSecretsVoided'
    <2> SUFFICES ASSUME NEW c \in calls, phase[c[1]] = "dead_letter", c[1] \notin kept,
                        \A v \in Workers : worker'[v].item.gen # c[1]
                 PROVE  c[2] \notin live
      BY <1>7 DEF SentSecretsVoided
    <2>1. c[1] \in Gens
      BY DEF PInv, Sealing
    <2>2. \A v \in Workers : worker[v].item.gen # c[1]
      BY <1>6, <1>8, <2>1
    <2> QED BY <2>2 DEF PInv, SentSecretsVoided
  <1> QED BY <1>15, <1>16, <1>17, <1>19, <1>20, <1>21, <1>22, <1>23, <1>24 DEF PInv
-----------------------------------------------------------------------------
(* Admission. *)

\* A caller that neither reserves nor sends; one that stops sending has lost its
\* reservation.
LEMMA CallerFrame ==
  ASSUME PInv, NEW c \in Callers, NEW x \in CallerState, caller' = [caller EXCEPT ![c] = x],
         x.pc # "send", x.pc # "idle" => Known(x.item),
         caller[c].pc = "send" => ~ Held(caller[c].item.gen),
         recs' \in [Keys -> Record \cup {NoRec}],
         \A k \in Keys : /\ recs'[k].gen = recs[k].gen /\ recs'[k].active = recs[k].active
                         /\ recs'[k].state = recs[k].state,
         UNCHANGED <<seq, ch, closed, run, worker, history>>
  PROVE  PInv'
  <1>1. /\ seq' = seq /\ ch' = ch /\ closed' = closed /\ run' = run /\ worker' = worker
        /\ phase' = phase /\ keyOf' = keyOf /\ stopped' = stopped /\ kept' = kept
        /\ sealed' = sealed /\ late' = late /\ calls' = calls /\ minted' = minted
        /\ delivered' = delivered /\ live' = live
    BY DEF history
  <1>2. /\ caller'[c] = x /\ \A d \in Callers \ {c} : caller'[d] = caller[d]
        /\ caller' \in [Callers -> CallerState]
    BY DEF PInv, Shape
  <1>3. \A d \in Callers : \A g : Sending(d, g)' => Sending(d, g)
    BY <1>2 DEF Sending
  <1>4. \A d \in Callers : \A g : Sending(d, g) /\ Held(g) => Sending(d, g)'
    BY <1>2 DEF Sending
  <1>5. /\ \A g : Queued(g)' => Queued(g)
        /\ \A g : Queued(g) /\ Held(g) => Queued(g)'
    BY <1>1, <1>3, <1>4 DEF Queued
  <1>6. ItemsKnown'
    <2>1. \A i : Known(i)' <=> Known(i)
      BY <1>1 DEF Known
    <2> QED BY <1>1, <1>2, <2>1 DEF PInv, ItemsKnown
  <1>7. OnePlace'
    BY <1>1, <1>3 DEF PInv, OnePlace
  <1>8. Shape'
    BY <1>1, <1>2 DEF PInv, Shape
  <1>9. \A g : Held(g)' <=> Held(g)
    BY DEF Held
  <1>10. PhaseTrue'
    BY <1>1, <1>9 DEF PInv, PhaseTrue
  <1>11. Carried'
    <2> SUFFICES ASSUME NotCanceled, NEW k \in Keys, NEW g, g = recs[k].gen
                 PROVE  /\ recs[k].active => \/ Queued(g)'
                                             \/ \E v \in Workers : worker[v].item.gen = g
                        /\ recs[k].state = "running" => \E v \in Workers : worker[v].item.gen = g
      BY <1>1 DEF Carried, NotCanceled, canceled
    <2>1. Held(g)
      BY DEF Held
    <2> QED BY <1>5, <2>1 DEF PInv, Carried
  <1>12. Ended'
    BY <1>1, <1>5 DEF PInv, Ended
  <1>13. Sealing'
    BY <1>1, <1>5 DEF PInv, Sealing
  <1>14. Quiet'
    BY <1>1, <1>9 DEF PInv, Quiet
  <1>15. SentSecretsVoided'
    BY <1>1 DEF PInv, SentSecretsVoided
  <1> QED BY <1>6, <1>7, <1>8, <1>10, <1>11, <1>12, <1>13, <1>14, <1>15 DEF PInv

\* A caller between two calls.
LEMMA NoCallIs ==
  NoCall \in CallerState /\ NoCall.pc = "idle" /\ NoCall = [pc |-> "idle", item |-> NoItem]
  BY DEF NoCall, CallerState, NoItem

\* Coalescing, waiting, and giving up.
LEMMA WaitingPInv ==
  ASSUME PInv, NEW c \in Callers,
         \/ \E k \in Keys : Coalesce(c, k) \/ Await(c, k)
         \/ Resolved(c) \/ GiveUp(c)
  PROVE  PInv'
  <1>0. recs \in [Keys -> Record \cup {NoRec}]
    BY DEF PInv, Shape
  <1>1. ASSUME NEW k \in Keys, Coalesce(c, k) PROVE PInv'
    <2>1. /\ caller' = [caller EXCEPT ![c] = NoCall] /\ caller[c].pc # "send" /\ recs' = recs
          /\ UNCHANGED <<seq, ch, closed, run, worker, history>>
      BY <1>1, NoCallIs DEF Coalesce, Turn, Call, history
    <2> QED BY <1>0, <2>1, NoCallIs, CallerFrame
  <1>2. CASE GiveUp(c)
    <2>1. /\ caller' = [caller EXCEPT ![c] = NoCall] /\ caller[c].pc # "send" /\ recs' = recs
          /\ UNCHANGED <<seq, ch, closed, run, worker, history>>
      BY <1>2, NoCallIs DEF GiveUp, Call
    <2> QED BY <1>0, <2>1, NoCallIs, CallerFrame
  <1>3. ASSUME NEW k \in Keys, Await(c, k) PROVE PInv'
    <2>1. PICK i : i = [key |-> k, gen |-> recs[k].gen]
      OBVIOUS
    <2>2. PICK x : x = [pc |-> "wait", item |-> i]
      OBVIOUS
    <2>3. /\ caller' = [caller EXCEPT ![c] = x] /\ caller[c].pc # "send" /\ recs' = recs
          /\ UNCHANGED <<seq, ch, closed, run, worker, history>> /\ recs[k].active
      BY <1>3, <2>1, <2>2 DEF Await, Turn, Call
    <2>4. recs[k].gen \in Gens /\ recs[k].gen # 0
      BY <2>3, RecFields
    <2>5. Known(i)
      BY <2>1, <2>4 DEF Known, Item, PInv, PhaseTrue
    <2>6. x \in CallerState /\ x.pc = "wait" /\ x.item = i
      BY <2>2, <2>5 DEF CallerState, Known
    <2> QED BY <1>0, <2>3, <2>5, <2>6, CallerFrame
  <1>4. CASE Resolved(c)
    <2>1. PICK x : x = [pc |-> "retry", item |-> caller[c].item]
      OBVIOUS
    <2>2. /\ caller' = [caller EXCEPT ![c] = x] /\ caller[c].pc = "wait" /\ recs' = recs
          /\ UNCHANGED <<seq, ch, closed, run, worker, history>>
      BY <1>4, <2>1 DEF Resolved, Call
    <2>3. Known(caller[c].item)
      BY <2>2 DEF PInv, ItemsKnown
    <2>4. x \in CallerState /\ x.pc = "retry" /\ x.item = caller[c].item
      BY <2>1, <2>3 DEF CallerState, Known
    <2> QED BY <1>0, <2>2, <2>3, <2>4, CallerFrame
  <1> QED BY <1>1, <1>2, <1>3, <1>4

\* The commit only lets later Submits coalesce.
LEMMA CommitPInv ==
  ASSUME PInv, NEW c \in Callers, Commit(c)
  PROVE  PInv'
  <1>1. PICK i : i = caller[c].item
    OBVIOUS
  <1>2. /\ caller[c].pc = "commit"
        /\ recs' = IF current(i) THEN [recs EXCEPT ![i.key].admitting = FALSE] ELSE recs
        /\ caller' = [caller EXCEPT ![c] = NoCall]
        /\ UNCHANGED <<seq, ch, closed, run, worker, history>>
    BY <1>1, NoCallIs DEF Commit, Call, history
  <1>3. Known(i) /\ recs \in [Keys -> Record \cup {NoRec}]
    BY <1>1, <1>2 DEF PInv, ItemsKnown, Shape
  <1>4. /\ recs' \in [Keys -> Record \cup {NoRec}]
        /\ \A k \in Keys : /\ recs'[k].gen = recs[k].gen /\ recs'[k].active = recs[k].active
                           /\ recs'[k].state = recs[k].state
    <2>1. CASE current(i)
      <3>1. i.key \in Keys /\ recs[i.key] \in Record
        BY <1>3, <2>1, CurrentIsHeld, RecFields DEF current
      <3>2. PICK r : r = [recs[i.key] EXCEPT !.admitting = FALSE]
        OBVIOUS
      <3>3. /\ r \in Record /\ r.gen = recs[i.key].gen /\ r.active = recs[i.key].active
            /\ r.state = recs[i.key].state
        BY <3>1, <3>2 DEF Record
      <3>4. recs' = [recs EXCEPT ![i.key] = r]
        BY <1>2, <1>3, <2>1, <3>1, <3>2
      <3> QED BY <1>3, <3>1, <3>3, <3>4
    <2>2. CASE ~ current(i)
      BY <1>2, <1>3, <2>2
    <2> QED BY <2>1, <2>2
  <1> QED BY <1>2, <1>4, NoCallIs, CallerFrame

\* A record goes: that of a generation that ended, or a rolled back reservation.
LEMMA ForgetStep ==
  ASSUME PInv, NEW K \in Keys, NEW g0, g0 = recs[K].gen, g0 # 0,
         recs' = [recs EXCEPT ![K] = NoRec],
         phase' = IF recs[K].active THEN [phase EXCEPT ![g0] = "canceled"] ELSE phase,
         caller' \in [Callers -> CallerState],
         \A d \in Callers :
            \/ caller'[d] = caller[d]
            \/ caller'[d].pc = "idle" /\ (caller[d].pc = "send" => caller[d].item.gen = g0),
         recs[K].active => ~ Queued(g0)',
         UNCHANGED <<seq, ch, closed, run, worker, live, minted, calls, delivered, sealed,
                     late, kept, keyOf, stopped>>
  PROVE  PInv'
  <1>1. g0 \in Gens /\ g0 <= seq /\ keyOf[g0] = K
    BY RecFields DEF PInv, PhaseTrue
  <1>2. /\ recs' \in [Keys -> Record \cup {NoRec}] /\ recs'[K] = NoRec
        /\ \A k \in Keys \ {K} : recs'[k] = recs[k]
    BY DEF PInv, Shape
  <1>3. NoRec.gen = 0 /\ ~ NoRec.active /\ NoRec.state = "none" /\ 0 \notin Gens
    BY DEF NoRec, Gens
  <1>4. phase[g0] = IF recs[K].active THEN "active" ELSE recs[K].state
    BY DEF PInv, PhaseTrue
  <1>5. /\ \A g \in Gens \ {g0} : phase'[g] = phase[g]
        /\ phase'[g0] = IF recs[K].active THEN "canceled" ELSE recs[K].state
        /\ phase' \in [Gens -> {"unknown", "active", "completed", "dead_letter", "superseded",
                                "canceled"}]
    <2>1. phase \in [Gens -> {"unknown", "active", "completed", "dead_letter", "superseded",
                                "canceled"}]
      BY DEF PInv, Shape
    <2> QED BY <1>1, <1>4, <2>1
  <1>6. \A d \in Callers : \A g : Sending(d, g)' => Sending(d, g)
    BY DEF Sending
  <1>7. \A d \in Callers : \A g : Sending(d, g) /\ g # g0 => Sending(d, g)'
    BY DEF Sending
  <1>8. /\ \A g : Queued(g)' => Queued(g)
        /\ \A g : Queued(g) /\ g # g0 => Queued(g)'
    BY <1>6, <1>7 DEF Queued
  <1>9. ItemsKnown'
    <2>1. \A i : Known(i)' <=> Known(i)
      BY DEF Known
    <2> QED BY <2>1 DEF PInv, ItemsKnown
  <1>10. OnePlace'
    BY <1>6 DEF PInv, OnePlace
  <1>11. Shape'
    BY <1>2, <1>5 DEF PInv, Shape
  <1>12. /\ \A g \in Gens : Held(g)' => Held(g) /\ g # g0
         /\ \A g \in Gens : Held(g) /\ g # g0 => Held(g)'
    <2>1. \A k \in Keys : recs[k].gen = g0 => k = K
      BY RecsApart
    <2> QED BY <1>2, <1>3, <2>1 DEF Held
  <1>13. PhaseTrue'
    <2>1. ASSUME NEW k \in Keys, recs'[k].gen # 0
          PROVE  /\ recs'[k].gen <= seq /\ keyOf[recs'[k].gen] = k
                 /\ recs'[k].active <=> recs'[k].state \in {"pending", "running"}
                 /\ phase'[recs'[k].gen] = IF recs'[k].active THEN "active" ELSE recs'[k].state
      <3>1. k # K /\ recs'[k] = recs[k]
        BY <1>2, <1>3, <2>1
      <3>2. recs[k].gen \in Gens \ {g0}
        BY <2>1, <3>1, RecFields, RecsApart
      <3> QED BY <1>5, <2>1, <3>1, <3>2 DEF PInv, PhaseTrue
    <2>2. phase'[g0] \notin {"active", "unknown"}
      BY <1>5, RecFields DEF PInv, PhaseTrue
    <2>3. ASSUME NEW g \in Gens
          PROVE  /\ phase'[g] = "active" => Held(g)'
                 /\ phase'[g] = "unknown" <=> g > seq
                 /\ g > seq => sealed[g] = Opaque /\ late[g] = 0 /\ g \notin stopped
      <3>1. CASE g = g0
        <4>1. ~ (g > seq)
          BY <1>1, <3>1 DEF PInv, Shape, Gens
        <4> QED BY <2>2, <3>1, <4>1
      <3>2. CASE g # g0
        BY <1>5, <1>12, <3>2 DEF PInv, PhaseTrue
      <3> QED BY <3>1, <3>2
    <2> QED BY <2>1, <2>3 DEF PhaseTrue
  <1>14. Carried'
    <2> SUFFICES ASSUME NotCanceled, NEW k \in Keys, NEW g, g = recs'[k].gen
                 PROVE  /\ recs'[k].active => \/ Queued(g)'
                                             \/ \E v \in Workers : worker[v].item.gen = g
                        /\ recs'[k].state = "running" => \E v \in Workers : worker[v].item.gen = g
      BY DEF Carried, NotCanceled, canceled
    <2>1. CASE k = K
      BY <1>2, <1>3, <2>1
    <2>2. CASE k # K
      <3>1. recs'[k] = recs[k] /\ g # g0
        BY <1>2, <2>2, RecsApart
      <3> QED BY <1>8, <3>1 DEF PInv, Carried
    <2> QED BY <2>1, <2>2
  <1>15. Ended'
    <2> SUFFICES ASSUME NEW g \in Gens
                 PROVE
          /\ phase'[g] \in {"completed", "dead_letter", "canceled"} => ~ Queued(g)'
          /\ phase'[g] \in {"completed", "dead_letter"} =>
                \A w \in Workers : worker[w].item.gen = g =>
                    phase'[g] = "dead_letter" /\ worker[w].pc = "discard"
          /\ phase'[g] = "completed" => g \in delivered
          /\ phase'[g] = "superseded" => \E h \in Gens : h > g /\ h <= seq /\ keyOf[h] = keyOf[g]
      BY DEF Ended
    <2>1. CASE phase'[g] = phase[g]
      BY <1>8, <2>1 DEF PInv, Ended
    <2>2. CASE phase'[g] # phase[g]
      <3>1. g = g0 /\ recs[K].active /\ phase'[g] = "canceled"
        BY <1>4, <1>5, <2>2
      <3> QED BY <3>1
    <2> QED BY <2>1, <2>2
  <1>16. Sealing'
    <2>1. \A v \in Workers : worker[v].pc = "discard" => phase'[worker[v].item.gen] = "dead_letter"
      BY <1>1, <1>4, <1>5, WorkerFields DEF PInv, Sealing
    <2> QED BY <1>8, <2>1 DEF PInv, Sealing
  <1>17. Quiet'
    BY <1>12 DEF PInv, Quiet
  <1>18. SentSecretsVoided'
    <2> SUFFICES ASSUME NEW c \in calls, phase'[c[1]] = "dead_letter", c[1] \notin kept,
                        \A v \in Workers : worker[v].item.gen # c[1]
                 PROVE  c[2] \notin live
      BY DEF SentSecretsVoided
    <2>1. c[1] \in Gens
      BY DEF PInv, Sealing
    <2>2. phase[c[1]] = "dead_letter"
      BY <1>4, <1>5, <2>1
    <2> QED BY <2>2 DEF PInv, SentSecretsVoided
  <1> QED BY <1>9, <1>10, <1>11, <1>13, <1>14, <1>15, <1>16, <1>17, <1>18 DEF PInv
\* Dropping one record ends its generation only if that was active.
LEMMA ForgetIs ==
  ASSUME PInv, NEW K \in Keys, NEW how, recs[K].gen # 0,
         SetRecs([recs EXCEPT ![K] = NoRec], how)
  PROVE  /\ recs' = [recs EXCEPT ![K] = NoRec] /\ recs[K].gen \in Gens
         /\ phase' = IF recs[K].active THEN [phase EXCEPT ![recs[K].gen] = how] ELSE phase
  <1>1. PICK g0 : g0 = recs[K].gen
    OBVIOUS
  <1>2. g0 \in Gens /\ phase[g0] = IF recs[K].active THEN "active" ELSE recs[K].state
    BY <1>1, RecFields DEF PInv, PhaseTrue
  <1>3. PICK new : new = [recs EXCEPT ![K] = NoRec]
    OBVIOUS
  <1>4. /\ new \in [Keys -> Record \cup {NoRec}] /\ new[K] = NoRec /\ NoRec.gen = 0
        /\ \A k \in Keys \ {K} : new[k] = recs[k]
    BY <1>3 DEF PInv, Shape, NoRec
  <1>5. \A j, k \in Keys : new[j].gen = new[k].gen /\ new[j].gen # 0 => j = k
    BY <1>4, RecsApart
  <1>6. SetRecs(new, how)
    BY <1>3
  <1>7. /\ recs' = new /\ DOMAIN phase' = Gens
        /\ \A g \in Gens :
               /\ \A k \in Keys :
                     new[k].gen = g => phase'[g] = IF new[k].active THEN "active" ELSE new[k].state
               /\ (\A k \in Keys : new[k].gen # g) =>
                     phase'[g] = IF phase[g] = "active" THEN how ELSE phase[g]
    BY <1>4, <1>5, <1>6, SetRecsPhase
  <1>8. 0 \notin Gens
    BY DEF Gens
  <1>9. \A k \in Keys : new[k].gen # g0
    BY <1>1, <1>2, <1>4, <1>8, RecsApart
  <1>10. phase'[g0] = IF recs[K].active THEN how ELSE phase[g0]
    <2>1. phase'[g0] = IF phase[g0] = "active" THEN how ELSE phase[g0]
      BY <1>2, <1>7, <1>9
    <2>2. ~ recs[K].active => recs[K].state # "active"
      BY RecFields
    <2> QED BY <1>2, <2>1, <2>2
  <1>11. ASSUME NEW g \in Gens, g # g0 PROVE phase'[g] = phase[g]
    <2>1. CASE \E k \in Keys : recs[k].gen = g
      <3>1. PICK k \in Keys : recs[k].gen = g
        BY <2>1
      <3>2. k # K /\ new[k] = recs[k] /\ g # 0
        BY <1>1, <1>4, <1>8, <1>11, <3>1
      <3>3. phase[g] = IF recs[k].active THEN "active" ELSE recs[k].state
        BY <3>1, <3>2 DEF PInv, PhaseTrue
      <3> QED BY <1>7, <3>1, <3>2, <3>3
    <2>2. CASE \A k \in Keys : recs[k].gen # g
      <3>1. phase[g] # "active"
        BY <2>2 DEF PInv, PhaseTrue, Held
      <3>2. \A k \in Keys : new[k].gen # g
        BY <1>4, <1>8, <2>2
      <3> QED BY <1>7, <3>1, <3>2
    <2> QED BY <2>1, <2>2
  <1>12. phase = [g \in Gens |-> phase[g]] /\ phase' = [g \in Gens |-> phase'[g]]
    BY DEF PInv, Shape, SetRecs
  <1>13. CASE recs[K].active
    BY <1>1, <1>2, <1>3, <1>7, <1>10, <1>11, <1>12, <1>13
  <1>14. CASE ~ recs[K].active
    <2>1. \A g \in Gens : phase'[g] = phase[g]
      BY <1>10, <1>11, <1>14
    <2> QED BY <1>1, <1>2, <1>3, <1>7, <1>12, <1>14, <2>1
  <1> QED BY <1>13, <1>14

\* A failed send takes back its own reservation, if nothing has replaced it.
LEMMA RollbackPInv ==
  ASSUME PInv, NEW c \in Callers, Rollback(c)
  PROVE  PInv'
  <1>1. PICK i : i = caller[c].item
    OBVIOUS
  <1>2. /\ caller[c].pc = "send" /\ caller' = [caller EXCEPT ![c] = NoCall]
        /\ SetRecs(IF current(i) THEN [recs EXCEPT ![i.key] = NoRec] ELSE recs, "canceled")
        /\ UNCHANGED <<seq, ch, closed, run, worker, live, minted, calls, delivered,
                       sealed, late, kept, keyOf, stopped>>
    BY <1>1, NoCallIs DEF Rollback, Call
  <1>3. Known(i)
    BY <1>1, <1>2 DEF PInv, ItemsKnown
  <1>4. i.key \in Keys /\ i.gen \in Gens /\ i.gen # 0 /\ (current(i) <=> Held(i.gen))
    BY <1>3, CurrentIsHeld
  <1>5. /\ caller' \in [Callers -> CallerState] /\ caller'[c] = NoCall
        /\ \A d \in Callers \ {c} : caller'[d] = caller[d]
    BY <1>2, NoCallIs DEF PInv, Shape
  <1>6. CASE current(i)
    <2>1. recs[i.key].gen = i.gen
      BY <1>6 DEF current
    <2>2. Sending(c, i.gen)
      BY <1>1, <1>2 DEF Sending
    <2>3. recs[i.key].active
      <3>1. phase[i.gen] \notin {"completed", "dead_letter"}
        BY <1>4, <2>2 DEF PInv, Ended, Queued
      <3> QED BY <1>4, <2>1, <3>1, RecFields DEF PInv, PhaseTrue
    <2>4. SetRecs([recs EXCEPT ![i.key] = NoRec], "canceled")
      BY <1>2, <1>6
    <2>5. /\ recs' = [recs EXCEPT ![i.key] = NoRec]
          /\ phase' = IF recs[i.key].active THEN [phase EXCEPT ![i.gen] = "canceled"] ELSE phase
      BY <1>4, <2>1, <2>4, ForgetIs
    <2>6. ~ Queued(i.gen)'
      <3>1. \A d \in Callers : ~ Sending(d, i.gen)'
        BY <1>4, <1>5, <2>2, NoCallIs DEF PInv, OnePlace, Sending
      <3>2. \A j \in DOMAIN ch : ch[j].gen # i.gen
        BY <1>4, <2>2 DEF PInv, OnePlace
      <3> QED BY <1>2, <3>1, <3>2 DEF Queued
    <2>7. \A d \in Callers :
            \/ caller'[d] = caller[d]
            \/ caller'[d].pc = "idle" /\ (caller[d].pc = "send" => caller[d].item.gen = i.gen)
      BY <1>1, <1>5, NoCallIs
    <2> QED BY <1>2, <1>4, <1>5, <2>1, <2>5, <2>6, <2>7, ForgetStep, ZenonT(60)
  <1>7. CASE ~ current(i)
    <2>1. SetRecs(recs, "canceled")
      BY <1>2, <1>7
    <2>2. recs' = recs /\ phase' = phase
      BY <2>1, SetRecsSame
    <2>3. recs \in [Keys -> Record \cup {NoRec}] /\ ~ Held(caller[c].item.gen)
      BY <1>1, <1>4, <1>7 DEF PInv, Shape
    <2>4. UNCHANGED <<seq, ch, closed, run, worker, history>>
      BY <1>2, <2>2 DEF history
    <2> QED BY <1>2, <2>2, <2>3, <2>4, NoCallIs, CallerFrame
  <1> QED BY <1>6, <1>7

\* LatestStatus drops only the record of a generation that has ended.
LEMMA ExpirePInv ==
  ASSUME PInv, NEW k \in Keys, Expire(k)
  PROVE  PInv'
  <1>1. /\ recs[k].gen # 0 /\ ~ recs[k].active
        /\ SetRecs([recs EXCEPT ![k] = NoRec], "superseded")
        /\ UNCHANGED <<seq, ch, closed, run, worker, live, minted, calls, delivered,
                       sealed, late, kept, keyOf, stopped>> /\ caller' = caller
    BY DEF Expire
  <1>2. recs' = [recs EXCEPT ![k] = NoRec] /\ phase' = phase
    BY <1>1, ForgetIs
  <1>3. caller \in [Callers -> CallerState]
    BY DEF PInv, Shape
  <1>4. PICK g0 : g0 = recs[k].gen
    OBVIOUS
  <1> QED BY <1>1, <1>2, <1>3, <1>4, ForgetStep

\* The channel with one item more.
LEMMA AppendItems ==
  ASSUME PInv, NEW i \in Item, Len(ch) < Capacity
  PROVE  /\ Append(ch, i) \in Seq(Item) /\ Len(Append(ch, i)) <= Capacity
         /\ Len(ch) + 1 \in DOMAIN Append(ch, i) /\ Append(ch, i)[Len(ch) + 1] = i
         /\ \A j \in DOMAIN Append(ch, i) :
               (j \in DOMAIN ch /\ Append(ch, i)[j] = ch[j]) \/ j = Len(ch) + 1
         /\ \A j \in DOMAIN ch : j \in DOMAIN Append(ch, i) /\ Append(ch, i)[j] = ch[j]
  <1>1. ch \in Seq(Item) /\ Capacity \in Nat
    BY InProcessAssumption DEF PInv, Shape, InProcessAssumption
  <1> QED BY <1>1

\* The item moves from its caller to the end of the channel.
LEMMA SendPInv ==
  ASSUME PInv, NEW c \in Callers, Send(c)
  PROVE  PInv'
  <1>1. PICK i : i = caller[c].item
    OBVIOUS
  <1>2. PICK x : x = [pc |-> "commit", item |-> i]
    OBVIOUS
  <1>3. /\ caller[c].pc = "send" /\ Len(ch) < Capacity /\ ch' = Append(ch, i)
        /\ caller' = [caller EXCEPT ![c] = x]
        /\ recs' = recs /\ seq' = seq /\ closed' = closed /\ run' = run /\ worker' = worker
        /\ phase' = phase /\ keyOf' = keyOf /\ stopped' = stopped /\ kept' = kept
        /\ sealed' = sealed /\ late' = late /\ calls' = calls /\ minted' = minted
        /\ delivered' = delivered /\ live' = live
    BY <1>1, <1>2 DEF Send, Call, history
  <1>4. Known(i) /\ i \in Item /\ i.gen \in Gens
    BY <1>1, <1>3 DEF PInv, ItemsKnown, Known, Item
  <1>5. /\ x \in CallerState /\ x.pc = "commit" /\ x.item = i
    BY <1>2, <1>4 DEF CallerState
  <1>6. /\ caller'[c] = x /\ \A d \in Callers \ {c} : caller'[d] = caller[d]
        /\ caller' \in [Callers -> CallerState]
    BY <1>3, <1>5 DEF PInv, Shape
  <1>7. /\ ch' \in Seq(Item) /\ Len(ch') <= Capacity
        /\ Len(ch) + 1 \in DOMAIN ch' /\ ch'[Len(ch) + 1] = i
        /\ \A j \in DOMAIN ch' : (j \in DOMAIN ch /\ ch'[j] = ch[j]) \/ j = Len(ch) + 1
        /\ \A j \in DOMAIN ch : j \in DOMAIN ch' /\ ch'[j] = ch[j]
    BY <1>3, <1>4, AppendItems
  <1>8. Sending(c, i.gen)
    BY <1>1, <1>3 DEF Sending
  <1>9. /\ \A d \in Callers : \A g : Sending(d, g)' => Sending(d, g)
        /\ \A d \in Callers : ~ Sending(d, i.gen)'
        /\ \A d \in Callers : \A g : Sending(d, g) /\ g # i.gen => Sending(d, g)'
    <2>1. /\ \A d \in Callers : \A g : Sending(d, g)' => Sending(d, g) /\ d # c
          /\ \A d \in Callers \ {c} : \A g : Sending(d, g) => Sending(d, g)'
          /\ \A g : Sending(c, g) => g = i.gen
      BY <1>1, <1>5, <1>6 DEF Sending
    <2>2. \A d \in Callers : Sending(d, i.gen) => d = c
      BY <1>4, <1>8 DEF PInv, OnePlace
    <2> QED BY <2>1, <2>2
  <1>10. \A g : Queued(g)' <=> Queued(g)
    <2>1. ASSUME NEW g, Queued(g)' PROVE Queued(g)
      <3>1. CASE \E d \in Callers : Sending(d, g)'
        BY <1>9, <3>1 DEF Queued
      <3>2. CASE \E j \in DOMAIN ch' : ch'[j].gen = g
        BY <1>7, <1>8, <3>2 DEF Queued
      <3> QED BY <2>1, <3>1, <3>2 DEF Queued
    <2>2. ASSUME NEW g, Queued(g) PROVE Queued(g)'
      <3>1. CASE g = i.gen
        BY <1>7, <3>1 DEF Queued
      <3>2. CASE g # i.gen
        BY <1>7, <1>9, <2>2, <3>2 DEF Queued
      <3> QED BY <3>1, <3>2
    <2> QED BY <2>1, <2>2
  <1>11. ItemsKnown'
    <2>1. \A y : Known(y)' <=> Known(y)
      BY <1>3 DEF Known
    <2> QED BY <1>3, <1>4, <1>5, <1>6, <1>7, <2>1 DEF PInv, ItemsKnown
  <1>12. OnePlace'
    <2> SUFFICES ASSUME NEW g \in Gens
                 PROVE
        /\ \A d, e \in Callers : Sending(d, g)' /\ Sending(e, g)' => d = e
        /\ \A j, l \in DOMAIN ch' : ch'[j].gen = g /\ ch'[l].gen = g => j = l
        /\ \A v, w \in Workers : worker[v].item.gen = g /\ worker[w].item.gen = g => v = w
        /\ \A d \in Callers, j \in DOMAIN ch' : ~ (Sending(d, g)' /\ ch'[j].gen = g)
        /\ \A d \in Callers, w \in Workers : ~ (Sending(d, g)' /\ worker[w].item.gen = g)
        /\ \A j \in DOMAIN ch', w \in Workers : ~ (ch'[j].gen = g /\ worker[w].item.gen = g)
      BY <1>3 DEF OnePlace
    <2>1. CASE g = i.gen
      <3>1. /\ \A j \in DOMAIN ch : ch[j].gen # g
            /\ \A w \in Workers : worker[w].item.gen # g
        BY <1>8, <2>1 DEF PInv, OnePlace
      <3>2. \A j \in DOMAIN ch' : ch'[j].gen = g => j = Len(ch) + 1
        BY <1>7, <3>1
      <3> QED BY <1>9, <2>1, <3>1, <3>2
    <2>2. CASE g # i.gen
      <3>1. \A j \in DOMAIN ch' : ch'[j].gen = g => j \in DOMAIN ch /\ ch[j].gen = g
        BY <1>7, <2>2
      <3> QED BY <1>9, <3>1 DEF PInv, OnePlace
    <2> QED BY <2>1, <2>2
  <1>13. Shape'
    BY <1>3, <1>6, <1>7 DEF PInv, Shape
  <1>14. \A g : Held(g)' <=> Held(g)
    BY <1>3 DEF Held
  <1>15. PhaseTrue'
    BY <1>3, <1>14 DEF PInv, PhaseTrue
  <1>16. Carried'
    BY <1>3, <1>10 DEF PInv, Carried, NotCanceled, canceled
  <1>17. Ended'
    BY <1>3, <1>10 DEF PInv, Ended
  <1>18. Sealing'
    BY <1>3, <1>10 DEF PInv, Sealing
  <1>19. Quiet'
    BY <1>3, <1>14 DEF PInv, Quiet
  <1>20. SentSecretsVoided'
    BY <1>3 DEF PInv, SentSecretsVoided
  <1> QED BY <1>11, <1>12, <1>13, <1>15, <1>16, <1>17, <1>18, <1>19, <1>20 DEF PInv
\* Retention takes no active record.
LEMMA EvictedKeepsActive ==
  ASSUME NEW m \in [Keys -> Record \cup {NoRec}],
         NEW swept \in SUBSET {j \in Keys : m[j].gen # 0 /\ ~ m[j].active}
  PROVE  /\ Evicted(m, swept) \in [Keys -> Record \cup {NoRec}]
         /\ \A k \in Keys : \/ Evicted(m, swept)[k] = m[k]
                            \/ Evicted(m, swept)[k] = NoRec /\ ~ m[k].active
  <1> DEFINE rest == [k \in Keys |-> IF k \in swept THEN NoRec ELSE m[k]]
             held == {k \in Keys : rest[k].gen # 0}
             terminal == {k \in held : ~ rest[k].active}
             excess == IF Cardinality(held) > MaxEntries THEN Cardinality(held) - MaxEntries ELSE 0
             older(k) == Cardinality({j \in terminal : rest[j].gen < rest[k].gen})
             out == [k \in Keys |-> IF k \in terminal /\ older(k) < excess THEN NoRec ELSE rest[k]]
  <1>1. Evicted(m, swept) = out
    BY DEF Evicted
  <1>2. \A k \in Keys : rest[k] = m[k] \/ (rest[k] = NoRec /\ ~ m[k].active)
    OBVIOUS
  <1>3. rest \in [Keys -> Record \cup {NoRec}]
    OBVIOUS
  <1>4. \A k \in terminal : rest[k].gen # 0 /\ ~ rest[k].active /\ k \in Keys
    OBVIOUS
  <1>5. NoRec.gen = 0
    BY DEF NoRec
  <1>6. \A k \in terminal : ~ m[k].active
    BY <1>2, <1>4, <1>5
  <1> HIDE DEF older, excess, held, rest
  <1>7. \A k \in Keys : out[k] = rest[k] \/ (out[k] = NoRec /\ k \in terminal)
    OBVIOUS
  <1>8. \A k \in Keys : out[k] = m[k] \/ (out[k] = NoRec /\ ~ m[k].active)
    BY <1>2, <1>6, <1>7
  <1>9. out \in [Keys -> Record \cup {NoRec}]
    BY <1>3
  <1> QED BY <1>1, <1>8, <1>9

\* What a reservation does to the records and the phases.
LEMMA ReserveIs ==
  ASSUME PInv, NEW c \in Callers, NEW k0 \in Keys, NEW replace \in BOOLEAN,
         Reserve(c, k0, replace)
  PROVE  /\ seq + 1 \in Gens /\ seq \in Nat
         /\ recs' \in [Keys -> Record \cup {NoRec}]
         /\ recs'[k0] = [gen |-> seq + 1, state |-> "pending", active |-> TRUE, admitting |-> TRUE]
         /\ \A k \in Keys \ {k0} :
               recs'[k] = recs[k] \/ (recs'[k] = NoRec /\ ~ recs[k].active)
         /\ DOMAIN phase' = Gens /\ phase'[seq + 1] = "active" /\ phase[seq + 1] = "unknown"
         /\ \A g \in Gens \ {seq + 1} :
               phase'[g] = IF recs[k0].active /\ recs[k0].gen = g THEN "superseded" ELSE phase[g]
         /\ recs[k0].active =>
               recs[k0].gen \in Gens \ {seq + 1} /\ phase[recs[k0].gen] = "active"
  <1>0. seq \in Nat /\ MaxGen \in Nat /\ seq < MaxGen
    BY InProcessAssumption DEF Reserve, PInv, Shape, InProcessAssumption
  <1>1. PICK n : n = seq + 1
    OBVIOUS
  <1>2. n \in Gens /\ n > seq /\ n # 0 /\ n \in Nat
    BY <1>0, <1>1 DEF Gens
  <1>3. PICK r : r = [gen |-> n, state |-> "pending", active |-> TRUE, admitting |-> TRUE]
    OBVIOUS
  <1>4. r \in Record /\ r.gen = n /\ r.active /\ r.state = "pending" /\ r \in Record \cup {NoRec}
    BY <1>2, <1>3 DEF Record
  <1>5. PICK m : m = [recs EXCEPT ![k0] = r]
    OBVIOUS
  <1>6. /\ m \in [Keys -> Record \cup {NoRec}] /\ m[k0] = r
        /\ \A k \in Keys \ {k0} : m[k] = recs[k]
    <2>1. recs \in [Keys -> Record \cup {NoRec}]
      BY DEF PInv, Shape
    <2> QED BY <1>4, <1>5, <2>1
  <1>7. PICK swept \in SUBSET {j \in Keys : m[j].gen # 0 /\ ~ m[j].active} :
           SetRecs(Evicted(m, swept), "superseded")
    BY <1>1, <1>3, <1>5 DEF Reserve
  <1>8. PICK new : new = Evicted(m, swept)
    OBVIOUS
  <1>9. /\ new \in [Keys -> Record \cup {NoRec}]
        /\ \A k \in Keys : new[k] = m[k] \/ (new[k] = NoRec /\ ~ m[k].active)
    BY <1>6, <1>7, <1>8, EvictedKeepsActive
  <1>10. new[k0] = r /\ \A k \in Keys \ {k0} : new[k] = recs[k] \/ (new[k] = NoRec /\ ~ recs[k].active)
    BY <1>4, <1>6, <1>9
  <1>11. NoRec.gen = 0 /\ 0 \notin Gens
    BY DEF NoRec, Gens
  <1>12. \A k \in Keys : recs[k].gen # n
    <2>1. \A k \in Keys : recs[k].gen # 0 => recs[k].gen \in Nat /\ recs[k].gen <= seq
      BY RecFields DEF PInv, PhaseTrue
    <2> QED BY <1>0, <1>2, <2>1
  <1>13. \A j, k \in Keys : new[j].gen = new[k].gen /\ new[j].gen # 0 => j = k
    BY <1>4, <1>10, <1>11, <1>12, RecsApart
  <1>14. /\ recs' = new /\ DOMAIN phase' = Gens
         /\ \A g \in Gens :
               /\ \A k \in Keys :
                     new[k].gen = g => phase'[g] = IF new[k].active THEN "active" ELSE new[k].state
               /\ (\A k \in Keys : new[k].gen # g) =>
                     phase'[g] = IF phase[g] = "active" THEN "superseded" ELSE phase[g]
    BY <1>7, <1>8, <1>9, <1>13, SetRecsPhase
  <1>15. phase'[n] = "active"
    BY <1>2, <1>4, <1>10, <1>14
  <1>16. phase[n] = "unknown"
    BY <1>2 DEF PInv, PhaseTrue
  <1>17. ASSUME NEW g \in Gens, g # n
         PROVE  phase'[g] = IF recs[k0].active /\ recs[k0].gen = g THEN "superseded" ELSE phase[g]
    <2>1. CASE \E k \in Keys : new[k].gen = g
      <3>1. PICK k \in Keys : new[k].gen = g
        BY <2>1
      <3>2. k # k0 /\ new[k] = recs[k] /\ g # 0
        BY <1>4, <1>10, <1>11, <1>17, <3>1
      <3>3. phase[g] = IF recs[k].active THEN "active" ELSE recs[k].state
        BY <3>1, <3>2 DEF PInv, PhaseTrue
      <3>4. recs[k0].gen # g
        BY <3>1, <3>2, RecsApart
      <3> QED BY <1>14, <3>1, <3>2, <3>3, <3>4
    <2>2. CASE \A k \in Keys : new[k].gen # g
      <3>1. phase'[g] = IF phase[g] = "active" THEN "superseded" ELSE phase[g]
        BY <1>14, <2>2
      <3>2. CASE recs[k0].active /\ recs[k0].gen = g
        <4>1. phase[g] = "active"
          BY <1>11, <3>2 DEF PInv, PhaseTrue
        <4> QED BY <3>1, <3>2, <4>1
      <3>3. CASE ~ (recs[k0].active /\ recs[k0].gen = g)
        <4>1. ASSUME phase[g] = "active" PROVE FALSE
          <5>1. PICK k \in Keys : recs[k].gen = g
            BY <4>1 DEF PInv, PhaseTrue, Held
          <5>2. recs[k].active
            BY <1>11, <4>1, <5>1, RecFields DEF PInv, PhaseTrue
          <5>3. k # k0
            BY <3>3, <5>1, <5>2
          <5> QED BY <1>10, <2>2, <5>1, <5>2, <5>3
        <4> QED BY <3>1, <3>3, <4>1
      <3> QED BY <3>2, <3>3
    <2> QED BY <2>1, <2>2
  <1>18. recs[k0].active => recs[k0].gen \in Gens \ {n} /\ phase[recs[k0].gen] = "active"
    BY <1>12, RecFields DEF PInv, PhaseTrue
  <1> QED BY <1>0, <1>1, <1>2, <1>3, <1>9, <1>10, <1>14, <1>15, <1>16, <1>17, <1>18

\* A reservation takes the next generation, and its key from an older one.
LEMMA ReservePInv ==
  ASSUME PInv, NEW c \in Callers, NEW k0 \in Keys, NEW replace \in BOOLEAN,
         Reserve(c, k0, replace)
  PROVE  PInv'
  <1>1. PICK n : n = seq + 1
    OBVIOUS
  <1>2. PICK g1 : g1 = recs[k0].gen
    OBVIOUS
  <1>3. /\ n \in Gens /\ seq \in Nat /\ n \in Nat /\ n > seq /\ n # 0
        /\ recs' \in [Keys -> Record \cup {NoRec}]
        /\ recs'[k0] = [gen |-> n, state |-> "pending", active |-> TRUE, admitting |-> TRUE]
        /\ \A k \in Keys \ {k0} :
               recs'[k] = recs[k] \/ (recs'[k] = NoRec /\ ~ recs[k].active)
        /\ DOMAIN phase' = Gens /\ phase'[n] = "active" /\ phase[n] = "unknown"
        /\ \A g \in Gens \ {n} :
               phase'[g] = IF recs[k0].active /\ g1 = g THEN "superseded" ELSE phase[g]
        /\ recs[k0].active => g1 \in Gens \ {n} /\ phase[g1] = "active"
    <2>1. /\ seq + 1 \in Gens /\ seq \in Nat
          /\ recs' \in [Keys -> Record \cup {NoRec}]
          /\ recs'[k0] = [gen |-> seq + 1, state |-> "pending", active |-> TRUE, admitting |-> TRUE]
          /\ \A k \in Keys \ {k0} :
               recs'[k] = recs[k] \/ (recs'[k] = NoRec /\ ~ recs[k].active)
          /\ DOMAIN phase' = Gens /\ phase'[seq + 1] = "active" /\ phase[seq + 1] = "unknown"
          /\ \A g \in Gens \ {seq + 1} :
               phase'[g] = IF recs[k0].active /\ recs[k0].gen = g THEN "superseded" ELSE phase[g]
          /\ recs[k0].active =>
               recs[k0].gen \in Gens \ {seq + 1} /\ phase[recs[k0].gen] = "active"
      BY ReserveIs, ZenonT(60)
    <2>2. n \in Nat /\ n > seq /\ n # 0
      BY <1>1, <2>1
    <2> QED BY <1>1, <1>2, <2>1, <2>2
  <1>4. PICK i : i = [key |-> k0, gen |-> n]
    OBVIOUS
  <1>5. PICK x : x = [pc |-> "send", item |-> i]
    OBVIOUS
  <1>6. /\ seq' = n /\ keyOf' = [keyOf EXCEPT ![n] = k0]
        /\ stopped' = IF recs[k0].active /\ ~ Attempting(g1) THEN stopped \cup {g1} ELSE stopped
        /\ caller' = [caller EXCEPT ![c] = x] /\ caller[c].pc # "send" /\ seq < MaxGen
        /\ ch' = ch /\ closed' = closed /\ run' = run /\ worker' = worker /\ live' = live
        /\ minted' = minted /\ calls' = calls /\ delivered' = delivered /\ sealed' = sealed
        /\ late' = late /\ kept' = kept
    BY <1>1, <1>2, <1>4, <1>5 DEF Reserve, Call, Turn
  <1>7. i \in Item /\ i.key = k0 /\ i.gen = n /\ x \in CallerState /\ x.pc = "send" /\ x.item = i
    BY <1>3, <1>4, <1>5 DEF Item, CallerState
  <1>8. /\ caller'[c] = x /\ \A d \in Callers \ {c} : caller'[d] = caller[d]
        /\ caller' \in [Callers -> CallerState]
    BY <1>6, <1>7 DEF PInv, Shape
  <1>9. /\ keyOf'[n] = k0 /\ \A g \in Gens \ {n} : keyOf'[g] = keyOf[g]
        /\ DOMAIN keyOf' = Gens
    BY <1>3, <1>6 DEF PInv, Shape
  <1>10. /\ \A j : Known(j) => Known(j)' /\ j.gen # n
         /\ Known(i)'
    <2>1. ASSUME NEW j, Known(j) PROVE Known(j)' /\ j.gen # n
      <3>1. j \in Item /\ j.gen \in Gens /\ j.gen <= seq /\ keyOf[j.gen] = j.key
        BY <2>1 DEF Known, Item
      <3>2. j.gen # n /\ j.gen <= n
        BY <1>3, <3>1 DEF Gens
      <3> QED BY <1>6, <1>9, <3>1, <3>2 DEF Known
    <2>2. Known(i)'
      BY <1>3, <1>6, <1>7, <1>9 DEF Known
    <2> QED BY <2>1, <2>2
  <1>11. /\ \A j \in DOMAIN ch : ch[j].gen # n
         /\ \A w \in Workers : worker[w].item.gen # n
         /\ \A d \in Callers : ~ Sending(d, n)
    <2>1. \A w \in Workers : worker[w].item.gen # n
      <3>1. NoItem.gen = 0
        BY DEF NoItem
      <3> QED BY <1>3, <1>10, <3>1 DEF PInv, ItemsKnown
    <2> QED BY <1>10, <2>1 DEF PInv, ItemsKnown, Sending
  <1>12. /\ \A d \in Callers : \A g : Sending(d, g)' => Sending(d, g) \/ (d = c /\ g = n)
         /\ \A d \in Callers : \A g : Sending(d, g) => Sending(d, g)'
         /\ Sending(c, n)'
    BY <1>6, <1>7, <1>8 DEF Sending
  <1>13. /\ \A g : Queued(g)' => Queued(g) \/ g = n
         /\ \A g : Queued(g) => Queued(g)'
         /\ Queued(n)'
    BY <1>6, <1>12 DEF Queued
  <1>14. ItemsKnown'
    BY <1>6, <1>7, <1>8, <1>10 DEF PInv, ItemsKnown
  <1>15. OnePlace'
    <2> SUFFICES ASSUME NEW g \in Gens
                 PROVE
        /\ \A d, e \in Callers : Sending(d, g)' /\ Sending(e, g)' => d = e
        /\ \A j, l \in DOMAIN ch : ch[j].gen = g /\ ch[l].gen = g => j = l
        /\ \A v, w \in Workers : worker[v].item.gen = g /\ worker[w].item.gen = g => v = w
        /\ \A d \in Callers, j \in DOMAIN ch : ~ (Sending(d, g)' /\ ch[j].gen = g)
        /\ \A d \in Callers, w \in Workers : ~ (Sending(d, g)' /\ worker[w].item.gen = g)
        /\ \A j \in DOMAIN ch, w \in Workers : ~ (ch[j].gen = g /\ worker[w].item.gen = g)
      BY <1>6 DEF OnePlace
    <2>1. CASE g = n
      BY <1>11, <1>12, <2>1
    <2>2. CASE g # n
      BY <1>12, <2>2 DEF PInv, OnePlace
    <2> QED BY <2>1, <2>2
  <1>16. NoRec.gen = 0 /\ ~ NoRec.active /\ NoRec.state = "none" /\ 0 \notin Gens
    BY DEF NoRec, Gens
  <1>17. /\ \A g \in Gens \ {n} : Held(g)' => Held(g)
         /\ recs[k0].active => ~ Held(g1)'
         /\ Held(n)'
    <2>1. \A k \in Keys : recs[k].gen = g1 /\ g1 # 0 => k = k0
      BY <1>2, RecsApart
    <2>2. ASSUME recs[k0].active, NEW k \in Keys PROVE recs'[k].gen # g1
      BY <1>3, <1>16, <2>1, <2>2
    <2>3. \A g \in Gens \ {n}, k \in Keys : recs'[k].gen = g => recs[k].gen = g
      BY <1>3, <1>16
    <2> QED BY <1>3, <2>2, <2>3 DEF Held
  <1>18. Shape'
    <2>1. n \in 0..MaxGen
      BY <1>3, InProcessAssumption DEF Gens, InProcessAssumption
    <2>2. phase' \in [Gens -> {"unknown", "active", "completed", "dead_letter", "superseded",
                               "canceled"}]
      <3>1. \A g \in Gens : phase'[g] \in {"unknown", "active", "completed", "dead_letter",
                                           "superseded", "canceled"}
        BY <1>3 DEF PInv, Shape
      <3>2. phase' = [g \in Gens |-> phase'[g]]
        BY <1>1 DEF Reserve, SetRecs
      <3> QED BY <3>1, <3>2
    <2>3. stopped' \subseteq Gens
      BY <1>3, <1>6 DEF PInv, Shape
    <2> QED BY <1>3, <1>6, <1>8, <1>9, <2>1, <2>2, <2>3 DEF PInv, Shape
  <1>19. PhaseTrue'
    <2>1. ASSUME NEW k \in Keys, recs'[k].gen # 0
          PROVE  /\ recs'[k].gen <= n /\ keyOf'[recs'[k].gen] = k
                 /\ recs'[k].active <=> recs'[k].state \in {"pending", "running"}
                 /\ phase'[recs'[k].gen] = IF recs'[k].active THEN "active" ELSE recs'[k].state
      <3>1. CASE k = k0
        BY <1>3, <1>9, <3>1
      <3>2. CASE k # k0
        <4>1. recs'[k] = recs[k]
          BY <1>3, <1>16, <2>1, <3>2
        <4>2. recs[k].gen \in Gens /\ recs[k].gen \in Nat /\ recs[k].gen <= seq
          BY <2>1, <4>1, RecFields DEF PInv, PhaseTrue
        <4>3. recs[k].gen # n /\ recs[k].gen <= n
          BY <1>3, <4>2
        <4>4. recs[k].gen # g1
          BY <1>2, <2>1, <3>2, <4>1, RecsApart
        <4> QED BY <1>3, <1>9, <2>1, <4>1, <4>2, <4>3, <4>4 DEF PInv, PhaseTrue
      <3> QED BY <3>1, <3>2
    <2>2. ASSUME NEW g \in Gens, phase'[g] = "active" PROVE Held(g)'
      <3>1. CASE g = n
        BY <1>17, <3>1
      <3>2. CASE g # n
        <4>1. phase[g] = "active" /\ ~ (recs[k0].active /\ g1 = g)
          BY <1>3, <2>2, <3>2
        <4>2. PICK k \in Keys : recs[k].gen = g
          BY <4>1 DEF PInv, PhaseTrue, Held
        <4>3. recs[k].active
          BY <1>16, <4>1, <4>2, RecFields DEF PInv, PhaseTrue
        <4>4. k # k0
          BY <1>2, <4>1, <4>2, <4>3
        <4>5. recs'[k].gen = g
          BY <1>3, <4>2, <4>3, <4>4
        <4> QED BY <4>5 DEF Held
      <3> QED BY <3>1, <3>2
    <2>3. ASSUME NEW g \in Gens PROVE phase'[g] = "unknown" <=> g > n
      <3>1. g \in Nat /\ (g > n <=> g > seq /\ g # n)
        BY <1>1, <1>3 DEF Gens
      <3>2. phase[g] = "unknown" <=> g > seq
        BY DEF PInv, PhaseTrue
      <3> QED BY <1>3, <3>1, <3>2
    <2>4. ASSUME NEW g \in Gens, g > n
          PROVE  sealed[g] = Opaque /\ late[g] = 0 /\ g \notin stopped'
      <3>1. g > seq /\ g # n
        BY <1>3, <2>4 DEF Gens
      <3>2. phase[g] = "unknown"
        BY <3>1 DEF PInv, PhaseTrue
      <3> QED BY <1>3, <1>6, <3>1, <3>2 DEF PInv, PhaseTrue
    <2> QED BY <1>6, <2>1, <2>2, <2>3, <2>4 DEF PhaseTrue
  <1>20. Carried'
    <2> SUFFICES ASSUME NotCanceled, NEW k \in Keys, NEW g, g = recs'[k].gen
                 PROVE  /\ recs'[k].active => \/ Queued(g)'
                                             \/ \E v \in Workers : worker[v].item.gen = g
                        /\ recs'[k].state = "running" => \E v \in Workers : worker[v].item.gen = g
      BY <1>6 DEF Carried, NotCanceled, canceled
    <2>1. CASE k = k0
      BY <1>3, <1>13, <2>1
    <2>2. CASE k # k0
      <3>1. recs'[k] = recs[k] \/ recs'[k] = NoRec
        BY <1>3, <2>2
      <3> QED BY <1>13, <1>16, <3>1 DEF PInv, Carried
    <2> QED BY <2>1, <2>2
  <1>21. Ended'
    <2> SUFFICES ASSUME NEW g \in Gens
                 PROVE
          /\ phase'[g] \in {"completed", "dead_letter", "canceled"} => ~ Queued(g)'
          /\ phase'[g] \in {"completed", "dead_letter"} =>
                \A w \in Workers : worker[w].item.gen = g =>
                    phase'[g] = "dead_letter" /\ worker[w].pc = "discard"
          /\ phase'[g] = "completed" => g \in delivered
          /\ phase'[g] = "superseded" => \E h \in Gens : h > g /\ h <= n /\ keyOf'[h] = keyOf'[g]
      BY <1>6 DEF Ended
    <2>1. CASE g = n
      BY <1>3, <2>1
    <2>2. CASE g # n /\ recs[k0].active /\ g = g1
      <3>1. phase'[g] = "superseded"
        BY <1>3, <2>2
      <3>2. g <= seq /\ keyOf[g] = k0
        BY <1>2, <1>16, <2>2 DEF PInv, PhaseTrue
      <3>3. n > g /\ n <= n /\ keyOf'[n] = keyOf'[g]
        BY <1>3, <1>9, <2>2, <3>2 DEF Gens
      <3> QED BY <1>3, <3>1, <3>3
    <2>3. CASE g # n /\ ~ (recs[k0].active /\ g = g1)
      <3>1. phase'[g] = phase[g] /\ (Queued(g)' => Queued(g))
        BY <1>3, <1>13, <2>3
      <3>2. ASSUME phase[g] = "superseded"
            PROVE  \E h \in Gens : h > g /\ h <= n /\ keyOf'[h] = keyOf'[g]
        <4>1. PICK h \in Gens : h > g /\ h <= seq /\ keyOf[h] = keyOf[g]
          BY <3>2 DEF PInv, Ended
        <4>2. h # n /\ h <= n
          BY <1>3, <4>1 DEF Gens
        <4> QED BY <1>9, <2>3, <4>1, <4>2
      <3> QED BY <3>1, <3>2 DEF PInv, Ended
    <2> QED BY <2>1, <2>2, <2>3
  <1>22. Sealing'
    <2>1. \A v \in Workers : worker[v].pc = "discard" => phase'[worker[v].item.gen] = "dead_letter"
      BY <1>3, <1>11, WorkerFields DEF PInv, Sealing
    <2>2. sealed[n] = Opaque
      BY <1>3 DEF PInv, PhaseTrue
    <2> QED BY <1>6, <1>13, <2>1, <2>2 DEF PInv, Sealing
  <1>23. Quiet'
    <2>0. late[n] = 0 /\ n \notin stopped
      BY <1>3 DEF PInv, PhaseTrue
    <2>1. recs[k0].active => Held(g1) /\ late[g1] = 0
      <3>1. Held(g1)
        BY <1>2 DEF Held
      <3>2. recs[k0].active => late[g1] \in Nat /\ late[g1] <= 1 /\ late[g1] # 1
        BY <1>3, <3>1 DEF PInv, Shape, Quiet
      <3> QED BY <3>1, <3>2
    <2>2. ASSUME NEW g \in Gens
          PROVE  /\ late[g] <= 1
                 /\ late[g] = 1 => ~ Held(g)' /\ \A w \in Workers :
                       worker[w].item.gen = g => worker[w].pc \notin {"handle", "rendered", "ready"}
      <3>1. CASE g = n
        BY <2>0, <3>1
      <3>2. CASE g # n
        BY <1>17, <3>2 DEF PInv, Quiet
      <3> QED BY <3>1, <3>2
    <2>3. ASSUME NEW g \in Gens, g \in stopped'
          PROVE  late[g] = 0 /\ ~ Held(g)' /\ \A w \in Workers :
                    worker[w].item.gen = g =>
                       worker[w].pc \notin {"handle", "rendered", "ready", "calling"}
      <3>1. CASE g \in stopped
        BY <1>17, <2>0, <3>1 DEF PInv, Quiet
      <3>2. CASE g \notin stopped
        <4>1. g = g1 /\ recs[k0].active /\ ~ Attempting(g1)
          BY <1>6, <2>3, <3>2
        <4>2. ~ Held(g)'
          BY <1>17, <4>1
        <4>3. \A w \in Workers : worker[w].item.gen = g =>
                 worker[w].pc \notin {"handle", "rendered", "ready", "calling"}
          BY <4>1 DEF Attempting
        <4> QED BY <2>1, <4>1, <4>2, <4>3
      <3> QED BY <3>1, <3>2
    <2> QED BY <1>6, <2>2, <2>3 DEF Quiet
  <1>24. SentSecretsVoided'
    <2> SUFFICES ASSUME NEW e \in calls, phase'[e[1]] = "dead_letter", e[1] \notin kept,
                        \A v \in Workers : worker[v].item.gen # e[1]
                 PROVE  e[2] \notin live
      BY <1>6 DEF SentSecretsVoided
    <2>1. e[1] \in Gens
      BY DEF PInv, Sealing
    <2>2. phase[e[1]] = "dead_letter"
      BY <1>3, <2>1
    <2> QED BY <2>2 DEF PInv, SentSecretsVoided
  <1> QED BY <1>14, <1>15, <1>18, <1>19, <1>20, <1>21, <1>22, <1>23, <1>24 DEF PInv

-----------------------------------------------------------------------------
(* The invariant, and what follows. *)

\* The empty queue, and a pool that has not been started.
LEMMA InitPInv == Init => PInv
  <1> SUFFICES ASSUME Init PROVE PInv
    OBVIOUS
  <1>0. /\ recs = [k \in Keys |-> NoRec] /\ seq = 0 /\ ch = <<>> /\ closed = FALSE
        /\ caller = [c \in Callers |-> NoCall] /\ run = "none"
        /\ worker = [w \in Workers |-> [IdleWorker EXCEPT !.pc = "exited"]]
        /\ live = {} /\ minted = {} /\ calls = {} /\ delivered = {} /\ kept = {} /\ stopped = {}
        /\ phase = [g \in Gens |-> "unknown"] /\ sealed = [g \in Gens |-> Opaque]
        /\ late = [g \in Gens |-> 0] /\ keyOf = [g \in Gens |-> "none"]
    BY DEF Init
  <1>1. \A w \in Workers : worker[w] \in WorkerState /\ worker[w].pc = "exited"
                           /\ worker[w].item = NoItem /\ worker[w].item.gen = 0
    <2>1. PICK u : u = [IdleWorker EXCEPT !.pc = "exited"]
      OBVIOUS
    <2>2. u \in WorkerState /\ u.pc = "exited" /\ u.item = NoItem
      BY <2>1, IdleStates
    <2>3. NoItem.gen = 0
      BY DEF NoItem
    <2>4. \A w \in Workers : worker[w] = u
      BY <1>0, <2>1
    <2> QED BY <2>2, <2>3, <2>4
  <1>2. \A c \in Callers : caller[c] \in CallerState /\ caller[c].pc = "idle"
    BY <1>0, NoCallIs
  <1>3. \A k \in Keys : recs[k] = NoRec /\ recs[k].gen = 0 /\ ~ recs[k].active /\ recs[k].state = "none"
    BY <1>0 DEF NoRec
  <1>4. 0 \notin Gens /\ \A g \in Gens : g > 0
    BY DEF Gens
  <1>5. \A g : ~ Queued(g)
    BY <1>0, <1>2 DEF Queued, Sending
  <1>6. Shape
    <2>1. Capacity \in Nat /\ MaxGen \in Nat
      BY InProcessAssumption DEF InProcessAssumption
    <2>2. ch \in Seq(Item) /\ Len(ch) <= Capacity
      BY <1>0, <2>1
    <2>3. seq \in 0..MaxGen
      BY <1>0, <2>1
    <2>4. recs \in [Keys -> Record \cup {NoRec}] /\ caller \in [Callers -> CallerState]
          /\ worker \in [Workers -> WorkerState]
      BY <1>0, IdleStates, NoCallIs
    <2>5. /\ phase \in [Gens -> {"unknown", "active", "completed", "dead_letter", "superseded",
                                 "canceled"}]
          /\ sealed \in [Gens -> minted \cup {Opaque}] /\ late \in [Gens -> Nat]
          /\ DOMAIN keyOf = Gens
      BY <1>0
    <2> QED BY <1>0, <2>2, <2>3, <2>4, <2>5 DEF Shape
  <1>7. ItemsKnown
    BY <1>0, <1>1, <1>2 DEF ItemsKnown
  <1>8. PhaseTrue
    BY <1>0, <1>3, <1>4 DEF PhaseTrue
  <1>9. OnePlace
    BY <1>0, <1>1, <1>2, <1>4, SMTT(30) DEF OnePlace, Sending
  <1>10. Carried /\ Ended /\ SentSecretsVoided
    <2>1. Carried
      BY <1>3 DEF Carried
    <2>2. Ended
      BY <1>0 DEF Ended
    <2>3. SentSecretsVoided
      BY <1>0 DEF SentSecretsVoided
    <2> QED BY <2>1, <2>2, <2>3
  <1>11. Sealing
    BY <1>0, <1>1, <1>5 DEF Sealing
  <1>12. Quiet
    BY <1>0 DEF Quiet
  <1> QED BY <1>6, <1>7, <1>8, <1>9, <1>10, <1>11, <1>12 DEF PInv

\* Every step keeps the invariant.
LEMMA NextPInv == PInv /\ [Next]_vars => PInv'
  <1> SUFFICES ASSUME PInv, [Next]_vars PROVE PInv'
    OBVIOUS
  <1>1. ASSUME NEW c \in Callers, Admission(c) PROVE PInv'
    BY <1>1, WaitingPInv, ReservePInv, SendPInv, CommitPInv, RollbackPInv DEF Admission
  <1>2. ASSUME NEW k \in Keys, Expire(k) PROVE PInv'
    BY <1>2, ExpirePInv
  <1>3. CASE Host
    BY <1>3, HostPInv
  <1>4. ASSUME NEW w \in Workers, Work(w) PROVE PInv'
    BY <1>4, ReceivePInv, ExitPInv, ClaimPInv, InitializePInv, CheckpointPInv, CallPInv,
       AnswerPInv, SettlePInv, DeadLetterPInv, DiscardPInv, RetryPInv DEF Work
  <1>5. CASE UNCHANGED vars
    <2>1. /\ UNCHANGED <<recs, seq, caller, history>> /\ ch' = ch /\ closed' = closed /\ run' = run
          /\ worker' = worker
      BY <1>5 DEF vars, history
    <2>2. NotCanceled' <=> NotCanceled
      BY <2>1 DEF NotCanceled, canceled
    <2>3. /\ worker \in [Workers -> WorkerState] /\ closed \in BOOLEAN
          /\ run = "draining" => closed
          /\ run \in {"none", "running", "canceled", "draining"}
      BY DEF PInv, Shape
    <2> QED BY <2>1, <2>2, <2>3, QuietFrame
  <1> QED BY <1>1, <1>2, <1>3, <1>4, <1>5 DEF Next

\* The inductive invariant of in-process delivery holds of every behaviour.
THEOREM InProcessInvariant == Spec => []PInv
  BY InitPInv, NextPInv, PTL DEF Spec
\* The item of an active record is in exactly one place.
LEMMA OneCarrier ==
  ASSUME PInv, NotCanceled, NEW k \in Keys, recs[k].active
  PROVE  Cardinality(Carriers(recs[k].gen)) = 1
  <1>1. PICK g : g = recs[k].gen
    OBVIOUS
  <1>2. g \in Gens /\ g # 0 /\ phase[g] = "active"
    BY <1>1, RecFields DEF PInv, PhaseTrue
  <1>3. \A w \in Workers : worker[w].item.gen = g => worker[w].pc # "discard"
    BY <1>2 DEF PInv, Sealing
  <1>4. /\ \A c, d \in Callers : Sending(c, g) /\ Sending(d, g) => c = d
        /\ \A i, j \in DOMAIN ch : ch[i].gen = g /\ ch[j].gen = g => i = j
        /\ \A v, w \in Workers : worker[v].item.gen = g /\ worker[w].item.gen = g => v = w
        /\ \A c \in Callers, i \in DOMAIN ch : ~ (Sending(c, g) /\ ch[i].gen = g)
        /\ \A c \in Callers, w \in Workers : ~ (Sending(c, g) /\ worker[w].item.gen = g)
        /\ \A i \in DOMAIN ch, w \in Workers : ~ (ch[i].gen = g /\ worker[w].item.gen = g)
    BY <1>2 DEF PInv, OnePlace
  <1>5. Queued(g) \/ \E w \in Workers : worker[w].item.gen = g
    BY <1>1 DEF PInv, Carried
  <1>6. \A x : x \in Carriers(g) <=> \/ x \in Callers /\ Sending(x, g)
                                     \/ x \in DOMAIN ch /\ ch[x].gen = g
                                     \/ x \in Workers /\ worker[x].item.gen = g
    BY <1>3 DEF Carriers, Sending
  <1>7. \E x : Carriers(g) = {x}
    <2>1. CASE \E c \in Callers : Sending(c, g)
      <3>1. PICK c \in Callers : Sending(c, g)
        BY <2>1
      <3>2. \A x : x \in Carriers(g) <=> x = c
        BY <1>4, <1>6, <3>1
      <3> QED BY <3>2
    <2>2. CASE \E i \in DOMAIN ch : ch[i].gen = g
      <3>1. PICK i \in DOMAIN ch : ch[i].gen = g
        BY <2>2
      <3>2. \A x : x \in Carriers(g) <=> x = i
        BY <1>4, <1>6, <3>1
      <3> QED BY <3>2
    <2>3. CASE \E w \in Workers : worker[w].item.gen = g
      <3>1. PICK w \in Workers : worker[w].item.gen = g
        BY <2>3
      <3>2. \A x : x \in Carriers(g) <=> x = w
        BY <1>4, <1>6, <3>1
      <3> QED BY <3>2
    <2> QED BY <1>5, <2>1, <2>2, <2>3 DEF Queued
  <1> QED BY <1>1, <1>7, FS_Singleton

\* The arbiter's records are well formed and true, each active one is carried by
\* one caller, channel slot or worker until the host cancels, and only a later
\* reservation takes a key away, for any number of callers, workers and keys.
THEOREM ArbiterSoundHolds == Spec => []ArbiterSound
  <1>1. PInv => ArbiterSound
    <2> SUFFICES ASSUME PInv PROVE ArbiterSound
      OBVIOUS
    <2>1. TypeOK
      <3>1. \A c \in Callers : caller[c].pc # "idle" => caller[c].item \in Item
        BY DEF PInv, ItemsKnown, Known
      <3>2. \A w \in Workers :
              /\ worker[w].attempt \in 0..MaxAttempts
              /\ worker[w].pc \notin {"idle", "exited"} => worker[w].item \in Item
        BY WorkerFields DEF WorkerState
      <3> QED BY <3>1, <3>2 DEF TypeOK, PInv, Shape
    <2>2. ActiveIsCarried
      BY OneCarrier DEF ActiveIsCarried
    <2>3. StatusIsTrue
      <3> SUFFICES ASSUME NEW k \in Keys
                   PROVE  /\ recs[k].state = "completed" => recs[k].gen \in delivered
                          /\ recs[k].state = "running" /\ NotCanceled =>
                              \E w \in Workers : worker[w].item = [key |-> k, gen |-> recs[k].gen]
        BY DEF StatusIsTrue
      <3>1. ASSUME recs[k].state = "completed" PROVE recs[k].gen \in delivered
        BY <3>1, RecFields DEF PInv, PhaseTrue, Ended
      <3>2. ASSUME recs[k].state = "running", NotCanceled
            PROVE  \E w \in Workers : worker[w].item = [key |-> k, gen |-> recs[k].gen]
        <4>1. PICK w \in Workers : worker[w].item.gen = recs[k].gen
          BY <3>2 DEF PInv, Carried
        <4>2. recs[k].gen # 0 /\ keyOf[recs[k].gen] = k
          BY <3>2, RecFields DEF PInv, PhaseTrue
        <4>3. Known(worker[w].item) /\ worker[w].item \in Item
          BY <4>1, <4>2, WorkerFields
        <4>4. worker[w].item.key = k
          BY <4>1, <4>2, <4>3 DEF Known
        <4>5. worker[w].item = [key |-> k, gen |-> recs[k].gen]
          BY <4>1, <4>3, <4>4 DEF Item
        <4> QED BY <4>5
      <3> QED BY <3>1, <3>2
    <2>4. OnlyReplaceSupersedes
      BY DEF OnlyReplaceSupersedes, PInv, Ended, Queued
    <2> QED BY <2>1, <2>2, <2>3, <2>4 DEF ArbiterSound
  <1> QED BY <1>1, InProcessInvariant, PTL

\* Superseded while it waited, a generation starts no provider call; superseded
\* during an attempt, at most the one that attempt was about to make.
THEOREM SupersededStopsHolds == Spec => []SupersededStops
  <1>1. PInv => SupersededStops
    BY DEF PInv, Shape, Quiet, SupersededStops
  <1> QED BY <1>1, InProcessInvariant, PTL

\* Once the discard of a dead letter has run, no challenge it sent is live.
THEOREM SentSecretsVoidedHolds == Spec => []SentSecretsVoided
  <1>1. PInv => SentSecretsVoided
    BY DEF PInv
  <1> QED BY <1>1, InProcessInvariant, PTL

-----------------------------------------------------------------------------
(* The delivery contract. *)

\* The end of an active generation is an end of the contract.
LEMMA EndMaps ==
  ASSUME NEW g \in Gens, NEW how \in Contract!Ends, phase[g] = "active",
         phase' = [phase EXCEPT ![g] = how], UNCHANGED <<sealed, calls>>
  PROVE  Contract!CNext
  BY DEF Contract!CNext, Contract!End

\* A step that ends no generation, seals nothing and calls nobody.
LEMMA StutterMaps ==
  ASSUME UNCHANGED <<phase, sealed, calls>>
  PROVE  UNCHANGED Contract!cvars
  BY DEF Contract!cvars

\* A reservation admits its generation in place of the one it supersedes.
LEMMA ReserveMaps ==
  ASSUME PInv, NEW c \in Callers, NEW k0 \in Keys, NEW replace \in BOOLEAN,
         Reserve(c, k0, replace)
  PROVE  Contract!CNext
  <1>1. /\ seq + 1 \in Gens /\ DOMAIN phase' = Gens
        /\ phase'[seq + 1] = "active" /\ phase[seq + 1] = "unknown"
        /\ \A g \in Gens \ {seq + 1} :
               phase'[g] = IF recs[k0].active /\ recs[k0].gen = g THEN "superseded" ELSE phase[g]
        /\ recs[k0].active =>
               recs[k0].gen \in Gens \ {seq + 1} /\ phase[recs[k0].gen] = "active"
    BY ReserveIs
  <1>2. PICK retired : retired = IF recs[k0].active THEN {recs[k0].gen} ELSE {}
    OBVIOUS
  <1>3. retired \in SUBSET Gens /\ \A r \in retired : phase[r] = "active"
    BY <1>1, <1>2
  <1>4. PICK n \in Gens : n = seq + 1
    BY <1>1
  <1>5. phase' = [g \in Gens |-> phase'[g]] /\ UNCHANGED <<sealed, calls>>
    BY DEF Reserve, SetRecs
  <1>6. \A g \in Gens : phase'[g] = IF g = n THEN "active"
                                    ELSE IF g \in retired THEN "superseded" ELSE phase[g]
    BY <1>1, <1>2, <1>4
  <1>7. phase' = [g \in Gens |-> IF g = n THEN "active"
                                 ELSE IF g \in retired THEN "superseded" ELSE phase[g]]
    BY <1>5, <1>6
  <1>8. Contract!Admit(n, retired)
    BY <1>1, <1>3, <1>4, <1>5, <1>7 DEF Contract!Admit
  <1> QED BY <1>3, <1>4, <1>8 DEF Contract!CNext

\* A checkpoint fixes the message, or refuses to.
LEMMA CheckpointMaps ==
  ASSUME PInv, NEW w \in Workers, checkpoint(w)
  PROVE  Contract!CNext \/ UNCHANGED Contract!cvars
  <1>1. PICK g \in Gens : g = worker[w].item.gen
    BY WorkerFields DEF checkpoint
  <1>2. PICK s : s = worker[w].msg
    OBVIOUS
  <1>3. CASE current(worker[w].item)
    <2>1. sealed' = [sealed EXCEPT ![g] = s] /\ UNCHANGED <<phase, calls>>
      BY <1>1, <1>2, <1>3 DEF checkpoint
    <2>2. s \in Secrets /\ sealed[g] = Opaque /\ Known(worker[w].item)
      BY <1>1, <1>2, WorkerFields DEF checkpoint, PInv, Sealing, Shape
    <2>3. phase[g] \notin {"completed", "dead_letter"}
      BY <1>1, NotDeadYet DEF checkpoint
    <2>4. PICK k \in Keys : recs[k].gen = g
      BY <1>1, <1>3, <2>2, CurrentIsHeld DEF Held
    <2>5. phase[g] = "active"
      BY <1>1, <2>3, <2>4, RecFields DEF PInv, PhaseTrue, Gens
    <2>6. Contract!Fix(g, s)
      BY <2>1, <2>2, <2>5 DEF Contract!Fix
    <2> QED BY <2>2, <2>6 DEF Contract!CNext
  <1>4. CASE ~ current(worker[w].item)
    BY <1>4, StutterMaps DEF checkpoint
  <1> QED BY <1>3, <1>4

\* A provider call is a call of the contract, of the message that was fixed.
LEMMA CallMaps ==
  ASSUME PInv, NEW w \in Workers, CallProvider(w)
  PROVE  Contract!CNext
  <1>1. PICK g \in Gens : g = worker[w].item.gen
    BY CallIs
  <1>2. sealed[g] # Opaque /\ calls' = calls \cup {<<g, sealed[g]>>} /\ UNCHANGED <<phase, sealed>>
    BY <1>1, CallIs DEF CallProvider
  <1>3. Contract!Call(g)
    BY <1>2 DEF Contract!Call
  <1> QED BY <1>3 DEF Contract!CNext

\* settle, deadLetter and a rollback end the generation they find current.
LEMMA SettlementMaps ==
  ASSUME PInv, NEW w \in Workers, settle(w) \/ deadLetter(w)
  PROVE  Contract!CNext \/ UNCHANGED Contract!cvars
  <1>0. PICK i : i = worker[w].item
    OBVIOUS
  <1>1. UNCHANGED <<sealed, calls>> /\ worker[w].pc = "done"
    BY DEF settle, deadLetter
  <1>2. Known(i) /\ i.gen \in Gens
    BY <1>0, <1>1, WorkerFields
  <1>3. CASE ~ current(i)
    <2>1. phase' = phase
      BY <1>0, <1>3, SetRecsSame DEF settle, deadLetter
    <2> QED BY <1>1, <2>1, StutterMaps
  <1>4. CASE current(i)
    <2>1. PICK k \in Keys : recs[k].gen = i.gen
      BY <1>2, <1>4, CurrentIsHeld DEF Held
    <2>2. phase[i.gen] \notin {"completed", "dead_letter"}
      BY <1>0, <1>1, NotDeadYet
    <2>3. phase[i.gen] = "active"
      BY <1>2, <2>1, <2>2, RecFields DEF PInv, PhaseTrue, Gens
    <2>4. PICK how \in {"completed", "dead_letter"} :
             SetRecs([recs EXCEPT ![i.key].state = how, ![i.key].active = FALSE], how)
      BY <1>0, <1>4 DEF settle, deadLetter
    <2>5. phase' = [phase EXCEPT ![i.gen] = how]
      BY <1>2, <1>4, <2>3, <2>4, EndIs
    <2>6. how \in Contract!Ends
      BY DEF Contract!Ends
    <2> QED BY <1>1, <1>2, <2>3, <2>5, <2>6, EndMaps
  <1> QED BY <1>3, <1>4

\* A rollback ends the reservation as canceled, or finds it superseded.
LEMMA RollbackMaps ==
  ASSUME PInv, NEW c \in Callers, Rollback(c)
  PROVE  Contract!CNext \/ UNCHANGED Contract!cvars
  <1>0. PICK i : i = caller[c].item
    OBVIOUS
  <1>1. /\ UNCHANGED <<sealed, calls>> /\ caller[c].pc = "send"
        /\ SetRecs(IF current(i) THEN [recs EXCEPT ![i.key] = NoRec] ELSE recs, "canceled")
    BY <1>0 DEF Rollback
  <1>2. Known(i)
    BY <1>0, <1>1 DEF PInv, ItemsKnown
  <1>3. i.gen \in Gens /\ i.key \in Keys /\ i.gen # 0
    BY <1>2, CurrentIsHeld
  <1>4. CASE ~ current(i)
    <2>1. SetRecs(recs, "canceled")
      BY <1>1, <1>4
    <2> QED BY <1>1, <2>1, SetRecsSame, StutterMaps
  <1>5. CASE current(i)
    <2>1. recs[i.key].gen = i.gen /\ SetRecs([recs EXCEPT ![i.key] = NoRec], "canceled")
      BY <1>1, <1>5 DEF current
    <2>2. phase' = IF recs[i.key].active THEN [phase EXCEPT ![i.gen] = "canceled"] ELSE phase
      BY <1>3, <2>1, ForgetIs
    <2>3. recs[i.key].active => phase[i.gen] = "active"
      BY <1>3, <2>1 DEF PInv, PhaseTrue
    <2>4. "canceled" \in Contract!Ends
      BY DEF Contract!Ends
    <2> QED BY <1>1, <1>3, <2>2, <2>3, <2>4, EndMaps, StutterMaps
  <1> QED BY <1>4, <1>5

\* Every step of in-process delivery is a step of the contract or a stutter.
LEMMA StepMaps == PInv /\ [Next]_vars => [Contract!CNext]_(Contract!cvars)
  <1> SUFFICES ASSUME PInv, [Next]_vars PROVE Contract!CNext \/ UNCHANGED Contract!cvars
    OBVIOUS
  <1>1. ASSUME NEW c \in Callers, Admission(c) PROVE Contract!CNext \/ UNCHANGED Contract!cvars
    <2>1. ASSUME NEW k \in Keys, Coalesce(c, k) \/ Await(c, k)
          PROVE  UNCHANGED Contract!cvars
      BY <2>1, StutterMaps DEF Coalesce, Await, history
    <2>2. ASSUME Resolved(c) \/ GiveUp(c) \/ Send(c) \/ Commit(c)
          PROVE  UNCHANGED Contract!cvars
      BY <2>2, StutterMaps DEF Resolved, GiveUp, Send, Commit, history
    <2> QED BY <1>1, <2>1, <2>2, ReserveMaps, RollbackMaps DEF Admission
  <1>2. ASSUME NEW k \in Keys, Expire(k) PROVE UNCHANGED Contract!cvars
    <2>1. phase' = phase
      BY <1>2, ForgetIs DEF Expire
    <2> QED BY <1>2, <2>1, StutterMaps DEF Expire
  <1>3. CASE Host
    BY <1>3, StutterMaps DEF Host, RunStart, Cancel, beginShutdown, history
  <1>4. ASSUME NEW w \in Workers, Work(w) PROVE Contract!CNext \/ UNCHANGED Contract!cvars
    <2>1. ASSUME Receive(w) \/ Exit(w) \/ claim(w) \/ HandlerFails(w) \/ Retry(w) \/ backoffWait(w)
          PROVE  UNCHANGED Contract!cvars
      BY <2>1, StutterMaps DEF Receive, Exit, claim, HandlerFails, Retry, backoffWait, history
    <2>2. ASSUME Initialize(w) \/ ProviderAnswers(w) \/ Discard(w)
          PROVE  UNCHANGED Contract!cvars
      BY <2>2, StutterMaps DEF Initialize, ProviderAnswers, Discard
    <2> QED BY <1>4, <2>1, <2>2, CheckpointMaps, CallMaps, SettlementMaps DEF Work
  <1>5. CASE UNCHANGED vars
    BY <1>5, StutterMaps DEF vars
  <1> QED BY <1>1, <1>2, <1>3, <1>4, <1>5 DEF Next

\* In-process delivery implements the contract of the durable mode: the message
\* of a generation is fixed once, only it is sent, and the generation ends once.
THEOREM InProcessRefinesContract == Spec => ImplementsContract
  <1>1. Init => Contract!CInit
    BY DEF Init, Contract!CInit
  <1> QED BY <1>1, StepMaps, InProcessInvariant, PTL
          DEF Spec, ImplementsContract, Contract!CSpec
=============================================================================
