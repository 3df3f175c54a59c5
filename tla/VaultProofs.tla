----------------------------- MODULE VaultProofs -----------------------------
(* The secrets pocket, for every set of callers, owners, names and master     *)
(* keys, every page size and every number of retries.                         *)
EXTENDS Vault, TLAPS, FiniteSetTheorems, WellFoundedInduction

PutPcs == {"putCreate", "putReread", "putStore"}
ChangePcs == {"dropKey", "dropList", "drop", "rotateList", "rotate"}
KeyPcs == {"rewrapKey", "rewrapRetry", "rewrapAgain"}
RewrapPcs == KeyPcs \cup {"rewrapPage", "rewrapDone"}

\* A rewrap that met a conflict still has the key at hand to do.
TodoHeld(l) == l.pc \in {"rewrapRetry", "rewrapAgain"} => DOMAIN l.todo # {}

\* The store is well formed and no secret is without its owner's key.
TInv ==
    /\ TypeOK /\ NoOrphans /\ ReadsAreRecorded
    /\ \A p \in Procs : TodoHeld(proc[p])

\* A Put about to store its value that no rotation or deletion of the owner
\* overtook holds the key its owner still has.
PutHolds(p, l) ==
    (l.pc = "putStore" /\ p \notin crossed) =>
        HasKey(l.ref[1]) /\ l.key = keys[l.ref[1]].id

\* What keeps the secrets intact.
SInv ==
    /\ \A p \in Procs : PutHolds(p, proc[p])
    /\ SealedUnderOwnerKey /\ NoLostWrite

\* An owner the rewrap has yet to come to.
Ahead(l, o) ==
    \/ l.pc = "rewrapPage" /\ o > l.after
    \/ l.pc \in KeyPcs /\ (o \in DOMAIN l.todo \/ (l.next # 0 /\ o > l.next))

\* A rewrap that has not failed so far has every key under an old master key
\* ahead of it, and skips a key read as active only when it is active.
RewrapHolds(l) ==
    /\ (l.pc \in RewrapPcs /\ l.failed = {}) =>
          \A o \in DOMAIN keys : keys[o].master = Active \/ Ahead(l, o)
    /\ l.pc \in KeyPcs =>
          \A o \in DOMAIN l.todo :
             (o \in DOMAIN keys /\ l.todo[o].master = Active) => keys[o].master = Active

RInv == \A p \in Procs : RewrapHolds(proc[p])

VInv == TInv /\ SInv /\ RInv

-----------------------------------------------------------------------------
(* Operators. *)

\* A set of naturals has a least element, and a bounded one a greatest.
LEMMA NatLeast ==
  ASSUME NEW S, S \subseteq Nat, S # {}
  PROVE  \E x \in S : \A y \in S : x <= y
  <1>1. \E x \in S : \A y \in S : ~ (<<y, x>> \in OpToRel(<, Nat))
    BY NatLessThanWellFounded, WFMin, Zenon
  <1>2. PICK x \in S : \A y \in S : ~ (<<y, x>> \in OpToRel(<, Nat))
    BY <1>1
  <1>3. ASSUME NEW y \in S PROVE x <= y
    <2>1. y \in Nat /\ x \in Nat
      OBVIOUS
    <2>2. ~ (y < x)
      BY <1>2, <2>1, Zenon DEF OpToRel
    <2> QED BY <2>1, <2>2
  <1> QED BY <1>3

LEMMA NatGreatest ==
  ASSUME NEW S, S \subseteq Nat, S # {}, NEW b \in Nat, \A x \in S : x <= b
  PROVE  \E x \in S : \A y \in S : y <= x
  <1> DEFINE T == {b - x : x \in S}
  <1>1. T \subseteq Nat /\ T # {}
    <2>1. ASSUME NEW x \in S PROVE b - x \in Nat
      <3>1. x \in Nat /\ x <= b
        OBVIOUS
      <3> QED BY <3>1
    <2>2. T # {}
      OBVIOUS
    <2> QED BY <2>1, <2>2
  <1>2. PICK t \in T : \A u \in T : t <= u
    BY <1>1, NatLeast
  <1>3. PICK x \in S : t = b - x
    OBVIOUS
  <1>4. ASSUME NEW y \in S PROVE y <= x
    <2>1. b - x <= b - y
      BY <1>2, <1>3
    <2> QED BY <2>1
  <1> QED BY <1>4

\* Owners are ordered like positive numbers.
LEMMA OwnersPositive == \A o \in Owners : o \in Nat /\ o # 0
  BY VaultAssumption DEF VaultAssumption

\* The owner at hand is one of those to do.
LEMMA FirstIn ==
  ASSUME NEW todo, Partial(todo, Owners, Key), DOMAIN todo # {}
  PROVE  First(todo) \in DOMAIN todo
  <1>1. DOMAIN todo \subseteq Nat
    BY OwnersPositive DEF Partial
  <1>2. \E o \in DOMAIN todo : \A q \in DOMAIN todo : o <= q
    BY <1>1, NatLeast
  <1> QED BY <1>2 DEF First

\* The keys between a page's start and an owner: they are finitely many, and
\* the more the later the owner.
LEMMA BetweenFinite ==
  ASSUME DOMAIN keys \subseteq Owners, NEW a \in Nat, NEW x \in Nat
  PROVE  /\ IsFiniteSet({q \in DOMAIN keys : a < q /\ q < x})
         /\ Cardinality({q \in DOMAIN keys : a < q /\ q < x}) \in Nat
  <1>1. {q \in DOMAIN keys : a < q /\ q < x} \subseteq a..x
    <2>1. ASSUME NEW q \in DOMAIN keys, a < q, q < x PROVE q \in a..x
      <3>1. q \in Nat
        BY OwnersPositive
      <3> QED BY <2>1, <3>1
    <2> QED BY <2>1
  <1>2. IsFiniteSet(a..x)
    BY FS_Interval
  <1>3. IsFiniteSet({q \in DOMAIN keys : a < q /\ q < x})
    BY <1>1, <1>2, FS_Subset
  <1> QED BY <1>3, FS_CardinalityType

LEMMA BetweenGrows ==
  ASSUME DOMAIN keys \subseteq Owners, NEW a \in Nat, NEW x \in Nat, NEW y \in Nat, x <= y
  PROVE  Cardinality({q \in DOMAIN keys : a < q /\ q < x})
           <= Cardinality({q \in DOMAIN keys : a < q /\ q < y})
  <1>1. {q \in DOMAIN keys : a < q /\ q < x} \subseteq {q \in DOMAIN keys : a < q /\ q < y}
    <2>1. ASSUME NEW q \in DOMAIN keys, q < x PROVE q < y
      <3>1. q \in Nat
        BY OwnersPositive
      <3> QED BY <2>1, <3>1
    <2> QED BY <2>1
  <1>2. IsFiniteSet({q \in DOMAIN keys : a < q /\ q < y})
    BY BetweenFinite
  <1> QED BY <1>1, <1>2, FS_Subset

\* Paging skips no owner: one after the page's start is on the page, or the
\* page's end comes before it.
LEMMA Paging ==
  ASSUME DOMAIN keys \subseteq Owners, NEW after \in Nat
  PROVE  /\ NextAfter(after) \in Owners \cup {0}
         /\ \A o \in DOMAIN keys :
               o > after => o \in PageAfter(after) \/ (NextAfter(after) # 0 /\ o > NextAfter(after))
  <1>0. DOMAIN keys \subseteq Nat /\ 0 \notin DOMAIN keys /\ Page \in Nat /\ Page > 0
    <2>1. Page \in Nat /\ Page > 0
      BY VaultAssumption DEF VaultAssumption
    <2> QED BY <2>1, OwnersPositive
  <1>1. CASE ~ \E o \in DOMAIN keys : o > after /\ o \notin PageAfter(after)
    BY <1>1 DEF NextAfter
  <1>2. CASE \E o \in DOMAIN keys : o > after /\ o \notin PageAfter(after)
    <2>1. ASSUME NEW o \in DOMAIN keys, o > after, o \notin PageAfter(after),
                 NEW x \in PageAfter(after)
          PROVE  x < o
      <3>1. SUFFICES ASSUME o <= x PROVE FALSE
        BY <1>0, <2>1 DEF PageAfter
      <3>2. x \in DOMAIN keys /\ Cardinality({q \in DOMAIN keys : after < q /\ q < x}) < Page
        BY DEF PageAfter
      <3>3. ~ (Cardinality({q \in DOMAIN keys : after < q /\ q < o}) < Page)
        BY <2>1 DEF PageAfter
      <3>4. Cardinality({q \in DOMAIN keys : after < q /\ q < o}) \in Nat
            /\ Cardinality({q \in DOMAIN keys : after < q /\ q < x}) \in Nat
        BY <1>0, <3>2, BetweenFinite
      <3>5. Cardinality({q \in DOMAIN keys : after < q /\ q < o})
              <= Cardinality({q \in DOMAIN keys : after < q /\ q < x})
        BY <1>0, <3>1, <3>2, BetweenGrows
      <3> QED BY <1>0, <3>2, <3>3, <3>4, <3>5
    <2>2. PageAfter(after) # {}
      <3> DEFINE Later == {o \in DOMAIN keys : o > after}
      <3>1. PICK o \in Later : \A q \in Later : o <= q
        <4>1. Later \subseteq Nat /\ Later # {}
          BY <1>0, <1>2
        <4> QED BY <4>1, NatLeast
      <3>2. {q \in DOMAIN keys : after < q /\ q < o} = {}
        BY <1>0, <3>1
      <3>3. Cardinality({q \in DOMAIN keys : after < q /\ q < o}) = 0
        BY <3>2, FS_EmptySet
      <3> QED BY <1>0, <3>1, <3>3 DEF PageAfter
    <2>3. PICK b \in DOMAIN keys : b > after /\ b \notin PageAfter(after)
      BY <1>2
    <2>4. PageAfter(after) \subseteq Nat /\ PageAfter(after) \subseteq DOMAIN keys
      BY <1>0 DEF PageAfter
    <2>5. \E x \in PageAfter(after) : \A y \in PageAfter(after) : y <= x
      <3>1. b \in Nat /\ \A x \in PageAfter(after) : x <= b
        BY <1>0, <2>1, <2>3, <2>4
      <3> QED BY <2>2, <2>4, <3>1, NatGreatest
    <2>6. NextAfter(after) \in PageAfter(after)
      BY <1>2, <2>5 DEF NextAfter
    <2> QED BY <1>0, <2>1, <2>4, <2>6
  <1> QED BY <1>1, <1>2

\* What an operation holds, by the call it is about to make.
LEMMA LocalFields ==
  ASSUME NEW l, IsLocal(l)
  PROVE  /\ l.pc \in PutPcs => l.ref \in Ref /\ l.value \in Values /\ l.key \in KeyIDs
         /\ l.pc = "getSecret" => l.ref \in Ref /\ l.key \in Key
         /\ l.pc = "getAudit" => l.ref \in Ref /\ l.key \in Key /\ l.sealed \in Sealed
         /\ l.pc \in ChangePcs => l.owner \in Owners
         /\ l.pc \in {"dropKey", "dropList", "drop"} => l.retry \in 0..Retries
         /\ l.pc \in {"dropList", "drop", "rotateList", "rotate"} => l.key \in KeyIDs
         /\ l.pc = "rotate" => l.fresh \in KeyIDs
         /\ l.pc \in {"drop", "rotate"} => Partial(l.listed, Names, Sealed)
         /\ l.pc = "rewrapPage" => l.after \in Owners \cup {0}
         /\ l.pc \in KeyPcs => Partial(l.todo, Owners, Key) /\ l.next \in Owners \cup {0}
         /\ l.pc \in RewrapPcs => l.failed \subseteq Owners \cup {0}
  BY DEF IsLocal, Idle, PutPcs, ChangePcs, KeyPcs, RewrapPcs

\* A Put's locals are the record its next call reads.
LEMMA PutRecord ==
  ASSUME NEW l, IsLocal(l), l.pc \in PutPcs
  PROVE  l \in [pc : PutPcs, ref : Ref, value : Values, key : KeyIDs]
  BY DEF IsLocal, Idle, PutPcs

\* A function with one argument added or replaced, and with some removed.
LEMMA WithValue ==
  ASSUME NEW f, NEW x, NEW v
  PROVE  /\ DOMAIN With(f, x, v) = DOMAIN f \cup {x}
         /\ With(f, x, v)[x] = v
         /\ \A y \in DOMAIN f : y # x => With(f, x, v)[y] = f[y]
  BY DEF With

LEMMA WithoutValue ==
  ASSUME NEW f, NEW S
  PROVE  /\ DOMAIN Without(f, S) = DOMAIN f \ S
         /\ \A y \in DOMAIN f \ S : Without(f, S)[y] = f[y]
  BY DEF Without

LEMMA WithPartial ==
  ASSUME NEW D, NEW R, NEW f, Partial(f, D, R), NEW x \in D, NEW v \in R
  PROVE  Partial(With(f, x, v), D, R)
  BY DEF Partial, With

LEMMA WithoutPartial ==
  ASSUME NEW D, NEW R, NEW f, Partial(f, D, R), NEW S
  PROVE  Partial(Without(f, S), D, R)
  BY DEF Partial, Without

\* A listing holds sealed secrets.
LEMMA ListingPartial ==
  ASSUME TypeOK, NEW o \in Owners
  PROVE  Partial(Listing(o), Names, Sealed)
  BY DEF TypeOK, Partial, Listing, SecretsOf

-----------------------------------------------------------------------------
(* The store is well formed, no secret is an orphan. *)

\* A step that only moves operation p to well-formed locals.
LEMMA MoveTInv ==
  ASSUME TInv, NEW p \in Procs, NEW l, IsLocal(l), TodoHeld(l), Goto(p, l), Quiet,
         UNCHANGED <<keys, secrets, latest>>, minted' \subseteq KeyIDs, crossed' \subseteq Procs, torn' \subseteq Ref
  PROVE  TInv'
  <1>1. DOMAIN proc' = Procs /\ \A q \in Procs : proc'[q] = IF q = p THEN l ELSE proc[q]
    BY DEF Goto, TInv, TypeOK
  <1>2. audit' = {} /\ returned' = {}
    BY DEF Quiet, Logs
  <1>3. TypeOK'
    BY <1>1, <1>2 DEF TInv, TypeOK
  <1>4. NoOrphans' /\ ReadsAreRecorded'
    BY <1>2 DEF TInv, NoOrphans, ReadsAreRecorded, HasKey
  <1>5. \A q \in Procs : TodoHeld(proc'[q])
    BY <1>1 DEF TInv
  <1> QED BY <1>3, <1>4, <1>5 DEF TInv, TodoHeld

\* A step that changes the store to another well-formed one and lets the
\* operation p go on or end.
LEMMA StoreTInv ==
  ASSUME TInv, NEW p \in Procs, NEW l, IsLocal(l), TodoHeld(l), Goto(p, l),
         returned' = {}, audit' \subseteq Record,
         Partial(keys', Owners, Key), Partial(secrets', Ref, Sealed),
         Partial(latest', Ref, Nat \X Values),
         \A ref \in DOMAIN secrets' : ref[1] \in DOMAIN keys',
         UNCHANGED minted, crossed' \subseteq Procs, torn' \subseteq Ref
  PROVE  TInv'
  <1>1. DOMAIN proc' = Procs /\ \A q \in Procs : proc'[q] = IF q = p THEN l ELSE proc[q]
    BY DEF Goto, TInv, TypeOK
  <1>2. TypeOK'
    BY <1>1 DEF TInv, TypeOK
  <1>3. NoOrphans' /\ ReadsAreRecorded'
    BY DEF TInv, NoOrphans, ReadsAreRecorded, HasKey
  <1>4. \A q \in Procs : TodoHeld(proc'[q])
    BY <1>1 DEF TInv
  <1> QED BY <1>2, <1>3, <1>4 DEF TInv, TodoHeld

\* What no operation in flight holds.
LEMMA IdleLocal == IsLocal(Idle) /\ TodoHeld(Idle)
  BY DEF IsLocal, Idle, TodoHeld

\* What the invariant says of one operation and of the store.
LEMMA TFacts ==
  ASSUME TInv, NEW p \in Procs
  PROVE  /\ IsLocal(proc[p]) /\ TodoHeld(proc[p])
         /\ minted \subseteq KeyIDs /\ crossed \subseteq Procs /\ torn \subseteq Ref
         /\ \A o \in DOMAIN keys : o \in Owners /\ keys[o] \in Key /\ keys[o].id \in KeyIDs
         /\ \A ref \in DOMAIN secrets : ref \in Ref /\ secrets[ref] \in Sealed
  BY DEF TInv, TypeOK, Partial, Key

\* An operation starts, ends or breaks off.
LEMMA StartTInv ==
  ASSUME TInv, NEW p \in Procs
  PROVE  /\ \A ref \in Ref, v \in Values : PutStart(p, ref, v) => TInv'
         /\ \A ref \in Ref : GetStart(p, ref) => TInv'
         /\ \A o \in Owners : DropStart(p, o) \/ RotateStart(p, o) => TInv'
         /\ RewrapStart(p) \/ RewrapEnd(p) \/ Abort(p) => TInv'
  <1>0. /\ minted \subseteq KeyIDs /\ crossed \subseteq Procs /\ torn \subseteq Ref
        /\ \A o \in DOMAIN keys : keys[o] \in Key /\ keys[o].id \in KeyIDs
    BY TFacts
  <1>1. ASSUME NEW ref \in Ref, NEW v \in Values, PutStart(p, ref, v) PROVE TInv'
    <2>2. crossed' \subseteq Procs /\ torn' \subseteq Ref /\ Quiet /\ UNCHANGED <<keys, secrets, latest>>
      BY <1>0, <1>1 DEF PutStart
    <2>3. ASSUME NEW pc \in PutPcs, NEW k \in KeyIDs
          PROVE  /\ IsLocal([pc |-> pc, ref |-> ref, value |-> v, key |-> k])
                 /\ TodoHeld([pc |-> pc, ref |-> ref, value |-> v, key |-> k])
      BY DEF IsLocal, TodoHeld, PutPcs
    <2>4. CASE /\ HasKey(ref[1]) /\ UNCHANGED minted
               /\ Goto(p, [pc |-> "putStore", ref |-> ref, value |-> v, key |-> keys[ref[1]].id])
      <3>1. keys[ref[1]].id \in KeyIDs
        BY <1>0, <2>4 DEF HasKey
      <3>2. "putStore" \in PutPcs
        BY DEF PutPcs
      <3> QED BY <1>0, <2>2, <2>3, <2>4, <3>1, <3>2, MoveTInv
    <2>5. CASE \E k \in KeyIDs \ minted :
                 /\ Goto(p, [pc |-> "putCreate", ref |-> ref, value |-> v, key |-> k])
                 /\ minted' = minted \cup {k}
      <3>1. PICK k \in KeyIDs \ minted :
                 /\ Goto(p, [pc |-> "putCreate", ref |-> ref, value |-> v, key |-> k])
                 /\ minted' = minted \cup {k}
        BY <2>5
      <3>2. "putCreate" \in PutPcs
        BY DEF PutPcs
      <3>3. minted' \subseteq KeyIDs
        BY <1>0, <3>1
      <3> QED BY <2>2, <2>3, <3>1, <3>2, <3>3, MoveTInv
    <2> QED BY <1>1, <2>4, <2>5 DEF PutStart
  <1>2. ASSUME NEW ref \in Ref, GetStart(p, ref) PROVE TInv'
    <2> DEFINE l == [pc |-> "getSecret", ref |-> ref, key |-> keys[ref[1]]]
    <2>1. IsLocal(l) /\ TodoHeld(l)
      <3>1. keys[ref[1]] \in Key
        BY <1>0, <1>2 DEF GetStart, HasKey
      <3> QED BY <3>1 DEF IsLocal, TodoHeld
    <2> QED BY <1>0, <1>2, <2>1, MoveTInv DEF GetStart
  <1>3. ASSUME NEW o \in Owners, DropStart(p, o) PROVE TInv'
    <2> DEFINE l == [pc |-> "dropKey", owner |-> o, retry |-> 0]
    <2>1. IsLocal(l) /\ TodoHeld(l)
      BY VaultAssumption DEF VaultAssumption, IsLocal, TodoHeld
    <2> QED BY <1>0, <1>3, <2>1, MoveTInv DEF DropStart
  <1>4. ASSUME NEW o \in Owners, RotateStart(p, o) PROVE TInv'
    <2> DEFINE l == [pc |-> "rotateList", owner |-> o, key |-> keys[o].id]
    <2>1. IsLocal(l) /\ TodoHeld(l)
      <3>1. keys[o].id \in KeyIDs
        BY <1>0, <1>4 DEF RotateStart, HasKey
      <3> QED BY <3>1 DEF IsLocal, TodoHeld
    <2> QED BY <1>0, <1>4, <2>1, MoveTInv DEF RotateStart
  <1>5. ASSUME RewrapStart(p) PROVE TInv'
    <2> DEFINE l == [pc |-> "rewrapPage", after |-> 0, failed |-> {}]
    <2>1. IsLocal(l) /\ TodoHeld(l)
      BY DEF IsLocal, TodoHeld
    <2> QED BY <1>0, <1>5, <2>1, MoveTInv DEF RewrapStart
  <1>6. ASSUME RewrapEnd(p) \/ Abort(p) PROVE TInv'
    BY <1>0, <1>6, IdleLocal, MoveTInv DEF RewrapEnd, Abort
  <1> QED BY <1>1, <1>2, <1>3, <1>4, <1>5, <1>6

\* The records of the access log are well formed.
LEMMA RecordType ==
  /\ \A a \in {"owner_key_created", "owner_key_rewrapped", "owner_key_rotated", "owner_key_destroyed"},
        o \in Owners, k \in KeyIDs : KeyRecord(a, o, k) \in Record
  /\ \A a \in {"secret_put", "secret_read", "secret_deleted"}, ref \in Ref, s \in Sealed,
        out \in {"ok", "denied"} : SecretRecord(a, ref, s, out) \in Record
  <1>1. ASSUME NEW a \in {"owner_key_created", "owner_key_rewrapped", "owner_key_rotated",
                          "owner_key_destroyed"},
               NEW o \in Owners, NEW k \in KeyIDs
        PROVE  KeyRecord(a, o, k) \in Record
    BY DEF KeyRecord, Record
  <1>2. ASSUME NEW a \in {"secret_put", "secret_read", "secret_deleted"}, NEW ref \in Ref,
               NEW s \in Sealed, NEW out \in {"ok", "denied"}
        PROVE  SecretRecord(a, ref, s, out) \in Record
    <2>1. s.version \in Nat /\ s.key \in KeyIDs
      BY DEF Sealed
    <2> QED BY <2>1 DEF SecretRecord, Record
  <1> QED BY <1>1, <1>2

\* A Put goes on with its reference, value and key.
LEMMA PutMoves ==
  ASSUME TInv, NEW p \in Procs, proc[p].pc \in PutPcs, NEW pc \in PutPcs, NEW k \in KeyIDs
  PROVE  /\ IsLocal([proc[p] EXCEPT !.pc = pc]) /\ TodoHeld([proc[p] EXCEPT !.pc = pc])
         /\ IsLocal([proc[p] EXCEPT !.pc = pc, !.key = k])
         /\ TodoHeld([proc[p] EXCEPT !.pc = pc, !.key = k])
  <1>1. proc[p] \in [pc : PutPcs, ref : Ref, value : Values, key : KeyIDs]
    BY TFacts, PutRecord
  <1>2. /\ [proc[p] EXCEPT !.pc = pc] \in [pc : PutPcs, ref : Ref, value : Values, key : KeyIDs]
        /\ [proc[p] EXCEPT !.pc = pc, !.key = k]
             \in [pc : PutPcs, ref : Ref, value : Values, key : KeyIDs]
    BY <1>1
  <1> DEFINE c == [proc[p] EXCEPT !.pc = pc]
             d == [proc[p] EXCEPT !.pc = pc, !.key = k]
  <1>3. /\ c \in [pc : PutPcs, ref : Ref, value : Values, key : KeyIDs]
        /\ d \in [pc : PutPcs, ref : Ref, value : Values, key : KeyIDs]
    BY <1>2
  <1> HIDE DEF c, d
  <1>4. IsLocal(c) /\ TodoHeld(c) /\ IsLocal(d) /\ TodoHeld(d)
    BY <1>3 DEF IsLocal, TodoHeld, PutPcs
  <1> QED BY <1>4 DEF c, d

\* The steps of a Put.
LEMMA PutTInv ==
  ASSUME TInv, NEW p \in Procs, PutCreate(p) \/ PutReread(p) \/ PutStore(p)
  PROVE  TInv'
  <1>0. /\ IsLocal(proc[p]) /\ minted \subseteq KeyIDs /\ crossed \subseteq Procs /\ torn \subseteq Ref
        /\ \A o \in DOMAIN keys : keys[o] \in Key /\ keys[o].id \in KeyIDs
        /\ \A ref \in DOMAIN secrets : ref \in Ref /\ secrets[ref] \in Sealed
    BY TFacts
  <1>1. /\ proc[p].pc \in PutPcs
        /\ proc[p].ref \in Ref /\ proc[p].value \in Values /\ proc[p].key \in KeyIDs
        /\ proc[p].ref[1] \in Owners
    <2>1. proc[p].pc \in PutPcs
      BY DEF PutCreate, PutReread, PutStore, PutPcs
    <2>2. proc[p].ref \in Ref /\ proc[p].value \in Values /\ proc[p].key \in KeyIDs
      BY <1>0, <2>1, LocalFields
    <2> QED BY <2>1, <2>2 DEF Ref
  <1>2. "putReread" \in PutPcs /\ "putStore" \in PutPcs
    BY DEF PutPcs
  <1>3. CASE PutCreate(p)
    <2>1. CASE HasKey(proc[p].ref[1])
      <3>1. /\ Goto(p, [proc[p] EXCEPT !.pc = "putReread"]) /\ Quiet
            /\ UNCHANGED <<keys, secrets, minted, latest, crossed, torn>>
        BY <1>3, <2>1 DEF PutCreate
      <3> QED BY <1>0, <1>1, <1>2, <3>1, PutMoves, MoveTInv
    <2>2. CASE ~ HasKey(proc[p].ref[1])
      <3> DEFINE k == [id |-> proc[p].key, master |-> Active]
                 l == [proc[p] EXCEPT !.pc = "putStore"]
      <3>1. /\ Goto(p, l) /\ keys' = With(keys, proc[p].ref[1], k)
            /\ Logs({KeyRecord("owner_key_created", proc[p].ref[1], proc[p].key)})
            /\ UNCHANGED <<secrets, minted, latest, crossed, torn>>
        BY <1>3, <2>2 DEF PutCreate
      <3>2. IsLocal(l) /\ TodoHeld(l)
        BY <1>1, <1>2, PutMoves
      <3>3. k \in Key
        BY <1>1, VaultAssumption DEF VaultAssumption, Key
      <3> HIDE DEF k, l
      <3>4. Partial(keys', Owners, Key) /\ DOMAIN keys \subseteq DOMAIN keys'
        <4>1. Partial(keys, Owners, Key)
          BY DEF TInv, TypeOK
        <4>2. Partial(With(keys, proc[p].ref[1], k), Owners, Key)
          BY <1>1, <3>3, <4>1, WithPartial
        <4>3. DOMAIN keys \subseteq DOMAIN keys'
          BY <3>1 DEF With
        <4> QED BY <3>1, <4>2, <4>3
      <3>5. audit' \subseteq Record /\ returned' = {}
        BY <1>1, <3>1, RecordType DEF Logs
      <3>6. /\ Partial(secrets', Ref, Sealed) /\ Partial(latest', Ref, Nat \X Values)
            /\ \A ref \in DOMAIN secrets' : ref[1] \in DOMAIN keys'
        BY <3>1, <3>4 DEF TInv, TypeOK, NoOrphans, HasKey
      <3> QED BY <1>0, <3>1, <3>2, <3>4, <3>5, <3>6, StoreTInv
    <2> QED BY <2>1, <2>2
  <1>4. CASE PutReread(p)
    <2>1. /\ Quiet /\ UNCHANGED <<keys, secrets, minted, latest, crossed, torn>>
      BY <1>4 DEF PutReread
    <2>2. CASE HasKey(proc[p].ref[1]) /\ Unwraps(keys[proc[p].ref[1]])
      <3>1. Goto(p, [proc[p] EXCEPT !.pc = "putStore", !.key = keys[proc[p].ref[1]].id])
        BY <1>4, <2>2 DEF PutReread
      <3>2. keys[proc[p].ref[1]].id \in KeyIDs
        BY <1>0, <2>2 DEF HasKey
      <3>3. /\ IsLocal([proc[p] EXCEPT !.pc = "putStore", !.key = keys[proc[p].ref[1]].id])
            /\ TodoHeld([proc[p] EXCEPT !.pc = "putStore", !.key = keys[proc[p].ref[1]].id])
        BY <1>1, <1>2, <3>2, PutMoves
      <3> QED BY <1>0, <2>1, <3>1, <3>3, MoveTInv
    <2>3. CASE ~ (HasKey(proc[p].ref[1]) /\ Unwraps(keys[proc[p].ref[1]]))
      <3>1. Goto(p, Idle)
        BY <1>4, <2>3 DEF PutReread
      <3> QED BY <1>0, <2>1, <3>1, IdleLocal, MoveTInv
    <2> QED BY <2>2, <2>3
  <1>5. CASE PutStore(p)
    <2> DEFINE ref == proc[p].ref
               sealed == [version |-> IF ref \in DOMAIN secrets THEN secrets[ref].version + 1 ELSE 1,
                          key |-> proc[p].key, value |-> proc[p].value]
    <2>1. Goto(p, Idle) /\ UNCHANGED <<keys, minted>> /\ crossed' \subseteq Procs /\ torn' \subseteq Ref
      BY <1>0, <1>1, <1>5 DEF PutStore
    <2>2. CASE mayPut(ref[1])
      <3>1. /\ secrets' = With(secrets, ref, sealed)
            /\ latest' = With(latest, ref, <<sealed.version, sealed.value>>)
            /\ Logs({SecretRecord("secret_put", ref, sealed, "ok")})
        BY <1>5, <2>2 DEF PutStore
      <3>2. sealed \in Sealed /\ <<sealed.version, sealed.value>> \in Nat \X Values
        <4>1. ref \in DOMAIN secrets => secrets[ref].version \in Nat
          BY <1>0 DEF Sealed
        <4> QED BY <1>1, <4>1 DEF Sealed
      <3>3. ref \in Ref /\ ref[1] \in DOMAIN keys
        BY <1>1, <2>2 DEF mayPut, HasKey
      <3> HIDE DEF sealed, ref
      <3>4. /\ Partial(keys', Owners, Key) /\ Partial(secrets', Ref, Sealed)
            /\ Partial(latest', Ref, Nat \X Values)
        <4>1. /\ Partial(keys, Owners, Key) /\ Partial(secrets, Ref, Sealed)
              /\ Partial(latest, Ref, Nat \X Values)
          BY DEF TInv, TypeOK
        <4>2. Partial(With(secrets, ref, sealed), Ref, Sealed)
          BY <3>2, <3>3, <4>1, WithPartial
        <4>3. Partial(With(latest, ref, <<sealed.version, sealed.value>>), Ref, Nat \X Values)
          BY <3>2, <3>3, <4>1, WithPartial
        <4> QED BY <2>1, <3>1, <4>1, <4>2, <4>3
      <3>5. \A r \in DOMAIN secrets' : r[1] \in DOMAIN keys'
        <4>1. DOMAIN secrets' = DOMAIN secrets \cup {ref}
          BY <3>1, WithValue
        <4> QED BY <2>1, <3>3, <4>1 DEF TInv, NoOrphans, HasKey
      <3>6. audit' \subseteq Record /\ returned' = {}
        BY <3>1, <3>2, <3>3, RecordType DEF Logs
      <3> QED BY <2>1, <3>4, <3>5, <3>6, IdleLocal, StoreTInv
    <2>3. CASE ~ mayPut(ref[1])
      <3>1. UNCHANGED <<secrets, latest>> /\ Quiet
        BY <1>5, <2>3 DEF PutStore
      <3> QED BY <1>0, <2>1, <3>1, IdleLocal, MoveTInv
    <2> QED BY <2>2, <2>3
  <1> QED BY <1>3, <1>4, <1>5

\* The steps of a Get, and Delete.
LEMMA GetTInv ==
  ASSUME TInv, NEW p \in Procs, GetSecret(p) \/ GetAudit(p)
  PROVE  TInv'
  <1>0. /\ IsLocal(proc[p]) /\ minted \subseteq KeyIDs /\ crossed \subseteq Procs /\ torn \subseteq Ref
        /\ \A ref \in DOMAIN secrets : ref \in Ref /\ secrets[ref] \in Sealed
    BY TFacts
  <1>1. CASE GetSecret(p)
    <2>1. proc[p].ref \in Ref /\ proc[p].key \in Key
      BY <1>0, <1>1, LocalFields DEF GetSecret
    <2>2. /\ Quiet /\ UNCHANGED <<keys, secrets, minted, latest, crossed, torn>>
      BY <1>1 DEF GetSecret
    <2>3. CASE proc[p].ref \in DOMAIN secrets
      <3> DEFINE l == [pc |-> "getAudit", ref |-> proc[p].ref, key |-> proc[p].key,
                       sealed |-> secrets[proc[p].ref]]
      <3>1. Goto(p, l)
        BY <1>1, <2>3 DEF GetSecret
      <3>2. IsLocal(l) /\ TodoHeld(l)
        BY <1>0, <2>1, <2>3 DEF IsLocal, TodoHeld
      <3> QED BY <1>0, <2>2, <3>1, <3>2, MoveTInv
    <2>4. CASE proc[p].ref \notin DOMAIN secrets
      <3>1. Goto(p, Idle)
        BY <1>1, <2>4 DEF GetSecret
      <3> QED BY <1>0, <2>2, <3>1, IdleLocal, MoveTInv
    <2> QED BY <2>3, <2>4
  <1>2. CASE GetAudit(p)
    <2>1. proc[p].ref \in Ref /\ proc[p].sealed \in Sealed
      BY <1>0, <1>2, LocalFields DEF GetAudit
    <2>2. /\ DOMAIN proc' = Procs /\ \A q \in Procs : proc'[q] = IF q = p THEN Idle ELSE proc[q]
      BY <1>2 DEF GetAudit, Goto, TInv, TypeOK
    <2>3. UNCHANGED <<keys, secrets, minted, latest, crossed, torn>>
      BY <1>2 DEF GetAudit
    <2>4. audit' \subseteq Record
      BY <1>2, <2>1, RecordType DEF GetAudit
    <2>5. returned' \subseteq [ref : Ref, sealed : Sealed] /\ ReadsAreRecorded'
      <3>1. CASE denied(p)
        BY <1>2, <3>1 DEF GetAudit, ReadsAreRecorded
      <3>2. CASE ~ denied(p)
        <4>1. /\ returned' = {[ref |-> proc[p].ref, sealed |-> proc[p].sealed]}
              /\ audit' = {SecretRecord("secret_read", proc[p].ref, proc[p].sealed, "ok")}
          BY <1>2, <3>2 DEF GetAudit
        <4> QED BY <2>1, <4>1 DEF ReadsAreRecorded
      <3> QED BY <3>1, <3>2
    <2>6. TypeOK'
      BY <2>2, <2>3, <2>4, <2>5, IdleLocal DEF TInv, TypeOK
    <2>7. NoOrphans'
      BY <2>3 DEF TInv, NoOrphans, HasKey
    <2>8. \A q \in Procs : TodoHeld(proc'[q])
      BY <2>2, IdleLocal DEF TInv
    <2> QED BY <2>5, <2>6, <2>7, <2>8 DEF TInv, TodoHeld
  <1> QED BY <1>1, <1>2

LEMMA DeleteTInv ==
  ASSUME TInv, NEW ref \in Ref, Delete(ref)
  PROVE  TInv'
  <1>1. /\ secrets' = Without(secrets, {ref}) /\ latest' = Without(latest, {ref})
        /\ audit' = {SecretRecord("secret_deleted", ref, secrets[ref], "ok")} /\ returned' = {}
        /\ torn' = torn \ {ref} /\ UNCHANGED <<keys, minted, proc, crossed>> /\ ref \in DOMAIN secrets
    BY DEF Delete, Logs
  <1>2. Partial(secrets, Ref, Sealed) /\ Partial(latest, Ref, Nat \X Values)
    BY DEF TInv, TypeOK
  <1>3. Partial(secrets', Ref, Sealed)
    BY <1>1, <1>2, WithoutPartial
  <1>4. Partial(latest', Ref, Nat \X Values)
    BY <1>1, <1>2, WithoutPartial
  <1>5. audit' \subseteq Record
    <2>1. secrets[ref] \in Sealed
      BY <1>1, <1>2 DEF Partial
    <2> QED BY <1>1, <2>1, RecordType
  <1>6. TypeOK'
    BY <1>1, <1>3, <1>4, <1>5 DEF TInv, TypeOK
  <1>7. NoOrphans' /\ ReadsAreRecorded'
    <2>1. DOMAIN secrets' \subseteq DOMAIN secrets
      BY <1>1 DEF Without
    <2> QED BY <1>1, <2>1 DEF TInv, NoOrphans, ReadsAreRecorded, HasKey
  <1> QED BY <1>1, <1>6, <1>7 DEF TInv, TodoHeld

\* The steps of DeleteOwner.
LEMMA DropTInv ==
  ASSUME TInv, NEW p \in Procs, DropKey(p) \/ DropList(p) \/ Drop(p)
  PROVE  TInv'
  <1>0. /\ IsLocal(proc[p]) /\ minted \subseteq KeyIDs /\ crossed \subseteq Procs /\ torn \subseteq Ref
        /\ \A o \in DOMAIN keys : keys[o] \in Key /\ keys[o].id \in KeyIDs
        /\ \A ref \in DOMAIN secrets : ref \in Ref /\ secrets[ref] \in Sealed
    BY TFacts
  <1>1. proc[p].owner \in Owners /\ proc[p].retry \in 0..Retries
    <2>1. proc[p].pc \in {"dropKey", "dropList", "drop"}
      BY DEF DropKey, DropList, Drop
    <2>2. proc[p].pc \in ChangePcs
      BY <2>1 DEF ChangePcs
    <2> QED BY <1>0, <2>1, <2>2, LocalFields
  <1>2. CASE DropKey(p)
    <2>1. /\ Quiet /\ UNCHANGED <<keys, secrets, minted, latest, crossed, torn>>
      BY <1>2 DEF DropKey
    <2>2. CASE HasKey(proc[p].owner)
      <3> DEFINE l == [pc |-> "dropList", owner |-> proc[p].owner, retry |-> proc[p].retry,
                       key |-> keys[proc[p].owner].id]
      <3>1. Goto(p, l)
        BY <1>2, <2>2 DEF DropKey
      <3>2. IsLocal(l) /\ TodoHeld(l)
        <4>1. keys[proc[p].owner].id \in KeyIDs
          BY <1>0, <2>2 DEF HasKey
        <4> QED BY <1>1, <4>1 DEF IsLocal, TodoHeld
      <3> QED BY <1>0, <2>1, <3>1, <3>2, MoveTInv
    <2>3. CASE ~ HasKey(proc[p].owner)
      <3>1. Goto(p, Idle)
        BY <1>2, <2>3 DEF DropKey
      <3> QED BY <1>0, <2>1, <3>1, IdleLocal, MoveTInv
    <2> QED BY <2>2, <2>3
  <1>3. CASE DropList(p)
    <2> DEFINE l == [pc |-> "drop", owner |-> proc[p].owner, retry |-> proc[p].retry,
                     key |-> proc[p].key, listed |-> Listing(proc[p].owner)]
    <2>1. Goto(p, l) /\ Quiet /\ UNCHANGED <<keys, secrets, minted, latest, crossed, torn>>
      BY <1>3 DEF DropList
    <2>2. IsLocal(l) /\ TodoHeld(l)
      <3>1. proc[p].key \in KeyIDs
        BY <1>0, <1>3, LocalFields DEF DropList
      <3>2. Partial(Listing(proc[p].owner), Names, Sealed)
        BY <1>1, ListingPartial DEF TInv
      <3> QED BY <1>1, <3>1, <3>2 DEF IsLocal, TodoHeld
    <2> QED BY <1>0, <2>1, <2>2, MoveTInv
  <1>4. CASE Drop(p)
    <2> DEFINE o == proc[p].owner
               listed == proc[p].listed
    <2>1. /\ UNCHANGED minted /\ proc[p].key \in KeyIDs
          /\ crossed' \subseteq Procs /\ torn' \subseteq Ref
      BY <1>0, <1>4, LocalFields DEF Drop, Loaded
    <2>2. CASE HasKey(o) /\ DOMAIN listed = SecretsOf(o)
      <3> DEFINE all == RefsOf(o)
      <3>1. /\ secrets' = Without(secrets, all) /\ latest' = Without(latest, all)
            /\ keys' = Without(keys, {o}) /\ Goto(p, Idle)
            /\ audit' = stampedRecords(o, listed) \cup {KeyRecord("owner_key_destroyed", o, proc[p].key)}
            /\ returned' = {}
        BY <1>4, <2>2 DEF Drop, Logs
      <3>2. Partial(keys', Owners, Key)
        BY <3>1, WithoutPartial DEF TInv, TypeOK
      <3>3. Partial(secrets', Ref, Sealed)
        BY <3>1, WithoutPartial DEF TInv, TypeOK
      <3>4. Partial(latest', Ref, Nat \X Values)
        BY <3>1, WithoutPartial DEF TInv, TypeOK
      <3>5. audit' \subseteq Record
        <4>1. ASSUME NEW n \in DOMAIN listed
              PROVE  SecretRecord("secret_deleted", <<o, n>>, secrets[<<o, n>>], "ok") \in Record
          <5>1. <<o, n>> \in Ref /\ secrets[<<o, n>>] \in Sealed
            BY <1>0, <2>2 DEF SecretsOf
          <5> QED BY <5>1, RecordType
        <4>2. KeyRecord("owner_key_destroyed", o, proc[p].key) \in Record
          BY <1>1, <2>1, RecordType
        <4> QED BY <3>1, <4>1, <4>2 DEF stampedRecords
      <3>6. ASSUME NEW ref \in DOMAIN secrets' PROVE ref[1] \in DOMAIN keys'
        <4>1. ref \in DOMAIN secrets /\ ref \notin all
          BY <3>1 DEF Without
        <4>2. ref \in Ref /\ ref[1] \in DOMAIN keys
          BY <1>0, <4>1 DEF TInv, NoOrphans, HasKey
        <4>3. ref[1] # o
          BY <4>1, <4>2 DEF Ref, RefsOf
        <4> QED BY <3>1, <4>2, <4>3 DEF Without
      <3> QED BY <2>1, <3>1, <3>2, <3>3, <3>4, <3>5, <3>6, IdleLocal, StoreTInv
    <2>3. CASE HasKey(o) /\ DOMAIN listed # SecretsOf(o)
      <3>1. /\ Goto(p, Again(proc[p])) /\ Quiet /\ UNCHANGED <<keys, secrets, latest>>
        BY <1>4, <2>3 DEF Drop
      <3>2. IsLocal(Again(proc[p])) /\ TodoHeld(Again(proc[p]))
        <4>1. CASE proc[p].retry = Retries
          BY <4>1, IdleLocal DEF Again
        <4>2. CASE proc[p].retry # Retries
          <5> DEFINE l == [pc |-> "dropKey", owner |-> o, retry |-> proc[p].retry + 1]
          <5>1. Again(proc[p]) = l
            BY <4>2 DEF Again
          <5>2. proc[p].retry + 1 \in 0..Retries
            BY <1>1, <4>2, VaultAssumption DEF VaultAssumption
          <5>3. IsLocal(l) /\ TodoHeld(l)
            BY <1>1, <5>2 DEF IsLocal, TodoHeld
          <5> QED BY <5>1, <5>3
        <4> QED BY <4>1, <4>2
      <3> QED BY <1>0, <2>1, <3>1, <3>2, MoveTInv
    <2>4. CASE ~ HasKey(o)
      <3>1. /\ Goto(p, Idle) /\ Quiet /\ UNCHANGED <<keys, secrets, latest>>
        BY <1>4, <2>4 DEF Drop
      <3> QED BY <1>0, <2>1, <3>1, IdleLocal, MoveTInv
    <2> QED BY <2>2, <2>3, <2>4
  <1> QED BY <1>2, <1>3, <1>4

\* The steps of RotateOwnerKey: the listed secrets are still there.
LEMMA RotateTInv ==
  ASSUME TInv, NEW p \in Procs, RotateList(p) \/ Rotate(p)
  PROVE  TInv'
  <1>0. /\ IsLocal(proc[p]) /\ minted \subseteq KeyIDs /\ crossed \subseteq Procs /\ torn \subseteq Ref
        /\ \A ref \in DOMAIN secrets : ref \in Ref /\ secrets[ref] \in Sealed
    BY TFacts
  <1>1. proc[p].owner \in Owners /\ proc[p].key \in KeyIDs
    <2>1. proc[p].pc \in {"rotateList", "rotate"}
      BY DEF RotateList, Rotate
    <2> QED BY <1>0, <2>1, LocalFields DEF ChangePcs
  <1>2. CASE RotateList(p)
    <2> DEFINE o == proc[p].owner
    <2>1. /\ Quiet /\ UNCHANGED <<keys, secrets, latest, crossed, torn>>
      BY <1>2 DEF RotateList
    <2>2. CASE \E k \in KeyIDs \ minted :
                 /\ Goto(p, [pc |-> "rotate", owner |-> o, key |-> proc[p].key, fresh |-> k,
                             listed |-> Listing(o)])
                 /\ minted' = minted \cup {k}
      <3>1. PICK k \in KeyIDs \ minted :
                 /\ Goto(p, [pc |-> "rotate", owner |-> o, key |-> proc[p].key, fresh |-> k,
                             listed |-> Listing(o)])
                 /\ minted' = minted \cup {k}
        BY <2>2
      <3> DEFINE l == [pc |-> "rotate", owner |-> o, key |-> proc[p].key, fresh |-> k,
                       listed |-> Listing(o)]
      <3>2. IsLocal(l) /\ TodoHeld(l)
        <4>1. Partial(Listing(o), Names, Sealed)
          BY <1>1, ListingPartial DEF TInv
        <4> QED BY <1>1, <3>1, <4>1 DEF IsLocal, TodoHeld
      <3>3. minted' \subseteq KeyIDs
        BY <1>0, <3>1
      <3> QED BY <1>0, <2>1, <3>1, <3>2, <3>3, MoveTInv
    <2>3. CASE Goto(p, Idle) /\ UNCHANGED minted
      BY <1>0, <2>1, <2>3, IdleLocal, MoveTInv
    <2> QED BY <1>2, <2>2, <2>3 DEF RotateList
  <1>3. CASE Rotate(p)
    <2> DEFINE o == proc[p].owner
               listed == proc[p].listed
               fresh == proc[p].fresh
    <2>1. /\ Goto(p, Idle) /\ UNCHANGED <<minted, latest>>
          /\ crossed' \subseteq Procs /\ torn' \subseteq Ref
      <3>1. Loaded(o) \subseteq Procs /\ WrittenSince(o, listed) \subseteq Ref
        <4>1. ASSUME NEW r \in WrittenSince(o, listed) PROVE r \in Ref
          <5>1. PICK n \in SecretsOf(o) : r = <<o, n>>
            BY DEF WrittenSince
          <5> QED BY <1>1, <5>1 DEF SecretsOf, Ref
        <4> QED BY <4>1 DEF Loaded
      <3> QED BY <1>0, <1>3, <3>1 DEF Rotate
    <2>2. fresh \in KeyIDs /\ Partial(listed, Names, Sealed)
      BY <1>0, <1>3, LocalFields DEF Rotate
    <2>3. CASE mayReplace(o, proc[p].key, DOMAIN listed)
      <3>1. /\ keys' = With(keys, o, [id |-> fresh, master |-> Active])
            /\ secrets' = Resealed(o, listed, fresh)
            /\ audit' = {KeyRecord("owner_key_rotated", o, fresh)} /\ returned' = {}
        BY <1>3, <2>3 DEF Rotate, Logs
      <3>2. Partial(keys', Owners, Key)
        <4>1. [id |-> fresh, master |-> Active] \in Key
          BY <2>2, VaultAssumption DEF VaultAssumption, Key
        <4>2. Partial(keys, Owners, Key)
          BY DEF TInv, TypeOK
        <4> QED BY <1>1, <3>1, <4>1, <4>2, WithPartial
      <3>3. DOMAIN secrets' = DOMAIN secrets
        BY <2>3, <3>1 DEF Resealed, mayReplace
      <3>4. ASSUME NEW ref \in DOMAIN secrets PROVE secrets'[ref] \in Sealed
        <4>1. ref \in Ref /\ secrets[ref] \in Sealed /\ secrets[ref].version \in Nat
          BY <1>0 DEF Sealed
        <4>2. CASE ref \notin {<<o, n>> : n \in DOMAIN listed}
          BY <3>1, <3>3, <4>1, <4>2 DEF Resealed
        <4>3. CASE ref \in {<<o, n>> : n \in DOMAIN listed}
          <5>1. PICK n \in DOMAIN listed : ref = <<o, n>>
            BY <4>3
          <5>2. listed[n] \in Sealed /\ listed[n].value \in Values /\ ref[2] = n
            BY <2>2, <5>1 DEF Partial, Sealed
          <5>3. secrets'[ref] = [version |-> secrets[ref].version, key |-> fresh,
                                 value |-> listed[n].value]
            BY <3>1, <4>3, <5>2 DEF Resealed
          <5> QED BY <2>2, <4>1, <5>2, <5>3 DEF Sealed
        <4> QED BY <4>2, <4>3
      <3>5. Partial(secrets', Ref, Sealed)
        BY <1>0, <3>3, <3>4 DEF Partial
      <3>6. Partial(latest', Ref, Nat \X Values)
        BY <2>1 DEF TInv, TypeOK
      <3>7. \A ref \in DOMAIN secrets' : ref[1] \in DOMAIN keys'
        <4>1. DOMAIN keys \subseteq DOMAIN keys'
          BY <3>1 DEF With
        <4> QED BY <3>3, <4>1 DEF TInv, NoOrphans, HasKey
      <3>8. audit' \subseteq Record
        BY <1>1, <2>2, <3>1, RecordType
      <3> QED BY <2>1, <3>1, <3>2, <3>5, <3>6, <3>7, <3>8, IdleLocal, StoreTInv
    <2>4. CASE ~ mayReplace(o, proc[p].key, DOMAIN listed)
      <3>1. UNCHANGED <<keys, secrets>> /\ Quiet
        BY <1>3, <2>4 DEF Rotate
      <3> QED BY <1>0, <2>1, <3>1, IdleLocal, MoveTInv
    <2> QED BY <2>3, <2>4
  <1> QED BY <1>2, <1>3

\* What a rewrap between two of its calls holds, whatever it has done or failed.
LEMMA RewrapLocal ==
  ASSUME NEW pc \in KeyPcs, NEW todo, NEW next, NEW failed,
         Partial(todo, Owners, Key), next \in Owners \cup {0}, failed \subseteq Owners \cup {0},
         pc \in {"rewrapRetry", "rewrapAgain"} => DOMAIN todo # {}
  PROVE  /\ IsLocal([pc |-> pc, todo |-> todo, next |-> next, failed |-> failed])
         /\ TodoHeld([pc |-> pc, todo |-> todo, next |-> next, failed |-> failed])
  BY DEF IsLocal, TodoHeld, KeyPcs

LEMMA RewrapFields ==
  ASSUME TInv, NEW p \in Procs, proc[p].pc \in KeyPcs
  PROVE  /\ Partial(proc[p].todo, Owners, Key) /\ proc[p].next \in Owners \cup {0}
         /\ proc[p].failed \subseteq Owners \cup {0}
         /\ DOMAIN proc[p].todo # {} =>
               /\ First(proc[p].todo) \in DOMAIN proc[p].todo
               /\ First(proc[p].todo) \in Owners
               /\ proc[p].todo[First(proc[p].todo)] \in Key
  <1>1. /\ Partial(proc[p].todo, Owners, Key) /\ proc[p].next \in Owners \cup {0}
        /\ proc[p].failed \subseteq Owners \cup {0}
    BY TFacts, LocalFields DEF RewrapPcs
  <1>2. ASSUME DOMAIN proc[p].todo # {}
        PROVE  /\ First(proc[p].todo) \in DOMAIN proc[p].todo
               /\ First(proc[p].todo) \in Owners
               /\ proc[p].todo[First(proc[p].todo)] \in Key
    BY <1>1, <1>2, FirstIn DEF Partial
  <1> QED BY <1>1, <1>2

\* The rewrap goes on to the next key.
LEMMA OnwardTInv ==
  ASSUME TInv, NEW p \in Procs, proc[p].pc \in KeyPcs, NEW failed,
         failed \subseteq Owners \cup {0}, Onward(p, failed),
         UNCHANGED <<keys, secrets, minted, latest, crossed, torn>>, Quiet
  PROVE  TInv'
  <1> DEFINE todo == Without(proc[p].todo, {First(proc[p].todo)})
             l == [pc |-> "rewrapKey", todo |-> todo, next |-> proc[p].next, failed |-> failed]
  <1>1. Goto(p, l)
    BY DEF Onward, Rewrapping
  <1>2. Partial(todo, Owners, Key) /\ proc[p].next \in Owners \cup {0}
    BY RewrapFields, WithoutPartial
  <1> HIDE DEF todo
  <1>3. IsLocal(l) /\ TodoHeld(l)
    BY <1>2, RewrapLocal DEF KeyPcs
  <1> QED BY <1>1, <1>3, TFacts, MoveTInv

\* A key is stored under the active master key.
LEMMA RewrapStoreTInv ==
  ASSUME TInv, NEW p \in Procs, proc[p].pc \in KeyPcs, DOMAIN proc[p].todo # {},
         keys' = With(keys, First(proc[p].todo), [proc[p].todo[First(proc[p].todo)] EXCEPT !.master = Active]),
         Logs({KeyRecord("owner_key_rewrapped", First(proc[p].todo), proc[p].todo[First(proc[p].todo)].id)}),
         Onward(p, proc[p].failed), UNCHANGED <<secrets, minted, latest, crossed, torn>>
  PROVE  TInv'
  <1> DEFINE o == First(proc[p].todo)
             key == proc[p].todo[First(proc[p].todo)]
             todo == Without(proc[p].todo, {First(proc[p].todo)})
             l == [pc |-> "rewrapKey", todo |-> todo, next |-> proc[p].next, failed |-> proc[p].failed]
  <1>1. Goto(p, l)
    BY DEF Onward, Rewrapping
  <1>2. /\ Partial(todo, Owners, Key) /\ proc[p].next \in Owners \cup {0}
        /\ proc[p].failed \subseteq Owners \cup {0}
    BY RewrapFields, WithoutPartial
  <1>3. o \in Owners /\ key \in Key
    BY RewrapFields
  <1> HIDE DEF todo, o, key
  <1>4. IsLocal(l) /\ TodoHeld(l)
    BY <1>2, RewrapLocal DEF KeyPcs
  <1>5. [key EXCEPT !.master = Active] \in Key /\ key.id \in KeyIDs
    BY <1>3, VaultAssumption DEF VaultAssumption, Key
  <1>6. keys' = With(keys, o, [key EXCEPT !.master = Active])
        /\ audit' = {KeyRecord("owner_key_rewrapped", o, key.id)} /\ returned' = {}
    BY DEF Logs, o, key
  <1>7. Partial(keys', Owners, Key)
    <2>1. Partial(keys, Owners, Key)
      BY DEF TInv, TypeOK
    <2> QED BY <1>3, <1>5, <1>6, <2>1, WithPartial
  <1>8. \A ref \in DOMAIN secrets' : ref[1] \in DOMAIN keys'
    <2>1. DOMAIN keys \subseteq DOMAIN keys'
      BY <1>6 DEF With
    <2> QED BY <2>1 DEF TInv, NoOrphans, HasKey
  <1>9. audit' \subseteq Record
    BY <1>3, <1>5, <1>6, RecordType
  <1>10. Partial(secrets', Ref, Sealed) /\ Partial(latest', Ref, Nat \X Values)
    BY DEF TInv, TypeOK
  <1>11. crossed' \subseteq Procs /\ torn' \subseteq Ref
    BY TFacts
  <1> HIDE DEF l
  <1> QED BY <1>1, <1>4, <1>6, <1>7, <1>8, <1>9, <1>10, <1>11, StoreTInv

\* The steps of RewrapOwnerKeys.
LEMMA RewrapTInv ==
  ASSUME TInv, NEW p \in Procs, RewrapPage(p) \/ RewrapKey(p) \/ RewrapRetry(p) \/ RewrapAgain(p)
  PROVE  TInv'
  <1>0. /\ IsLocal(proc[p]) /\ TodoHeld(proc[p]) /\ minted \subseteq KeyIDs /\ crossed \subseteq Procs /\ torn \subseteq Ref
        /\ \A o \in DOMAIN keys : o \in Owners /\ keys[o] \in Key
    BY TFacts
  <1>1. CASE RewrapPage(p)
    <2> DEFINE todo == [o \in PageAfter(proc[p].after) |-> keys[o]]
               l == [pc |-> "rewrapKey", todo |-> todo, next |-> NextAfter(proc[p].after),
                     failed |-> proc[p].failed]
    <2>1. Goto(p, l) /\ Quiet /\ UNCHANGED <<keys, secrets, minted, latest, crossed, torn>>
      BY <1>1 DEF RewrapPage
    <2>2. proc[p].after \in Owners \cup {0} /\ proc[p].failed \subseteq Owners \cup {0}
      BY <1>0, <1>1, LocalFields DEF RewrapPage, RewrapPcs
    <2>3. Partial(todo, Owners, Key)
      BY <1>0 DEF Partial, PageAfter
    <2>4. NextAfter(proc[p].after) \in Owners \cup {0}
      <3>1. proc[p].after \in Nat
        BY <2>2, OwnersPositive
      <3> QED BY <1>0, <3>1, Paging
    <2> HIDE DEF todo
    <2>5. IsLocal(l) /\ TodoHeld(l)
      BY <2>2, <2>3, <2>4, RewrapLocal DEF KeyPcs
    <2> QED BY <1>0, <2>1, <2>5, MoveTInv
  <1>2. ASSUME proc[p].pc \in KeyPcs, NEW o, o = First(proc[p].todo), DOMAIN proc[p].todo # {},
               NEW conflict \in BOOLEAN, conflict /\ UNCHANGED keys /\ Quiet => TInv',
               Rewrap(p, conflict), UNCHANGED <<secrets, minted, latest, crossed, torn>>
        PROVE  TInv'
    <2>1. proc[p].failed \subseteq Owners \cup {0} /\ proc[p].failed \cup {o} \subseteq Owners \cup {0}
      BY <1>2, RewrapFields
    <2>2. CASE /\ keys' = With(keys, o, [proc[p].todo[o] EXCEPT !.master = Active])
               /\ Logs({KeyRecord("owner_key_rewrapped", o, proc[p].todo[o].id)})
               /\ Onward(p, proc[p].failed)
      BY <1>2, <2>2, RewrapStoreTInv
    <2>3. CASE Onward(p, proc[p].failed \cup {o}) /\ UNCHANGED keys /\ Quiet
      BY <1>2, <2>1, <2>3, OnwardTInv
    <2>4. CASE conflict /\ UNCHANGED keys /\ Quiet
      BY <1>2, <2>4
    <2> QED BY <1>2, <2>2, <2>3, <2>4 DEF Rewrap
  <1>3. CASE RewrapKey(p)
    <2>1. proc[p].pc \in KeyPcs /\ UNCHANGED <<secrets, minted, latest, crossed, torn>>
      BY <1>3 DEF RewrapKey, KeyPcs
    <2>2. /\ Partial(proc[p].todo, Owners, Key) /\ proc[p].next \in Owners \cup {0}
          /\ proc[p].failed \subseteq Owners \cup {0}
      BY <2>1, RewrapFields
    <2>3. CASE Onward(p, proc[p].failed) /\ UNCHANGED keys /\ Quiet
      BY <2>1, <2>2, <2>3, OnwardTInv
    <2>4. CASE /\ DOMAIN proc[p].todo # {}
               /\ Rewrap(p, Rewrapping(p, "rewrapRetry", proc[p].todo, proc[p].failed))
      <3> DEFINE l == [pc |-> "rewrapRetry", todo |-> proc[p].todo, next |-> proc[p].next,
                       failed |-> proc[p].failed]
      <3>1. IsLocal(l) /\ TodoHeld(l)
        BY <2>2, <2>4, RewrapLocal DEF KeyPcs
      <3>2. ASSUME Rewrapping(p, "rewrapRetry", proc[p].todo, proc[p].failed), UNCHANGED keys, Quiet
            PROVE  TInv'
        BY <1>0, <2>1, <3>1, <3>2, MoveTInv DEF Rewrapping
      <3>3. Rewrapping(p, "rewrapRetry", proc[p].todo, proc[p].failed) \in BOOLEAN
        BY DEF Rewrapping, Goto
      <3> QED BY <1>2, <2>1, <2>4, <3>2, <3>3
    <2>5. CASE /\ Goto(p, IF proc[p].next = 0
                          THEN [pc |-> "rewrapDone", failed |-> proc[p].failed]
                          ELSE [pc |-> "rewrapPage", after |-> proc[p].next, failed |-> proc[p].failed])
               /\ UNCHANGED keys /\ Quiet
      <3>1. /\ IsLocal([pc |-> "rewrapDone", failed |-> proc[p].failed])
            /\ TodoHeld([pc |-> "rewrapDone", failed |-> proc[p].failed])
        BY <2>2 DEF IsLocal, TodoHeld
      <3>2. /\ IsLocal([pc |-> "rewrapPage", after |-> proc[p].next, failed |-> proc[p].failed])
            /\ TodoHeld([pc |-> "rewrapPage", after |-> proc[p].next, failed |-> proc[p].failed])
        BY <2>2 DEF IsLocal, TodoHeld
      <3> QED BY <1>0, <2>1, <2>5, <3>1, <3>2, MoveTInv
    <2> QED BY <1>3, <2>3, <2>4, <2>5 DEF RewrapKey
  <1>4. CASE RewrapRetry(p)
    <2>1. /\ proc[p].pc \in KeyPcs /\ DOMAIN proc[p].todo # {}
          /\ UNCHANGED <<keys, secrets, minted, latest, crossed, torn>> /\ Quiet
      BY <1>0, <1>4 DEF RewrapRetry, KeyPcs, TodoHeld
    <2>2. /\ Partial(proc[p].todo, Owners, Key) /\ proc[p].next \in Owners \cup {0}
          /\ proc[p].failed \subseteq Owners \cup {0}
      BY <2>1, RewrapFields
    <2>3. CASE HasKey(First(proc[p].todo))
      <3> DEFINE o == First(proc[p].todo)
                 todo == With(proc[p].todo, o, keys[o])
                 l == [pc |-> "rewrapAgain", todo |-> todo, next |-> proc[p].next,
                       failed |-> proc[p].failed]
      <3>1. Goto(p, l)
        BY <1>4, <2>3 DEF RewrapRetry, Rewrapping
      <3>2. o \in Owners /\ keys[o] \in Key
        BY <1>0, <2>3 DEF HasKey
      <3> HIDE DEF o
      <3>3. Partial(todo, Owners, Key) /\ DOMAIN todo # {}
        <4>1. DOMAIN todo # {}
          BY DEF With
        <4> QED BY <2>2, <3>2, <4>1, WithPartial
      <3> HIDE DEF todo
      <3>4. IsLocal(l) /\ TodoHeld(l)
        BY <2>2, <3>3, RewrapLocal DEF KeyPcs
      <3> QED BY <1>0, <2>1, <3>1, <3>4, MoveTInv
    <2>4. CASE ~ HasKey(First(proc[p].todo))
      <3>1. Onward(p, proc[p].failed \cup {0}) /\ proc[p].failed \cup {0} \subseteq Owners \cup {0}
        BY <1>4, <2>2, <2>4 DEF RewrapRetry
      <3> QED BY <2>1, <3>1, OnwardTInv
    <2> QED BY <2>3, <2>4
  <1>5. CASE RewrapAgain(p)
    <2> DEFINE o == First(proc[p].todo)
               again == Onward(p, proc[p].failed \cup {o})
    <2>1. /\ proc[p].pc \in KeyPcs /\ DOMAIN proc[p].todo # {}
          /\ UNCHANGED <<secrets, minted, latest, crossed, torn>> /\ Rewrap(p, again)
      BY <1>0, <1>5 DEF RewrapAgain, KeyPcs, TodoHeld
    <2>2. proc[p].failed \cup {o} \subseteq Owners \cup {0}
      BY <2>1, RewrapFields
    <2>3. again /\ UNCHANGED keys /\ Quiet => TInv'
      BY <2>1, <2>2, OnwardTInv
    <2>4. again \in BOOLEAN
      BY DEF Onward, Rewrapping, Goto
    <2> QED BY <1>2, <2>1, <2>3, <2>4
  <1> QED BY <1>1, <1>3, <1>4, <1>5

-----------------------------------------------------------------------------
(* The secrets stay intact. *)

\* A step of operation p: the Puts about to store that it does not cross keep
\* their owner's key, and what is stored stays intact.
LEMMA StepSInv ==
  ASSUME TInv, SInv, NEW p \in Procs, NEW l, Goto(p, l), PutHolds(p, l)',
         \A q \in Procs \ {p} : (PutHolds(q, proc[q]) /\ UNCHANGED proc[q]) => PutHolds(q, proc[q])',
         SealedUnderOwnerKey', NoLostWrite'
  PROVE  SInv'
  <1>1. DOMAIN proc = Procs /\ \A q \in Procs : proc'[q] = IF q = p THEN l ELSE proc[q]
    BY DEF Goto, TInv, TypeOK
  <1>2. ASSUME NEW q \in Procs PROVE PutHolds(q, proc[q])'
    <2>1. CASE q = p
      BY <1>1, <2>1 DEF PutHolds
    <2>2. CASE q # p
      <3>1. proc'[q] = proc[q] /\ PutHolds(q, proc[q])
        BY <1>1, <2>2 DEF SInv
      <3> QED BY <2>2, <3>1
    <2> QED BY <2>1, <2>2
  <1> QED BY <1>2 DEF SInv

\* A step that leaves the store alone.
LEMMA MoveSInv ==
  ASSUME TInv, SInv, NEW p \in Procs, NEW l, Goto(p, l), PutHolds(p, l)',
         UNCHANGED <<keys, secrets, latest, torn>>, crossed \ {p} \subseteq crossed'
  PROVE  SInv'
  <1>1. \A q \in Procs \ {p} : (PutHolds(q, proc[q]) /\ UNCHANGED proc[q]) => PutHolds(q, proc[q])'
    BY DEF PutHolds, HasKey
  <1>2. SealedUnderOwnerKey' /\ NoLostWrite'
    BY DEF SInv, SealedUnderOwnerKey, NoLostWrite, HasKey
  <1> QED BY <1>1, <1>2, StepSInv

LEMMA OtherSInv ==
  ASSUME TInv, SInv, NEW p \in Procs, NEW l, Goto(p, l), l.pc # "putStore",
         UNCHANGED <<keys, secrets, latest, torn>>, crossed \ {p} \subseteq crossed'
  PROVE  SInv'
  <1>1. PutHolds(p, l)'
    BY DEF PutHolds
  <1> QED BY <1>1, MoveSInv

LEMMA IdlePc == Idle.pc = "idle"
  BY DEF Idle

\* An operation starts; a Put that finds the owner's key holds it.
LEMMA StartSInv ==
  ASSUME TInv, SInv, NEW p \in Procs
  PROVE  /\ \A ref \in Ref, v \in Values : PutStart(p, ref, v) => SInv'
         /\ \A o \in Owners : DropStart(p, o) \/ RotateStart(p, o) => SInv'
  <1>1. ASSUME NEW ref \in Ref, NEW v \in Values, PutStart(p, ref, v) PROVE SInv'
    <2>1. UNCHANGED <<keys, secrets, latest, crossed, torn>>
      BY <1>1 DEF PutStart
    <2>2. PICK pc, k :
             /\ Goto(p, [pc |-> pc, ref |-> ref, value |-> v, key |-> k])
             /\ pc = "putStore" => HasKey(ref[1]) /\ k = keys[ref[1]].id
      BY <1>1 DEF PutStart, Goto
    <2> DEFINE l == [pc |-> pc, ref |-> ref, value |-> v, key |-> k]
    <2>3. l.pc = pc /\ l.ref = ref /\ l.key = k /\ Goto(p, l)
      BY <2>2
    <2> HIDE DEF l
    <2>4. PutHolds(p, l)'
      BY <2>1, <2>2, <2>3 DEF PutHolds, HasKey
    <2> QED BY <2>1, <2>3, <2>4, MoveSInv
  <1>2. ASSUME NEW o \in Owners, DropStart(p, o) PROVE SInv'
    <2> DEFINE l == [pc |-> "dropKey", owner |-> o, retry |-> 0]
    <2>1. Goto(p, l) /\ l.pc # "putStore" /\ UNCHANGED <<keys, secrets, latest, crossed, torn>>
      BY <1>2 DEF DropStart
    <2> QED BY <2>1, OtherSInv
  <1>3. ASSUME NEW o \in Owners, RotateStart(p, o) PROVE SInv'
    <2> DEFINE l == [pc |-> "rotateList", owner |-> o, key |-> keys[o].id]
    <2>1. Goto(p, l) /\ l.pc # "putStore" /\ UNCHANGED <<keys, secrets, latest, crossed, torn>>
      BY <1>3 DEF RotateStart
    <2> QED BY <2>1, OtherSInv
  <1> QED BY <1>1, <1>2, <1>3

\* A Put looks for the owner's key: the one it ends up with is the owner's.
LEMMA PutKeySInv ==
  ASSUME TInv, SInv, NEW p \in Procs, PutCreate(p) \/ PutReread(p)
  PROVE  SInv'
  <1>0. /\ proc[p] \in [pc : PutPcs, ref : Ref, value : Values, key : KeyIDs]
        /\ proc[p].ref[1] \in Owners
    <2>1. proc[p].pc \in PutPcs
      BY DEF PutCreate, PutReread, PutPcs
    <2>2. proc[p] \in [pc : PutPcs, ref : Ref, value : Values, key : KeyIDs]
      BY <2>1, TFacts, PutRecord
    <2> QED BY <2>2 DEF Ref
  <1>1. UNCHANGED <<secrets, latest, crossed, torn>>
    BY DEF PutCreate, PutReread
  <1>2. CASE PutCreate(p)
    <2>1. CASE HasKey(proc[p].ref[1])
      <3>0. PICK l : l = [proc[p] EXCEPT !.pc = "putReread"]
        OBVIOUS
      <3>1. Goto(p, l) /\ UNCHANGED keys
        BY <1>2, <2>1, <3>0 DEF PutCreate
      <3>2. l.pc # "putStore"
        BY <1>0, <3>0
      <3> QED BY <1>1, <3>1, <3>2, OtherSInv
    <2>2. CASE ~ HasKey(proc[p].ref[1])
      <3>0. PICK l, o, k : /\ l = [proc[p] EXCEPT !.pc = "putStore"] /\ o = proc[p].ref[1]
                           /\ k = [id |-> proc[p].key, master |-> Active]
        OBVIOUS
      <3>1. Goto(p, l) /\ keys' = With(keys, o, k)
        BY <1>2, <2>2, <3>0 DEF PutCreate
      <3>2. l.ref = proc[p].ref /\ l.key = proc[p].key /\ k.id = proc[p].key /\ o = l.ref[1]
        BY <1>0, <3>0
      <3>3. /\ DOMAIN keys' = DOMAIN keys \cup {o} /\ keys'[o] = k
            /\ \A q \in DOMAIN keys : keys'[q] = keys[q]
        BY <2>2, <3>0, <3>1 DEF With, HasKey
      <3>4. PutHolds(p, l)'
        BY <3>2, <3>3 DEF PutHolds, HasKey
      <3>5. \A q \in Procs \ {p} : (PutHolds(q, proc[q]) /\ UNCHANGED proc[q]) => PutHolds(q, proc[q])'
        BY <1>1, <3>3 DEF PutHolds, HasKey
      <3>6. SealedUnderOwnerKey' /\ NoLostWrite'
        BY <1>1, <3>3 DEF SInv, SealedUnderOwnerKey, NoLostWrite, HasKey
      <3> QED BY <3>1, <3>4, <3>5, <3>6, StepSInv
    <2> QED BY <2>1, <2>2
  <1>3. CASE PutReread(p)
    <2>1. UNCHANGED keys
      BY <1>3 DEF PutReread
    <2>2. CASE HasKey(proc[p].ref[1]) /\ Unwraps(keys[proc[p].ref[1]])
      <3>0. PICK l : l = [proc[p] EXCEPT !.pc = "putStore", !.key = keys[proc[p].ref[1]].id]
        OBVIOUS
      <3>1. Goto(p, l)
        BY <1>3, <2>2, <3>0 DEF PutReread
      <3>2. l.ref = proc[p].ref /\ l.key = keys[proc[p].ref[1]].id
        BY <1>0, <3>0
      <3>3. PutHolds(p, l)'
        BY <2>1, <2>2, <3>2 DEF PutHolds, HasKey
      <3> QED BY <1>1, <2>1, <3>1, <3>3, MoveSInv
    <2>3. CASE ~ (HasKey(proc[p].ref[1]) /\ Unwraps(keys[proc[p].ref[1]]))
      <3>1. Goto(p, Idle)
        BY <1>3, <2>3 DEF PutReread
      <3> QED BY <1>1, <2>1, <3>1, IdlePc, OtherSInv
    <2> QED BY <2>2, <2>3
  <1> QED BY <1>2, <1>3

\* The value is stored under the owner's key, or counted as torn.
LEMMA PutStoreSInv ==
  ASSUME TInv, SInv, NEW p \in Procs, PutStore(p)
  PROVE  SInv'
  <1> DEFINE ref == proc[p].ref
             sealed == [version |-> IF ref \in DOMAIN secrets THEN secrets[ref].version + 1 ELSE 1,
                        key |-> proc[p].key, value |-> proc[p].value]
  <1>1. /\ Goto(p, Idle) /\ UNCHANGED keys /\ proc[p].pc = "putStore"
        /\ crossed' = crossed \ {p}
    BY DEF PutStore
  <1>2. CASE mayPut(ref[1])
    <2>1. /\ secrets' = With(secrets, ref, sealed)
          /\ latest' = With(latest, ref, <<sealed.version, sealed.value>>)
          /\ torn' = IF p \in crossed THEN torn \cup {ref} ELSE torn \ {ref}
      BY <1>2 DEF PutStore
    <2>2. sealed.key = proc[p].key
      OBVIOUS
    <2> HIDE DEF sealed
    <2>3. /\ DOMAIN secrets' = DOMAIN secrets \cup {ref} /\ secrets'[ref] = sealed
          /\ \A r \in DOMAIN secrets : r # ref => secrets'[r] = secrets[r]
          /\ DOMAIN latest' = DOMAIN latest \cup {ref}
          /\ latest'[ref] = <<sealed.version, sealed.value>>
          /\ \A r \in DOMAIN latest : r # ref => latest'[r] = latest[r]
      BY <2>1 DEF With
    <2>4. p \notin crossed => HasKey(ref[1]) /\ sealed.key = keys[ref[1]].id
      BY <1>1, <2>2 DEF SInv, PutHolds
    <2> HIDE DEF ref
    <2>5. \A q \in Procs \ {p} : (PutHolds(q, proc[q]) /\ UNCHANGED proc[q]) => PutHolds(q, proc[q])'
      BY <1>1 DEF PutHolds, HasKey
    <2>6. SealedUnderOwnerKey'
      BY <1>1, <2>1, <2>3, <2>4 DEF SInv, SealedUnderOwnerKey, HasKey
    <2>7. NoLostWrite'
      BY <1>1, <2>1, <2>3 DEF SInv, NoLostWrite
    <2>8. PutHolds(p, Idle)'
      BY IdlePc DEF PutHolds
    <2> QED BY <1>1, <2>5, <2>6, <2>7, <2>8, StepSInv
  <1>3. CASE ~ mayPut(ref[1])
    <2>1. UNCHANGED <<secrets, latest, torn>>
      BY <1>3 DEF PutStore
    <2> QED BY <1>1, <2>1, IdlePc, OtherSInv
  <1> QED BY <1>2, <1>3

\* Deleting a secret takes it from the store and from what was put.
LEMMA DeleteSInv ==
  ASSUME TInv, SInv, NEW ref \in Ref, Delete(ref)
  PROVE  SInv'
  <1>1. /\ secrets' = Without(secrets, {ref}) /\ latest' = Without(latest, {ref})
        /\ torn' = torn \ {ref} /\ UNCHANGED <<keys, proc, crossed>>
    BY DEF Delete
  <1>2. /\ \A r \in DOMAIN secrets' : r \in DOMAIN secrets /\ r # ref /\ secrets'[r] = secrets[r]
        /\ \A r \in DOMAIN latest : r # ref => r \in DOMAIN latest' /\ latest'[r] = latest[r]
    BY <1>1 DEF Without
  <1>3. ASSUME NEW q \in Procs PROVE PutHolds(q, proc[q])'
    BY <1>1 DEF SInv, PutHolds, HasKey
  <1>4. SealedUnderOwnerKey' /\ NoLostWrite'
    BY <1>1, <1>2 DEF SInv, SealedUnderOwnerKey, NoLostWrite, HasKey
  <1> QED BY <1>3, <1>4 DEF SInv

\* A Put about to store is crossed by a change of its owner's key, or keeps the
\* key it loaded.
LEMMA CrossSInv ==
  ASSUME TInv, NEW o, crossed' = crossed \cup Loaded(o),
         \A q \in DOMAIN keys : q # o => q \in DOMAIN keys' /\ keys'[q] = keys[q],
         NEW q \in Procs, PutHolds(q, proc[q]), UNCHANGED proc[q]
  PROVE  PutHolds(q, proc[q])'
  <1>1. SUFFICES ASSUME proc[q].pc = "putStore", q \notin crossed'
                 PROVE  /\ proc[q].ref[1] \in DOMAIN keys'
                        /\ proc[q].key = keys'[proc[q].ref[1]].id
    BY DEF PutHolds, HasKey
  <1>2. proc[q].ref[1] # o /\ q \notin crossed
    BY <1>1 DEF Loaded
  <1> QED BY <1>1, <1>2 DEF PutHolds, HasKey

\* DeleteOwner drops everything of its owner.
LEMMA DropSInv ==
  ASSUME TInv, SInv, NEW p \in Procs, DropKey(p) \/ DropList(p) \/ Drop(p)
  PROVE  SInv'
  <1>1. ASSUME NEW l, l.pc # "putStore", Goto(p, l), UNCHANGED <<keys, secrets, latest, crossed, torn>>
        PROVE  SInv'
    BY <1>1, OtherSInv
  <1>2. ASSUME Goto(p, Idle), UNCHANGED <<keys, secrets, latest, crossed, torn>> PROVE SInv'
    BY <1>2, IdlePc, OtherSInv
  <1>3. CASE DropKey(p)
    <2>1. UNCHANGED <<keys, secrets, latest, crossed, torn>>
      BY <1>3 DEF DropKey
    <2>2. CASE HasKey(proc[p].owner)
      <3>1. PICK l : l = [pc |-> "dropList", owner |-> proc[p].owner, retry |-> proc[p].retry,
                          key |-> keys[proc[p].owner].id]
        OBVIOUS
      <3>2. Goto(p, l) /\ l.pc # "putStore"
        BY <1>3, <2>2, <3>1 DEF DropKey
      <3> QED BY <1>1, <2>1, <3>2
    <2> QED BY <1>2, <1>3, <2>1, <2>2 DEF DropKey
  <1>4. CASE DropList(p)
    <2>1. PICK l : l = [pc |-> "drop", owner |-> proc[p].owner, retry |-> proc[p].retry,
                        key |-> proc[p].key, listed |-> Listing(proc[p].owner)]
      OBVIOUS
    <2>2. Goto(p, l) /\ l.pc # "putStore" /\ UNCHANGED <<keys, secrets, latest, crossed, torn>>
      BY <1>4, <2>1 DEF DropList
    <2> QED BY <1>1, <2>2
  <1>5. CASE Drop(p)
    <2>0. PICK o : o = proc[p].owner
      OBVIOUS
    <2>1. CASE HasKey(o) /\ DOMAIN proc[p].listed = SecretsOf(o)
      <3>1. /\ secrets' = Without(secrets, RefsOf(o)) /\ latest' = Without(latest, RefsOf(o))
            /\ keys' = Without(keys, {o}) /\ Goto(p, Idle)
            /\ crossed' = crossed \cup Loaded(o) /\ torn' = torn \ RefsOf(o)
        BY <1>5, <2>0, <2>1 DEF Drop
      <3>2. /\ \A ref \in DOMAIN secrets' : /\ ref \in DOMAIN secrets /\ secrets'[ref] = secrets[ref]
                                            /\ ref \notin RefsOf(o)
            /\ \A ref \in DOMAIN latest : ref \notin RefsOf(o) =>
                  ref \in DOMAIN latest' /\ latest'[ref] = latest[ref]
            /\ \A q \in DOMAIN keys : q # o => q \in DOMAIN keys' /\ keys'[q] = keys[q]
        BY <3>1 DEF Without
      <3>3. ASSUME NEW ref \in DOMAIN secrets' PROVE ref[1] # o
        <4>1. ref \in Ref /\ ref \notin RefsOf(o)
          BY <3>2, TFacts
        <4> QED BY <4>1 DEF Ref, RefsOf
      <3>4. ASSUME NEW q \in Procs \ {p}, PutHolds(q, proc[q]), UNCHANGED proc[q]
            PROVE  PutHolds(q, proc[q])'
        BY <3>1, <3>2, <3>4, CrossSInv
      <3>5. SealedUnderOwnerKey' /\ NoLostWrite'
        <4>1. ASSUME NEW ref \in DOMAIN secrets' \ torn'
              PROVE  ref \in DOMAIN secrets \ torn /\ ref \notin RefsOf(o)
          BY <3>1, <3>2
        <4>2. SealedUnderOwnerKey'
          BY <3>2, <3>3, <4>1 DEF SInv, SealedUnderOwnerKey, HasKey
        <4>3. NoLostWrite'
          BY <3>2, <4>1 DEF SInv, NoLostWrite
        <4> QED BY <4>2, <4>3
      <3>6. PutHolds(p, Idle)'
        BY IdlePc DEF PutHolds
      <3> QED BY <3>1, <3>4, <3>5, <3>6, StepSInv
    <2>2. CASE HasKey(o) /\ DOMAIN proc[p].listed # SecretsOf(o)
      <3>1. PICK l : l = Again(proc[p])
        OBVIOUS
      <3>2. Goto(p, l) /\ UNCHANGED <<keys, secrets, latest, crossed, torn>>
        BY <1>5, <2>0, <2>2, <3>1 DEF Drop
      <3>3. l = Idle \/ l.pc = "dropKey"
        BY <3>1 DEF Again
      <3> QED BY <1>1, <1>2, <3>2, <3>3
    <2>3. CASE ~ HasKey(o)
      BY <1>2, <1>5, <2>0, <2>3 DEF Drop
    <2> QED BY <2>1, <2>2, <2>3
  <1> QED BY <1>3, <1>4, <1>5

\* RotateOwnerKey writes back what it listed: the secrets as they are, but for
\* those written since the listing.
LEMMA RotateSInv ==
  ASSUME TInv, SInv, NEW p \in Procs, RotateList(p) \/ Rotate(p)
  PROVE  SInv'
  <1>0. UNCHANGED latest
    BY DEF RotateList, Rotate
  <1>1. CASE RotateList(p)
    <2>1. UNCHANGED <<keys, secrets, crossed, torn>>
      BY <1>1 DEF RotateList
    <2>2. CASE Goto(p, Idle)
      BY <1>0, <2>1, <2>2, IdlePc, OtherSInv
    <2>3. CASE \E k \in KeyIDs \ minted :
                 Goto(p, [pc |-> "rotate", owner |-> proc[p].owner, key |-> proc[p].key, fresh |-> k,
                          listed |-> Listing(proc[p].owner)])
      <3>1. PICK k : Goto(p, [pc |-> "rotate", owner |-> proc[p].owner, key |-> proc[p].key,
                              fresh |-> k, listed |-> Listing(proc[p].owner)])
        BY <2>3
      <3>2. PICK l : l = [pc |-> "rotate", owner |-> proc[p].owner, key |-> proc[p].key, fresh |-> k,
                          listed |-> Listing(proc[p].owner)]
        OBVIOUS
      <3>3. Goto(p, l) /\ l.pc # "putStore"
        BY <3>1, <3>2
      <3> QED BY <1>0, <2>1, <3>3, OtherSInv
    <2> QED BY <1>1, <2>2, <2>3 DEF RotateList
  <1>2. CASE Rotate(p)
    <2>0. PICK o, listed, fresh : o = proc[p].owner /\ listed = proc[p].listed /\ fresh = proc[p].fresh
      OBVIOUS
    <2>1. Goto(p, Idle)
      BY <1>2 DEF Rotate
    <2>2. CASE mayReplace(o, proc[p].key, DOMAIN listed)
      <3>1. /\ keys' = With(keys, o, [id |-> fresh, master |-> Active])
            /\ secrets' = Resealed(o, listed, fresh)
            /\ crossed' = crossed \cup Loaded(o) /\ torn' = torn \cup WrittenSince(o, listed)
        BY <1>2, <2>0, <2>2 DEF Rotate
      <3>2. /\ o \in DOMAIN keys' /\ keys'[o].id = fresh
            /\ \A q \in DOMAIN keys : q # o => q \in DOMAIN keys' /\ keys'[q] = keys[q]
        BY <3>1 DEF With
      <3>3. /\ DOMAIN secrets' = DOMAIN secrets
            /\ \A ref \in DOMAIN secrets : ref \notin {<<o, n>> : n \in DOMAIN listed} =>
                  secrets'[ref] = secrets[ref]
            /\ \A n \in DOMAIN listed :
                  /\ <<o, n>> \in DOMAIN secrets
                  /\ secrets'[<<o, n>>] = [version |-> secrets[<<o, n>>].version, key |-> fresh,
                                           value |-> listed[n].value]
        BY <2>2, <3>1 DEF Resealed, mayReplace
      <3>4. ASSUME NEW ref \in DOMAIN secrets, ref[1] # o PROVE secrets'[ref] = secrets[ref]
        BY <3>3, <3>4
      <3>5. ASSUME NEW n \in Names, <<o, n>> \in DOMAIN secrets, <<o, n>> \notin torn'
            PROVE  /\ secrets'[<<o, n>>].key = fresh
                   /\ secrets'[<<o, n>>].version = secrets[<<o, n>>].version
                   /\ secrets'[<<o, n>>].value = secrets[<<o, n>>].value
        <4>1. n \in DOMAIN listed /\ listed[n] = secrets[<<o, n>>]
          BY <3>1, <3>5 DEF WrittenSince, SecretsOf
        <4>2. secrets'[<<o, n>>] = [version |-> secrets[<<o, n>>].version, key |-> fresh,
                                    value |-> listed[n].value]
          BY <3>3, <4>1
        <4> QED BY <4>1, <4>2
      <3>6. \A ref \in DOMAIN secrets : ref = <<ref[1], ref[2]>> /\ ref[2] \in Names
        BY TFacts DEF Ref
      <3>7. ASSUME NEW q \in Procs \ {p}, PutHolds(q, proc[q]), UNCHANGED proc[q]
            PROVE  PutHolds(q, proc[q])'
        BY <3>1, <3>2, <3>7, CrossSInv
      <3>8. SealedUnderOwnerKey' /\ NoLostWrite'
        <4>1. ASSUME NEW ref \in DOMAIN secrets, ref \notin torn'
              PROVE  /\ ref[1] \in DOMAIN keys' /\ secrets'[ref].key = keys'[ref[1]].id
                     /\ ref \in DOMAIN latest
                     /\ <<secrets'[ref].version, secrets'[ref].value>> = latest[ref]
          <5>0. /\ ref[1] \in DOMAIN keys /\ secrets[ref].key = keys[ref[1]].id /\ ref \in DOMAIN latest
                /\ <<secrets[ref].version, secrets[ref].value>> = latest[ref]
            BY <3>1, <4>1 DEF SInv, SealedUnderOwnerKey, NoLostWrite, HasKey
          <5>1. CASE ref[1] # o
            BY <3>2, <3>4, <4>1, <5>0, <5>1
          <5>2. CASE ref[1] = o
            <6>1. ref = <<o, ref[2]>> /\ ref[2] \in Names
              BY <3>6, <4>1, <5>2
            <6>2. /\ secrets'[ref].key = fresh /\ secrets'[ref].version = secrets[ref].version
                  /\ secrets'[ref].value = secrets[ref].value
              BY <3>5, <4>1, <6>1
            <6> QED BY <3>2, <5>0, <5>2, <6>2
          <5> QED BY <5>1, <5>2
        <4> QED BY <1>0, <3>3, <4>1 DEF SealedUnderOwnerKey, NoLostWrite, HasKey
      <3>9. PutHolds(p, Idle)'
        BY IdlePc DEF PutHolds
      <3> QED BY <2>1, <3>7, <3>8, <3>9, StepSInv
    <2>3. CASE ~ mayReplace(o, proc[p].key, DOMAIN listed)
      <3>1. UNCHANGED <<keys, secrets, crossed, torn>>
        BY <1>2, <2>0, <2>3 DEF Rotate
      <3> QED BY <1>0, <2>1, <3>1, IdlePc, OtherSInv
    <2> QED BY <2>2, <2>3
  <1> QED BY <1>1, <1>2

\* A rewrapped key keeps its ID.
LEMMA RewrapStoreSInv ==
  ASSUME TInv, SInv, NEW p \in Procs, NEW l, Goto(p, l), l.pc # "putStore",
         NEW o, NEW key \in Key, HasKey(o), keys[o].id = key.id,
         keys' = With(keys, o, [key EXCEPT !.master = Active]),
         UNCHANGED <<secrets, latest, crossed, torn>>
  PROVE  SInv'
  <1>1. /\ DOMAIN keys' = DOMAIN keys
        /\ \A q \in DOMAIN keys : keys'[q].id = keys[q].id
    <2>1. [key EXCEPT !.master = Active].id = key.id
      BY DEF Key
    <2> QED BY <2>1 DEF With, HasKey
  <1>2. \A q \in Procs \ {p} : (PutHolds(q, proc[q]) /\ UNCHANGED proc[q]) => PutHolds(q, proc[q])'
    BY <1>1 DEF PutHolds, HasKey
  <1>3. SealedUnderOwnerKey' /\ NoLostWrite'
    BY <1>1 DEF SInv, SealedUnderOwnerKey, NoLostWrite, HasKey
  <1>4. PutHolds(p, l)'
    BY DEF PutHolds
  <1> QED BY <1>2, <1>3, <1>4, StepSInv

\* What is left of a rewrap's page without the key at hand.
Left(l, failed) ==
    [pc |-> "rewrapKey", todo |-> Without(l.todo, {First(l.todo)}), next |-> l.next, failed |-> failed]

\* The ways a rewrap takes a key: it skips it, stores it, counts it as failed,
\* meets a conflict, or has come to the end of the page.
Skips(l, m) ==
    /\ DOMAIN l.todo # {} /\ l.todo[First(l.todo)].master = Active
    /\ m = Left(l, l.failed) /\ UNCHANGED keys
Stores(l, m) ==
    /\ DOMAIN l.todo # {} /\ HasKey(First(l.todo))
    /\ keys[First(l.todo)].id = l.todo[First(l.todo)].id
    /\ keys' = With(keys, First(l.todo), [l.todo[First(l.todo)] EXCEPT !.master = Active])
    /\ m = Left(l, l.failed)
Fails(l, m) == UNCHANGED keys /\ \E x : m = Left(l, l.failed \cup {x})
Collides(l, m) ==
    /\ DOMAIN l.todo # {} /\ UNCHANGED keys
    /\ m = [pc |-> "rewrapRetry", todo |-> l.todo, next |-> l.next, failed |-> l.failed]
Turns(l, m) ==
    /\ DOMAIN l.todo = {} /\ UNCHANGED keys
    /\ m = IF l.next = 0 THEN [pc |-> "rewrapDone", failed |-> l.failed]
           ELSE [pc |-> "rewrapPage", after |-> l.next, failed |-> l.failed]

\* There are no others.
LEMMA RewrapStep ==
  ASSUME TInv, NEW p \in Procs, RewrapKey(p) \/ RewrapAgain(p)
  PROVE  /\ proc[p].pc \in KeyPcs /\ UNCHANGED <<secrets, latest, crossed, torn>>
         /\ \E m : /\ Goto(p, m)
                   /\ \/ Skips(proc[p], m) \/ Stores(proc[p], m) \/ Fails(proc[p], m)
                      \/ Collides(proc[p], m) \/ Turns(proc[p], m)
  <1>0. proc[p].pc \in KeyPcs /\ UNCHANGED <<secrets, latest, crossed, torn>>
    BY DEF RewrapKey, RewrapAgain, KeyPcs
  <1> DEFINE o == First(proc[p].todo)
             key == proc[p].todo[o]
  <1>1. ASSUME NEW failed, Onward(p, failed) PROVE Goto(p, Left(proc[p], failed))
    BY <1>1 DEF Onward, Rewrapping, Left
  <1>2. ASSUME DOMAIN proc[p].todo # {}, NEW conflict, Rewrap(p, conflict)
        PROVE  \/ \E m : Goto(p, m) /\ (Stores(proc[p], m) \/ Fails(proc[p], m))
               \/ conflict /\ UNCHANGED keys
    <2>1. CASE /\ mayReplace(o, key.id, {}) /\ keys' = With(keys, o, [key EXCEPT !.master = Active])
               /\ Onward(p, proc[p].failed)
      <3>1. Stores(proc[p], Left(proc[p], proc[p].failed))
        BY <1>2, <2>1 DEF Stores, mayReplace
      <3> QED BY <1>1, <2>1, <3>1
    <2>2. CASE Onward(p, proc[p].failed \cup {o}) /\ UNCHANGED keys
      <3>1. Fails(proc[p], Left(proc[p], proc[p].failed \cup {o}))
        BY <2>2 DEF Fails
      <3> QED BY <1>1, <2>2, <3>1
    <2> QED BY <1>2, <2>1, <2>2 DEF Rewrap
  <1>3. CASE RewrapKey(p)
    <2>1. CASE /\ DOMAIN proc[p].todo # {} /\ key.master = Active
               /\ Onward(p, proc[p].failed) /\ UNCHANGED keys
      <3>1. Skips(proc[p], Left(proc[p], proc[p].failed))
        BY <2>1 DEF Skips
      <3> QED BY <1>0, <1>1, <2>1, <3>1
    <2>2. CASE /\ DOMAIN proc[p].todo # {}
               /\ Rewrap(p, Rewrapping(p, "rewrapRetry", proc[p].todo, proc[p].failed))
      <3> DEFINE m == [pc |-> "rewrapRetry", todo |-> proc[p].todo, next |-> proc[p].next,
                       failed |-> proc[p].failed]
      <3>1. \/ \E n : Goto(p, n) /\ (Stores(proc[p], n) \/ Fails(proc[p], n))
            \/ Rewrapping(p, "rewrapRetry", proc[p].todo, proc[p].failed) /\ UNCHANGED keys
        BY <1>2, <2>2
      <3>2. CASE Rewrapping(p, "rewrapRetry", proc[p].todo, proc[p].failed) /\ UNCHANGED keys
        <4>1. Goto(p, m) /\ Collides(proc[p], m)
          BY <2>2, <3>2 DEF Rewrapping, Collides
        <4> QED BY <1>0, <4>1
      <3> QED BY <1>0, <3>1, <3>2
    <2>3. CASE /\ DOMAIN proc[p].todo = {} /\ UNCHANGED keys
               /\ Goto(p, IF proc[p].next = 0
                          THEN [pc |-> "rewrapDone", failed |-> proc[p].failed]
                          ELSE [pc |-> "rewrapPage", after |-> proc[p].next, failed |-> proc[p].failed])
      BY <1>0, <2>3 DEF Turns
    <2> QED BY <1>3, <2>1, <2>2, <2>3 DEF RewrapKey
  <1>4. CASE RewrapAgain(p)
    <2>1. DOMAIN proc[p].todo # {} /\ Rewrap(p, Onward(p, proc[p].failed \cup {o}))
      BY <1>4, TFacts DEF RewrapAgain, TodoHeld
    <2>2. \/ \E m : Goto(p, m) /\ (Stores(proc[p], m) \/ Fails(proc[p], m))
          \/ Onward(p, proc[p].failed \cup {o}) /\ UNCHANGED keys
      BY <1>2, <2>1
    <2>3. CASE Onward(p, proc[p].failed \cup {o}) /\ UNCHANGED keys
      <3>1. Fails(proc[p], Left(proc[p], proc[p].failed \cup {o}))
        BY <2>3 DEF Fails
      <3> QED BY <1>0, <1>1, <2>3, <3>1
    <2> QED BY <1>0, <2>2, <2>3
  <1> QED BY <1>3, <1>4

\* The fields of what is left.
LEMMA LeftFields ==
  ASSUME NEW l, NEW failed
  PROVE  /\ Left(l, failed).pc = "rewrapKey" /\ Left(l, failed).next = l.next
         /\ Left(l, failed).failed = failed
         /\ DOMAIN Left(l, failed).todo = DOMAIN l.todo \ {First(l.todo)}
         /\ \A o \in DOMAIN Left(l, failed).todo : Left(l, failed).todo[o] = l.todo[o]
  BY DEF Left, Without

\* A rewrap leaves the secrets alone.
LEMMA RewrapSInv ==
  ASSUME TInv, SInv, NEW p \in Procs, RewrapPage(p) \/ RewrapKey(p) \/ RewrapRetry(p) \/ RewrapAgain(p)
  PROVE  SInv'
  <1>1. ASSUME NEW l, l.pc \in RewrapPcs PROVE l.pc # "putStore"
    BY <1>1 DEF RewrapPcs, KeyPcs
  <1>2. CASE RewrapPage(p)
    <2>1. PICK l : l = [pc |-> "rewrapKey", todo |-> [o \in PageAfter(proc[p].after) |-> keys[o]],
                        next |-> NextAfter(proc[p].after), failed |-> proc[p].failed]
      OBVIOUS
    <2>2. /\ Goto(p, l) /\ l.pc \in RewrapPcs /\ UNCHANGED <<keys, secrets, latest, crossed, torn>>
      BY <1>2, <2>1 DEF RewrapPage, RewrapPcs, KeyPcs
    <2> QED BY <1>1, <2>2, OtherSInv
  <1>3. CASE RewrapRetry(p)
    <2>1. PICK pc, todo, failed :
             /\ pc \in {"rewrapKey", "rewrapAgain"}
             /\ Goto(p, [pc |-> pc, todo |-> todo, next |-> proc[p].next, failed |-> failed])
      BY <1>3 DEF RewrapRetry, Rewrapping, Onward, Goto
    <2>2. PICK l : l = [pc |-> pc, todo |-> todo, next |-> proc[p].next, failed |-> failed]
      OBVIOUS
    <2>3. /\ Goto(p, l) /\ l.pc \in RewrapPcs /\ UNCHANGED <<keys, secrets, latest, crossed, torn>>
      BY <1>3, <2>1, <2>2 DEF RewrapRetry, RewrapPcs, KeyPcs
    <2> QED BY <1>1, <2>3, OtherSInv
  <1>4. CASE RewrapKey(p) \/ RewrapAgain(p)
    <2>1. proc[p].pc \in KeyPcs /\ UNCHANGED <<secrets, latest, crossed, torn>>
      BY <1>4, RewrapStep
    <2>2. PICK m : /\ Goto(p, m)
                   /\ \/ Skips(proc[p], m) \/ Stores(proc[p], m) \/ Fails(proc[p], m)
                      \/ Collides(proc[p], m) \/ Turns(proc[p], m)
      BY <1>4, RewrapStep
    <2>3. m.pc \in RewrapPcs
      <3>1. CASE Skips(proc[p], m) \/ Stores(proc[p], m) \/ Fails(proc[p], m)
        <4>1. PICK failed : m = Left(proc[p], failed)
          BY <3>1 DEF Skips, Stores, Fails
        <4> QED BY <4>1, LeftFields DEF RewrapPcs, KeyPcs
      <3>2. CASE Collides(proc[p], m) \/ Turns(proc[p], m)
        BY <3>2 DEF Collides, Turns, RewrapPcs, KeyPcs
      <3> QED BY <2>2, <3>1, <3>2
    <2>4. CASE Stores(proc[p], m)
      <3>1. PICK o, key : o = First(proc[p].todo) /\ key = proc[p].todo[o]
        OBVIOUS
      <3>2. /\ HasKey(o) /\ keys[o].id = key.id /\ keys' = With(keys, o, [key EXCEPT !.master = Active])
            /\ key \in Key
        BY <2>1, <2>4, <3>1, RewrapFields DEF Stores
      <3> QED BY <1>1, <2>1, <2>2, <2>3, <3>2, RewrapStoreSInv
    <2>5. CASE ~ Stores(proc[p], m)
      <3>1. UNCHANGED keys
        BY <2>2, <2>5 DEF Skips, Fails, Collides, Turns
      <3> QED BY <1>1, <2>1, <2>2, <2>3, <3>1, OtherSInv
    <2> QED BY <2>4, <2>5
  <1> QED BY <1>2, <1>3, <1>4

-----------------------------------------------------------------------------
(* A rewrap that reports no failure has moved every key. *)

\* Keys are written under the active master key only.
ToActive ==
    \A o \in DOMAIN keys' : keys'[o].master = Active \/ (o \in DOMAIN keys /\ keys'[o] = keys[o])

\* So what a rewrap has behind it stays behind it.
LEMMA StepRInv ==
  ASSUME TInv, RInv, NEW p \in Procs, NEW l, Goto(p, l), ToActive, RewrapHolds(l)'
  PROVE  RInv'
  <1>1. DOMAIN proc = Procs /\ \A q \in Procs : proc'[q] = IF q = p THEN l ELSE proc[q]
    BY DEF Goto, TInv, TypeOK
  <1>2. ASSUME NEW q \in Procs PROVE RewrapHolds(proc[q])'
    <2>1. CASE q = p
      BY <1>1, <2>1 DEF RewrapHolds, Ahead
    <2>2. CASE q # p
      <3>1. proc'[q] = proc[q] /\ RewrapHolds(proc[q])
        BY <1>1, <2>2 DEF RInv
      <3> QED BY <3>1 DEF RewrapHolds, Ahead, ToActive
    <2> QED BY <2>1, <2>2
  <1> QED BY <1>2 DEF RInv

\* An operation that is no rewrap.
LEMMA OtherRInv ==
  ASSUME TInv, RInv, NEW p \in Procs, NEW l, Goto(p, l), ToActive, l.pc \notin RewrapPcs
  PROVE  RInv'
  <1>1. RewrapHolds(l)'
    BY DEF RewrapHolds, RewrapPcs
  <1> QED BY <1>1, StepRInv

\* Keys left alone are under no other master key.
LEMMA SameToActive == ASSUME UNCHANGED keys PROVE ToActive
  BY DEF ToActive

\* Every operation but the rewrap.
LEMMA PlainRInv ==
  ASSUME TInv, RInv, NEW p \in Procs
  PROVE  /\ \A ref \in Ref, v \in Values : PutStart(p, ref, v) => RInv'
         /\ \A ref \in Ref : GetStart(p, ref) => RInv'
         /\ \A o \in Owners : DropStart(p, o) \/ RotateStart(p, o) => RInv'
         /\ PutCreate(p) \/ PutReread(p) \/ PutStore(p) => RInv'
         /\ GetSecret(p) \/ GetAudit(p) \/ RewrapEnd(p) \/ Abort(p) => RInv'
         /\ DropKey(p) \/ DropList(p) \/ Drop(p) \/ RotateList(p) \/ Rotate(p) => RInv'
  <1>0. Idle.pc \notin RewrapPcs
    BY DEF Idle, RewrapPcs, KeyPcs
  <1>1. ASSUME NEW ref \in Ref, NEW v \in Values, PutStart(p, ref, v) PROVE RInv'
    <2>1. PICK pc, k :
             /\ pc \in {"putStore", "putCreate"}
             /\ Goto(p, [pc |-> pc, ref |-> ref, value |-> v, key |-> k])
      BY <1>1 DEF PutStart, Goto
    <2>2. [pc |-> pc, ref |-> ref, value |-> v, key |-> k].pc \notin RewrapPcs
      BY <2>1 DEF RewrapPcs, KeyPcs
    <2>3. ToActive
      BY <1>1, SameToActive DEF PutStart
    <2> QED BY <2>1, <2>2, <2>3, OtherRInv
  <1>2. ASSUME NEW ref \in Ref, GetStart(p, ref) PROVE RInv'
    <2>1. [pc |-> "getSecret", ref |-> ref, key |-> keys[ref[1]]].pc \notin RewrapPcs
      BY DEF RewrapPcs, KeyPcs
    <2> QED BY <1>2, <2>1, SameToActive, OtherRInv DEF GetStart
  <1>3. ASSUME NEW o \in Owners, DropStart(p, o) \/ RotateStart(p, o) PROVE RInv'
    <2>1. /\ [pc |-> "dropKey", owner |-> o, retry |-> 0].pc \notin RewrapPcs
          /\ [pc |-> "rotateList", owner |-> o, key |-> keys[o].id].pc \notin RewrapPcs
      BY DEF RewrapPcs, KeyPcs
    <2> QED BY <1>3, <2>1, SameToActive, OtherRInv DEF DropStart, RotateStart
  <1>4. ASSUME PutCreate(p) \/ PutReread(p) PROVE RInv'
    <2>1. proc[p] \in [pc : PutPcs, ref : Ref, value : Values, key : KeyIDs]
      <3>1. proc[p].pc \in PutPcs
        BY <1>4 DEF PutCreate, PutReread, PutPcs
      <3> QED BY <3>1, TFacts, PutRecord
    <2>2. ASSUME NEW pc \in PutPcs, NEW k \in KeyIDs
          PROVE  /\ [proc[p] EXCEPT !.pc = pc].pc \notin RewrapPcs
                 /\ [proc[p] EXCEPT !.pc = pc, !.key = k].pc \notin RewrapPcs
      BY <2>1 DEF PutPcs, RewrapPcs, KeyPcs
    <2>3. "putReread" \in PutPcs /\ "putStore" \in PutPcs
      BY DEF PutPcs
    <2>4. CASE PutCreate(p)
      <3>1. PICK k : k = [id |-> proc[p].key, master |-> Active]
        OBVIOUS
      <3>2. UNCHANGED keys \/ keys' = With(keys, proc[p].ref[1], k)
        BY <2>4, <3>1 DEF PutCreate
      <3>3. ToActive
        BY <3>1, <3>2 DEF ToActive, With
      <3>4. \E pc \in PutPcs : Goto(p, [proc[p] EXCEPT !.pc = pc])
        BY <2>3, <2>4 DEF PutCreate
      <3> QED BY <2>1, <2>2, <3>3, <3>4, OtherRInv
    <2>5. CASE PutReread(p)
      <3>1. ToActive
        BY <2>5, SameToActive DEF PutReread
      <3>2. CASE HasKey(proc[p].ref[1]) /\ Unwraps(keys[proc[p].ref[1]])
        <4>1. Goto(p, [proc[p] EXCEPT !.pc = "putStore", !.key = keys[proc[p].ref[1]].id])
          BY <2>5, <3>2 DEF PutReread
        <4>2. keys[proc[p].ref[1]].id \in KeyIDs
          BY <3>2, TFacts DEF HasKey
        <4>3. [proc[p] EXCEPT !.pc = "putStore", !.key = keys[proc[p].ref[1]].id].pc \notin RewrapPcs
          BY <2>2, <2>3, <4>2
        <4> QED BY <3>1, <4>1, <4>3, OtherRInv
      <3>3. CASE ~ (HasKey(proc[p].ref[1]) /\ Unwraps(keys[proc[p].ref[1]]))
        <4>1. Goto(p, Idle)
          BY <2>5, <3>3 DEF PutReread
        <4> QED BY <1>0, <3>1, <4>1, OtherRInv
      <3> QED BY <3>2, <3>3
    <2> QED BY <1>4, <2>4, <2>5
  <1>5. ASSUME PutStore(p) \/ GetAudit(p) \/ RewrapEnd(p) \/ Abort(p) PROVE RInv'
    BY <1>0, <1>5, SameToActive, OtherRInv DEF PutStore, GetAudit, RewrapEnd, Abort
  <1>6. ASSUME GetSecret(p) PROVE RInv'
    <2>1. [pc |-> "getAudit", ref |-> proc[p].ref, key |-> proc[p].key,
           sealed |-> secrets[proc[p].ref]].pc \notin RewrapPcs
      BY DEF RewrapPcs, KeyPcs
    <2> QED BY <1>0, <1>6, <2>1, SameToActive, OtherRInv DEF GetSecret
  <1>7. ASSUME DropKey(p) \/ DropList(p) PROVE RInv'
    <2>1. /\ [pc |-> "dropList", owner |-> proc[p].owner, retry |-> proc[p].retry,
              key |-> keys[proc[p].owner].id].pc \notin RewrapPcs
          /\ [pc |-> "drop", owner |-> proc[p].owner, retry |-> proc[p].retry,
              key |-> proc[p].key, listed |-> Listing(proc[p].owner)].pc \notin RewrapPcs
      BY DEF RewrapPcs, KeyPcs
    <2>2. CASE DropKey(p)
      BY <1>0, <2>1, <2>2, SameToActive, OtherRInv DEF DropKey
    <2>3. CASE DropList(p)
      BY <2>1, <2>3, SameToActive, OtherRInv DEF DropList
    <2> QED BY <1>7, <2>2, <2>3
  <1>8. ASSUME Drop(p) PROVE RInv'
    <2>1. ToActive
      <3>1. UNCHANGED keys \/ keys' = Without(keys, {proc[p].owner})
        BY <1>8 DEF Drop
      <3> QED BY <3>1 DEF ToActive, Without
    <2>2. Again(proc[p]).pc \notin RewrapPcs
      BY <1>0 DEF Again, RewrapPcs, KeyPcs
    <2>3. Goto(p, Idle) \/ Goto(p, Again(proc[p]))
      BY <1>8 DEF Drop
    <2> QED BY <1>0, <2>1, <2>2, <2>3, OtherRInv
  <1>9. ASSUME RotateList(p) PROVE RInv'
    <2>1. ToActive
      BY <1>9, SameToActive DEF RotateList
    <2>2. CASE Goto(p, Idle)
      BY <1>0, <2>1, <2>2, OtherRInv
    <2>3. CASE \E k : Goto(p, [pc |-> "rotate", owner |-> proc[p].owner, key |-> proc[p].key,
                               fresh |-> k, listed |-> Listing(proc[p].owner)])
      <3>1. PICK k : Goto(p, [pc |-> "rotate", owner |-> proc[p].owner, key |-> proc[p].key,
                              fresh |-> k, listed |-> Listing(proc[p].owner)])
        BY <2>3
      <3>2. [pc |-> "rotate", owner |-> proc[p].owner, key |-> proc[p].key,
             fresh |-> k, listed |-> Listing(proc[p].owner)].pc \notin RewrapPcs
        BY DEF RewrapPcs, KeyPcs
      <3> QED BY <2>1, <3>1, <3>2, OtherRInv
    <2> QED BY <1>9, <2>2, <2>3 DEF RotateList
  <1>10. ASSUME Rotate(p) PROVE RInv'
    <2>1. PICK k : k = [id |-> proc[p].fresh, master |-> Active]
      OBVIOUS
    <2>2. Goto(p, Idle) /\ (UNCHANGED keys \/ keys' = With(keys, proc[p].owner, k))
      BY <1>10, <2>1 DEF Rotate
    <2>3. ToActive
      BY <2>1, <2>2 DEF ToActive, With
    <2> QED BY <1>0, <2>2, <2>3, OtherRInv
  <1> QED BY <1>1, <1>2, <1>3, <1>4, <1>5, <1>6, <1>7, <1>8, <1>9, <1>10

\* The rewrap itself: the page it reads, and each key it takes.
LEMMA RewrapRInv ==
  ASSUME TInv, RInv, NEW p \in Procs,
         \/ RewrapStart(p) \/ RewrapPage(p) \/ RewrapKey(p) \/ RewrapRetry(p) \/ RewrapAgain(p)
  PROVE  RInv'
  <1>0. DOMAIN keys \subseteq Owners /\ RewrapHolds(proc[p])
    BY DEF TInv, TypeOK, Partial, RInv
  <1>1. CASE RewrapStart(p)
    <2>1. PICK l : l = [pc |-> "rewrapPage", after |-> 0, failed |-> {}]
      OBVIOUS
    <2>2. Goto(p, l) /\ UNCHANGED keys
      BY <1>1, <2>1 DEF RewrapStart
    <2>3. \A o \in DOMAIN keys : o > 0
      BY <1>0, OwnersPositive
    <2>4. RewrapHolds(l)'
      BY <2>1, <2>2, <2>3 DEF RewrapHolds, Ahead, RewrapPcs, KeyPcs
    <2> QED BY <2>2, <2>4, SameToActive, StepRInv
  <1>2. CASE RewrapPage(p)
    <2>1. PICK l : l = [pc |-> "rewrapKey", todo |-> [o \in PageAfter(proc[p].after) |-> keys[o]],
                        next |-> NextAfter(proc[p].after), failed |-> proc[p].failed]
      OBVIOUS
    <2>2. Goto(p, l) /\ UNCHANGED keys /\ proc[p].pc = "rewrapPage"
      BY <1>2, <2>1 DEF RewrapPage
    <2>3. proc[p].after \in Nat
      <3>1. proc[p].after \in Owners \cup {0}
        BY <2>2, TFacts, LocalFields
      <3> QED BY <3>1, OwnersPositive
    <2>4. /\ l.pc = "rewrapKey" /\ l.next = NextAfter(proc[p].after) /\ l.failed = proc[p].failed
          /\ DOMAIN l.todo = PageAfter(proc[p].after) /\ \A o \in DOMAIN l.todo : l.todo[o] = keys[o]
      BY <2>1
    <2>5. ASSUME l.failed = {}, NEW o \in DOMAIN keys PROVE keys[o].master = Active \/ Ahead(l, o)
      <3>1. keys[o].master = Active \/ o > proc[p].after
        BY <1>0, <2>2, <2>4, <2>5 DEF RewrapHolds, Ahead, RewrapPcs, KeyPcs
      <3>2. o > proc[p].after =>
              o \in PageAfter(proc[p].after)
              \/ (NextAfter(proc[p].after) # 0 /\ o > NextAfter(proc[p].after))
        BY <1>0, <2>3, <2>5, Paging
      <3> QED BY <2>4, <3>1, <3>2 DEF Ahead, KeyPcs
    <2>6. RewrapHolds(l)'
      BY <2>2, <2>4, <2>5 DEF RewrapHolds, Ahead
    <2> QED BY <2>2, <2>6, SameToActive, StepRInv
  <1>3. CASE RewrapRetry(p)
    <2>1. UNCHANGED keys /\ proc[p].pc = "rewrapRetry"
      BY <1>3 DEF RewrapRetry
    <2>2. CASE HasKey(First(proc[p].todo))
      <3>1. PICK o, l : o = First(proc[p].todo) /\
                l = [pc |-> "rewrapAgain", todo |-> With(proc[p].todo, o, keys[o]),
                     next |-> proc[p].next, failed |-> proc[p].failed]
        OBVIOUS
      <3>2. Goto(p, l)
        BY <1>3, <2>2, <3>1 DEF RewrapRetry, Rewrapping
      <3>3. /\ l.pc = "rewrapAgain" /\ l.next = proc[p].next /\ l.failed = proc[p].failed
            /\ DOMAIN proc[p].todo \subseteq DOMAIN l.todo
            /\ \A x \in DOMAIN l.todo : x = o \/ (x \in DOMAIN proc[p].todo /\ l.todo[x] = proc[p].todo[x])
            /\ l.todo[o] = keys[o]
        BY <3>1 DEF With
      <3>4. RewrapHolds(l)'
        BY <1>0, <2>1, <3>3 DEF RewrapHolds, Ahead, RewrapPcs, KeyPcs
      <3> QED BY <2>1, <3>2, <3>4, SameToActive, StepRInv
    <2>3. CASE ~ HasKey(First(proc[p].todo))
      <3>1. PICK l : l = Left(proc[p], proc[p].failed \cup {0})
        OBVIOUS
      <3>2. Goto(p, l)
        BY <1>3, <2>3, <3>1 DEF RewrapRetry, Onward, Rewrapping, Left
      <3>3. /\ l.pc = "rewrapKey" /\ l.failed # {} /\ DOMAIN l.todo \subseteq DOMAIN proc[p].todo
            /\ \A x \in DOMAIN l.todo : l.todo[x] = proc[p].todo[x]
        BY <3>1, LeftFields
      <3>4. RewrapHolds(l)'
        BY <1>0, <2>1, <3>3 DEF RewrapHolds, RewrapPcs, KeyPcs
      <3> QED BY <2>1, <3>2, <3>4, SameToActive, StepRInv
    <2> QED BY <2>2, <2>3
  <1>4. CASE RewrapKey(p) \/ RewrapAgain(p)
    <2>1. proc[p].pc \in KeyPcs
      BY <1>4, RewrapStep
    <2>2. PICK m : /\ Goto(p, m)
                   /\ \/ Skips(proc[p], m) \/ Stores(proc[p], m) \/ Fails(proc[p], m)
                      \/ Collides(proc[p], m) \/ Turns(proc[p], m)
      BY <1>4, RewrapStep
    <2>3. PICK o : o = First(proc[p].todo)
      OBVIOUS
    <2>4. CASE Skips(proc[p], m)
      <3>1. /\ m.pc = "rewrapKey" /\ m.failed = proc[p].failed /\ m.next = proc[p].next
            /\ DOMAIN m.todo = DOMAIN proc[p].todo \ {o}
            /\ \A x \in DOMAIN m.todo : m.todo[x] = proc[p].todo[x]
        BY <2>3, <2>4, LeftFields DEF Skips
      <3>2. o \in DOMAIN keys => keys[o].master = Active
        <4>1. o \in DOMAIN proc[p].todo /\ proc[p].todo[o].master = Active
          BY <2>1, <2>3, <2>4, RewrapFields DEF Skips
        <4> QED BY <1>0, <2>1, <4>1 DEF RewrapHolds
      <3>3. UNCHANGED keys
        BY <2>4 DEF Skips
      <3>4. RewrapHolds(m)'
        BY <1>0, <2>1, <3>1, <3>2, <3>3 DEF RewrapHolds, Ahead, RewrapPcs, KeyPcs
      <3> QED BY <2>2, <3>3, <3>4, SameToActive, StepRInv
    <2>5. CASE Stores(proc[p], m)
      <3>1. /\ m.pc = "rewrapKey" /\ m.failed = proc[p].failed /\ m.next = proc[p].next
            /\ DOMAIN m.todo = DOMAIN proc[p].todo \ {o}
            /\ \A x \in DOMAIN m.todo : m.todo[x] = proc[p].todo[x]
        BY <2>3, <2>5, LeftFields DEF Stores
      <3>2. /\ DOMAIN keys' = DOMAIN keys /\ keys'[o].master = Active
            /\ \A x \in DOMAIN keys : x # o => keys'[x] = keys[x]
        <4>1. PICK key : key = proc[p].todo[o]
          OBVIOUS
        <4>2. key \in Key /\ o \in DOMAIN keys /\ keys' = With(keys, o, [key EXCEPT !.master = Active])
          BY <2>1, <2>3, <2>5, <4>1, RewrapFields DEF Stores, HasKey
        <4>3. [key EXCEPT !.master = Active].master = Active
          BY <4>2 DEF Key
        <4> QED BY <4>2, <4>3 DEF With
      <3>3. ToActive
        BY <3>2 DEF ToActive
      <3>4. RewrapHolds(m)'
        BY <1>0, <2>1, <3>1, <3>2 DEF RewrapHolds, Ahead, RewrapPcs, KeyPcs
      <3> QED BY <2>2, <3>3, <3>4, StepRInv
    <2>6. CASE Fails(proc[p], m)
      <3>1. /\ m.pc = "rewrapKey" /\ m.failed # {} /\ DOMAIN m.todo \subseteq DOMAIN proc[p].todo
            /\ \A x \in DOMAIN m.todo : m.todo[x] = proc[p].todo[x]
        <4>1. PICK x : m = Left(proc[p], proc[p].failed \cup {x})
          BY <2>6 DEF Fails
        <4> QED BY <4>1, LeftFields
      <3>2. UNCHANGED keys
        BY <2>6 DEF Fails
      <3>3. RewrapHolds(m)'
        BY <1>0, <2>1, <3>1, <3>2 DEF RewrapHolds, RewrapPcs, KeyPcs
      <3> QED BY <2>2, <3>2, <3>3, SameToActive, StepRInv
    <2>7. CASE Collides(proc[p], m)
      <3>1. /\ m.pc = "rewrapRetry" /\ m.todo = proc[p].todo /\ m.next = proc[p].next
            /\ m.failed = proc[p].failed /\ UNCHANGED keys
        BY <2>7 DEF Collides
      <3>2. RewrapHolds(m)'
        BY <1>0, <2>1, <3>1 DEF RewrapHolds, Ahead, RewrapPcs, KeyPcs
      <3> QED BY <2>2, <3>1, <3>2, SameToActive, StepRInv
    <2>8. CASE Turns(proc[p], m)
      <3>1. /\ proc[p].next = 0 => m.pc = "rewrapDone"
            /\ proc[p].next # 0 => m.pc = "rewrapPage" /\ m.after = proc[p].next
            /\ m.failed = proc[p].failed /\ UNCHANGED keys /\ DOMAIN proc[p].todo = {}
        BY <2>8 DEF Turns
      <3>2. RewrapHolds(m)'
        BY <1>0, <2>1, <3>1 DEF RewrapHolds, Ahead, RewrapPcs, KeyPcs
      <3> QED BY <2>2, <3>1, <3>2, SameToActive, StepRInv
    <2> QED BY <2>2, <2>4, <2>5, <2>6, <2>7, <2>8
  <1> QED BY <1>1, <1>2, <1>3, <1>4

-----------------------------------------------------------------------------
(* The theorems. *)

\* The initial state, a store an earlier deployment has left behind.
LEMMA InitVInv == Init => VInv
  <1>1. SUFFICES ASSUME Init PROVE VInv
    OBVIOUS
  <1>2. /\ proc = [p \in Procs |-> Idle] /\ secrets = << >> /\ latest = << >> /\ audit = {}
        /\ returned = {} /\ crossed = {} /\ torn = {} /\ minted = {keys[o].id : o \in DOMAIN keys}
    BY <1>1 DEF Init
  <1>3. Partial(keys, Owners, Key)
    BY <1>1 DEF Init, Partial
  <1>4. minted \subseteq KeyIDs
    BY <1>2, <1>3 DEF Partial, Key
  <1>5. DOMAIN secrets = {} /\ DOMAIN latest = {}
    BY <1>2
  <1>6. TInv
    BY <1>2, <1>3, <1>4, <1>5, IdleLocal DEF TInv, TypeOK, NoOrphans, ReadsAreRecorded, Partial
  <1>7. SInv
    BY <1>2, <1>5, IdlePc
    DEF SInv, PutHolds, SealedUnderOwnerKey, NoLostWrite
  <1>8. RInv
    BY <1>2, IdlePc DEF RInv, RewrapHolds, RewrapPcs, KeyPcs
  <1> QED BY <1>6, <1>7, <1>8 DEF VInv

\* Every step keeps the invariant.
LEMMA NextVInv == VInv /\ [Next]_vars => VInv'
  <1> SUFFICES ASSUME VInv, [Next]_vars PROVE VInv'
    OBVIOUS
  <1>0. TInv /\ SInv /\ RInv
    BY DEF VInv
  <1>1. CASE UNCHANGED vars
    <2>1. TInv'
      BY <1>0, <1>1 DEF vars, TInv, TypeOK, NoOrphans, ReadsAreRecorded, TodoHeld, HasKey
    <2>2. SInv'
      BY <1>0, <1>1 DEF vars, SInv, PutHolds, SealedUnderOwnerKey, NoLostWrite, HasKey
    <2>3. RInv'
      BY <1>0, <1>1 DEF vars, RInv, RewrapHolds, Ahead
    <2> QED BY <2>1, <2>2, <2>3 DEF VInv
  <1>2. ASSUME NEW p \in Procs, NEW ref \in Ref, GetStart(p, ref) PROVE VInv'
    <2>1. PICK l : l = [pc |-> "getSecret", ref |-> ref, key |-> keys[ref[1]]]
      OBVIOUS
    <2>2. Goto(p, l) /\ l.pc # "putStore" /\ UNCHANGED <<keys, secrets, latest, crossed, torn>>
      BY <1>2, <2>1 DEF GetStart
    <2>3. SInv'
      BY <1>0, <2>2, OtherSInv
    <2> QED BY <1>0, <1>2, <2>3, StartTInv, PlainRInv DEF VInv
  <1>3. ASSUME NEW p \in Procs, NEW ref \in Ref, NEW v \in Values, PutStart(p, ref, v) PROVE VInv'
    BY <1>0, <1>3, StartTInv, StartSInv, PlainRInv DEF VInv
  <1>4. ASSUME NEW p \in Procs, PutCreate(p) \/ PutReread(p) \/ PutStore(p) PROVE VInv'
    BY <1>0, <1>4, PutTInv, PutKeySInv, PutStoreSInv, PlainRInv DEF VInv
  <1>5. ASSUME NEW p \in Procs, GetSecret(p) \/ GetAudit(p) PROVE VInv'
    <2>1. UNCHANGED <<keys, secrets, latest, crossed, torn>>
      BY <1>5 DEF GetSecret, GetAudit
    <2>2. CASE Goto(p, Idle)
      <3>1. SInv'
        BY <1>0, <2>1, <2>2, IdlePc, OtherSInv
      <3> QED BY <1>0, <1>5, <3>1, GetTInv, PlainRInv DEF VInv
    <2>3. CASE ~ Goto(p, Idle)
      <3>1. PICK l : l = [pc |-> "getAudit", ref |-> proc[p].ref, key |-> proc[p].key,
                          sealed |-> secrets[proc[p].ref]]
        OBVIOUS
      <3>2. Goto(p, l) /\ l.pc # "putStore"
        BY <1>5, <2>3, <3>1 DEF GetSecret, GetAudit
      <3>3. SInv'
        BY <1>0, <2>1, <3>2, OtherSInv
      <3> QED BY <1>0, <1>5, <3>3, GetTInv, PlainRInv DEF VInv
    <2> QED BY <2>2, <2>3
  <1>6. ASSUME NEW p \in Procs, NEW o \in Owners, DropStart(p, o) \/ RotateStart(p, o) PROVE VInv'
    BY <1>0, <1>6, StartTInv, StartSInv, PlainRInv DEF VInv
  <1>7. ASSUME NEW p \in Procs, DropKey(p) \/ DropList(p) \/ Drop(p) PROVE VInv'
    BY <1>0, <1>7, DropTInv, DropSInv, PlainRInv DEF VInv
  <1>8. ASSUME NEW p \in Procs, RotateList(p) \/ Rotate(p) PROVE VInv'
    BY <1>0, <1>8, RotateTInv, RotateSInv, PlainRInv DEF VInv
  <1>9. ASSUME NEW p \in Procs, RewrapStart(p) PROVE VInv'
    <2>1. PICK l : l = [pc |-> "rewrapPage", after |-> 0, failed |-> {}]
      OBVIOUS
    <2>2. Goto(p, l) /\ l.pc # "putStore" /\ UNCHANGED <<keys, secrets, latest, crossed, torn>>
      BY <1>9, <2>1 DEF RewrapStart
    <2>3. SInv'
      BY <1>0, <2>2, OtherSInv
    <2> QED BY <1>0, <1>9, <2>3, StartTInv, RewrapRInv DEF VInv
  <1>10. ASSUME NEW p \in Procs, RewrapPage(p) \/ RewrapKey(p) \/ RewrapRetry(p) \/ RewrapAgain(p)
         PROVE  VInv'
    BY <1>0, <1>10, RewrapTInv, RewrapSInv, RewrapRInv DEF VInv
  <1>11. ASSUME NEW p \in Procs, RewrapEnd(p) \/ Abort(p) PROVE VInv'
    <2>1. /\ Goto(p, Idle) /\ UNCHANGED <<keys, secrets, latest, torn>>
          /\ crossed \ {p} \subseteq crossed'
      BY <1>11 DEF RewrapEnd, Abort
    <2>2. SInv'
      BY <1>0, <2>1, IdlePc, OtherSInv
    <2> QED BY <1>0, <1>11, <2>2, StartTInv, PlainRInv DEF VInv
  <1>12. ASSUME NEW ref \in Ref, Delete(ref) PROVE VInv'
    <2>1. RInv'
      BY <1>0, <1>12 DEF Delete, RInv, RewrapHolds, Ahead
    <2> QED BY <1>0, <1>12, <2>1, DeleteTInv, DeleteSInv DEF VInv
  <1> QED BY <1>1, <1>2, <1>3, <1>4, <1>5, <1>6, <1>7, <1>8, <1>9, <1>10, <1>11, <1>12 DEF Next

\* The inductive invariant: the store is sound, a Put about to store that nothing
\* overtook holds the owner's key, what no such race tore opens and is the last
\* value put, and a rewrap has every key under an old master key ahead of it.
THEOREM VaultInvariant == Spec => []VInv
  BY InitVInv, NextVInv, PTL DEF Spec

\* No secret is ever stored without its owner's key, whatever overlaps a
\* DeleteOwner, and no value leaves Get without its record.
THEOREM StoreSoundHolds == Spec => []StoreSound
  <1>1. VInv => StoreSound
    BY DEF VInv, TInv, StoreSound
  <1> QED BY <1>1, VaultInvariant, PTL

\* A secret opens under the key its owner holds and gives the value last put, at
\* its version, whatever runs beside it, unless a rotation or deletion overtook
\* that very Put, or a rotation listed before it and wrote back after it
\* (RotateOwnerKey, Store.ReplaceOwnerKey, Store.PutSecret).
THEOREM SecretsIntactHolds == Spec => []SecretsIntact
  <1>1. VInv => SecretsIntact
    BY DEF VInv, SInv, SecretsIntact
  <1> QED BY <1>1, VaultInvariant, PTL

\* After RewrapOwnerKeys has reported no failure every owner key is under the
\* active master key, for every page size and whatever ran beside it.
THEOREM RewrapCompleteHolds == Spec => []RewrapComplete
  <1>1. VInv => RewrapComplete
    BY DEF VInv, RInv, RewrapHolds, Ahead, RewrapComplete, RewrapPcs, KeyPcs
  <1> QED BY <1>1, VaultInvariant, PTL

\* Whatever leaves the store is logged with the version and the key it had when
\* it was removed (Store.DeleteSecret, stamped in Store.DeleteOwner).
THEOREM DeletionsAreRecordedHolds == Spec => DeletionsAreRecorded
  <1>1. ASSUME Next
        PROVE  \A ref \in DOMAIN secrets \ DOMAIN secrets' :
                  SecretRecord("secret_deleted", ref, secrets[ref], "ok") \in audit'
    <2>0. ASSUME UNCHANGED secrets
          PROVE  \A ref \in DOMAIN secrets \ DOMAIN secrets' :
                    SecretRecord("secret_deleted", ref, secrets[ref], "ok") \in audit'
      BY <2>0
    <2>1. ASSUME NEW p \in Procs, PutStore(p)
          PROVE  \A ref \in DOMAIN secrets \ DOMAIN secrets' :
                    SecretRecord("secret_deleted", ref, secrets[ref], "ok") \in audit'
      <3>1. DOMAIN secrets \subseteq DOMAIN secrets'
        BY <2>1 DEF PutStore, With
      <3> QED BY <3>1
    <2>2. ASSUME NEW p \in Procs, Rotate(p)
          PROVE  \A ref \in DOMAIN secrets \ DOMAIN secrets' :
                    SecretRecord("secret_deleted", ref, secrets[ref], "ok") \in audit'
      <3>1. DOMAIN secrets \subseteq DOMAIN secrets'
        BY <2>2 DEF Rotate, Resealed
      <3> QED BY <3>1
    <2>3. ASSUME NEW r \in Ref, Delete(r)
          PROVE  \A ref \in DOMAIN secrets \ DOMAIN secrets' :
                    SecretRecord("secret_deleted", ref, secrets[ref], "ok") \in audit'
      BY <2>3 DEF Delete, Logs, Without
    <2>4. ASSUME NEW p \in Procs, Drop(p)
          PROVE  \A ref \in DOMAIN secrets \ DOMAIN secrets' :
                    SecretRecord("secret_deleted", ref, secrets[ref], "ok") \in audit'
      <3>0. PICK o, listed : o = proc[p].owner /\ listed = proc[p].listed
        OBVIOUS
      <3>1. CASE HasKey(o) /\ DOMAIN listed = SecretsOf(o)
        <4>1. /\ secrets' = Without(secrets, RefsOf(o))
              /\ stampedRecords(o, listed) \subseteq audit'
          BY <2>4, <3>0, <3>1 DEF Drop, Logs
        <4>2. SUFFICES ASSUME NEW ref \in DOMAIN secrets, ref \notin DOMAIN secrets'
                       PROVE  SecretRecord("secret_deleted", ref, secrets[ref], "ok") \in audit'
          OBVIOUS
        <4>3. PICK n \in Names : ref = <<o, n>>
          BY <4>1, <4>2 DEF Without, RefsOf
        <4>4. n \in DOMAIN listed
          BY <3>1, <4>2, <4>3 DEF SecretsOf
        <4> QED BY <4>1, <4>3, <4>4 DEF stampedRecords
      <3>2. CASE ~ (HasKey(o) /\ DOMAIN listed = SecretsOf(o))
        <4>1. UNCHANGED secrets
          BY <2>4, <3>0, <3>2 DEF Drop
        <4> QED BY <2>0, <4>1
      <3> QED BY <3>1, <3>2
    <2>5. ASSUME NEW p \in Procs,
                 \/ \E ref \in Ref : GetStart(p, ref) \/ \E v \in Values : PutStart(p, ref, v)
                 \/ PutCreate(p) \/ PutReread(p) \/ GetSecret(p) \/ GetAudit(p)
                 \/ \E o \in Owners : DropStart(p, o) \/ RotateStart(p, o)
                 \/ DropKey(p) \/ DropList(p) \/ RotateList(p)
                 \/ RewrapStart(p) \/ RewrapPage(p) \/ RewrapKey(p) \/ RewrapRetry(p)
                 \/ RewrapAgain(p) \/ RewrapEnd(p) \/ Abort(p)
          PROVE  UNCHANGED secrets
      BY <2>5 DEF GetStart, PutStart, PutCreate, PutReread, GetSecret, GetAudit, DropStart,
                  RotateStart, DropKey, DropList, RotateList, RewrapStart, RewrapPage, RewrapKey,
                  RewrapRetry, RewrapAgain, RewrapEnd, Abort
    <2> QED BY <1>1, <2>0, <2>1, <2>2, <2>3, <2>4, <2>5 DEF Next
  <1>2. [Next]_vars =>
          [\A ref \in DOMAIN secrets \ DOMAIN secrets' :
              SecretRecord("secret_deleted", ref, secrets[ref], "ok") \in audit']_vars
    BY <1>1
  <1> QED BY <1>2, PTL DEF Spec, DeletionsAreRecorded
=============================================================================
