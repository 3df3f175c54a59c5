------------------------------- MODULE Vault -------------------------------
(***************************************************************************)
(* The secrets pocket: the vault (logic/vault/service.go) and key rotation *)
(* (logic/rotation/rotation.go) over one repository (stores/memory).       *)
(*                                                                         *)
(* Every repository call runs under one mutex and is one step; the calls   *)
(* of a service operation interleave with those of other operations.  A    *)
(* data key and its KeyID are made and stored together, so a sealed value  *)
(* is modelled by the KeyID it was sealed under.  The wrapper ring is a    *)
(* set of master keys, one of them active.                                 *)
(***************************************************************************)
EXTENDS Integers, FiniteSets

CONSTANTS
    Procs,       \* concurrent callers
    Owners,      \* owners; strings in the code, ordered like numbers, 0 is ""
    Names,       \* secret names
    Values,
    KeyIDs,      \* owner key IDs (random, never repeated)
    Masters,     \* wrapper keys
    Active,      \* the ring's active wrapper key
    Held,        \* the wrapper keys the ring still holds
    Page,        \* RewrapOptions.Page
    Retries,     \* deleteOwnerRetries
    MaxVersion   \* bound: versions of one secret

ASSUME VaultAssumption ==
    /\ Owners \subseteq Nat \ {0}
    /\ Active \in Held /\ Held \subseteq Masters
    /\ Page \in Nat \ {0} /\ Retries \in Nat /\ MaxVersion \in Nat

VARIABLES
    keys,      \* the store's owner keys: a function from owners to keys
    secrets,   \* the store's sealed secrets: a function from references
    audit,     \* the access-log records the last step appended (the log is never read back)
    minted,    \* key IDs made so far
    proc,      \* what each operation in flight holds in its locals
    latest,    \* the last value put under each stored reference, and its version
    returned,  \* what the last step handed out of Get
    crossed,   \* history: callers whose Put has loaded a key that was replaced or destroyed since
    torn       \* history: references such a Put has stored, or whose value a rotation wrote
               \* back, or passed over, although it was put after the rotation's listing

vars == <<keys, secrets, audit, minted, proc, latest, returned, crossed, torn>>

Ref == Owners \X Names
Key == [id : KeyIDs, master : Masters]
Sealed == [version : Nat, key : KeyIDs, value : Values]

Record ==
    [action : {"owner_key_created", "owner_key_rewrapped", "owner_key_rotated", "owner_key_destroyed"},
     owner : Owners, key : KeyIDs]
    \cup [action : {"secret_put", "secret_read", "secret_deleted"}, ref : Ref,
          version : Nat, key : KeyIDs, outcome : {"ok", "denied"}]

KeyRecord(action, o, id) == [action |-> action, owner |-> o, key |-> id]
SecretRecord(action, ref, sealed, outcome) ==
    [action |-> action, ref |-> ref, version |-> sealed.version, key |-> sealed.key,
     outcome |-> outcome]

\* f is a function from part of D to R.
Partial(f, D, R) == DOMAIN f \subseteq D /\ \A x \in DOMAIN f : f[x] \in R

\* f with x added or replaced, and f without the arguments in S.
With(f, x, v) == [y \in DOMAIN f \cup {x} |-> IF y = x THEN v ELSE f[y]]
Without(f, S) == [y \in DOMAIN f \ S |-> f[y]]

Idle == [pc |-> "idle"]

\* The locals of an operation, by the call it is about to make.
IsLocal(l) ==
    \/ l = Idle
    \/ l \in [pc : {"putCreate", "putReread", "putStore"}, ref : Ref, value : Values, key : KeyIDs]
    \/ l \in [pc : {"getSecret"}, ref : Ref, key : Key]
    \/ l \in [pc : {"getAudit"}, ref : Ref, key : Key, sealed : Sealed]
    \/ l \in [pc : {"dropKey"}, owner : Owners, retry : 0..Retries]
    \/ l \in [pc : {"dropList"}, owner : Owners, retry : 0..Retries, key : KeyIDs]
    \/ /\ l.pc = "drop" /\ l.owner \in Owners /\ l.retry \in 0..Retries /\ l.key \in KeyIDs
       /\ Partial(l.listed, Names, Sealed)
    \/ l \in [pc : {"rotateList"}, owner : Owners, key : KeyIDs]
    \/ /\ l.pc = "rotate" /\ l.owner \in Owners /\ l.key \in KeyIDs /\ l.fresh \in KeyIDs
       /\ Partial(l.listed, Names, Sealed)
    \/ l \in [pc : {"rewrapPage"}, after : Owners \cup {0}, failed : SUBSET (Owners \cup {0})]
    \/ /\ l.pc \in {"rewrapKey", "rewrapRetry", "rewrapAgain"}
       /\ Partial(l.todo, Owners, Key) /\ l.next \in Owners \cup {0}
       /\ l.failed \subseteq Owners \cup {0}
    \/ l \in [pc : {"rewrapDone"}, failed : SUBSET (Owners \cup {0})]

\* The records a step appends; a step that appends none hands nothing out.
Logs(records) == audit' = records /\ returned' = {}
Quiet == Logs({})

Goto(p, local) == proc' = [proc EXCEPT ![p] = local]

HasKey(o) == o \in DOMAIN keys
Unwraps(key) == key.master \in Held
SecretsOf(o) == {n \in Names : <<o, n>> \in DOMAIN secrets}
Listing(o) == [n \in SecretsOf(o) |-> secrets[<<o, n>>]]

Putting(o) == {p \in Procs : /\ proc[p].pc \in {"putCreate", "putReread", "putStore"}
                             /\ proc[p].ref[1] = o}

\* The Puts of owner o that have loaded its key and not yet stored their value,
\* and the references of o.
Loaded(o) == {p \in Procs : proc[p].pc = "putStore" /\ proc[p].ref[1] = o}
RefsOf(o) == {<<o, n>> : n \in Names}

\* The references of o whose secret is not the one that was listed.
WrittenSince(o, listed) ==
    {<<o, n>> : n \in {m \in SecretsOf(o) : m \notin DOMAIN listed \/ listed[m] # secrets[<<o, m>>]}}

-----------------------------------------------------------------------------
(* Service.Put *)

\* ownerKey's first look: the owner's key, unwrapped, or a fresh one to create.
PutStart(p, ref, v) ==
    /\ proc[p] = Idle
    /\ Cardinality(Putting(ref[1])) +
          (IF ref \in DOMAIN secrets THEN secrets[ref].version ELSE 0) < MaxVersion
    /\ \/ /\ HasKey(ref[1]) /\ Unwraps(keys[ref[1]])
          /\ Goto(p, [pc |-> "putStore", ref |-> ref, value |-> v, key |-> keys[ref[1]].id])
          /\ UNCHANGED minted
       \/ /\ ~ HasKey(ref[1])
          /\ \E k \in KeyIDs \ minted :
                /\ Goto(p, [pc |-> "putCreate", ref |-> ref, value |-> v, key |-> k])
                /\ minted' = minted \cup {k}
    /\ UNCHANGED <<keys, secrets, latest, crossed, torn>> /\ Quiet

\* CreateOwnerKey; a concurrent first Put that won the insert is read back.
PutCreate(p) ==
    /\ proc[p].pc = "putCreate"
    /\ LET o == proc[p].ref[1]
       IN \/ /\ HasKey(o)
             /\ Goto(p, [proc[p] EXCEPT !.pc = "putReread"])
             /\ UNCHANGED keys /\ Quiet
          \/ /\ ~ HasKey(o)
             /\ keys' = With(keys, o, [id |-> proc[p].key, master |-> Active])
             /\ Logs({KeyRecord("owner_key_created", o, proc[p].key)})
             /\ Goto(p, [proc[p] EXCEPT !.pc = "putStore"])
    /\ UNCHANGED <<secrets, minted, latest, crossed, torn>>

\* Mutated form of PutReread: the loser goes on with the key it failed to create.
PutRereadKeepsOwn(p) ==
    /\ proc[p].pc = "putReread"
    /\ Goto(p, [proc[p] EXCEPT !.pc = "putStore"])
    /\ UNCHANGED <<keys, secrets, minted, latest, crossed, torn>> /\ Quiet

PutReread(p) ==
    /\ proc[p].pc = "putReread"
    /\ LET o == proc[p].ref[1]
       IN IF HasKey(o) /\ Unwraps(keys[o])
          THEN Goto(p, [proc[p] EXCEPT !.pc = "putStore", !.key = keys[o].id])
          ELSE Goto(p, Idle)
    /\ UNCHANGED <<keys, secrets, minted, latest, crossed, torn>> /\ Quiet

\* Mutated form of mayPut: the owner's key is not looked up again.
mayPutAlways(o) == TRUE

\* Store.PutSecret refuses a secret of an owner without a key.
mayPut(o) == HasKey(o)

\* The store assigns the version; it does not compare the key the value is
\* sealed under with the one the owner holds.
PutStore(p) ==
    /\ proc[p].pc = "putStore"
    /\ LET ref == proc[p].ref
           sealed == [version |-> IF ref \in DOMAIN secrets THEN secrets[ref].version + 1 ELSE 1,
                      key |-> proc[p].key, value |-> proc[p].value]
       IN \/ /\ mayPut(ref[1])
             /\ secrets' = With(secrets, ref, sealed)
             /\ latest' = With(latest, ref, <<sealed.version, sealed.value>>)
             /\ torn' = IF p \in crossed THEN torn \cup {ref} ELSE torn \ {ref}
             /\ Logs({SecretRecord("secret_put", ref, sealed, "ok")})
          \/ ~ mayPut(ref[1]) /\ UNCHANGED <<secrets, latest, torn>> /\ Quiet
    /\ crossed' = crossed \ {p}
    /\ Goto(p, Idle)
    /\ UNCHANGED <<keys, minted>>

-----------------------------------------------------------------------------
(* Service.Get and Service.Delete *)

GetStart(p, ref) ==
    /\ proc[p] = Idle
    /\ HasKey(ref[1])
    /\ Goto(p, [pc |-> "getSecret", ref |-> ref, key |-> keys[ref[1]]])
    /\ UNCHANGED <<keys, secrets, minted, latest, crossed, torn>> /\ Quiet

GetSecret(p) ==
    /\ proc[p].pc = "getSecret"
    /\ LET ref == proc[p].ref
       IN IF ref \in DOMAIN secrets
          THEN Goto(p, [pc |-> "getAudit", ref |-> ref, key |-> proc[p].key, sealed |-> secrets[ref]])
          ELSE Goto(p, Idle)
    /\ UNCHANGED <<keys, secrets, minted, latest, crossed, torn>> /\ Quiet

\* Service.open: what the vault records as denied.
denied(p) == ~ Unwraps(proc[p].key) \/ proc[p].sealed.key # proc[p].key.id

\* The read is recorded, and only then handed out; when the append fails the
\* read fails (Abort).
GetAudit(p) ==
    /\ proc[p].pc = "getAudit"
    /\ audit' = {SecretRecord("secret_read", proc[p].ref, proc[p].sealed,
                              IF denied(p) THEN "denied" ELSE "ok")}
    /\ returned' = IF denied(p) THEN {} ELSE {[ref |-> proc[p].ref, sealed |-> proc[p].sealed]}
    /\ Goto(p, Idle)
    /\ UNCHANGED <<keys, secrets, minted, latest, crossed, torn>>

Delete(ref) ==
    /\ ref \in DOMAIN secrets
    /\ secrets' = Without(secrets, {ref})
    /\ latest' = Without(latest, {ref})
    /\ torn' = torn \ {ref}
    /\ Logs({SecretRecord("secret_deleted", ref, secrets[ref], "ok")})
    /\ UNCHANGED <<keys, minted, proc, crossed>>

-----------------------------------------------------------------------------
(* Service.DeleteOwner: list, then delete exactly what was listed. *)

DropStart(p, o) ==
    /\ proc[p] = Idle
    /\ Goto(p, [pc |-> "dropKey", owner |-> o, retry |-> 0])
    /\ UNCHANGED <<keys, secrets, minted, latest, crossed, torn>> /\ Quiet

DropKey(p) ==
    /\ proc[p].pc = "dropKey"
    /\ LET o == proc[p].owner
       IN IF HasKey(o)
          THEN Goto(p, [pc |-> "dropList", owner |-> o, retry |-> proc[p].retry, key |-> keys[o].id])
          ELSE Goto(p, Idle)
    /\ UNCHANGED <<keys, secrets, minted, latest, crossed, torn>> /\ Quiet

DropList(p) ==
    /\ proc[p].pc = "dropList"
    /\ Goto(p, [pc |-> "drop", owner |-> proc[p].owner, retry |-> proc[p].retry,
                key |-> proc[p].key, listed |-> Listing(proc[p].owner)])
    /\ UNCHANGED <<keys, secrets, minted, latest, crossed, torn>> /\ Quiet

\* Mutated form of stampedRecords: the records keep what the caller listed.
listedRecords(o, listed) ==
    {SecretRecord("secret_deleted", <<o, n>>, listed[n], "ok") : n \in DOMAIN listed}

\* stamped: a deletion record names what the store removed.
stampedRecords(o, listed) ==
    {SecretRecord("secret_deleted", <<o, n>>, secrets[<<o, n>>], "ok") : n \in DOMAIN listed}

\* The retry loop of Service.DeleteOwner after a conflict.
Again(local) ==
    IF local.retry = Retries THEN Idle
    ELSE [pc |-> "dropKey", owner |-> local.owner, retry |-> local.retry + 1]

\* Store.DeleteOwner: other names than the listed ones are a conflict.
Drop(p) ==
    LET o == proc[p].owner
        listed == proc[p].listed
    IN /\ proc[p].pc = "drop"
       /\ \/ /\ HasKey(o) /\ DOMAIN listed = SecretsOf(o)
             /\ secrets' = Without(secrets, RefsOf(o))
             /\ latest' = Without(latest, RefsOf(o))
             /\ keys' = Without(keys, {o})
             /\ crossed' = crossed \cup Loaded(o) /\ torn' = torn \ RefsOf(o)
             /\ Logs(stampedRecords(o, listed) \cup {KeyRecord("owner_key_destroyed", o, proc[p].key)})
             /\ Goto(p, Idle)
          \/ /\ HasKey(o) /\ DOMAIN listed # SecretsOf(o)
             /\ Goto(p, Again(proc[p]))
             /\ UNCHANGED <<keys, secrets, latest, crossed, torn>> /\ Quiet
          \/ /\ ~ HasKey(o)
             /\ Goto(p, Idle)
             /\ UNCHANGED <<keys, secrets, latest, crossed, torn>> /\ Quiet
       /\ UNCHANGED minted

-----------------------------------------------------------------------------
(* rotation.Service.RotateOwnerKey *)

RotateStart(p, o) ==
    /\ proc[p] = Idle
    /\ HasKey(o) /\ Unwraps(keys[o])
    /\ Goto(p, [pc |-> "rotateList", owner |-> o, key |-> keys[o].id])
    /\ UNCHANGED <<keys, secrets, minted, latest, crossed, torn>> /\ Quiet

\* The listed secrets are opened under the old key and sealed under a fresh
\* one; a secret under another key is a conflict.
RotateList(p) ==
    /\ proc[p].pc = "rotateList"
    /\ LET o == proc[p].owner
       IN \/ /\ \A n \in SecretsOf(o) : secrets[<<o, n>>].key = proc[p].key
             /\ \E k \in KeyIDs \ minted :
                   /\ Goto(p, [pc |-> "rotate", owner |-> o, key |-> proc[p].key, fresh |-> k,
                               listed |-> Listing(o)])
                   /\ minted' = minted \cup {k}
          \/ /\ \E n \in SecretsOf(o) : secrets[<<o, n>>].key # proc[p].key
             /\ Goto(p, Idle)
             /\ UNCHANGED minted
    /\ UNCHANGED <<keys, secrets, latest, crossed, torn>> /\ Quiet

\* Store.ReplaceOwnerKey's conditions.
mayReplace(o, expected, names) ==
    /\ HasKey(o) /\ keys[o].id = expected
    /\ \A n \in names : <<o, n>> \in DOMAIN secrets

\* The secrets with owner o's listed values written back under a fresh key.
Resealed(o, listed, fresh) ==
    LET resealed == {<<o, n>> : n \in DOMAIN listed}
    IN [ref \in DOMAIN secrets \cup resealed |->
           IF ref \notin resealed THEN secrets[ref]
           ELSE [version |-> IF ref \in DOMAIN secrets THEN secrets[ref].version ELSE 0,
                 key |-> fresh, value |-> listed[ref[2]].value]]

Rotate(p) ==
    LET o == proc[p].owner
        listed == proc[p].listed
        fresh == proc[p].fresh
    IN /\ proc[p].pc = "rotate"
       /\ \/ /\ mayReplace(o, proc[p].key, DOMAIN listed)
             /\ keys' = With(keys, o, [id |-> fresh, master |-> Active])
             /\ secrets' = Resealed(o, listed, fresh)
             /\ crossed' = crossed \cup Loaded(o)
             /\ torn' = torn \cup WrittenSince(o, listed)
             /\ Logs({KeyRecord("owner_key_rotated", o, fresh)})
          \/ /\ ~ mayReplace(o, proc[p].key, DOMAIN listed)
             /\ UNCHANGED <<keys, secrets, crossed, torn>> /\ Quiet
       /\ Goto(p, Idle)
       /\ UNCHANGED <<minted, latest>>

-----------------------------------------------------------------------------
(* rotation.Service.RewrapOwnerKeys *)

RewrapStart(p) ==
    /\ proc[p] = Idle
    /\ Goto(p, [pc |-> "rewrapPage", after |-> 0, failed |-> {}])
    /\ UNCHANGED <<keys, secrets, minted, latest, crossed, torn>> /\ Quiet

\* The owners of the next page, and where the one after it starts (0: nowhere).
PageAfter(after) ==
    {o \in DOMAIN keys : o > after /\ Cardinality({q \in DOMAIN keys : after < q /\ q < o}) < Page}

\* Mutated form of NextAfter: a full page is taken for the last one.
NextAfterShort(after) ==
    IF Cardinality(PageAfter(after)) = Page THEN 0
    ELSE IF \E o \in DOMAIN keys : o > after /\ o \notin PageAfter(after)
    THEN CHOOSE o \in PageAfter(after) : \A q \in PageAfter(after) : q <= o
    ELSE 0

NextAfter(after) ==
    IF \E o \in DOMAIN keys : o > after /\ o \notin PageAfter(after)
    THEN CHOOSE o \in PageAfter(after) : \A q \in PageAfter(after) : q <= o
    ELSE 0

RewrapPage(p) ==
    /\ proc[p].pc = "rewrapPage"
    /\ LET after == proc[p].after
       IN Goto(p, [pc |-> "rewrapKey", todo |-> [o \in PageAfter(after) |-> keys[o]],
                   next |-> NextAfter(after), failed |-> proc[p].failed])
    /\ UNCHANGED <<keys, secrets, minted, latest, crossed, torn>> /\ Quiet

\* The owner at hand.
First(todo) == CHOOSE o \in DOMAIN todo : \A q \in DOMAIN todo : o <= q

\* A rewrap between two of its calls, and on its way to the page's next key,
\* with those that failed so far.
Rewrapping(p, pc, todo, failed) ==
    Goto(p, [pc |-> pc, todo |-> todo, next |-> proc[p].next, failed |-> failed])
Onward(p, failed) ==
    Rewrapping(p, "rewrapKey", Without(proc[p].todo, {First(proc[p].todo)}), failed)

\* rewrap: unwraps the key as read and stores it under the active master key,
\* unless it has been replaced since.
Rewrap(p, conflict) ==
    LET o == First(proc[p].todo)
        key == proc[p].todo[o]
    IN \/ /\ Unwraps(key) /\ mayReplace(o, key.id, {})
          /\ keys' = With(keys, o, [key EXCEPT !.master = Active])
          /\ Logs({KeyRecord("owner_key_rewrapped", o, key.id)})
          /\ Onward(p, proc[p].failed)
       \/ /\ ~ Unwraps(key) \/ ~ HasKey(o)
          /\ Onward(p, proc[p].failed \cup {o})
          /\ UNCHANGED keys /\ Quiet
       \/ /\ Unwraps(key) /\ HasKey(o) /\ keys[o].id # key.id
          /\ conflict
          /\ UNCHANGED keys /\ Quiet

RewrapKey(p) ==
    /\ proc[p].pc = "rewrapKey"
    /\ LET todo == proc[p].todo
       IN \/ /\ DOMAIN todo # {} /\ todo[First(todo)].master = Active
             /\ Onward(p, proc[p].failed)
             /\ UNCHANGED keys /\ Quiet
          \/ /\ DOMAIN todo # {} /\ todo[First(todo)].master # Active
             /\ Rewrap(p, Rewrapping(p, "rewrapRetry", todo, proc[p].failed))
          \/ /\ DOMAIN todo = {}
             /\ Goto(p, IF proc[p].next = 0
                        THEN [pc |-> "rewrapDone", failed |-> proc[p].failed]
                        ELSE [pc |-> "rewrapPage", after |-> proc[p].next, failed |-> proc[p].failed])
             /\ UNCHANGED keys /\ Quiet
    /\ UNCHANGED <<secrets, minted, latest, crossed, torn>>

\* A conflict is retried once with the key read again.  When the owner is gone
\* the variable holding it has been overwritten, and an empty owner is reported.
RewrapRetry(p) ==
    /\ proc[p].pc = "rewrapRetry"
    /\ LET o == First(proc[p].todo)
       IN IF HasKey(o)
          THEN Rewrapping(p, "rewrapAgain", With(proc[p].todo, o, keys[o]), proc[p].failed)
          ELSE Onward(p, proc[p].failed \cup {0})
    /\ UNCHANGED <<keys, secrets, minted, latest, crossed, torn>> /\ Quiet

RewrapAgain(p) ==
    /\ proc[p].pc = "rewrapAgain"
    /\ Rewrap(p, Onward(p, proc[p].failed \cup {First(proc[p].todo)}))
    /\ UNCHANGED <<secrets, minted, latest, crossed, torn>>

RewrapEnd(p) ==
    /\ proc[p].pc = "rewrapDone"
    /\ Goto(p, Idle)
    /\ UNCHANGED <<keys, secrets, minted, latest, crossed, torn>> /\ Quiet

-----------------------------------------------------------------------------
\* A store or wrapper error, a canceled context or a crash ends an operation
\* between two of its calls.
Abort(p) ==
    /\ proc[p] # Idle
    /\ Goto(p, Idle)
    /\ crossed' = crossed \ {p}
    /\ UNCHANGED <<keys, secrets, minted, latest, torn>> /\ Quiet

\* A store an earlier deployment, with any active master key, has left behind.
Init ==
    /\ \E o \in SUBSET Owners : keys \in [o -> Key]
    /\ \A o, q \in DOMAIN keys : keys[o].id = keys[q].id => o = q
    /\ minted = {keys[o].id : o \in DOMAIN keys}
    /\ secrets = << >> /\ latest = << >>
    /\ audit = {} /\ returned = {} /\ crossed = {} /\ torn = {}
    /\ proc = [p \in Procs |-> Idle]

Next ==
    \/ \E p \in Procs :
          \/ \E ref \in Ref : GetStart(p, ref) \/ \E v \in Values : PutStart(p, ref, v)
          \/ PutCreate(p) \/ PutReread(p) \/ PutStore(p)
          \/ GetSecret(p) \/ GetAudit(p)
          \/ \E o \in Owners : DropStart(p, o) \/ RotateStart(p, o)
          \/ DropKey(p) \/ DropList(p) \/ Drop(p)
          \/ RotateList(p) \/ Rotate(p)
          \/ RewrapStart(p) \/ RewrapPage(p) \/ RewrapKey(p)
          \/ RewrapRetry(p) \/ RewrapAgain(p) \/ RewrapEnd(p)
          \/ Abort(p)
    \/ \E ref \in Ref : Delete(ref)

Spec == Init /\ [][Next]_vars

-----------------------------------------------------------------------------
(* Properties. *)

\* The store and the operations in flight are well formed.
TypeOK ==
    /\ Partial(keys, Owners, Key)
    /\ Partial(secrets, Ref, Sealed)
    /\ audit \subseteq Record
    /\ minted \subseteq KeyIDs
    /\ DOMAIN proc = Procs /\ \A p \in Procs : IsLocal(proc[p])
    /\ Partial(latest, Ref, Nat \X Values)
    /\ returned \subseteq [ref : Ref, sealed : Sealed]
    /\ crossed \subseteq Procs /\ torn \subseteq Ref

\* Deleting an owner destroys its key together with all its secrets: no secret
\* is ever stored for an owner without a key, although a Put that read the key
\* may store its value after the deletion.
NoOrphans == \A ref \in DOMAIN secrets : HasKey(ref[1])

\* A rotation gives an owner a new key "and reseals its secrets under it,
\* atomically" (RotateOwnerKey).  So much of it holds: through concurrent first
\* Puts, rotations, deletions, rewraps and failures a stored secret is sealed
\* under the key its owner holds, except the secret of a Put that a rotation or
\* deletion overtook between its two calls, or that was stored between a
\* rotation's listing and its write-back; the next Put that is not overtaken
\* puts it right.  What the sentence says without the exception is
\* EverySecretOpens.
SealedUnderOwnerKey ==
    \A ref \in DOMAIN secrets \ torn :
        HasKey(ref[1]) /\ secrets[ref].key = keys[ref[1]].id

\* Rotation changes no value and undoes no deletion: what is stored is the last
\* value put, at its version, with the same exception and no other; a Put that
\* was refused or failed takes nothing away.
NoLostWrite ==
    \A ref \in DOMAIN secrets \ torn :
        ref \in DOMAIN latest /\ <<secrets[ref].version, secrets[ref].value>> = latest[ref]

\* RotateOwnerKey "gives an owner a new data key and reseals its secrets under
\* it, atomically": every stored secret opens under the key its owner holds.
\* The code does not keep this; the run vault_rotation shows how.
EverySecretOpens ==
    \A ref \in DOMAIN secrets : HasKey(ref[1]) /\ secrets[ref].key = keys[ref[1]].id

\* "No value leaves without its record" (Get): whatever was handed out is in the
\* access log with the version and the key it was read at.
ReadsAreRecorded ==
    \A r \in returned : SecretRecord("secret_read", r.ref, r.sealed, "ok") \in audit

\* A deletion is logged with "the version and key id the store removed, not the
\* ones the caller listed", although the secret may be rewritten after the
\* listing.
DeletionsAreRecorded ==
    [][\A ref \in DOMAIN secrets \ DOMAIN secrets' :
          SecretRecord("secret_deleted", ref, secrets[ref], "ok") \in audit']_vars

\* After a rewrap that reports no failure the old master keys may be dropped:
\* every owner key is under the active one, those created, rotated or paged
\* past while it ran included.
RewrapComplete ==
    \A p \in Procs :
        (proc[p].pc = "rewrapDone" /\ proc[p].failed = {}) =>
            \A o \in DOMAIN keys : keys[o].master = Active

\* The store stays sound through every overlap of Puts, rotations and deletions:
\* it is well formed, no secret is left without its owner's key and no value
\* has left without its record.
StoreSound == TypeOK /\ NoOrphans /\ ReadsAreRecorded

\* Whatever runs concurrently, a secret opens under the key its owner holds and
\* gives the value last put, unless its own last Put was overtaken by a rotation
\* or deletion of the owner (RotateOwnerKey, ReplaceOwnerKey, PutSecret).
SecretsIntact == SealedUnderOwnerKey /\ NoLostWrite
=============================================================================
