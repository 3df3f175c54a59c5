------------------------------ MODULE Accounts ------------------------------
(***************************************************************************)
(* The credential fence of the authentication pocket: the use cases of     *)
(* logic/authentication that prove who is calling and act on the proof, as *)
(* they interleave over the transactions of stores/pgx.                    *)
(*                                                                         *)
(* Every store call is one transaction under the lock of the user's row    *)
(* and one step; between two calls of a use case anything may happen, and  *)
(* any call may fail or its process die (Abandon).  The fence is the       *)
(* user's auth_revision: read before a proof, compared when it is used.    *)
(*                                                                         *)
(* Each user has one address, which serves login and recovery and is       *)
(* verified, and some other method, so that the credential policy admits   *)
(* retiring the address.  Expiry is left to the store's other answers: a   *)
(* session or challenge that expired is one a later step does not find.    *)
(***************************************************************************)
EXTENDS Integers, FiniteSets, FiniteSetsExt

CONSTANTS
    Users,        \* user IDs, in the store's byte order; 0 is ""
    Passwords,
    None,         \* no password
    Procs,        \* requests and delivery workers in flight
    Callers,      \* the users they and the administrator act on; the others are only logged in
    Batch,        \* globalRevocationBatchSize
    MaxRevision,  \* bound: the sum of the auth_revisions
    MaxRequests,  \* bound: requests made
    MaxSessions,  \* bound: sessions ever made, the users' first ones included
    MaxRuns       \* bound: global revocations

ASSUME AccountsAssumption ==
    /\ Users \subseteq 1..MaxSessions
    /\ None \notin Passwords /\ Callers \subseteq Users
    /\ Batch \in Nat \ {0} /\ MaxRevision \in Nat /\ MaxRequests \in Nat
    /\ MaxSessions \in Nat /\ MaxRuns \in Nat

VARIABLES
    users,       \* users: status and auth_revision
    hash,        \* user_passwords: the password and whether its hash is below the work factor
    retired,     \* user_identifiers: the revision at which the address was retired, 0 while active
    challenges,  \* challenges: the binding of the one stored reset token and magic link
    sessions,    \* sessions, each with the proof that admitted it
    grants,      \* recent-authentication grants
    made,        \* sessions made so far, the last session ID
    proc,        \* the locals of each request
    requests,    \* requests made so far
    global,      \* the locals of RevokeAllSessions
    epoch,       \* history: global revocations started
    cleared,     \* history: the last one that succeeded
    revoked      \* history: sessions ended by a revocation of their user

store == <<users, hash, retired, challenges, sessions, grants, made, revoked>>
run == <<global, epoch, cleared>>
vars == <<store, proc, requests, run>>

NoHash == [pw |-> None, weak |-> FALSE]
Hash == [pw : Passwords, weak : BOOLEAN] \cup {NoHash}
Purposes == {"password_reset", "login_magic_link"}
Revision == Nat
Binding == [rev : Revision, epoch : 0..MaxRuns]
NoBinding == [rev |-> -1, epoch |-> 0]

\* A session with, as history, the password and the address that proved its
\* user, and the revision and the epoch the proof was bound to.
Session ==
    [id : 1..MaxSessions, user : Users, pw : Passwords \cup {None}, via : BOOLEAN,
     rev : Revision, epoch : 0..MaxRuns]
Grant == [session : 1..MaxSessions, user : Users]

\* A request holds the user, what the caller presented (a password, a new
\* password, a session) and what it has read (the revision, a hash).
Idle ==
    [pc |-> "idle", user |-> 0, pw |-> None, new |-> None, session |-> 0, via |-> FALSE,
     rev |-> 0, epoch |-> 0, hash |-> NoHash, purpose |-> "password_reset"]
Local ==
    [pc : {"idle", "loginUser", "loginAgain", "loginHash", "rehash", "mint", "changeHash", "change",
           "owned", "live", "authorise", "retire", "stepHash", "grant", "issueUser", "issueAgain",
           "issue", "linkResolve", "linkUser", "linkAgain", "logoutGrants"},
     user : Users \cup {0}, pw : Passwords \cup {None}, new : Passwords \cup {None},
     session : 0..MaxSessions, via : BOOLEAN, rev : Revision, epoch : 0..MaxRuns,
     hash : Hash, purpose : Purposes]

Goto(p, local) == proc' = [proc EXCEPT ![p] = local]
At(p, pc) == proc[p].pc = pc
On(p, pc) == Goto(p, [proc[p] EXCEPT !.pc = pc])
Return(p) == Goto(p, Idle)

Active(u) == users[u].status = "active"
AddressActive(u) == retired[u] = 0
Live(id) == \E s \in sessions : s.id = id
SessionsOf(U) == {s \in sessions : s.user \in U}
GrantsOf(U) == {g \in grants : g.user \in U}

\* users.Get hands out the revision, and with it the epoch the proof begins in.
ReadUser(p, pc) ==
    Goto(p, [proc[p] EXCEPT !.pc = pc, !.rev = users[proc[p].user].rev, !.epoch = epoch])

-----------------------------------------------------------------------------
(* The transactions of the store.  Bumped advances the revisions of U, and *)
(* Revoke ends what rests on them.                                         *)

Bumped(U) == [u \in Users |-> IF u \in U THEN [users[u] EXCEPT !.rev = @ + 1] ELSE users[u]]
mayBump(U) == MapThenSumSet(LAMBDA u : users[u].rev, Users) + Cardinality(U) <= MaxRevision

EndSessions(U) ==
    /\ sessions' = sessions \ SessionsOf(U)
    /\ grants' = grants \ GrantsOf(U)
    /\ revoked' = revoked \cup {s.id : s \in SessionsOf(U)}

WithoutResets(U) ==
    [u \in Users |-> IF u \in U THEN [challenges[u] EXCEPT !["password_reset"] = NoBinding]
                                ELSE challenges[u]]

revokeCredentialState(U) == EndSessions(U) /\ challenges' = WithoutResets(U)

\* Mutated form of admits: the proof's revision is not compared.
admitsAnyRevision(p) == Active(proc[p].user)

\* CreateForActiveUser admits a session.
admits(p) == Active(proc[p].user) /\ users[proc[p].user].rev = proc[p].rev

Mint(p) ==
    /\ At(p, "mint")
    /\ \/ /\ admits(p) /\ made < MaxSessions
          /\ made' = made + 1
          /\ sessions' = sessions \cup
                {[id |-> made + 1, user |-> proc[p].user, pw |-> proc[p].pw, via |-> proc[p].via,
                  rev |-> proc[p].rev, epoch |-> proc[p].epoch]}
       \/ ~ admits(p) /\ UNCHANGED <<made, sessions>>
    /\ Return(p)
    /\ UNCHANGED <<users, hash, retired, challenges, grants, revoked, run>>

-----------------------------------------------------------------------------
(* Login and IssueToken: provePassword, then the mint. *)

\* GetLogin resolves the address; one that resolves nothing ends the request.
Login(p, u, pw) ==
    /\ proc[p] = Idle /\ AddressActive(u)
    /\ Goto(p, [Idle EXCEPT !.pc = "loginUser", !.user = u, !.pw = pw, !.via = TRUE])
    /\ UNCHANGED <<store, run>>

LoginUser(p) ==
    /\ At(p, "loginUser")
    /\ ReadUser(p, "loginAgain")
    /\ UNCHANGED <<store, run>>

\* The address is resolved again after the revision.
LoginAgain(p) ==
    /\ At(p, "loginAgain")
    /\ IF AddressActive(proc[p].user) THEN On(p, "loginHash") ELSE Return(p)
    /\ UNCHANGED <<store, run>>

\* A verified hash below the work factor is upgraded on the way.
Verified(p, next) ==
    LET h == hash[proc[p].user]
    IN IF h # NoHash /\ h.pw = proc[p].pw
       THEN IF h.weak THEN Goto(p, [proc[p] EXCEPT !.pc = "rehash", !.hash = h]) ELSE On(p, next)
       ELSE Return(p)

LoginHash(p) ==
    /\ At(p, "loginHash")
    /\ Verified(p, "mint")
    /\ UNCHANGED <<store, run>>

\* Mutated form of upgrades: the row is inserted when there is none.
upgradesOrInserts(p) == hash[proc[p].user] \in {proc[p].hash, NoHash}

\* UpgradeHash replaces the hash it was computed from.
upgrades(p) == hash[proc[p].user] = proc[p].hash

\* rehashIfNeeded never fails its caller, a login or a step-up.
Rehash(p) ==
    /\ At(p, "rehash")
    /\ \/ upgrades(p) /\ hash' = [hash EXCEPT ![proc[p].user] = [proc[p].hash EXCEPT !.weak = FALSE]]
       \/ UNCHANGED hash
    /\ Goto(p, [proc[p] EXCEPT !.pc = IF proc[p].session = 0 THEN "mint" ELSE "grant", !.hash = NoHash])
    /\ UNCHANGED <<users, retired, challenges, sessions, grants, made, revoked, run>>

-----------------------------------------------------------------------------
(* ChangePassword, and the change SetPassword ends in. *)

ChangePassword(p, u, pw, new) ==
    /\ proc[p] = Idle
    /\ Goto(p, [Idle EXCEPT !.pc = "changeHash", !.user = u, !.pw = pw, !.new = new,
                            !.rev = users[u].rev, !.epoch = epoch])
    /\ UNCHANGED <<store, run>>

ChangeHash(p) ==
    /\ At(p, "changeHash")
    /\ LET h == hash[proc[p].user]
       IN IF h # NoHash /\ h.pw = proc[p].pw
          THEN Goto(p, [proc[p] EXCEPT !.pc = "change", !.hash = h])
          ELSE Return(p)
    /\ UNCHANGED <<store, run>>

\* changePassword compares the revision and the hash it was given.
mayChange(p) ==
    /\ Active(proc[p].user) /\ users[proc[p].user].rev = proc[p].rev
    /\ hash[proc[p].user] = proc[p].hash

\* The caller's fresh session is admitted at the revision the change returned.
Change(p) ==
    LET u == proc[p].user
    IN /\ At(p, "change")
       /\ \/ /\ mayChange(p) /\ mayBump({u})
             /\ users' = Bumped({u})
             /\ hash' = [hash EXCEPT ![u] = [pw |-> proc[p].new, weak |-> FALSE]]
             /\ revokeCredentialState({u})
             /\ Goto(p, [Idle EXCEPT !.pc = "mint", !.user = u, !.pw = proc[p].new,
                                     !.rev = proc[p].rev + 1, !.epoch = proc[p].epoch])
          \/ /\ ~ mayChange(p) /\ Return(p)
             /\ UNCHANGED <<users, hash, challenges, sessions, grants, revoked>>
       /\ UNCHANGED <<retired, made, run>>

-----------------------------------------------------------------------------
(* What a live session may do: SetPassword (new is the password) and       *)
(* RemoveIdentifier (no new password), both behind                         *)
(* RequireRecentAuthentication, and earning a grant with the password.     *)

Sensitive(p, s, new) ==
    /\ proc[p] = Idle
    /\ Goto(p, [Idle EXCEPT !.pc = "owned", !.user = s.user, !.session = s.id, !.new = new,
                            !.rev = users[s.user].rev, !.epoch = epoch])
    /\ UNCHANGED <<store, run>>

\* SetPassword refuses an account that has one, RemoveIdentifier an address
\* that is not active.
applies(p) == IF proc[p].new # None THEN hash[proc[p].user] = NoHash ELSE AddressActive(proc[p].user)

Owned(p) ==
    /\ At(p, "owned")
    /\ IF applies(p) THEN On(p, "live") ELSE Return(p)
    /\ UNCHANGED <<store, run>>

StepUp(p, s, pw) ==
    /\ proc[p] = Idle
    /\ Goto(p, [Idle EXCEPT !.pc = "live", !.user = s.user, !.session = s.id, !.pw = pw,
                            !.rev = users[s.user].rev, !.epoch = epoch])
    /\ UNCHANGED <<store, run>>

\* liveStepUpSession.  Its two reads are one step: the owner of a stored
\* session is active, so the session's presence decides at its own read.
LiveStepUpSession(p) ==
    /\ At(p, "live")
    /\ IF Live(proc[p].session) /\ Active(proc[p].user)
       THEN On(p, IF proc[p].pw # None THEN "stepHash" ELSE "authorise")
       ELSE Return(p)
    /\ UNCHANGED <<store, run>>

StepHash(p) ==
    /\ At(p, "stepHash")
    /\ Verified(p, "grant")
    /\ UNCHANGED <<store, run>>

\* lockGrantSession: the user is active and the session stored.
lockGrantSession(p) == Active(proc[p].user) /\ Live(proc[p].session)

\* issueGrant: AuthGrantStore.Create at the revision read before the proof.
IssueGrant(p) ==
    /\ At(p, "grant")
    /\ grants' = IF lockGrantSession(p) /\ users[proc[p].user].rev = proc[p].rev
                 THEN grants \cup {[session |-> proc[p].session, user |-> proc[p].user]}
                 ELSE grants
    /\ Return(p)
    /\ UNCHANGED <<users, hash, retired, challenges, sessions, made, revoked, run>>

\* Mutated form of Authorised: the change is rebased onto the present revision.
AuthorisedRebased(p) ==
    ReadUser(p, IF proc[p].new # None THEN "change" ELSE "retire")

Authorised(p) == On(p, IF proc[p].new # None THEN "change" ELSE "retire")

\* RequireRecentAuthentication: a recent login needs no grant; otherwise one
\* is spent.
Authorise(p) ==
    /\ At(p, "authorise")
    /\ \/ UNCHANGED grants
       \/ /\ lockGrantSession(p)
          /\ [session |-> proc[p].session, user |-> proc[p].user] \in grants
          /\ grants' = grants \ {[session |-> proc[p].session, user |-> proc[p].user]}
    /\ Authorised(p)
    /\ UNCHANGED <<users, hash, retired, challenges, sessions, made, revoked, run>>

\* CredentialMutationStore.Apply of RetireIdentifier, whatever the status.
mayRetire(p) == users[proc[p].user].rev = proc[p].rev /\ AddressActive(proc[p].user)

RetireIdentifier(p) ==
    LET u == proc[p].user
    IN /\ At(p, "retire")
       /\ \/ /\ mayRetire(p) /\ mayBump({u})
             /\ users' = Bumped({u})
             /\ retired' = [retired EXCEPT ![u] = users[u].rev + 1]
             /\ revokeCredentialState({u})
          \/ /\ ~ mayRetire(p)
             /\ UNCHANGED <<users, retired, challenges, sessions, grants, revoked>>
       /\ Return(p)
       /\ UNCHANGED <<hash, made, run>>

-----------------------------------------------------------------------------
(* Proofs sent to the address: the delivery worker issues a reset token or *)
(* a magic link; ResetPassword and RedeemPasswordless spend them.          *)

Issue(p, u, purpose) ==
    /\ proc[p] = Idle /\ AddressActive(u)
    /\ Goto(p, [Idle EXCEPT !.pc = "issueUser", !.user = u, !.purpose = purpose])
    /\ UNCHANGED <<store, run>>

IssueUser(p) ==
    /\ At(p, "issueUser")
    /\ IF Active(proc[p].user) THEN ReadUser(p, "issueAgain") ELSE Return(p)
    /\ UNCHANGED <<store, run>>

\* Mutated form of IssueAgain: the address is not read again.
IssueAgainSkipped(p) ==
    /\ At(p, "issueAgain")
    /\ On(p, "issue")
    /\ UNCHANGED <<store, run>>

IssueAgain(p) ==
    /\ At(p, "issueAgain")
    /\ IF AddressActive(proc[p].user) THEN On(p, "issue") ELSE Return(p)
    /\ UNCHANGED <<store, run>>

\* Replace stores the binding over the earlier one.
Replace(p) ==
    /\ At(p, "issue")
    /\ challenges' = [challenges EXCEPT ![proc[p].user][proc[p].purpose] =
                         [rev |-> proc[p].rev, epoch |-> proc[p].epoch]]
    /\ Return(p)
    /\ UNCHANGED <<users, hash, retired, sessions, grants, made, revoked, run>>

\* Redeem checks the binding, sets the password and revokes in one
\* transaction; a proof that fails the check changes nothing.
ResetPassword(u, new) ==
    /\ challenges[u]["password_reset"].rev = users[u].rev
    /\ Active(u) /\ AddressActive(u) /\ mayBump({u})
    /\ users' = Bumped({u})
    /\ hash' = [hash EXCEPT ![u] = [pw |-> new, weak |-> FALSE]]
    /\ revokeCredentialState({u})
    /\ UNCHANGED <<retired, made, proc, run>>

\* ConsumeToken spends the link before anything else is read.
RedeemLink(p, u) ==
    /\ proc[p] = Idle /\ challenges[u]["login_magic_link"] # NoBinding
    /\ challenges' = [challenges EXCEPT ![u]["login_magic_link"] = NoBinding]
    /\ Goto(p, [Idle EXCEPT !.pc = "linkResolve", !.user = u, !.via = TRUE,
                            !.rev = challenges[u]["login_magic_link"].rev,
                            !.epoch = challenges[u]["login_magic_link"].epoch])
    /\ UNCHANGED <<users, hash, retired, sessions, grants, made, revoked, run>>

LinkResolve(p) ==
    /\ At(p, "linkResolve")
    /\ IF AddressActive(proc[p].user) THEN On(p, "linkUser") ELSE Return(p)
    /\ UNCHANGED <<store, run>>

\* The revision read must be the one the link was bound to.
LinkUser(p) ==
    /\ At(p, "linkUser")
    /\ IF users[proc[p].user].rev = proc[p].rev THEN On(p, "linkAgain") ELSE Return(p)
    /\ UNCHANGED <<store, run>>

LinkAgain(p) ==
    /\ At(p, "linkAgain")
    /\ IF AddressActive(proc[p].user) THEN On(p, "mint") ELSE Return(p)
    /\ UNCHANGED <<store, run>>

-----------------------------------------------------------------------------
(* Ending sessions, and the administrator. *)

\* Logout deletes the session, then, best effort, its grants.
Logout(p, s) ==
    /\ proc[p] = Idle
    /\ sessions' = sessions \ {s}
    /\ Goto(p, [Idle EXCEPT !.pc = "logoutGrants", !.session = s.id])
    /\ UNCHANGED <<users, hash, retired, challenges, grants, made, revoked, run>>

LogoutGrants(p) ==
    /\ At(p, "logoutGrants")
    /\ grants' = {g \in grants : g.session # proc[p].session}
    /\ Return(p)
    /\ UNCHANGED <<users, hash, retired, challenges, sessions, made, revoked, run>>

\* RevokeUserSession: the session and its grants in one transaction.
DeleteForUser(s) ==
    /\ sessions' = sessions \ {s}
    /\ grants' = {g \in grants : g.session # s.id}
    /\ UNCHANGED <<users, hash, retired, challenges, made, revoked, proc, run>>

RevokeAllForUser(u) ==
    /\ mayBump({u})
    /\ users' = Bumped({u})
    /\ revokeCredentialState({u})
    /\ UNCHANGED <<hash, retired, made, proc, run>>

\* SetStatus; an erased user stays as it is, an unchanged status too.
SetStatus(u, status) ==
    /\ users[u].status \notin {"erased", status} /\ mayBump({u})
    /\ users' = [users EXCEPT ![u] = [status |-> status, rev |-> @.rev + 1]]
    /\ EndSessions({u})
    /\ UNCHANGED <<hash, retired, challenges, made, proc, run>>

Erase(u) ==
    /\ users[u].status # "erased" /\ mayBump({u})
    /\ users' = [users EXCEPT ![u] = [status |-> "erased", rev |-> @.rev + 1]]
    /\ hash' = [hash EXCEPT ![u] = NoHash]
    /\ retired' = [retired EXCEPT ![u] = IF @ = 0 THEN users[u].rev + 1 ELSE @]
    /\ challenges' = [challenges EXCEPT ![u] = [c \in Purposes |-> NoBinding]]
    /\ EndSessions({u})
    /\ UNCHANGED <<made, proc, run>>

-----------------------------------------------------------------------------
(* RevokeAllSessions: batches of active users in ID order, then the sweep. *)

RevokeAllSessions ==
    /\ global.pc = "idle" /\ epoch < MaxRuns
    /\ epoch' = epoch + 1
    /\ global' = [pc |-> "page", after |-> 0, page |-> {}]
    /\ UNCHANGED <<store, proc, cleared>>

\* The page is read without a lock.
RevokePage ==
    LET rest == {u \in Users : u > global.after /\ Active(u)}
        page == {u \in rest : Cardinality({x \in rest : x < u}) < Batch}
    IN /\ global.pc = "page"
       /\ global' = IF page = {} THEN [global EXCEPT !.pc = "sweep"]
                                 ELSE [global EXCEPT !.pc = "lock", !.page = page]
       /\ UNCHANGED <<store, proc, epoch, cleared>>

\* Mutated form of lastPage: judged by the users revoked.
lastPageByRevoked(page, bumped) == Cardinality(bumped) < Batch

lastPage(page, bumped) == Cardinality(page) < Batch

\* Those still active are locked and revoked; the batch commits.
RevokeBatch ==
    LET bumped == {u \in global.page : Active(u)}
    IN /\ global.pc = "lock" /\ mayBump(bumped)
       /\ users' = Bumped(bumped)
       /\ revokeCredentialState(bumped)
       /\ global' = [pc |-> IF lastPage(global.page, bumped) THEN "sweep" ELSE "page",
                     after |-> Max(global.page), page |-> {}]
       /\ UNCHANGED <<hash, retired, made, proc, epoch, cleared>>

SweepOrphans ==
    LET inactive == {u \in Users : ~ Active(u)}
    IN /\ global.pc = "sweep"
       /\ EndSessions(inactive)
       /\ global' = [pc |-> "idle", after |-> 0, page |-> {}]
       /\ cleared' = epoch
       /\ UNCHANGED <<users, hash, retired, challenges, made, proc, epoch>>

\* A batch or the sweep fails: what committed before stays.
RevocationFails ==
    /\ global.pc # "idle"
    /\ global' = [pc |-> "idle", after |-> 0, page |-> {}]
    /\ UNCHANGED <<store, proc, epoch, cleared>>

-----------------------------------------------------------------------------
\* A call fails, or the process dies.
Abandon(p) ==
    /\ proc[p] # Idle
    /\ Return(p)
    /\ UNCHANGED <<store, run>>

Request(p) ==
    /\ requests < MaxRequests /\ requests' = requests + 1
    /\ \/ \E u \in Callers, pw \in Passwords :
             Login(p, u, pw) \/ \E new \in Passwords : ChangePassword(p, u, pw, new)
       \/ \E s \in SessionsOf(Callers) :
             \/ Logout(p, s)
             \/ \E new \in Passwords \cup {None} : Sensitive(p, s, new)
             \/ \E pw \in Passwords : StepUp(p, s, pw)
       \/ \E u \in Callers : RedeemLink(p, u) \/ \E purpose \in Purposes : Issue(p, u, purpose)

Continue(p) ==
    \/ LoginUser(p) \/ LoginAgain(p) \/ LoginHash(p) \/ Rehash(p) \/ Mint(p)
    \/ ChangeHash(p) \/ Change(p)
    \/ Owned(p) \/ LiveStepUpSession(p) \/ StepHash(p) \/ IssueGrant(p) \/ Authorise(p)
    \/ RetireIdentifier(p)
    \/ IssueUser(p) \/ IssueAgain(p) \/ Replace(p)
    \/ LinkResolve(p) \/ LinkUser(p) \/ LinkAgain(p)
    \/ LogoutGrants(p) \/ Abandon(p)

Administration ==
    \/ \E u \in Callers : \/ RevokeAllForUser(u) \/ Erase(u)
                          \/ \E status \in {"active", "deactivated"} : SetStatus(u, status)
                          \/ \E new \in Passwords : ResetPassword(u, new)
    \/ \E s \in SessionsOf(Callers) : DeleteForUser(s)

Revocation == RevokeAllSessions \/ RevokePage \/ RevokeBatch \/ SweepOrphans \/ RevocationFails

\* Registered users who logged in through a provider: some never set a
\* password, the others did when the work factor was lower.
Init ==
    /\ users = [u \in Users |-> [status |-> "active", rev |-> 0]]
    /\ hash \in [Users -> {NoHash} \cup [pw : Passwords, weak : {TRUE}]]
    /\ \A u \in Users \ Callers : hash[u] = NoHash
    /\ retired = [u \in Users |-> 0]
    /\ challenges = [u \in Users |-> [c \in Purposes |-> NoBinding]]
    /\ sessions = {[id |-> u, user |-> u, pw |-> None, via |-> FALSE, rev |-> 0, epoch |-> 0] : u \in Users}
    /\ grants = {} /\ made = Max(Users \cup {0}) /\ revoked = {}
    /\ proc = [p \in Procs |-> Idle] /\ requests = 0
    /\ global = [pc |-> "idle", after |-> 0, page |-> {}]
    /\ epoch = 0 /\ cleared = 0

Next ==
    \/ \E p \in Procs : Request(p)
    \/ /\ (\E p \in Procs : Continue(p)) \/ Administration \/ Revocation
       /\ UNCHANGED requests

Spec == Init /\ [][Next]_vars

-----------------------------------------------------------------------------
(* Properties. *)

TypeOK ==
    /\ users \in [Users -> [status : {"active", "deactivated", "erased"}, rev : Revision]]
    /\ hash \in [Users -> Hash]
    /\ retired \in [Users -> Revision]
    /\ challenges \in [Users -> [Purposes -> Binding \cup {NoBinding}]]
    /\ sessions \subseteq Session /\ grants \subseteq Grant
    /\ made \in 0..MaxSessions /\ revoked \subseteq 1..MaxSessions
    /\ proc \in [Procs -> Local] /\ requests \in 0..MaxRequests
    /\ global \in [pc : {"idle", "page", "lock", "sweep"}, after : Users \cup {0}, page : SUBSET Users]
    /\ epoch \in 0..MaxRuns /\ cleared \in 0..MaxRuns

\* Nobody stays logged in on a proof that no longer stands: the owner of every
\* session is active, the password that admitted it is the present one, and it
\* was not admitted at a revision at which its address was already retired
\* (CreateForActiveUser, changePassword, SetStatus, Apply).
SessionsRestOnStandingProof ==
    \A s \in sessions :
        /\ Active(s.user)
        /\ s.pw # None => s.pw = hash[s.user].pw
        /\ s.via => AddressActive(s.user) \/ s.rev < retired[s.user]

\* A reset token or magic link that the revision would still admit was sent to
\* an address that is still the user's (initPasswordReset, initPasswordlessLink).
ProofsNamePresentAddress ==
    \A u \in Users, c \in Purposes :
        challenges[u][c].rev = users[u].rev => AddressActive(u)

\* Whatever was under way when a user was erased, no password, address,
\* session or grant of theirs is ever left or comes back (Erase).
ErasedIsEmpty ==
    \A u \in Users : users[u].status = "erased" =>
        /\ hash[u] = NoHash /\ ~ AddressActive(u)
        /\ SessionsOf({u}) = {} /\ GrantsOf({u}) = {}

\* After a successful RevokeAllSessions nobody is in on a proof begun before it
\* started, although users are deactivated, reactivated and logging in between
\* its batches.
GlobalRevocationComplete == \A s \in sessions : s.epoch >= cleared

\* A password is replaced only together with its user's revision, so an upgrade
\* of an old hash never brings an old password back (UpgradeHash).
PasswordChangesAreFenced ==
    [][\A u \in Users : hash'[u].pw # hash[u].pw => users'[u].rev > users[u].rev]_vars

Commits(p) ==
    /\ proc[p].pc \in {"change", "retire"} /\ proc[p].session # 0
    /\ users'[proc[p].user].rev # users[proc[p].user].rev /\ proc'[p] # proc[p]

\* A session that a revocation of its user has ended authorises nothing any
\* more, not even what it was already allowed and had not yet committed
\* (SetPassword, RemoveIdentifier: the revision is read before the session).
RevokedNeverAuthorises ==
    [][\A p \in Procs : Commits(p) => proc[p].session \notin revoked]_vars

\* The tables are well formed and those of an erased user stay empty, whatever
\* was under way (Erase).
ErasureSound == TypeOK /\ ErasedIsEmpty

\* Every write of a credential is fenced by the revision: an old hash brings no
\* old password back, and a revoked session commits nothing (UpgradeHash,
\* Change, Apply).
CredentialWritesFenced == PasswordChangesAreFenced /\ RevokedNeverAuthorises
=============================================================================
