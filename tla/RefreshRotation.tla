-------------------------- MODULE RefreshRotation --------------------------
(***************************************************************************)
(* Refresh-token rotation of one first-party session                       *)
(* (authentication's Service.Refresh over the pgx SessionStore).           *)
(*                                                                         *)
(* The row keeps the hash of the current refresh token and of the previous *)
(* one.  A request reads the row, judges what it read, and then writes     *)
(* with compare-and-swap calls, while other requests rotate, consume,      *)
(* expire or delete the row.  Token n is the n-th refresh token of the     *)
(* session; any request may present any token issued so far, so tabs that  *)
(* share a cookie, a client that lost an answer and a thief with a copy    *)
(* are all covered.                                                        *)
(***************************************************************************)
EXTENDS Naturals

CONSTANTS
    Requests,   \* concurrent refresh requests
    Policies,   \* the SessionsConfig values explored: [window, idle], 0 is off
    Horizon,    \* the session's ExpiresAt
    MaxTokens,  \* bound: refresh tokens the session ever has
    MaxTime,    \* bound: the last instant of the clock
    Nil         \* no row, no token, no stamp

ASSUME RefreshAssumption ==
    /\ Policies \subseteq [window : Nat, idle : Nat]
    /\ Horizon \in Nat /\ MaxTokens \in Nat \ {0, 1} /\ MaxTime \in Nat
    /\ Nil \notin Nat

VARIABLES
    policy,   \* RefreshGraceWindow and IdleTimeout of this service
    now,      \* the service clock
    row,      \* the session row, Nil once deleted
    req,      \* what each request holds in its local variables
    heirs,    \* history: refresh tokens handed out for each presented token
    graces,   \* history: single-use grace answers given for each token
    active    \* history: when the session was created or last rotated

rvars == <<policy, now, row, req, heirs, graces, active>>

Tokens == 0..(MaxTokens - 1)

\* The refresh state of a sessions row; stamp is last_rotated_at.
Row == [cur : Tokens, prev : Tokens \cup {Nil}, used : BOOLEAN, count : Nat,
        stamp : 0..MaxTime \cup {Nil}]

Free == [pc |-> "free", tok |-> Nil, sess |-> Nil]

\* The service uses the activity column (RotateAt stamps it).
wired == policy.window > 0 \/ policy.idle > 0

\* GetByRefreshHash: which slot of the row holds the token.
matches(s, tok) ==
    IF s = Nil THEN "none" ELSE IF s.cur = tok THEN "current"
    ELSE IF s.prev = tok THEN "previous" ELSE "none"

Jump(r, pc) == req' = [req EXCEPT ![r].pc = pc]

\* The looked-up row goes along into the rotation and the idle expiry; the grace
\* path has no use for it.
Branch(r, pc) ==
    req' = [req EXCEPT ![r].pc = pc, ![r].sess = IF pc \in {"expire", "rotate"} THEN @ ELSE Nil]

\* Refresh returns, with tokens or with an error.
Answer(r) == req' = [req EXCEPT ![r] = Free]

\* inGraceWindow: an unstamped row is never within it.
inGraceWindow(s) ==
    policy.window > 0 /\ s.stamp # Nil /\ now < s.stamp + policy.window

\* idleSince and idleExpired: a row rotated before the column was wired is not
\* judged, one never rotated counts from its creation (instant 0).
idleExpired(s) ==
    /\ policy.idle > 0
    /\ s.stamp # Nil \/ s.count = 0
    /\ now >= (IF s.stamp # Nil THEN s.stamp ELSE 0) + policy.idle

-----------------------------------------------------------------------------
(* Service.Refresh. *)

\* refreshByHash reads the row once; a token that matches nothing and an expired
\* session are denied alike, without a step.
Lookup(r, tok) ==
    /\ req[r].pc = "free"
    /\ matches(row, tok) # "none" /\ now < Horizon
    /\ req' = [req EXCEPT ![r] = [pc |-> "judge", tok |-> tok, sess |-> row]]
    /\ UNCHANGED <<policy, now, row, heirs, graces, active>>

\* After the limiter, the clock is read and the branch chosen from the row as it
\* was looked up: rotate, window, idle expiry or single-use grace.
Judge(r) ==
    LET s == req[r].sess
        m == matches(s, req[r].tok)
    IN /\ req[r].pc = "judge"
       /\ \/ /\ m = "current"
             /\ Branch(r, IF idleExpired(s) THEN "expire" ELSE "rotate")
          \/ /\ m = "previous" /\ inGraceWindow(s)
             /\ Answer(r)
          \/ /\ m = "previous" /\ ~ inGraceWindow(s)
             /\ Branch(r, IF s.used THEN "reuse"
                          ELSE IF idleExpired(s) THEN "expire" ELSE "consume")
       /\ UNCHANGED <<policy, now, row, heirs, graces, active>>

\* The row a rotation leaves.
Rotated(s) ==
    [cur |-> s.cur + 1, prev |-> s.cur, used |-> FALSE, count |-> s.count + 1,
     stamp |-> IF wired THEN now ELSE s.stamp]

\* Mutated form of mayRotate: the update is not conditional on the hash.
mayRotateBlind(tok) == row # Nil

\* The condition of the Rotate and RotateAt updates.
mayRotate(tok) == row # Nil /\ row.cur = tok

\* rotate: compare-and-swap; a lost one re-resolves the token once.
Rotate(r) ==
    LET t == req[r].tok
    IN /\ req[r].pc = "rotate"
       /\ \/ /\ mayRotate(t)
             /\ row.cur + 1 \in Tokens
             /\ row' = Rotated(row)
             /\ Answer(r)
             /\ heirs' = [heirs EXCEPT ![t] = @ + 1]
             /\ active' = now
          \/ /\ ~ mayRotate(t)
             /\ Jump(r, "reresolve")
             /\ UNCHANGED <<row, heirs, active>>
       /\ UNCHANGED <<policy, now, graces>>

\* Mutated form of ReResolve: the grace window is not consulted again.
ReResolveNoWindow(r) ==
    LET m == matches(row, req[r].tok)
    IN /\ req[r].pc = "reresolve"
       /\ \/ m = "previous" /\ Branch(r, IF row.used THEN "reuse" ELSE "consume")
          \/ m # "previous" /\ Jump(r, "reuse")
       /\ UNCHANGED <<policy, now, row, heirs, graces, active>>

\* reResolve: the previous slot is a benign race with one rotation; a token that
\* matches nothing any more, overtaken twice or its session ended, is reuse.
ReResolve(r) ==
    LET m == matches(row, req[r].tok)
    IN /\ req[r].pc = "reresolve"
       /\ \/ /\ m = "previous" /\ inGraceWindow(row)
             /\ Answer(r)
          \/ /\ m = "previous" /\ ~ inGraceWindow(row)
             /\ Branch(r, IF row.used THEN "reuse" ELSE "consume")
          \/ m # "previous" /\ Jump(r, "reuse")
       /\ UNCHANGED <<policy, now, row, heirs, graces, active>>

\* Mutated form of mayConsume: the consumed flag is not compared.
mayConsumeAgain(tok) == row # Nil /\ row.prev = tok

\* The condition of the ConsumeGrace update.
mayConsume(tok) == row # Nil /\ row.prev = tok /\ ~ row.used

\* grace: the previous slot answers once, with an access token only.
Consume(r) ==
    LET t == req[r].tok
    IN /\ req[r].pc = "consume"
       /\ \/ /\ mayConsume(t)
             /\ row' = [row EXCEPT !.used = TRUE]
             /\ graces' = [graces EXCEPT ![t] = @ + 1]
             /\ Answer(r)
          \/ /\ ~ mayConsume(t)
             /\ Jump(r, "reuse")
             /\ UNCHANGED <<row, graces>>
       /\ UNCHANGED <<policy, now, heirs, active>>

\* reuse: the session is deleted and refresh_reuse recorded.
Reuse(r) ==
    /\ req[r].pc = "reuse"
    /\ row' = Nil
    /\ Answer(r)
    /\ UNCHANGED <<policy, now, heirs, graces, active>>

\* Mutated form of mayExpire: the row is deleted by its id.
mayExpireBlind(s) == row # Nil

\* The condition of DeleteIfIdle: stamp (absent matching absent) and count are
\* still the observed ones.
mayExpire(s) == row # Nil /\ row.stamp = s.stamp /\ row.count = s.count

\* expireIdle: the one call that deletes the row records session_idle_expired.
ExpireIdle(r) ==
    LET s == req[r].sess
    IN /\ req[r].pc = "expire"
       /\ \/ /\ mayExpire(s)
             /\ row' = Nil
             /\ Answer(r)
          \/ /\ ~ mayExpire(s)
             /\ Jump(r, "reresolveidle")
             /\ UNCHANGED row
       /\ UNCHANGED <<policy, now, heirs, graces, active>>

\* reResolveIdle: a row that is gone is denied quietly, one that has not moved is
\* an internal error (session_activity_cas_mismatch), and one that moved takes
\* the single-use grace, never the window.
ReResolveIdle(r) ==
    LET m == matches(row, req[r].tok)
    IN /\ req[r].pc = "reresolveidle"
       /\ \/ m = "none" /\ Answer(r)
          \/ /\ m # "none"
             /\ Jump(r, IF m = "current" /\ row.count = req[r].sess.count THEN "mismatch"
                        ELSE IF m = "previous" /\ ~ row.used THEN "consume" ELSE "reuse")
       /\ UNCHANGED <<policy, now, row, heirs, graces, active>>

\* A request ends early: a store or limiter error, a refusal by the limiter, a
\* canceled context, a crash of the process.
Fail(r) ==
    /\ req[r].pc # "free"
    /\ Answer(r)
    /\ UNCHANGED <<policy, now, row, heirs, graces, active>>

\* The session ends elsewhere: logout, or a revocation of the user's sessions.
Delete ==
    /\ row # Nil
    /\ row' = Nil
    /\ UNCHANGED <<policy, now, req, heirs, graces, active>>

Tick ==
    /\ now < MaxTime
    /\ now' = now + 1
    /\ UNCHANGED <<policy, row, req, heirs, graces, active>>

-----------------------------------------------------------------------------
\* A fresh session, or one that was rotated once before the column was wired.
RefreshInit ==
    /\ policy \in Policies
    /\ now = 0
    /\ row \in {[cur |-> 0, prev |-> Nil, used |-> FALSE, count |-> 0, stamp |-> Nil],
                [cur |-> 1, prev |-> 0, used |-> FALSE, count |-> 1, stamp |-> Nil]}
    /\ req = [r \in Requests |-> Free]
    /\ heirs = [t \in Tokens |-> 0]
    /\ graces = [t \in Tokens |-> 0]
    /\ active = 0

Refresh(r) ==
    \/ \E tok \in Tokens : Lookup(r, tok)
    \/ Judge(r) \/ Rotate(r) \/ ReResolve(r) \/ Consume(r) \/ Reuse(r)
    \/ ExpireIdle(r) \/ ReResolveIdle(r) \/ Fail(r)

RefreshNext == (\E r \in Requests : Refresh(r)) \/ Delete \/ Tick

RefreshSpec == RefreshInit /\ [][RefreshNext]_rvars

-----------------------------------------------------------------------------
(* Properties. *)

\* The row and the requests are well formed; the counter the idle expiry compares
\* counts the rotations, and the previous slot is the token rotated last.
RefreshTypeOK ==
    /\ policy \in Policies
    /\ now \in 0..MaxTime /\ active \in 0..MaxTime
    /\ row \in Row \cup {Nil}
    /\ row # Nil =>
          /\ row.count = row.cur
          /\ row.prev = (IF row.cur = 0 THEN Nil ELSE row.cur - 1)
    /\ \A r \in Requests :
          /\ req[r].tok \in Tokens \cup {Nil}
          /\ req[r].sess \in Row \cup {Nil}
          /\ req[r].pc \in {"judge", "rotate", "reresolve", "expire", "reresolveidle"} =>
                req[r].sess # Nil

\* "A racing refresh cannot corrupt the chain": however requests interleave, a
\* presented token is answered with at most one new refresh token, so a thief and
\* the victim never both hold a live successor.
ChainNeverForks == \A t \in Tokens : heirs[t] <= 1

\* The previous slot is single use: past the grace window a superseded token buys
\* at most one more access token, although each rotation clears the flag.
GraceOnce == \A t \in Tokens : graces[t] <= 1

\* A request that was overtaken by one rotation at most is about to burn the
\* session as refresh reuse only when the token's one grace answer is spent, and
\* the grace window since the rotation is over or the request had judged the
\* session idle.  So two requests that race with one token never burn it, with or
\* without the window.  This is less than Refresh's comment promises: a request
\* that two rotations overtook, or that judged the session idle, can burn it
\* within the window too (LiveTokenNeverReuse).
RaceIsForgiven ==
    \A r \in Requests : req[r].pc = "reuse" /\ row # Nil /\ row.cur <= req[r].tok + 1 =>
        /\ row.prev = req[r].tok /\ graces[req[r].tok] = 1
        /\ inGraceWindow(row) => req[r].sess # Nil /\ idleExpired(req[r].sess)

\* With the grace window wired "concurrent tabs presenting one cookie then never
\* read as reuse", and "a racing refresh cannot corrupt the chain or false-revoke
\* an honest client": no request whose token was the session's live one when it
\* was looked up is about to burn the session within the window of a rotation.
\* The code does not keep this; the run refresh_race shows how.
LiveTokenNeverReuse ==
    \A r \in Requests : req[r].pc = "reuse" /\ row # Nil /\ inGraceWindow(row) =>
        req[r].sess = Nil \/ req[r].sess.cur # req[r].tok

\* The compare-and-swap of the idle expiry misses only rows that moved: the
\* internal error for an unchanged row is unreachable, unstamped rows included.
NoActivityMismatch == \A r \in Requests : req[r].pc # "mismatch"

\* Idle expiry deletes only a session that has really been idle for the timeout
\* at that moment, however stale the row the request judged.
IdleMeansIdle ==
    [][ \A r \in Requests :
            req[r].pc = "expire" /\ row # Nil /\ row' = Nil /\ req'[r].pc = "free" =>
                now >= active + policy.idle ]_rvars

\* The row is sound: its counters agree with the rotations made, its previous
\* slot is spent once, and the statements that compare it miss only rows that
\* moved (RotateAt, ConsumeGrace, DeleteIfIdle).
RowSound == RefreshTypeOK /\ GraceOnce /\ NoActivityMismatch
=============================================================================
