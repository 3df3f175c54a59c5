---------------------------- MODULE SessionProofs ----------------------------
(***************************************************************************)
(* How a session of the authentication pocket is kept and fenced.          *)
(*                                                                         *)
(* The refresh chain, for every number of requests, tokens and instants:   *)
(* the row only moves forward (a rotation, a spent grace, a deletion), so  *)
(* what a request read stays a lower bound of the row, and the             *)
(* compare-and-swap that misses tells the request that it moved.           *)
(*                                                                         *)
(* The credential fence, for every number of users, requests and sessions: *)
(* whatever a request or a stored proof says of its user was true at the   *)
(* revision it carries, and every transaction that makes it false advances *)
(* the revision.  So it is true as long as it is fresh, and every          *)
(* transaction that acts on it compares the revision.                      *)
(***************************************************************************)
EXTENDS RefreshRotation, Accounts, FiniteSetTheorems, WellFoundedInduction, TLAPS

-----------------------------------------------------------------------------
(* The refresh chain. *)


\* What the count and the previous slot of a row say, now or when it was read.
Linked(s) == s.count = s.cur /\ s.prev = (IF s.cur = 0 THEN Nil ELSE s.cur - 1)

\* The steps a request can be at: the internal error is not among them.
RefreshSteps == {"free", "judge", "rotate", "reresolve", "consume", "reuse", "expire", "reresolveidle"}

RefreshRequest == [pc : RefreshSteps, tok : Tokens \cup {Nil}, sess : Row \cup {Nil}]

Typed ==
    /\ policy \in Policies
    /\ now \in 0..MaxTime /\ active \in 0..MaxTime
    /\ row \in Row \cup {Nil}
    /\ req \in [Requests -> RefreshRequest]
    /\ heirs \in [Tokens -> Nat] /\ graces \in [Tokens -> Nat]

\* No token is answered or spent before its time: the current token and those
\* after it have no heir and no grace answer, and the flag of the row tells
\* whether the previous one has had its answer.
RowTrue ==
    row # Nil =>
        /\ Linked(row)
        /\ \A t \in Tokens : t >= row.cur => heirs[t] = 0 /\ graces[t] = 0
        /\ row.used => row.cur > 0 /\ graces[row.cur - 1] = 1
        /\ row.cur > 0 /\ ~ row.used => graces[row.cur - 1] = 0
        /\ row.stamp # Nil => wired /\ row.stamp = active
        /\ row.stamp = Nil /\ row.cur = 0 => active = 0

\* A row read earlier is a lower bound of the row: the same rotation has the
\* same stamp, and a spent grace stays spent.
Behind(s) ==
    /\ s \in Row /\ s # Nil /\ Linked(s)
    /\ row # Nil =>
          /\ s.cur <= row.cur
          /\ s.cur = row.cur => row.stamp = s.stamp /\ (s.used => row.used)

\* The row a request carries was idle when it was judged.
JudgedIdle(l) == l.sess \in Row /\ l.sess # Nil /\ idleExpired(l.sess)

\* What a request that is about to burn the session has met.
Earned(l) ==
    \/ row = Nil
    \/ row.cur > l.tok + 1
    \/ /\ row.prev = l.tok /\ graces[l.tok] = 1
       /\ ~ inGraceWindow(row) \/ JudgedIdle(l)

\* What a request knows at each of its steps.
Knows(l) ==
    /\ l.pc # "free" => l.tok \in Tokens /\ (row # Nil => l.tok <= row.cur)
    /\ l.pc \in {"judge", "expire", "reresolveidle"} =>
          Behind(l.sess) /\ (l.tok = l.sess.cur \/ l.tok = l.sess.prev)
    /\ l.pc \in {"rotate", "reresolve"} => l.sess # Nil
    /\ l.pc \in {"expire", "reresolveidle"} => JudgedIdle(l)
    /\ l.pc = "reresolveidle" /\ row # Nil => row.cur > l.sess.cur
    /\ l.pc \in {"reresolve", "consume"} /\ row # Nil => row.cur > l.tok
    /\ l.pc = "consume" =>
          row = Nil \/ row.cur > l.tok + 1 \/ ~ inGraceWindow(row) \/ JudgedIdle(l)
    /\ l.pc = "reuse" => Earned(l)

\* The inductive invariant.
RInv ==
    /\ Typed /\ ChainNeverForks /\ GraceOnce /\ RowTrue
    /\ \A r \in Requests : Knows(req[r])

\* The ways the row can move in a step.
Deleted == row' = Nil /\ UNCHANGED <<heirs, graces, active>>
Kept == UNCHANGED <<row, heirs, graces, active>>
Advanced ==
    /\ row # Nil /\ row.cur + 1 \in Tokens /\ row' = Rotated(row)
    /\ heirs' = [heirs EXCEPT ![row.cur] = @ + 1]
    /\ active' = now /\ UNCHANGED graces
Spent ==
    /\ row # Nil /\ row.prev \in Tokens /\ ~ row.used
    /\ row' = [row EXCEPT !.used = TRUE]
    /\ graces' = [graces EXCEPT ![row.prev] = @ + 1]
    /\ UNCHANGED <<heirs, active>>
RowMoves == Deleted \/ Kept \/ Advanced \/ Spent

\* Only the clock moves beside the row and the requests.
Later == policy' = policy /\ now' \in 0..MaxTime /\ now <= now'

-----------------------------------------------------------------------------
\* The fields of a row that is present.
LEMMA RowFields ==
  ASSUME NEW s \in Row
  PROVE  /\ s.cur \in Tokens /\ s.cur \in Nat /\ s.count \in Nat /\ s.used \in BOOLEAN
         /\ s.prev \in Tokens \cup {Nil} /\ s.stamp \in 0..MaxTime \cup {Nil}
  BY RefreshAssumption DEF RefreshAssumption, Row, Tokens

\* A policy is a pair of naturals.
LEMMA PolicyFields ==
  ASSUME Typed
  PROVE  policy.window \in Nat /\ policy.idle \in Nat
  BY RefreshAssumption DEF RefreshAssumption, Typed

\* The row and the histories stay well formed and true when the row moves.
LEMMA MovesRow ==
  ASSUME RInv, RowMoves, Later
  PROVE  /\ row' \in Row \cup {Nil} /\ heirs' \in [Tokens -> Nat] /\ graces' \in [Tokens -> Nat]
         /\ active' \in 0..MaxTime
         /\ ChainNeverForks' /\ GraceOnce' /\ RowTrue'
  <1> USE DEF RInv, Typed
  <1>0. wired' = wired
    BY DEF Later, wired
  <1>1. CASE Deleted
    BY <1>1 DEF Deleted, ChainNeverForks, GraceOnce, RowTrue
  <1>2. CASE Kept
    <2>1. ChainNeverForks' /\ GraceOnce' /\ RowTrue'
      BY <1>0, <1>2 DEF Kept, ChainNeverForks, GraceOnce, RowTrue, Linked
    <2> QED BY <1>2, <2>1 DEF Kept
  <1>3. CASE Advanced
    <2>1. /\ row # Nil /\ row \in Row /\ row' = Rotated(row) /\ row.cur + 1 \in Tokens
          /\ row.cur \in Tokens /\ row.cur \in Nat /\ row.count = row.cur
          /\ row.stamp \in 0..MaxTime \cup {Nil}
      BY <1>3, RowFields DEF Advanced, RowTrue, Linked
    <2>2. /\ row'.cur = row.cur + 1 /\ row'.prev = row.cur /\ row'.used = FALSE
          /\ row'.count = row.count + 1 /\ row'.stamp = IF wired THEN now ELSE row.stamp
      BY <2>1 DEF Rotated
    <2>3. row' \in Row
      <3>1. row.count + 1 \in Nat /\ (IF wired THEN now ELSE row.stamp) \in 0..MaxTime \cup {Nil}
        BY <2>1
      <3> QED BY <2>1, <3>1 DEF Rotated, Row
    <2>4. /\ heirs' \in [Tokens -> Nat]
          /\ \A t \in Tokens : heirs'[t] = IF t = row.cur THEN 1 ELSE heirs[t]
      BY <1>3, <2>1 DEF Advanced, RowTrue
    <2>5. ChainNeverForks' /\ GraceOnce'
      BY <1>3, <2>4 DEF Advanced, ChainNeverForks, GraceOnce
    <2>6. RowTrue'
      <3>1. Linked(row')
        BY <2>1, <2>2 DEF Linked
      <3>2. \A t \in Tokens : t >= row.cur + 1 => heirs'[t] = 0 /\ graces'[t] = 0
        BY <1>3, <2>1, <2>4 DEF Advanced, RowTrue, Tokens
      <3>3. graces'[row.cur] = 0 /\ (row.cur + 1) - 1 = row.cur
        BY <1>3, <2>1 DEF Advanced, RowTrue
      <3>4. row'.stamp # Nil => wired /\ row'.stamp = active'
        BY <1>3, <2>1, <2>2 DEF Advanced, RowTrue
      <3> QED BY <1>0, <2>1, <2>2, <3>1, <3>2, <3>3, <3>4 DEF RowTrue
    <2> QED BY <1>3, <2>3, <2>4, <2>5, <2>6 DEF Advanced
  <1>4. CASE Spent
    <2>1. /\ row # Nil /\ row \in Row /\ row.prev \in Tokens /\ ~ row.used
          /\ row.cur \in Tokens /\ row.cur \in Nat /\ Linked(row)
      BY <1>4, RowFields DEF Spent, RowTrue
    <2>2. row.cur > 0 /\ row.prev = row.cur - 1 /\ graces[row.prev] = 0
      BY <2>1, RefreshAssumption DEF RefreshAssumption, Linked, Tokens, RowTrue
    <2>3. row' = [row EXCEPT !.used = TRUE] /\ row' \in Row
      BY <1>4, <2>1 DEF Spent, Row
    <2>4. /\ row'.cur = row.cur /\ row'.prev = row.prev /\ row'.used
          /\ row'.count = row.count /\ row'.stamp = row.stamp
      BY <2>1, <2>3 DEF Row
    <2>5. /\ graces' \in [Tokens -> Nat]
          /\ \A t \in Tokens : graces'[t] = IF t = row.prev THEN 1 ELSE graces[t]
      BY <1>4, <2>1, <2>2 DEF Spent
    <2>6. ChainNeverForks' /\ GraceOnce'
      BY <1>4, <2>5 DEF Spent, ChainNeverForks, GraceOnce
    <2>7. RowTrue'
      <3>1. Linked(row')
        BY <2>1, <2>4 DEF Linked
      <3>2. \A t \in Tokens : t >= row.cur => heirs'[t] = 0 /\ graces'[t] = 0
        BY <1>4, <2>1, <2>2, <2>5 DEF Spent, RowTrue, Tokens
      <3> QED BY <1>0, <1>4, <2>1, <2>2, <2>4, <2>5, <3>1, <3>2 DEF Spent, RowTrue
    <2> QED BY <1>4, <2>3, <2>5, <2>6, <2>7 DEF Spent
  <1> QED BY <1>1, <1>2, <1>3, <1>4 DEF RowMoves

\* A moved row is where it was, further on, spent, or gone.
LEMMA MovesForward ==
  ASSUME RInv, RowMoves, Later, row' # Nil
  PROVE  /\ row # Nil /\ row \in Row /\ row.cur \in Nat /\ row'.cur \in Nat
         /\ \/ row'.cur = row.cur + 1
            \/ /\ row'.cur = row.cur /\ row'.prev = row.prev /\ row'.stamp = row.stamp
               /\ row.used => row'.used
               /\ \A t \in Tokens : graces[t] = 1 => graces'[t] = 1
  <1>1. /\ row # Nil /\ row \in Row /\ row.cur \in Nat /\ graces \in [Tokens -> Nat]
    BY RowFields DEF RInv, Typed, RowMoves, Deleted, Kept, Advanced, Spent
  <1>2. row'.cur \in Nat
    BY MovesRow, RowFields
  <1>3. CASE Kept
    BY <1>1, <1>2, <1>3 DEF Kept
  <1>4. CASE Advanced
    BY <1>1, <1>2, <1>4 DEF Advanced, Rotated
  <1>5. CASE Spent
    <2>1. /\ row'.cur = row.cur /\ row'.prev = row.prev /\ row'.used
          /\ row'.stamp = row.stamp
      BY <1>1, <1>5 DEF Spent, Row
    <2>2. row.cur > 0 /\ row.prev = row.cur - 1 /\ graces[row.prev] = 0
      BY <1>1, <1>5, RefreshAssumption
      DEF RefreshAssumption, Linked, Tokens, RInv, RowTrue, Spent
    <2>3. \A t \in Tokens : graces'[t] = IF t = row.prev THEN 1 ELSE graces[t]
      BY <1>1, <1>5, <2>2 DEF Spent
    <2> QED BY <1>1, <1>2, <2>1, <2>3
  <1> QED BY <1>3, <1>4, <1>5 DEF RowMoves, Deleted

\* The windows only close as the clock moves on.
LEMMA ClockForward ==
  ASSUME RInv, Later, NEW s \in Row
  PROVE  /\ idleExpired(s) => idleExpired(s)'
         /\ inGraceWindow(s)' => inGraceWindow(s)
  <1>1. /\ policy.window \in Nat /\ policy.idle \in Nat /\ policy' = policy
        /\ now \in Nat /\ now' \in Nat /\ now <= now' /\ s.stamp \in Nat \cup {Nil}
    BY PolicyFields, RowFields DEF RInv, Typed, Later
  <1> QED BY <1>1 DEF idleExpired, inGraceWindow

\* What a request knows stays true while others move the row.
LEMMA KnowsStable ==
  ASSUME RInv, RowMoves, Later, NEW l \in RefreshRequest, Knows(l)
  PROVE  Knows(l)'
  <1>0. JudgedIdle(l) => JudgedIdle(l)'
    BY ClockForward DEF JudgedIdle
  <1>1. CASE row' = Nil
    BY <1>0, <1>1 DEF Knows, Behind, Earned
  <1>2. CASE row' # Nil
    <2> DEFINE Same == /\ row'.cur = row.cur /\ row'.prev = row.prev /\ row'.stamp = row.stamp
                       /\ row.used => row'.used
                       /\ \A t \in Tokens : graces[t] = 1 => graces'[t] = 1
    <2>1. /\ row # Nil /\ row \in Row /\ row.cur \in Nat /\ row'.cur \in Nat
          /\ row'.cur = row.cur + 1 \/ Same
      BY <1>2, MovesForward
    <2>2. l.tok \in Tokens => l.tok \in Nat
      BY RefreshAssumption DEF RefreshAssumption, Tokens
    <2>3. Behind(l.sess) => Behind(l.sess)'
      BY <2>1, RowFields DEF Behind
    <2>4. l.pc \in {"expire", "reresolveidle"} => JudgedIdle(l)'
      BY <1>0 DEF Knows
    <2>5. Same /\ inGraceWindow(row)' => inGraceWindow(row)
      <3>1. /\ policy.window \in Nat /\ policy' = policy
            /\ now \in Nat /\ now' \in Nat /\ now <= now' /\ row.stamp \in Nat \cup {Nil}
        BY <2>1, PolicyFields, RowFields DEF RInv, Typed, Later
      <3> QED BY <3>1 DEF inGraceWindow
    <2>6. l.pc = "reuse" => Earned(l)'
      <3>1. row.prev = l.tok /\ l.tok \in Tokens => row.cur = l.tok + 1
        BY <2>1, RefreshAssumption DEF RefreshAssumption, RInv, RowTrue, Linked, Tokens
      <3> QED BY <1>0, <2>1, <2>2, <2>5, <3>1 DEF Knows, Earned
    <2>7. l.pc = "consume" =>
             row' = Nil \/ row'.cur > l.tok + 1 \/ ~ inGraceWindow(row)' \/ JudgedIdle(l)'
      BY <1>0, <2>1, <2>2, <2>5 DEF Knows
    <2>8. /\ l.pc = "reresolveidle" => row'.cur > l.sess.cur
          /\ l.pc \in {"reresolve", "consume"} => row'.cur > l.tok
          /\ l.pc # "free" => l.tok \in Tokens /\ l.tok <= row'.cur
      BY <2>1, <2>2, RowFields DEF Knows, Behind
    <2> QED BY <2>3, <2>4, <2>6, <2>7, <2>8 DEF Knows
  <1> QED BY <1>1, <1>2

\* A step that moves the row as above and request r to a local it may hold keeps
\* the invariant.
LEMMA StepRInv ==
  ASSUME RInv, RowMoves, Later, NEW r \in Requests, NEW l \in RefreshRequest, Knows(l)',
         req' = [req EXCEPT ![r] = l]
  PROVE  RInv'
  <1>1. req' \in [Requests -> RefreshRequest]
    BY DEF RInv, Typed
  <1>2. Typed'
    BY <1>1, MovesRow DEF RInv, Typed, Later
  <1>3. ASSUME NEW v \in Requests PROVE Knows(req[v])'
    <2>1. CASE v = r
      <3>1. req'[v] = l
        BY <2>1 DEF RInv, Typed
      <3> QED BY <3>1 DEF Knows, Behind, Earned, JudgedIdle
    <2>2. CASE v # r
      <3>1. req'[v] = req[v] /\ req[v] \in RefreshRequest /\ Knows(req[v])
        BY <2>2 DEF RInv, Typed
      <3>2. \A k \in RefreshRequest : Knows(k) => Knows(k)'
        BY KnowsStable
      <3>3. PICK k \in RefreshRequest : k = req[v]
        BY <3>1
      <3>4. Knows(k)'
        BY <3>1, <3>2, <3>3
      <3> QED BY <3>1, <3>3, <3>4 DEF Knows, Behind, Earned, JudgedIdle
    <2> QED BY <2>1, <2>2
  <1> QED BY <1>2, <1>3, MovesRow DEF RInv

\* The idle local knows nothing.
LEMMA FreeKnows == Free \in RefreshRequest /\ Knows(Free)'
  BY DEF Free, RefreshRequest, RefreshSteps, Knows

\* What a request holds.
LEMMA HeldRow ==
  ASSUME RInv, NEW r \in Requests
  PROVE  /\ req[r] \in RefreshRequest /\ Knows(req[r])
         /\ req[r].pc \in RefreshSteps /\ req[r].tok \in Tokens \cup {Nil} /\ req[r].sess \in Row \cup {Nil}
  <1>1. req \in [Requests -> RefreshRequest] /\ Knows(req[r])
    BY DEF RInv, Typed
  <1>2. req[r] \in RefreshRequest
    BY <1>1
  <1> QED BY <1>1, <1>2 DEF RefreshRequest

\* RefreshRequest r goes to step pc, keeping its token t.
LEMMA GotoRInv ==
  ASSUME RInv, RowMoves, Later, NEW r \in Requests, NEW pc \in RefreshSteps,
         NEW t \in Tokens, NEW s \in Row \cup {Nil}, t = req[r].tok,
         \/ req' = [req EXCEPT ![r].pc = pc] /\ s = req[r].sess
         \/ req' = [req EXCEPT ![r].pc = pc, ![r].sess = s],
         Knows([pc |-> pc, tok |-> t, sess |-> s])'
  PROVE  RInv'
  <1> DEFINE l == [pc |-> pc, tok |-> t, sess |-> s]
  <1>1. l \in RefreshRequest
    BY DEF RefreshRequest
  <1>2. req \in [Requests -> RefreshRequest] /\ req[r] \in RefreshRequest
    BY HeldRow DEF RInv, Typed
  <1>3. [req[r] EXCEPT !.pc = pc, !.sess = s] = l
    <2>1. PICK x \in RefreshRequest : x = req[r]
      BY <1>2
    <2>2. PICK y : y = [x EXCEPT !.pc = pc]
      OBVIOUS
    <2>3. y \in RefreshRequest /\ y.pc = pc /\ y.tok = x.tok
      BY <2>2 DEF RefreshRequest
    <2>4. [y EXCEPT !.sess = s] = l
      BY <1>1, <2>1, <2>3 DEF RefreshRequest
    <2> QED BY <2>1, <2>2, <2>4
  <1>4. s = req[r].sess => [req[r] EXCEPT !.pc = pc] = l
    BY <1>2 DEF RefreshRequest
  <1>5. req' = [req EXCEPT ![r] = l]
    BY <1>2, <1>3, <1>4
  <1> QED BY <1>1, <1>5, StepRInv

\* Time alone does not move the row.
LEMMA StandsStill ==
  ASSUME RInv, UNCHANGED <<policy, now, row, heirs, graces, active>>
  PROVE  RowMoves /\ Later
  BY DEF RInv, Typed, RowMoves, Kept, Later

\* A lookup gives the request the row itself.
LEMMA LookupRInv ==
  ASSUME RInv, NEW r \in Requests, NEW tok \in Tokens, Lookup(r, tok)
  PROVE  RInv'
  <1> DEFINE l == [pc |-> "judge", tok |-> tok, sess |-> row]
  <1>1. row # Nil /\ row \in Row /\ (tok = row.cur \/ tok = row.prev)
    BY DEF Lookup, matches, RInv, Typed
  <1>2. l \in RefreshRequest
    BY <1>1 DEF RefreshRequest, RefreshSteps
  <1>3. tok <= row.cur /\ Linked(row)
    BY <1>1, RowFields, RefreshAssumption DEF RefreshAssumption, RInv, RowTrue, Linked, Tokens
  <1>4. UNCHANGED <<policy, now, row, heirs, graces, active>> /\ req' = [req EXCEPT ![r] = l]
    BY DEF Lookup
  <1>5. Behind(row)
    BY <1>1, <1>3, RowFields DEF Behind
  <1>6. Knows(l)'
    BY <1>1, <1>3, <1>4, <1>5 DEF Knows, Behind, Linked
  <1> QED BY <1>2, <1>4, <1>6, StandsStill, StepRInv

\* The branch chosen from the row that was read is one the row of now allows.
LEMMA JudgeRInv ==
  ASSUME RInv, NEW r \in Requests, Judge(r)
  PROVE  RInv'
  <1>a. req[r].pc = "judge" /\ req[r].tok \in Tokens /\ req[r].sess \in Row
    BY HeldRow DEF Judge, Knows, Behind
  <1>b. PICK t \in Tokens, s \in Row : t = req[r].tok /\ s = req[r].sess
    BY <1>a
  <1>0. UNCHANGED <<policy, now, row, heirs, graces, active>> /\ RowMoves /\ Later
    BY StandsStill DEF Judge
  <1>1. /\ t \in Nat /\ Behind(s) /\ s.cur \in Nat
        /\ (row # Nil => t <= row.cur /\ row \in Row /\ row.cur \in Nat)
        /\ (t = s.cur \/ t = s.prev)
    BY <1>a, <1>b, HeldRow, RowFields, RefreshAssumption
    DEF RefreshAssumption, Knows, Tokens, RInv, Typed
  <1>2. CASE req' = [req EXCEPT ![r] = Free]
    BY <1>0, <1>2, FreeKnows, StepRInv
  <1>3. ASSUME Branch(r, "expire"), idleExpired(s) PROVE RInv'
    <2>1. req' = [req EXCEPT ![r].pc = "expire", ![r].sess = s]
      BY <1>3, <1>b DEF Branch
    <2>2. Knows([pc |-> "expire", tok |-> t, sess |-> s])'
      BY <1>0, <1>1, <1>3 DEF Knows, Behind, JudgedIdle, idleExpired
    <2> QED BY <1>0, <1>b, <2>1, <2>2, GotoRInv DEF RefreshSteps
  <1>4. ASSUME Branch(r, "rotate") PROVE RInv'
    <2>1. req' = [req EXCEPT ![r].pc = "rotate", ![r].sess = s]
      BY <1>4, <1>b DEF Branch
    <2>2. Knows([pc |-> "rotate", tok |-> t, sess |-> s])'
      BY <1>0, <1>1 DEF Knows, Behind
    <2> QED BY <1>0, <1>b, <2>1, <2>2, GotoRInv DEF RefreshSteps
  <1>5. ASSUME s.prev = t, ~ inGraceWindow(s)
        PROVE  row = Nil \/ row.cur > t + 1
                 \/ /\ row.cur = t + 1 /\ row.prev = t /\ ~ inGraceWindow(row)
                    /\ s.used => row.used
    <2>1. s.cur = t + 1
      BY <1>1, <1>5, RefreshAssumption DEF RefreshAssumption, Behind, Linked
    <2>2. row # Nil => Linked(row) /\ row.cur >= t + 1
      BY <1>1, <2>1 DEF Behind, RInv, RowTrue
    <2>3. row # Nil /\ row.cur = t + 1 => ~ inGraceWindow(row) /\ row.prev = t
      BY <1>1, <1>5, <2>1, <2>2 DEF Behind, inGraceWindow, Linked
    <2> QED BY <1>1, <2>1, <2>2, <2>3 DEF Behind
  <1>6. ASSUME Branch(r, "consume"), s.prev = t, ~ inGraceWindow(s) PROVE RInv'
    <2>1. req' = [req EXCEPT ![r].pc = "consume", ![r].sess = Nil]
      BY <1>6 DEF Branch
    <2>2. Knows([pc |-> "consume", tok |-> t, sess |-> Nil])'
      BY <1>0, <1>1, <1>5, <1>6 DEF Knows, inGraceWindow
    <2> QED BY <1>0, <1>b, <2>1, <2>2, GotoRInv DEF RefreshSteps
  <1>7. ASSUME Branch(r, "reuse"), s.prev = t, ~ inGraceWindow(s), s.used PROVE RInv'
    <2>1. req' = [req EXCEPT ![r].pc = "reuse", ![r].sess = Nil]
      BY <1>7 DEF Branch
    <2>2. row # Nil /\ row.cur = t + 1 => (row.used => graces[t] = 1)
      BY <1>1 DEF RInv, RowTrue
    <2>3. Knows([pc |-> "reuse", tok |-> t, sess |-> Nil])'
      BY <1>0, <1>1, <1>5, <1>7, <2>2 DEF Knows, Earned, inGraceWindow
    <2> QED BY <1>0, <1>b, <2>1, <2>3, GotoRInv DEF RefreshSteps
  <1>8. matches(s, t) = "previous" => s.prev = t
    BY DEF matches
  <1> QED BY <1>b, <1>2, <1>3, <1>4, <1>6, <1>7, <1>8 DEF Judge, Answer

\* A rotation hands out the only heir of the current token; a lost one knows that
\* the row has moved past its token.
LEMMA RotateRInv ==
  ASSUME RInv, NEW r \in Requests, Rotate(r)
  PROVE  RInv'
  <1>a. req[r].pc = "rotate" /\ req[r].tok \in Tokens /\ req[r].sess \in Row \cup {Nil}
    BY HeldRow DEF Rotate, Knows
  <1>b. PICK t \in Tokens, s \in Row \cup {Nil} : t = req[r].tok /\ s = req[r].sess
    BY <1>a
  <1>1. /\ t \in Nat /\ s # Nil /\ policy' = policy /\ now' = now /\ graces' = graces
        /\ (row # Nil => t <= row.cur /\ row \in Row /\ row.cur \in Nat)
    BY <1>a, <1>b, HeldRow, RowFields, RefreshAssumption
    DEF RefreshAssumption, Rotate, Knows, Tokens, RInv, Typed
  <1>2. Later
    BY <1>1 DEF Later, RInv, Typed
  <1>3. CASE mayRotate(t) /\ row.cur + 1 \in Tokens /\ row' = Rotated(row) /\ Answer(r)
             /\ heirs' = [heirs EXCEPT ![t] = @ + 1] /\ active' = now
    <2>1. RowMoves
      BY <1>1, <1>3 DEF mayRotate, RowMoves, Advanced
    <2> QED BY <1>2, <1>3, <2>1, FreeKnows, StepRInv DEF Answer
  <1>4. CASE ~ mayRotate(t) /\ Jump(r, "reresolve") /\ UNCHANGED <<row, heirs, active>>
    <2>1. Knows([pc |-> "reresolve", tok |-> t, sess |-> s])'
      BY <1>1, <1>4 DEF Knows, mayRotate
    <2>2. RowMoves
      BY <1>1, <1>4 DEF RowMoves, Kept
    <2> QED BY <1>b, <1>2, <1>4, <2>1, <2>2, GotoRInv DEF Jump, RefreshSteps
  <1> QED BY <1>b, <1>3, <1>4 DEF Rotate

\* Re-resolving takes the window, the grace, or what is reuse by now.
LEMMA ReResolveRInv ==
  ASSUME RInv, NEW r \in Requests, ReResolve(r)
  PROVE  RInv'
  <1>a. req[r].pc = "reresolve" /\ req[r].tok \in Tokens /\ req[r].sess \in Row \cup {Nil}
    BY HeldRow DEF ReResolve, Knows
  <1>b. PICK t \in Tokens, s \in Row \cup {Nil} : t = req[r].tok /\ s = req[r].sess
    BY <1>a
  <1>0. UNCHANGED <<policy, now, row, heirs, graces, active>> /\ RowMoves /\ Later
    BY StandsStill DEF ReResolve
  <1>1. t \in Nat /\ (row # Nil => t < row.cur /\ row \in Row /\ row.cur \in Nat /\ Linked(row))
    BY <1>a, <1>b, HeldRow, RowFields, RefreshAssumption
    DEF RefreshAssumption, Knows, Tokens, RInv, Typed, RowTrue
  <1>2. CASE Answer(r)
    BY <1>0, <1>2, FreeKnows, StepRInv DEF Answer
  <1>3. matches(row, t) = "previous" <=> row # Nil /\ row.prev = t
    BY <1>1 DEF matches
  <1>4. row = Nil \/ row.cur > t + 1 \/ (row.cur = t + 1 /\ row.prev = t)
    BY <1>1 DEF Linked
  <1>5. CASE Branch(r, "consume") /\ ~ inGraceWindow(row)
    <2>1. req' = [req EXCEPT ![r].pc = "consume", ![r].sess = Nil]
      BY <1>5 DEF Branch
    <2>2. Knows([pc |-> "consume", tok |-> t, sess |-> Nil])'
      BY <1>0, <1>1, <1>5 DEF Knows, inGraceWindow
    <2> QED BY <1>0, <1>b, <2>1, <2>2, GotoRInv DEF RefreshSteps
  <1>6. CASE Branch(r, "reuse") /\ row # Nil /\ row.prev = t /\ ~ inGraceWindow(row) /\ row.used
    <2>1. req' = [req EXCEPT ![r].pc = "reuse", ![r].sess = Nil]
      BY <1>6 DEF Branch
    <2>2. row.cur > t + 1 \/ graces[t] = 1
      BY <1>1, <1>4, <1>6 DEF RInv, RowTrue
    <2>3. Knows([pc |-> "reuse", tok |-> t, sess |-> Nil])'
      BY <1>0, <1>1, <1>6, <2>2 DEF Knows, Earned, inGraceWindow
    <2> QED BY <1>0, <1>b, <2>1, <2>3, GotoRInv DEF RefreshSteps
  <1>7. CASE Jump(r, "reuse") /\ matches(row, t) # "previous"
    <2>1. row = Nil \/ row.cur > t + 1
      BY <1>3, <1>4, <1>7
    <2>2. Knows([pc |-> "reuse", tok |-> t, sess |-> s])'
      BY <1>0, <1>1, <2>1 DEF Knows, Earned
    <2> QED BY <1>0, <1>b, <1>7, <2>2, GotoRInv DEF Jump, RefreshSteps
  <1> QED BY <1>b, <1>2, <1>3, <1>5, <1>6, <1>7 DEF ReResolve

\* A grace is spent once; the request that comes too late has met reuse.
LEMMA ConsumeRInv ==
  ASSUME RInv, NEW r \in Requests, Consume(r)
  PROVE  RInv'
  <1>a. req[r].pc = "consume" /\ req[r].tok \in Tokens /\ req[r].sess \in Row \cup {Nil}
    BY HeldRow DEF Consume, Knows
  <1>b. PICK t \in Tokens, s \in Row \cup {Nil} : t = req[r].tok /\ s = req[r].sess
    BY <1>a
  <1>1. /\ t \in Nat /\ policy' = policy /\ now' = now /\ heirs' = heirs /\ active' = active
        /\ (row # Nil => t < row.cur /\ row \in Row /\ row.cur \in Nat /\ Linked(row))
        /\ row = Nil \/ row.cur > t + 1 \/ ~ inGraceWindow(row) \/ (s # Nil /\ s \in Row /\ idleExpired(s))
    BY <1>a, <1>b, HeldRow, RowFields, RefreshAssumption
    DEF RefreshAssumption, Consume, Knows, JudgedIdle, Tokens, RInv, Typed, RowTrue
  <1>2. Later
    BY <1>1 DEF Later, RInv, Typed
  <1>3. CASE mayConsume(t) /\ row' = [row EXCEPT !.used = TRUE] /\ Answer(r)
             /\ graces' = [graces EXCEPT ![t] = @ + 1]
    <2>1. RowMoves
      BY <1>1, <1>3 DEF mayConsume, RowMoves, Spent
    <2> QED BY <1>2, <1>3, <2>1, FreeKnows, StepRInv DEF Answer
  <1>4. CASE ~ mayConsume(t) /\ Jump(r, "reuse") /\ UNCHANGED <<row, graces>>
    <2>1. row = Nil \/ row.cur > t + 1 \/ (row.cur = t + 1 /\ row.prev = t /\ row.used)
      BY <1>1, <1>4 DEF Linked, mayConsume
    <2>2. row # Nil /\ row.cur = t + 1 => (row.used => graces[t] = 1)
      BY <1>1 DEF RInv, RowTrue
    <2>3. Knows([pc |-> "reuse", tok |-> t, sess |-> s])'
      BY <1>1, <1>4, <2>1, <2>2 DEF Knows, Earned, JudgedIdle, inGraceWindow, idleExpired
    <2>4. RowMoves
      BY <1>1, <1>4 DEF RowMoves, Kept
    <2> QED BY <1>b, <1>2, <1>4, <2>3, <2>4, GotoRInv DEF Jump, RefreshSteps
  <1> QED BY <1>b, <1>3, <1>4 DEF Consume

\* A missed idle expiry knows that the row has rotated since it was read.
LEMMA ExpireRInv ==
  ASSUME RInv, NEW r \in Requests, ExpireIdle(r)
  PROVE  RInv'
  <1>a. req[r].pc = "expire" /\ req[r].tok \in Tokens /\ req[r].sess \in Row
    BY HeldRow DEF ExpireIdle, Knows, Behind
  <1>b. PICK t \in Tokens, s \in Row : t = req[r].tok /\ s = req[r].sess
    BY <1>a
  <1>1. /\ policy' = policy /\ now' = now /\ heirs' = heirs /\ graces' = graces /\ active' = active
        /\ (row # Nil => t <= row.cur /\ row \in Row /\ row.cur \in Nat /\ Linked(row))
        /\ Behind(s) /\ s.cur \in Nat /\ (t = s.cur \/ t = s.prev) /\ idleExpired(s)
    BY <1>a, <1>b, HeldRow, RowFields DEF ExpireIdle, Knows, JudgedIdle, RInv, Typed, RowTrue
  <1>2. Later
    BY <1>1 DEF Later, RInv, Typed
  <1>3. CASE row' = Nil /\ Answer(r)
    <2>1. RowMoves
      BY <1>1, <1>3 DEF RowMoves, Deleted
    <2> QED BY <1>2, <1>3, <2>1, FreeKnows, StepRInv DEF Answer
  <1>4. CASE ~ mayExpire(s) /\ Jump(r, "reresolveidle") /\ UNCHANGED row
    <2>1. row # Nil => row.cur > s.cur
      BY <1>1, <1>4 DEF mayExpire, Behind, Linked
    <2>2. Knows([pc |-> "reresolveidle", tok |-> t, sess |-> s])'
      BY <1>1, <1>4, <2>1 DEF Knows, Behind, JudgedIdle, idleExpired
    <2>3. RowMoves
      BY <1>1, <1>4 DEF RowMoves, Kept
    <2> QED BY <1>b, <1>2, <1>4, <2>2, <2>3, GotoRInv DEF Jump, RefreshSteps
  <1> QED BY <1>b, <1>3, <1>4 DEF ExpireIdle

\* A token still current cannot be met here, so the internal error is not.
LEMMA ReResolveIdleRInv ==
  ASSUME RInv, NEW r \in Requests, ReResolveIdle(r)
  PROVE  RInv'
  <1>a. req[r].pc = "reresolveidle" /\ req[r].tok \in Tokens /\ req[r].sess \in Row
    BY HeldRow DEF ReResolveIdle, Knows, Behind
  <1>b. PICK t \in Tokens, s \in Row : t = req[r].tok /\ s = req[r].sess
    BY <1>a
  <1>0. UNCHANGED <<policy, now, row, heirs, graces, active>> /\ RowMoves /\ Later
    BY StandsStill DEF ReResolveIdle
  <1>1. /\ (row # Nil => row.cur > s.cur /\ row \in Row /\ row.cur \in Nat /\ Linked(row))
        /\ s # Nil /\ Linked(s) /\ s.cur \in Nat /\ (t = s.cur \/ t = s.prev) /\ t \in Nat
        /\ idleExpired(s)
    BY <1>a, <1>b, HeldRow, RowFields, RefreshAssumption
    DEF RefreshAssumption, Tokens, Knows, JudgedIdle, Behind, RInv, Typed, RowTrue
  <1>2. t <= s.cur
    BY <1>1, RefreshAssumption DEF RefreshAssumption, Linked
  <1>3. CASE Answer(r)
    BY <1>0, <1>3, FreeKnows, StepRInv DEF Answer
  <1>4. \/ matches(row, t) = "none"
        \/ matches(row, t) = "previous" /\ row # Nil /\ row.prev = t
    BY <1>1, <1>2 DEF matches
  <1>5. CASE Jump(r, "consume")
    <2>1. Knows([pc |-> "consume", tok |-> t, sess |-> s])'
      BY <1>0, <1>1, <1>2 DEF Knows, JudgedIdle, idleExpired
    <2> QED BY <1>0, <1>b, <1>5, <2>1, GotoRInv DEF Jump, RefreshSteps
  <1>6. CASE Jump(r, "reuse") /\ row # Nil /\ row.prev = t /\ row.used
    <2>1. row.cur = t + 1 /\ graces[t] = 1
      BY <1>1, <1>6, RefreshAssumption DEF RefreshAssumption, Linked, RInv, RowTrue
    <2>2. Knows([pc |-> "reuse", tok |-> t, sess |-> s])'
      BY <1>0, <1>1, <1>2, <1>6, <2>1 DEF Knows, Earned, JudgedIdle, idleExpired
    <2> QED BY <1>0, <1>b, <1>6, <2>2, GotoRInv DEF Jump, RefreshSteps
  <1> QED BY <1>b, <1>3, <1>4, <1>5, <1>6 DEF ReResolveIdle

\* Burning the session, failing, ending it elsewhere and the clock.
LEMMA OtherRInv ==
  ASSUME RInv, (\E r \in Requests : Reuse(r) \/ Fail(r)) \/ Delete \/ Tick
  PROVE  RInv'
  <1>1. ASSUME NEW r \in Requests, Reuse(r) PROVE RInv'
    <2>1. RowMoves /\ Later
      BY <1>1 DEF Reuse, RowMoves, Deleted, Later, RInv, Typed
    <2> QED BY <1>1, <2>1, FreeKnows, StepRInv DEF Reuse, Answer
  <1>2. ASSUME NEW r \in Requests, Fail(r) PROVE RInv'
    BY <1>2, StandsStill, FreeKnows, StepRInv DEF Fail, Answer
  <1>3. CASE Delete \/ Tick
    <2>1. RowMoves /\ Later /\ req' = req
      BY <1>3, RefreshAssumption
      DEF RefreshAssumption, Delete, Tick, RowMoves, Deleted, Kept, Later, RInv, Typed
    <2>2. Typed' /\ ChainNeverForks' /\ GraceOnce' /\ RowTrue'
      BY <2>1, MovesRow DEF RInv, Typed, Later
    <2>3. ASSUME NEW v \in Requests PROVE Knows(req[v])'
      <3>1. \A k \in RefreshRequest : Knows(k) => Knows(k)'
        BY <2>1, KnowsStable
      <3>2. PICK k \in RefreshRequest : k = req[v]
        BY DEF RInv, Typed
      <3>3. Knows(k)'
        BY <3>1, <3>2 DEF RInv
      <3> QED BY <2>1, <3>2, <3>3 DEF Knows, Behind, Earned, JudgedIdle
    <2> QED BY <2>2, <2>3 DEF RInv
  <1> QED BY <1>1, <1>2, <1>3

\* The initial state satisfies the invariant.
LEMMA InitRInv == RefreshInit => RInv
  <1> SUFFICES ASSUME RefreshInit PROVE RInv
    OBVIOUS
  <1>1. 0 \in Tokens /\ 1 \in Tokens /\ 0 \in 0..MaxTime
    BY RefreshAssumption DEF RefreshAssumption, Tokens
  <1>2. row \in Row
    <2>1. [cur |-> 0, prev |-> Nil, used |-> FALSE, count |-> 0, stamp |-> Nil] \in Row
      BY <1>1 DEF Row
    <2>2. [cur |-> 1, prev |-> 0, used |-> FALSE, count |-> 1, stamp |-> Nil] \in Row
      BY <1>1 DEF Row
    <2> QED BY <2>1, <2>2 DEF RefreshInit
  <1>3. Free \in RefreshRequest
    BY FreeKnows
  <1>4. Typed
    BY <1>1, <1>2, <1>3 DEF RefreshInit, Typed
  <1>5. ChainNeverForks /\ GraceOnce
    BY DEF RefreshInit, ChainNeverForks, GraceOnce
  <1>6. RowTrue
    BY <1>1 DEF RefreshInit, RowTrue, Linked
  <1>7. \A r \in Requests : Knows(req[r])
    BY DEF RefreshInit, Free, Knows
  <1> QED BY <1>4, <1>5, <1>6, <1>7 DEF RInv

\* Every step keeps the invariant.
LEMMA NextRInv == RInv /\ [RefreshNext]_rvars => RInv'
  <1> SUFFICES ASSUME RInv, [RefreshNext]_rvars PROVE RInv'
    OBVIOUS
  <1>1. CASE UNCHANGED rvars
    <2>1. Typed' /\ ChainNeverForks' /\ GraceOnce' /\ RowTrue'
      BY <1>1 DEF RInv, rvars, Typed, ChainNeverForks, GraceOnce, RowTrue, Linked, wired
    <2>2. \A r \in Requests : Knows(req[r])'
      BY <1>1 DEF RInv, rvars, Knows, Behind, Linked, Earned, JudgedIdle, inGraceWindow, idleExpired
    <2> QED BY <2>1, <2>2 DEF RInv
  <1>2. ASSUME NEW r \in Requests, Refresh(r) PROVE RInv'
    BY <1>2, LookupRInv, JudgeRInv, RotateRInv, ReResolveRInv, ConsumeRInv, ExpireRInv,
       ReResolveIdleRInv, OtherRInv DEF Refresh
  <1> QED BY <1>1, <1>2, OtherRInv DEF RefreshNext

\* The invariant holds throughout.
THEOREM RotationInvariant == RefreshSpec => []RInv
  BY InitRInv, NextRInv, PTL DEF RefreshSpec

\* A presented refresh token is answered with at most one new refresh token, for
\* every number of concurrent requests (the compare-and-swap of RotateAt).
THEOREM ChainNeverForksHolds == RefreshSpec => []ChainNeverForks
  <1>1. RInv => ChainNeverForks
    BY DEF RInv
  <1> QED BY <1>1, RotationInvariant, PTL

\* The row's counters agree with the rotations, the previous slot answers once,
\* and expireIdle's internal error is unreachable.
THEOREM RowSoundHolds == RefreshSpec => []RowSound
  <1>1. RInv => RowSound
    <2> SUFFICES ASSUME RInv PROVE RowSound
      OBVIOUS
    <2>1. ASSUME NEW r \in Requests
          PROVE  /\ req[r].tok \in Tokens \cup {Nil}
                 /\ req[r].sess \in Row \cup {Nil}
                 /\ req[r].pc \in {"judge", "rotate", "reresolve", "expire", "reresolveidle"} =>
                       req[r].sess # Nil
                 /\ req[r].pc # "mismatch"
      BY HeldRow DEF Knows, Behind, RefreshSteps
    <2>2. RefreshTypeOK
      BY <2>1 DEF RInv, Typed, RowTrue, Linked, RefreshTypeOK
    <2> QED BY <2>1, <2>2 DEF RowSound, NoActivityMismatch, RInv
  <1> QED BY <1>1, RotationInvariant, PTL

\* A request that one rotation at most overtook burns the session only when its
\* token's grace answer is spent, and within the grace window only when it had
\* judged the session idle: two requests that race with one token never burn it.
THEOREM RaceIsForgivenHolds == RefreshSpec => []RaceIsForgiven
  <1>1. RInv => RaceIsForgiven
    <2> SUFFICES ASSUME RInv, NEW r \in Requests, req[r].pc = "reuse", row # Nil,
                        row.cur <= req[r].tok + 1
                 PROVE  /\ row.prev = req[r].tok /\ graces[req[r].tok] = 1
                        /\ inGraceWindow(row) => req[r].sess # Nil /\ idleExpired(req[r].sess)
      BY DEF RaceIsForgiven
    <2>1. row.cur \in Nat /\ req[r].tok \in Nat /\ Earned(req[r])
      BY HeldRow, RowFields, RefreshAssumption DEF RefreshAssumption, Tokens, RInv, Typed, Knows
    <2> QED BY <2>1 DEF Earned, JudgedIdle
  <1> QED BY <1>1, RotationInvariant, PTL

\* expireIdle deletes only a session idle for the whole timeout when it does.
THEOREM IdleMeansIdleHolds == RefreshSpec => IdleMeansIdle
  <1> DEFINE A == \A r \in Requests :
                    req[r].pc = "expire" /\ row # Nil /\ row' = Nil /\ req'[r].pc = "free" =>
                        now >= active + policy.idle
  <1>1. RInv /\ [RefreshNext]_rvars => [A]_rvars
    <2> SUFFICES ASSUME RInv, RefreshNext, NEW r \in Requests, req[r].pc = "expire", row # Nil,
                        row' = Nil, req'[r].pc = "free"
                 PROVE  now >= active + policy.idle
      BY DEF rvars
    <2>1. ExpireIdle(r)
      <3>1. req \in [Requests -> RefreshRequest]
        BY DEF RInv, Typed
      <3>2. ASSUME NEW v \in Requests, Refresh(v), ~ ExpireIdle(r) PROVE FALSE
        <4>1. CASE v = r
          BY <3>2, <4>1 DEF Refresh, Lookup, Judge, Rotate, ReResolve, Consume, Reuse,
                            ReResolveIdle, Fail
        <4>2. CASE v # r
          <5>1. req'[r] = req[r]
            BY <3>1, <3>2, <4>2 DEF Refresh, Lookup, Judge, Rotate, ReResolve, Consume, Reuse,
                            ReResolveIdle, ExpireIdle, Fail, Jump, Branch, Answer
          <5> QED BY <5>1
        <4> QED BY <4>1, <4>2
      <3> QED BY <3>1, <3>2 DEF RefreshNext, Delete, Tick
    <2>2. mayExpire(req[r].sess)
      <3>1. req \in [Requests -> RefreshRequest]
        BY DEF RInv, Typed
      <3>2. Jump(r, "reresolveidle") => req'[r].pc = "reresolveidle"
        BY <3>1 DEF Jump, RefreshRequest
      <3> QED BY <2>1, <3>2 DEF ExpireIdle
    <2>3. idleExpired(req[r].sess) /\ Behind(req[r].sess) /\ row \in Row
      BY HeldRow DEF Knows, JudgedIdle, RInv, Typed
    <2>4. /\ row.stamp = req[r].sess.stamp /\ row.count = req[r].sess.count
          /\ row.stamp # Nil => row.stamp = active
          /\ row.stamp = Nil /\ row.count = 0 => active = 0
      BY <2>2 DEF mayExpire, RInv, RowTrue, Linked
    <2> QED BY <2>3, <2>4 DEF idleExpired
  <1> QED BY <1>1, RotationInvariant, PTL DEF RefreshSpec, IdleMeansIdle

-----------------------------------------------------------------------------
(* The credential fence. *)

\* The steps of a request that has read the revision of its user.
Read == {"loginAgain", "loginHash", "rehash", "mint", "changeHash", "change", "owned", "live",
         "authorise", "retire", "stepHash", "grant", "issueAgain", "issue", "linkResolve",
         "linkUser", "linkAgain"}
Resolved == {"loginHash", "rehash", "mint", "linkResolve", "linkUser", "linkAgain"}

\* The users whose earlier proofs RevokeAllSessions has dealt with so far.
Swept ==
    {u \in Users :
        \/ global.pc = "page" /\ u <= global.after
        \/ /\ global.pc = "lock" /\ u \notin global.page
           /\ u <= Max(global.page) \/ Cardinality(global.page) < Batch
        \/ global.pc = "sweep"}

\* The epoch before which no fresh proof of an active user was begun.
Floor(u) == IF u \in Swept THEN epoch ELSE cleared

Fresh(l) == l.pc \in Read /\ users[l.user].rev = l.rev

\* What a request carries, whether fresh or not.
Carries(l) ==
    /\ l.pc \notin {"idle", "logoutGrants"} => l.user \in Users
    /\ l.pc \in Read => l.rev <= users[l.user].rev
    /\ l.pc \in {"changeHash", "change"} => l.new \in Passwords
    /\ l.pc \in {"owned", "live", "stepHash"} => ~ l.via
    /\ l.pc = "changeHash" => l.session = 0
    /\ l.pc \in {"linkResolve", "linkUser", "linkAgain"} => l.pw = None
    /\ l.session # 0 /\ l.pc # "logoutGrants" =>
          l.session <= made /\ \A s \in sessions : s.id = l.session => s.user = l.user

\* What is true of its user as long as the request is fresh.
Vouches(l) ==
    Fresh(l) =>
        /\ l.pc \in Resolved /\ l.via => AddressActive(l.user)
        /\ l.pc = "issue" => AddressActive(l.user)
        /\ l.pc \in {"rehash", "mint"} /\ l.pw # None => hash[l.user].pw = l.pw
        /\ l.pc \in {"authorise", "change", "retire"} /\ l.session # 0 => l.session \notin revoked
        /\ Active(l.user) => l.epoch >= Floor(l.user)

SessionsSound ==
    /\ \A s \in sessions :
          /\ Active(s.user)
          /\ s.pw # None => s.pw = hash[s.user].pw
          /\ s.via => AddressActive(s.user)
          /\ s.epoch >= Floor(s.user)
          /\ s.id <= made /\ s.id \notin revoked
    /\ \A s, t \in sessions : s.id = t.id => s = t
    /\ \A i \in revoked : i <= made

BindingsSound ==
    \A u \in Users, c \in Purposes :
        /\ challenges[u][c].rev <= users[u].rev
        /\ challenges[u][c].rev = users[u].rev =>
              AddressActive(u) /\ (Active(u) => challenges[u][c].epoch >= Floor(u))

RunSound == cleared <= epoch /\ (global.pc = "lock" => global.page # {})

\* The inductive invariant.
AInv ==
    /\ TypeOK /\ ErasedIsEmpty /\ SessionsSound /\ BindingsSound /\ RunSound
    /\ \A p \in Procs : Carries(proc[p]) /\ Vouches(proc[p])

\* What a step may do to the tables without disturbing what others carry: where
\* it leaves a user's revision alone, it leaves alone what the revision fences.
Forward ==
    /\ \A u \in Users :
          \/ users'[u].rev > users[u].rev
          \/ /\ users'[u] = users[u] /\ hash'[u].pw = hash[u].pw /\ retired'[u] = retired[u]
             /\ Active(u) => Floor(u)' <= Floor(u)
    /\ made' >= made
    /\ \A s \in sessions' : s \in sessions \/ s.id > made
    /\ \A i \in revoked' :
          i \in revoked \/ \E s \in sessions : s.id = i /\ users'[s.user].rev > users[s.user].rev

-----------------------------------------------------------------------------
(* Finite sets of user IDs. *)

\* A set of naturals has a least element.
LEMMA LeastNatural ==
  ASSUME NEW T, T \subseteq Nat, T # {}
  PROVE  \E x \in T : \A y \in T : x <= y
  <1>1. PICK x \in T : \A y \in T : ~ (<<y, x>> \in OpToRel(<, Nat))
    BY NatLessThanWellFounded, WFMin, Zenon
  <1>2. ASSUME NEW y \in T PROVE x <= y
    <2>1. x \in Nat /\ y \in Nat
      OBVIOUS
    <2>2. ~ (y < x)
      BY <1>1, <2>1 DEF OpToRel
    <2> QED BY <2>1, <2>2
  <1> QED BY <1>2

\* A set of user IDs is finite, and has a last one.
LEMMA UserSets ==
  ASSUME NEW T, T \subseteq Users
  PROVE  /\ IsFiniteSet(T) /\ Cardinality(T) \in Nat
         /\ T # {} => Max(T) \in T /\ \A y \in T : y <= Max(T)
  <1>1. IsFiniteSet(T) /\ Cardinality(T) \in Nat
    <2>1. IsFiniteSet(1..MaxSessions)
      BY AccountsAssumption, FS_Interval DEF AccountsAssumption
    <2>2. T \in SUBSET (1..MaxSessions)
      BY AccountsAssumption DEF AccountsAssumption
    <2> QED BY <2>1, <2>2, FS_Subset, FS_CardinalityType
  <1>2. ASSUME T # {} PROVE Max(T) \in T /\ \A y \in T : y <= Max(T)
    <2> DEFINE D == {MaxSessions - x : x \in T}
    <2>1. \A x \in T : x \in Nat /\ MaxSessions - x \in Nat
      BY AccountsAssumption DEF AccountsAssumption
    <2>2. D \subseteq Nat /\ D # {}
      BY <1>2, <2>1
    <2>3. PICK d \in D : \A y \in D : d <= y
      BY <2>2, LeastNatural
    <2>4. PICK x \in T : d = MaxSessions - x
      BY <2>3
    <2>5. \A y \in T : x >= y
      <3> SUFFICES ASSUME NEW y \in T PROVE x >= y
        OBVIOUS
      <3>1. MaxSessions - x <= MaxSessions - y
        BY <2>3, <2>4
      <3> QED BY <2>1, <3>1, AccountsAssumption DEF AccountsAssumption
    <2>6. \E m \in T : \A y \in T : m >= y
      BY <2>5
    <2>7. Max(T) \in T /\ \A y \in T : Max(T) >= y
      BY <2>6 DEF Max
    <2> QED BY <2>1, <2>7
  <1> QED BY <1>1, <1>2

-----------------------------------------------------------------------------
(* What requests carry stays true. *)

\* The fields of a local.
LEMMA LocalFields ==
  ASSUME NEW l \in Local
  PROVE  /\ l.user \in Users \cup {0} /\ l.session \in 0..MaxSessions /\ l.rev \in Nat
         /\ l.epoch \in 0..MaxRuns /\ l.epoch \in Nat /\ l.session \in Nat
         /\ l.pw \in Passwords \cup {None} /\ l.new \in Passwords \cup {None}
         /\ l.hash \in Hash /\ l.via \in BOOLEAN /\ l.purpose \in Purposes
  BY AccountsAssumption DEF AccountsAssumption, Local, Revision

\* Types of the tables.
LEMMA Tables ==
  ASSUME TypeOK
  PROVE  /\ \A u \in Users : users[u].rev \in Nat /\ retired[u] \in Nat /\ hash[u] \in Hash
         /\ \A u \in Users : users[u].status \in {"active", "deactivated", "erased"}
         /\ \A s \in sessions : /\ s.user \in Users /\ s.id \in Nat /\ s.id \in 1..MaxSessions
                                /\ s.epoch \in Nat
         /\ made \in Nat /\ epoch \in Nat /\ cleared \in Nat
         /\ \A i \in revoked : i \in Nat
         /\ \A u \in Users : Floor(u) \in Nat
  <1>1. /\ \A u \in Users : users[u].rev \in Nat /\ retired[u] \in Nat /\ hash[u] \in Hash
        /\ \A u \in Users : users[u].status \in {"active", "deactivated", "erased"}
    BY DEF TypeOK, Revision
  <1>2. \A s \in sessions : /\ s.user \in Users /\ s.id \in Nat /\ s.id \in 1..MaxSessions
                            /\ s.epoch \in Nat
    BY AccountsAssumption DEF AccountsAssumption, TypeOK, Session
  <1>3. /\ made \in Nat /\ epoch \in Nat /\ cleared \in Nat
        /\ \A i \in revoked : i \in Nat
    BY AccountsAssumption DEF AccountsAssumption, TypeOK
  <1> QED BY <1>1, <1>2, <1>3 DEF Floor

\* What a request carries and vouches for is not disturbed by a forward step.
LEMMA CarriesOn ==
  ASSUME AInv, TypeOK', Forward, NEW l \in Local, Carries(l), Vouches(l)
  PROVE  Carries(l)' /\ Vouches(l)'
  <1> USE DEF AInv
  <1>0. /\ l.user \in Users \cup {0} /\ l.session \in Nat /\ l.rev \in Nat /\ l.epoch \in Nat
    BY LocalFields
  <1>1. \A u \in Users : /\ users[u].rev \in Nat /\ users'[u].rev \in Nat
                         /\ Floor(u) \in Nat /\ Floor(u)' \in Nat
    <2>1. \A u \in Users : users[u].rev \in Nat /\ Floor(u) \in Nat
      BY Tables
    <2>2. \A u \in Users : users'[u].rev \in Nat
      BY DEF TypeOK, Revision
    <2>3. \A u \in Users : Floor(u)' \in Nat
      BY AccountsAssumption DEF AccountsAssumption, TypeOK, Floor
    <2> QED BY <2>1, <2>2, <2>3
  <1>2. made \in Nat /\ made' \in Nat
    BY Tables, AccountsAssumption DEF AccountsAssumption, TypeOK
  <1>3. Carries(l)'
    <2>1. l.pc \in Read => l.user \in Users /\ l.rev <= users'[l.user].rev
      BY <1>0, <1>1 DEF Carries, Forward, Read
    <2>2. l.session # 0 /\ l.pc # "logoutGrants" =>
             l.session <= made' /\ \A s \in sessions' : s.id = l.session => s.user = l.user
      BY <1>0, <1>2 DEF Carries, Forward
    <2> QED BY <2>1, <2>2 DEF Carries
  <1>4. Vouches(l)'
    <2> SUFFICES ASSUME Fresh(l)' PROVE Vouches(l)'
      BY DEF Vouches
    <2>1. l.pc \in Read /\ l.user \in Users /\ l.rev <= users[l.user].rev
             /\ users'[l.user].rev = l.rev
      BY <1>0 DEF Carries, Read, Fresh
    <2>2. /\ users'[l.user] = users[l.user] /\ hash'[l.user].pw = hash[l.user].pw
          /\ retired'[l.user] = retired[l.user] /\ (Active(l.user) => Floor(l.user)' <= Floor(l.user))
      BY <1>0, <1>1, <2>1 DEF Forward
    <2>3. Fresh(l)
      BY <2>1, <2>2 DEF Fresh
    <2>4. l.pc \in {"authorise", "change", "retire"} /\ l.session # 0 => l.session \notin revoked'
      BY <2>1, <2>2, <2>3, <1>0, <1>1 DEF Vouches, Carries, Forward
    <2>5. /\ l.pc \in Resolved /\ l.via => AddressActive(l.user)'
          /\ l.pc = "issue" => AddressActive(l.user)'
          /\ l.pc \in {"rehash", "mint"} /\ l.pw # None => hash'[l.user].pw = l.pw
      BY <2>2, <2>3 DEF Vouches, AddressActive
    <2>6. Active(l.user)' => l.epoch >= Floor(l.user)'
      BY <1>0, <1>1, <2>1, <2>2, <2>3 DEF Vouches, Active
    <2> QED BY <2>4, <2>5, <2>6 DEF Vouches
  <1> QED BY <1>3, <1>4

-----------------------------------------------------------------------------
(* The two kinds of steps on the tables. *)

\* A transaction that advances the revisions of U and ends what rests on them.
Advance(U) ==
    /\ U \subseteq Users
    /\ \A u \in U : users'[u].rev = users[u].rev + 1
    /\ \A u \in Users \ U :
          /\ users'[u] = users[u] /\ hash'[u] = hash[u] /\ retired'[u] = retired[u]
          /\ Active(u) => Floor(u)' <= Floor(u)
    /\ \A u \in U : users'[u].status = "erased" => hash'[u] = NoHash /\ retired'[u] # 0
    /\ sessions' = sessions \ SessionsOf(U) /\ grants' \subseteq grants \ GrantsOf(U)
    /\ revoked' = revoked \cup {s.id : s \in SessionsOf(U)}
    /\ \A u \in Users, c \in Purposes : challenges'[u][c] \in {challenges[u][c], NoBinding}
    /\ made' = made

\* A transaction that leaves every revision as it is: it may admit a session,
\* store a binding or rehash a password, each as its revision allows.
Steady ==
    /\ UNCHANGED <<users, retired, revoked, global, epoch, cleared>>
    /\ \A u \in Users : hash'[u].pw = hash[u].pw /\ (hash[u] = NoHash => hash'[u] = NoHash)
    /\ \A u \in Users, c \in Purposes :
          \/ challenges'[u][c] \in {challenges[u][c], NoBinding}
          \/ /\ challenges'[u][c].rev <= users[u].rev
             /\ challenges'[u][c].rev = users[u].rev =>
                   AddressActive(u) /\ (Active(u) => challenges'[u][c].epoch >= Floor(u))
    /\ made' >= made
    /\ \A s \in sessions' \ sessions :
          /\ s.id = made + 1 /\ made' = made + 1
          /\ Active(s.user) /\ s.epoch >= Floor(s.user)
          /\ s.pw # None => s.pw = hash[s.user].pw
          /\ s.via => AddressActive(s.user)
    /\ \A s, t \in sessions' \ sessions : s = t
    /\ \A g \in grants' : g \in grants \/ Active(g.user)

\* After Advance the tables are sound again and the step was forward.
LEMMA AdvanceSound ==
  ASSUME AInv, NEW U, Advance(U), TypeOK'
  PROVE  Forward /\ SessionsSound' /\ BindingsSound' /\ ErasedIsEmpty'
  <1> USE DEF AInv
  <1>0. U \subseteq Users
    BY DEF Advance
  <1>1. /\ \A u \in Users : /\ users[u].rev \in Nat /\ users'[u].rev \in Nat
                            /\ Floor(u) \in Nat /\ Floor(u)' \in Nat
        /\ \A s \in sessions : s.user \in Users /\ s.id \in Nat /\ s.epoch \in Nat
        /\ made \in Nat
    <2>1. \A u \in Users : users[u].rev \in Nat /\ Floor(u) \in Nat
      BY Tables
    <2>2. \A u \in Users : users'[u].rev \in Nat
      BY DEF TypeOK, Revision
    <2>3. \A u \in Users : Floor(u)' \in Nat
      BY AccountsAssumption DEF AccountsAssumption, TypeOK, Floor
    <2> QED BY <2>1, <2>2, <2>3, Tables
  <1>2. \A u \in Users :
           \/ users'[u].rev > users[u].rev /\ u \in U
           \/ /\ u \notin U
              /\ users'[u] = users[u] /\ hash'[u] = hash[u] /\ retired'[u] = retired[u]
              /\ Active(u) => Floor(u)' <= Floor(u)
    BY <1>1 DEF Advance
  <1>3. /\ \A s \in sessions' : s \in sessions /\ s.user \notin U
        /\ \A i \in revoked' : i \in revoked \/ \E s \in sessions : s.id = i /\ s.user \in U
        /\ \A g \in grants' : g \in grants /\ g.user \notin U
    BY DEF Advance, SessionsOf, GrantsOf
  <1>4. Forward
    <2>1. \A i \in revoked' :
             i \in revoked \/ \E s \in sessions : s.id = i /\ users'[s.user].rev > users[s.user].rev
      BY <1>0, <1>2, <1>3
    <2>2. made' >= made
      BY <1>1 DEF Advance
    <2> QED BY <1>2, <1>3, <2>1, <2>2 DEF Forward
  <1>5. SessionsSound'
    <2>1. ASSUME NEW s \in sessions'
          PROVE  /\ Active(s.user)' /\ (s.pw # None => s.pw = hash'[s.user].pw)
                 /\ (s.via => AddressActive(s.user)') /\ s.epoch >= Floor(s.user)'
                 /\ s.id <= made' /\ s.id \notin revoked'
      <3>1. s \in sessions /\ s.user \in Users /\ s.user \notin U
        BY <1>1, <1>3
      <3>2. /\ users'[s.user] = users[s.user] /\ hash'[s.user] = hash[s.user]
            /\ retired'[s.user] = retired[s.user]
            /\ (Active(s.user) => Floor(s.user)' <= Floor(s.user))
        BY <1>2, <3>1
      <3>3. s.id \notin revoked'
        BY <1>3, <3>1 DEF SessionsSound
      <3>4. s.epoch >= Floor(s.user)'
        BY <1>1, <3>1, <3>2 DEF SessionsSound
      <3> QED BY <3>1, <3>2, <3>3, <3>4 DEF SessionsSound, Active, AddressActive, Advance
    <2>2. \A i \in revoked' : i <= made'
      BY <1>3 DEF SessionsSound, Advance
    <2>3. \A s, t \in sessions' : s.id = t.id => s = t
      BY <1>3 DEF SessionsSound
    <2> QED BY <2>1, <2>2, <2>3 DEF SessionsSound
  <1>6. BindingsSound'
    <2> SUFFICES ASSUME NEW u \in Users, NEW c \in Purposes
                 PROVE  /\ challenges'[u][c].rev <= users'[u].rev
                        /\ challenges'[u][c].rev = users'[u].rev =>
                              /\ AddressActive(u)'
                              /\ Active(u)' => challenges'[u][c].epoch >= Floor(u)'
      BY DEF BindingsSound
    <2>1. CASE challenges'[u][c] = NoBinding
      BY <1>1, <2>1 DEF NoBinding
    <2>2. CASE challenges'[u][c] = challenges[u][c]
      <3>0. challenges[u][c].rev \in Nat \/ challenges[u][c] = NoBinding
        BY DEF TypeOK, Binding, Revision
      <3>1. CASE challenges[u][c] = NoBinding
        BY <2>1, <2>2, <3>1
      <3>2. CASE challenges[u][c].rev \in Nat
        <4>1. CASE u \in U
          BY <1>1, <1>2, <2>2, <3>2, <4>1 DEF BindingsSound
        <4>2. CASE u \notin U
          <5>1. challenges[u][c].epoch \in Nat \/ challenges[u][c] = NoBinding
            BY AccountsAssumption DEF AccountsAssumption, TypeOK, Binding
          <5> QED BY <1>1, <1>2, <2>2, <3>1, <4>2, <5>1 DEF BindingsSound, AddressActive, Active
        <4> QED BY <4>1, <4>2
      <3> QED BY <3>0, <3>1, <3>2
    <2> QED BY <2>1, <2>2 DEF Advance
  <1>7. ErasedIsEmpty'
    <2> SUFFICES ASSUME NEW u \in Users, users'[u].status = "erased"
                 PROVE  /\ hash'[u] = NoHash /\ ~ AddressActive(u)'
                        /\ SessionsOf({u})' = {} /\ GrantsOf({u})' = {}
      BY DEF ErasedIsEmpty
    <2>1. CASE u \in U
      <3>1. SessionsOf({u})' = {} /\ GrantsOf({u})' = {}
        BY <1>3, <2>1 DEF SessionsOf, GrantsOf
      <3> QED BY <2>1, <3>1 DEF Advance, AddressActive
    <2>2. CASE u \notin U
      <3>1. /\ users'[u] = users[u] /\ hash'[u] = hash[u] /\ retired'[u] = retired[u]
        BY <1>2, <2>2
      <3>2. /\ hash[u] = NoHash /\ ~ AddressActive(u)
            /\ SessionsOf({u}) = {} /\ GrantsOf({u}) = {}
        BY <3>1 DEF ErasedIsEmpty
      <3>3. SessionsOf({u})' = {} /\ GrantsOf({u})' = {}
        BY <1>3, <3>2 DEF SessionsOf, GrantsOf
      <3> QED BY <3>1, <3>2, <3>3 DEF AddressActive
    <2> QED BY <2>1, <2>2
  <1> QED BY <1>4, <1>5, <1>6, <1>7

\* After a steady step the tables are sound and the step was forward.
LEMMA SteadySound ==
  ASSUME AInv, Steady, TypeOK'
  PROVE  Forward /\ SessionsSound' /\ BindingsSound' /\ ErasedIsEmpty'
  <1> USE DEF AInv
  <1>1. /\ \A u \in Users : users[u].rev \in Nat /\ Floor(u) \in Nat
        /\ \A s \in sessions : s.user \in Users /\ s.id \in Nat /\ s.epoch \in Nat
        /\ made \in Nat /\ made' \in Nat /\ \A i \in revoked : i \in Nat
    BY Tables, AccountsAssumption DEF AccountsAssumption, TypeOK
  <1>2. \A u : Floor(u)' = Floor(u)
    BY DEF Steady, Floor, Swept
  <1>3. \A s \in sessions' : s.user \in Users
    BY DEF TypeOK, Session
  <1>4. Forward
    <2>1. \A s \in sessions' : s \in sessions \/ s.id > made
      BY <1>1 DEF Steady
    <2> QED BY <1>1, <1>2, <2>1 DEF Forward, Steady
  <1>5. SessionsSound'
    <2>1. \A s \in sessions' :
             /\ Active(s.user)' /\ (s.pw # None => s.pw = hash'[s.user].pw)
             /\ (s.via => AddressActive(s.user)') /\ s.epoch >= Floor(s.user)'
      <3> SUFFICES ASSUME NEW s \in sessions'
                   PROVE  /\ Active(s.user)' /\ (s.pw # None => s.pw = hash'[s.user].pw)
                          /\ (s.via => AddressActive(s.user)') /\ s.epoch >= Floor(s.user)'
        OBVIOUS
      <3>1. /\ Active(s.user) /\ s.epoch >= Floor(s.user)
            /\ s.pw # None => s.pw = hash[s.user].pw
            /\ s.via => AddressActive(s.user)
        BY DEF Steady, SessionsSound
      <3> QED BY <1>2, <1>3, <3>1 DEF Steady, Active, AddressActive
    <2>2. \A s \in sessions' : s.id <= made' /\ s.id \notin revoked'
      <3> SUFFICES ASSUME NEW s \in sessions' PROVE s.id <= made' /\ s.id \notin revoked'
        OBVIOUS
      <3>1. CASE s \in sessions
        BY <1>1, <3>1 DEF Steady, SessionsSound
      <3>2. CASE s \notin sessions
        BY <1>1, <3>2 DEF Steady, SessionsSound
      <3> QED BY <3>1, <3>2
    <2>3. \A s, t \in sessions' : s.id = t.id => s = t
      <3> SUFFICES ASSUME NEW s \in sessions', NEW t \in sessions', s.id = t.id PROVE s = t
        OBVIOUS
      <3>1. s \in sessions => s.id <= made
        BY DEF SessionsSound
      <3>2. t \in sessions => t.id <= made
        BY DEF SessionsSound
      <3>3. s \notin sessions => s.id = made + 1
        BY DEF Steady
      <3>4. t \notin sessions => t.id = made + 1
        BY DEF Steady
      <3>5. s \in sessions <=> t \in sessions
        BY <1>1, <3>1, <3>2, <3>3, <3>4
      <3> QED BY <3>5 DEF Steady, SessionsSound
    <2>4. \A i \in revoked' : i <= made'
      BY <1>1 DEF Steady, SessionsSound
    <2> QED BY <2>1, <2>2, <2>3, <2>4 DEF SessionsSound
  <1>6. BindingsSound'
    <2> SUFFICES ASSUME NEW u \in Users, NEW c \in Purposes
                 PROVE  /\ challenges'[u][c].rev <= users'[u].rev
                        /\ challenges'[u][c].rev = users'[u].rev =>
                              /\ AddressActive(u)'
                              /\ Active(u)' => challenges'[u][c].epoch >= Floor(u)'
      BY DEF BindingsSound
    <2>1. UNCHANGED <<users, retired>> /\ Floor(u)' = Floor(u)
      BY <1>2 DEF Steady
    <2>2. CASE challenges'[u][c] = NoBinding
      BY <1>1, <2>1, <2>2 DEF NoBinding
    <2>3. CASE challenges'[u][c] # NoBinding
      BY <2>1, <2>3 DEF Steady, BindingsSound, AddressActive, Active
    <2> QED BY <2>2, <2>3
  <1>7. ErasedIsEmpty'
    <2> SUFFICES ASSUME NEW u \in Users, users'[u].status = "erased"
                 PROVE  /\ hash'[u] = NoHash /\ ~ AddressActive(u)'
                        /\ SessionsOf({u})' = {} /\ GrantsOf({u})' = {}
      BY DEF ErasedIsEmpty
    <2>1. users[u].status = "erased" /\ ~ Active(u) /\ UNCHANGED retired
      BY DEF Steady, Active
    <2>2. /\ hash[u] = NoHash /\ ~ AddressActive(u)
          /\ SessionsOf({u}) = {} /\ GrantsOf({u}) = {}
      BY <2>1 DEF ErasedIsEmpty
    <2>3. SessionsOf({u})' = {} /\ GrantsOf({u})' = {}
      BY <2>1, <2>2 DEF SessionsOf, GrantsOf, Steady
    <2> QED BY <2>1, <2>2, <2>3 DEF AddressActive, Steady
  <1> QED BY <1>4, <1>5, <1>6, <1>7

\* A step on the tables beside which request p goes to a local it may hold.
LEMMA StepAInv ==
  ASSUME AInv, TypeOK', RunSound', Forward, SessionsSound', BindingsSound', ErasedIsEmpty',
         NEW p \in Procs, NEW l \in Local, Carries(l)', Vouches(l)',
         proc' = [proc EXCEPT ![p] = l]
  PROVE  AInv'
  <1>1. ASSUME NEW q \in Procs PROVE (Carries(proc[q]) /\ Vouches(proc[q]))'
    <2>0. proc \in [Procs -> Local]
      BY DEF AInv, TypeOK
    <2>1. CASE q = p
      <3>1. proc'[q] = l
        BY <2>0, <2>1
      <3> QED BY <3>1 DEF Carries, Vouches, Fresh, Active, AddressActive
    <2>2. CASE q # p
      <3>1. proc'[q] = proc[q]
        BY <2>0, <2>2
      <3>2. PICK k \in Local : k = proc[q]
        BY <2>0
      <3>3. Carries(k) /\ Vouches(k)
        BY <3>2 DEF AInv
      <3>4. Carries(k)' /\ Vouches(k)'
        BY <3>3, CarriesOn
      <3> QED BY <3>1, <3>2, <3>4 DEF Carries, Vouches, Fresh, Active, AddressActive
    <2> QED BY <2>1, <2>2
  <1> QED BY <1>1 DEF AInv

\* A step on the tables beside which no request moves.
LEMMA TablesAInv ==
  ASSUME AInv, TypeOK', RunSound', Forward, SessionsSound', BindingsSound', ErasedIsEmpty',
         proc' = proc
  PROVE  AInv'
  <1>1. ASSUME NEW q \in Procs PROVE (Carries(proc[q]) /\ Vouches(proc[q]))'
    <2>1. PICK k \in Local : k = proc[q]
      BY DEF AInv, TypeOK
    <2>2. Carries(k) /\ Vouches(k)
      BY <2>1 DEF AInv
    <2>3. Carries(k)' /\ Vouches(k)'
      BY <2>2, CarriesOn
    <2> QED BY <2>1, <2>3 DEF Carries, Vouches, Fresh, Active, AddressActive
  <1> QED BY <1>1 DEF AInv

-----------------------------------------------------------------------------
(* Steps of a request that leave the tables alone. *)

Steps == Read \cup {"idle", "loginUser", "issueUser", "logoutGrants"}

\* A request between two calls carries nothing.
LEMMA IdleHolds == Idle \in Local /\ Carries(Idle) /\ Vouches(Idle)
  <1>1. Idle \in Local
    BY AccountsAssumption
    DEF AccountsAssumption, Idle, Local, Hash, NoHash, Purposes, Revision
  <1> QED BY <1>1 DEF Idle, Carries, Vouches, Fresh, Read

\* No fresh proof can be asked to be later than now.
LEMMA FloorIsPast ==
  ASSUME AInv, NEW u \in Users
  PROVE  epoch >= Floor(u)
  BY Tables DEF AInv, Floor, RunSound

\* A local at another step.
LEMMA Retag ==
  ASSUME NEW k \in Local, NEW pc \in Steps
  PROVE  LET l == [k EXCEPT !.pc = pc]
         IN /\ l \in Local /\ l.pc = pc
            /\ l.user = k.user /\ l.pw = k.pw /\ l.new = k.new /\ l.session = k.session
            /\ l.via = k.via /\ l.rev = k.rev /\ l.epoch = k.epoch /\ l.hash = k.hash
            /\ l.purpose = k.purpose
  BY DEF Local, Steps, Read

\* A local that holds the hash h.
LEMMA WithHash ==
  ASSUME NEW k \in Local, NEW h \in Hash
  PROVE  LET l == [k EXCEPT !.hash = h]
         IN /\ l \in Local /\ l.pc = k.pc
            /\ l.user = k.user /\ l.pw = k.pw /\ l.new = k.new /\ l.session = k.session
            /\ l.via = k.via /\ l.rev = k.rev /\ l.epoch = k.epoch /\ l.hash = h
  BY DEF Local

\* A local that has read the revision r.
LEMMA WithRev ==
  ASSUME NEW k \in Local, NEW r \in Nat
  PROVE  LET l == [k EXCEPT !.rev = r]
         IN /\ l \in Local /\ l.pc = k.pc
            /\ l.user = k.user /\ l.pw = k.pw /\ l.new = k.new /\ l.session = k.session
            /\ l.via = k.via /\ l.rev = r
  BY DEF Local, Revision

\* A local whose proof begins in epoch e.
LEMMA WithEpoch ==
  ASSUME NEW k \in Local, NEW e \in 0..MaxRuns
  PROVE  LET l == [k EXCEPT !.epoch = e]
         IN /\ l \in Local /\ l.pc = k.pc
            /\ l.user = k.user /\ l.pw = k.pw /\ l.new = k.new /\ l.session = k.session
            /\ l.via = k.via /\ l.rev = k.rev /\ l.epoch = e
  BY DEF Local

\* A request moves to a local it may hold and the tables stay as they are.
LEMMA MoveAInv ==
  ASSUME AInv, NEW p \in Procs, UNCHANGED <<store, run>>, requests' \in 0..MaxRequests,
         \E l \in Local : Carries(l) /\ Vouches(l) /\ Goto(p, l)
  PROVE  AInv'
  <1>1. PICK l \in Local : Carries(l) /\ Vouches(l) /\ Goto(p, l)
    OBVIOUS
  <1>2. TypeOK'
    BY <1>1 DEF AInv, TypeOK, store, run, Goto
  <1>3. Floor(l.user)' = Floor(l.user)
    BY DEF Floor, Swept, run
  <1>4. Steady
    BY Tables DEF AInv, Steady, store, run
  <1>5. Forward /\ SessionsSound' /\ BindingsSound' /\ ErasedIsEmpty'
    BY <1>2, <1>4, SteadySound
  <1>6. RunSound'
    BY DEF AInv, RunSound, run
  <1>7. Carries(l)' /\ Vouches(l)'
    BY <1>1, <1>2, <1>5, CarriesOn
  <1> QED BY <1>1, <1>2, <1>5, <1>6, <1>7, StepAInv DEF Goto

\* A request ends and the tables stay as they are.
LEMMA ReturnAInv ==
  ASSUME AInv, NEW p \in Procs, UNCHANGED <<store, run>>, requests' \in 0..MaxRequests, Return(p)
  PROVE  AInv'
  BY IdleHolds, MoveAInv DEF Return

\* The local of a request.
LEMMA Held ==
  ASSUME AInv, NEW p \in Procs
  PROVE  proc[p] \in Local /\ Carries(proc[p]) /\ Vouches(proc[p]) /\ requests \in 0..MaxRequests
  BY DEF AInv, TypeOK

\* A request goes on to another step.
LEMMA OnAInv ==
  ASSUME AInv, NEW p \in Procs, NEW pc \in Steps, UNCHANGED <<store, run, requests>>, On(p, pc),
         NEW k \in Local, k = proc[p], k.pc \in Read, pc \in Read,
         pc \notin {"changeHash", "change"} \/ k.new \in Passwords,
         pc # "changeHash", pc \notin {"owned", "live", "stepHash"} \/ ~ k.via,
         pc \notin {"linkResolve", "linkUser", "linkAgain"} \/ k.pw = None,
         Fresh(k) =>
            /\ pc \in Resolved /\ k.via => AddressActive(k.user)
            /\ pc = "issue" => AddressActive(k.user)
            /\ pc \in {"rehash", "mint"} /\ k.pw # None => hash[k.user].pw = k.pw
            /\ pc \in {"authorise", "change", "retire"} /\ k.session # 0 => k.session \notin revoked
  PROVE  AInv'
  <1>1. PICK l \in Local : l = [k EXCEPT !.pc = pc]
    BY Retag
  <1>2. /\ l.pc = pc /\ l.user = k.user /\ l.pw = k.pw /\ l.new = k.new /\ l.session = k.session
        /\ l.via = k.via /\ l.rev = k.rev /\ l.epoch = k.epoch
    BY <1>1, Retag
  <1>3. Carries(k) /\ Vouches(k) /\ requests \in 0..MaxRequests
    BY Held
  <1>4. Carries(l)
    BY <1>2, <1>3 DEF Carries, Read
  <1>5. Fresh(l) => Fresh(k)
    BY <1>2 DEF Fresh
  <1>6. Vouches(l)
    BY <1>2, <1>3, <1>5 DEF Vouches
  <1>7. Goto(p, l)
    BY <1>1 DEF On
  <1> QED BY <1>3, <1>4, <1>6, <1>7, MoveAInv

\* The first reads of a login or of a delivery: the revision, in the epoch of now.
LEMMA ReadUserAInv ==
  ASSUME AInv, NEW p \in Procs, NEW pc \in {"loginAgain", "issueAgain"},
         proc[p].pc \in {"loginUser", "issueUser"}, UNCHANGED <<store, run, requests>>,
         ReadUser(p, pc)
  PROVE  AInv'
  <1>1. PICK k \in Local : k = proc[p]
    BY Held
  <1>2. Carries(k) /\ requests \in 0..MaxRequests /\ k.user \in Users
    BY <1>1, Held DEF Carries
  <1>3. users[k.user].rev \in Nat /\ epoch \in 0..MaxRuns /\ epoch \in Nat
    BY <1>2, Tables DEF AInv, TypeOK
  <1>4. PICK r \in Nat, e \in 0..MaxRuns : r = users[k.user].rev /\ e = epoch
    BY <1>3
  <1>5. pc \in Steps
    BY DEF Steps, Read
  <1>a. PICK m \in Local : m = [k EXCEPT !.pc = pc]
    BY <1>5, Retag
  <1>b. PICK n \in Local : n = [m EXCEPT !.rev = r]
    BY WithRev
  <1>c. PICK l \in Local : l = [n EXCEPT !.epoch = e]
    BY WithEpoch
  <1>6. /\ l = [k EXCEPT !.pc = pc, !.rev = r, !.epoch = e] /\ l.pc = pc
        /\ l.user = k.user /\ l.pw = k.pw /\ l.new = k.new /\ l.session = k.session
        /\ l.via = k.via /\ l.rev = r /\ l.epoch = e
    <2>1. l = [k EXCEPT !.pc = pc, !.rev = r, !.epoch = e]
      BY <1>a, <1>b, <1>c
    <2>2. /\ m.pc = pc /\ m.user = k.user /\ m.pw = k.pw /\ m.new = k.new
          /\ m.session = k.session /\ m.via = k.via
      BY <1>5, <1>a, Retag
    <2>3. /\ n.pc = m.pc /\ n.user = m.user /\ n.pw = m.pw /\ n.new = m.new
          /\ n.session = m.session /\ n.via = m.via /\ n.rev = r
      BY <1>b, WithRev
    <2>4. /\ l.pc = n.pc /\ l.user = n.user /\ l.pw = n.pw /\ l.new = n.new
          /\ l.session = n.session /\ l.via = n.via /\ l.rev = n.rev /\ l.epoch = e
      BY <1>c, WithEpoch
    <2> QED BY <2>1, <2>2, <2>3, <2>4
  <1>7. Carries(l)
    BY <1>1, <1>2, <1>4, <1>6 DEF Carries
  <1>8. Vouches(l)
    <2>1. l.pc \notin Resolved \cup {"issue", "rehash", "mint", "authorise", "change", "retire"}
      BY <1>6 DEF Resolved
    <2>2. l.epoch >= Floor(l.user)
      BY <1>2, <1>4, <1>6, FloorIsPast
    <2> QED BY <2>1, <2>2 DEF Vouches
  <1>9. Goto(p, l)
    BY <1>1, <1>4, <1>6 DEF ReadUser
  <1> QED BY <1>2, <1>7, <1>8, <1>9, MoveAInv

\* The password is verified after the revision was read.
LEMMA VerifiedAInv ==
  ASSUME AInv, NEW p \in Procs, NEW next \in {"mint", "grant"},
         proc[p].pc \in {"loginHash", "stepHash"}, next = "mint" => proc[p].pc = "loginHash",
         UNCHANGED <<store, run, requests>>, Verified(p, next)
  PROVE  AInv'
  <1>1. PICK k \in Local : k = proc[p]
    BY Held
  <1>2. Carries(k) /\ Vouches(k) /\ requests \in 0..MaxRequests /\ k.user \in Users
    BY <1>1, Held DEF Carries
  <1>3. CASE Return(p)
    BY <1>2, <1>3, ReturnAInv
  <1>4. CASE On(p, next) /\ hash[k.user].pw = k.pw
    BY <1>1, <1>2, <1>4, OnAInv DEF Steps, Read, Resolved, Vouches
  <1>5. CASE hash[k.user].pw = k.pw /\ Goto(p, [k EXCEPT !.pc = "rehash", !.hash = hash[k.user]])
    <2>1. PICK h \in Hash : h = hash[k.user]
      BY <1>2, Tables DEF AInv
    <2>2. "rehash" \in Steps
      BY DEF Steps, Read
    <2>a. PICK m \in Local : m = [k EXCEPT !.pc = "rehash"]
      BY <2>2, Retag
    <2>b. PICK l \in Local : l = [m EXCEPT !.hash = h]
      BY WithHash
    <2>3. /\ l = [k EXCEPT !.pc = "rehash", !.hash = h] /\ l.pc = "rehash"
          /\ l.user = k.user /\ l.pw = k.pw /\ l.new = k.new /\ l.session = k.session
          /\ l.via = k.via /\ l.rev = k.rev /\ l.epoch = k.epoch
      <3>1. l = [k EXCEPT !.pc = "rehash", !.hash = h]
        BY <2>a, <2>b
      <3>2. /\ m.pc = "rehash" /\ m.user = k.user /\ m.pw = k.pw /\ m.new = k.new
            /\ m.session = k.session /\ m.via = k.via /\ m.rev = k.rev /\ m.epoch = k.epoch
        BY <2>2, <2>a, Retag
      <3>3. /\ l.pc = m.pc /\ l.user = m.user /\ l.pw = m.pw /\ l.new = m.new
            /\ l.session = m.session /\ l.via = m.via /\ l.rev = m.rev /\ l.epoch = m.epoch
        BY <2>b, WithHash
      <3> QED BY <3>1, <3>2, <3>3
    <2>4. Carries(l)
      BY <1>1, <1>2, <2>3 DEF Carries, Read
    <2>5. Fresh(l) => Fresh(k)
      BY <1>1, <2>3 DEF Fresh, Read
    <2>6. Vouches(l)
      <3> SUFFICES ASSUME Fresh(l) PROVE Vouches(l)
        BY DEF Vouches
      <3>1. l.via => AddressActive(k.user)
        BY <1>1, <1>2, <2>3, <2>5 DEF Carries, Vouches, Resolved
      <3>2. Active(k.user) => l.epoch >= Floor(k.user)
        BY <1>2, <2>3, <2>5 DEF Vouches
      <3> QED BY <1>5, <2>3, <3>1, <3>2 DEF Vouches
    <2> QED BY <1>2, <1>5, <2>1, <2>3, <2>4, <2>6, MoveAInv
  <1> QED BY <1>1, <1>3, <1>4, <1>5 DEF Verified

\* ChangePassword has verified the present password.
LEMMA ChangeHashAInv ==
  ASSUME AInv, NEW p \in Procs, ChangeHash(p), UNCHANGED requests
  PROVE  AInv'
  <1>1. PICK k \in Local : k = proc[p]
    BY Held
  <1>2. /\ Carries(k) /\ Vouches(k) /\ requests \in 0..MaxRequests /\ k.user \in Users
        /\ k.pc = "changeHash"
    BY <1>1, Held DEF Carries, ChangeHash, At
  <1>3. CASE Return(p)
    BY <1>2, <1>3, ReturnAInv DEF ChangeHash
  <1>4. CASE Goto(p, [k EXCEPT !.pc = "change", !.hash = hash[k.user]])
    <2>1. PICK h \in Hash : h = hash[k.user]
      BY <1>2, Tables DEF AInv
    <2>2. "change" \in Steps
      BY DEF Steps, Read
    <2>a. PICK m \in Local : m = [k EXCEPT !.pc = "change"]
      BY <2>2, Retag
    <2>b. PICK l \in Local : l = [m EXCEPT !.hash = h]
      BY WithHash
    <2>3. /\ l = [k EXCEPT !.pc = "change", !.hash = h] /\ l.pc = "change"
          /\ l.user = k.user /\ l.pw = k.pw /\ l.new = k.new /\ l.session = k.session
          /\ l.via = k.via /\ l.rev = k.rev /\ l.epoch = k.epoch
      <3>1. l = [k EXCEPT !.pc = "change", !.hash = h]
        BY <2>a, <2>b
      <3>2. /\ m.pc = "change" /\ m.user = k.user /\ m.pw = k.pw /\ m.new = k.new
            /\ m.session = k.session /\ m.via = k.via /\ m.rev = k.rev /\ m.epoch = k.epoch
        BY <2>2, <2>a, Retag
      <3>3. /\ l.pc = m.pc /\ l.user = m.user /\ l.pw = m.pw /\ l.new = m.new
            /\ l.session = m.session /\ l.via = m.via /\ l.rev = m.rev /\ l.epoch = m.epoch
        BY <2>b, WithHash
      <3> QED BY <3>1, <3>2, <3>3
    <2>4. Carries(l)
      BY <1>2, <2>3 DEF Carries, Read
    <2>5. Fresh(l) => Fresh(k)
      BY <1>2, <2>3 DEF Fresh, Read
    <2>6. Vouches(l)
      <3> SUFFICES ASSUME Fresh(l) PROVE Vouches(l)
        BY DEF Vouches
      <3>1. l.session = 0 /\ l.pc \notin Resolved
        BY <1>2, <2>3 DEF Carries, Resolved
      <3>2. Active(k.user) => l.epoch >= Floor(k.user)
        BY <1>2, <2>3, <2>5 DEF Vouches
      <3> QED BY <2>3, <3>1, <3>2 DEF Vouches
    <2> QED BY <1>2, <1>4, <2>1, <2>3, <2>4, <2>6, MoveAInv DEF ChangeHash
  <1> QED BY <1>1, <1>3, <1>4 DEF ChangeHash

\* The steps that only read.
LEMMA ReadsAInv ==
  ASSUME AInv, NEW p \in Procs, UNCHANGED requests,
         \/ LoginUser(p) \/ LoginAgain(p) \/ LoginHash(p) \/ Owned(p) \/ LiveStepUpSession(p)
         \/ StepHash(p) \/ IssueUser(p) \/ IssueAgain(p) \/ LinkResolve(p) \/ LinkUser(p)
         \/ LinkAgain(p) \/ Abandon(p)
  PROVE  AInv'
  <1>1. PICK k \in Local : k = proc[p]
    BY Held
  <1>2. /\ Carries(k) /\ Vouches(k) /\ requests \in 0..MaxRequests /\ requests' = requests
    BY <1>1, Held
  <1>3. ASSUME UNCHANGED <<store, run>>, Return(p) PROVE AInv'
    BY <1>2, <1>3, ReturnAInv
  <1>4. CASE LoginUser(p) \/ IssueUser(p)
    BY <1>3, <1>4, ReadUserAInv DEF LoginUser, IssueUser, At
  <1>5. CASE LoginHash(p) \/ StepHash(p)
    BY <1>5, VerifiedAInv DEF LoginHash, StepHash, At
  <1>6. CASE LoginAgain(p)
    BY <1>1, <1>2, <1>3, <1>6, OnAInv DEF LoginAgain, At, Steps, Read, Resolved
  <1>7. CASE IssueAgain(p)
    BY <1>1, <1>2, <1>3, <1>7, OnAInv DEF IssueAgain, At, Steps, Read, Resolved
  <1>8. CASE LinkResolve(p) \/ LinkUser(p)
    <2>1. k.pc \in {"linkResolve", "linkUser"} /\ k.pw = None
      BY <1>1, <1>2, <1>8 DEF LinkResolve, LinkUser, At, Carries
    <2>2. Fresh(k) /\ k.via => AddressActive(k.user)
      BY <1>2, <2>1 DEF Vouches, Resolved
    <2>3. ASSUME NEW pc \in {"linkUser", "linkAgain"}, On(p, pc), UNCHANGED <<store, run>> PROVE AInv'
      BY <1>1, <1>2, <2>1, <2>2, <2>3, OnAInv DEF Steps, Read
    <2> QED BY <1>3, <1>8, <2>3 DEF LinkResolve, LinkUser
  <1>9. CASE LinkAgain(p)
    <2>1. CASE On(p, "mint") /\ AddressActive(k.user)
      <3>1. k.pc = "linkAgain" /\ k.pw = None
        BY <1>1, <1>2, <1>9 DEF LinkAgain, At, Carries
      <3> QED BY <1>1, <1>2, <1>9, <2>1, <3>1, OnAInv DEF LinkAgain, Steps, Read
    <2> QED BY <1>1, <1>3, <1>9, <2>1 DEF LinkAgain
  <1>10. CASE Owned(p)
    BY <1>1, <1>2, <1>3, <1>10, OnAInv DEF Owned, At, Steps, Read, Resolved, Carries
  <1>11. CASE LiveStepUpSession(p)
    <2>1. k.pc = "live" /\ ~ k.via /\ UNCHANGED <<store, run>>
      BY <1>1, <1>2, <1>11 DEF LiveStepUpSession, At, Carries
    <2>2. CASE On(p, "stepHash")
      BY <1>1, <1>2, <2>1, <2>2, OnAInv DEF Steps, Read, Resolved
    <2>3. CASE On(p, "authorise") /\ Live(k.session)
      <3>1. k.session \notin revoked
        BY <2>3 DEF Live, AInv, SessionsSound
      <3> QED BY <1>1, <1>2, <2>1, <2>3, <3>1, OnAInv DEF Steps, Read, Resolved
    <2> QED BY <1>1, <1>3, <1>11, <2>1, <2>2, <2>3 DEF LiveStepUpSession
  <1>12. CASE Abandon(p)
    BY <1>3, <1>12 DEF Abandon
  <1> QED BY <1>4, <1>5, <1>6, <1>7, <1>8, <1>9, <1>10, <1>11, <1>12

-----------------------------------------------------------------------------
(* Requests begin. *)

\* Login, IssueToken and the delivery worker begin with nothing read.
LEMMA BeginAInv ==
  ASSUME AInv, NEW p \in Procs, NEW u \in Users, requests' \in 0..MaxRequests,
         \/ \E pw \in Passwords : Login(p, u, pw)
         \/ \E purpose \in Purposes : Issue(p, u, purpose)
  PROVE  AInv'
  <1>1. CASE \E pw \in Passwords : Login(p, u, pw)
    <2>1. PICK pw \in Passwords : Login(p, u, pw)
      BY <1>1
    <2>2. PICK l : l = [Idle EXCEPT !.pc = "loginUser", !.user = u, !.pw = pw, !.via = TRUE]
      OBVIOUS
    <2>3. l = [pc |-> "loginUser", user |-> u, pw |-> pw, new |-> None, session |-> 0, via |-> TRUE,
               rev |-> 0, epoch |-> 0, hash |-> NoHash, purpose |-> "password_reset"]
      BY <2>2 DEF Idle
    <2>4. l \in Local
      BY <2>3, AccountsAssumption
      DEF AccountsAssumption, Local, Hash, NoHash, Purposes, Revision
    <2>5. Carries(l) /\ Vouches(l)
      BY <2>3 DEF Carries, Vouches, Fresh, Read
    <2> QED BY <2>1, <2>2, <2>4, <2>5, MoveAInv DEF Login
  <1>2. CASE \E purpose \in Purposes : Issue(p, u, purpose)
    <2>1. PICK purpose \in Purposes : Issue(p, u, purpose)
      BY <1>2
    <2>2. PICK l : l = [Idle EXCEPT !.pc = "issueUser", !.user = u, !.purpose = purpose]
      OBVIOUS
    <2>3. l = [pc |-> "issueUser", user |-> u, pw |-> None, new |-> None, session |-> 0,
               via |-> FALSE, rev |-> 0, epoch |-> 0, hash |-> NoHash, purpose |-> purpose]
      BY <2>2 DEF Idle
    <2>4. l \in Local
      BY <2>3, AccountsAssumption
      DEF AccountsAssumption, Local, Hash, NoHash, Purposes, Revision
    <2>5. Carries(l) /\ Vouches(l)
      BY <2>3 DEF Carries, Vouches, Fresh, Read
    <2> QED BY <2>1, <2>2, <2>4, <2>5, MoveAInv DEF Issue
  <1> QED BY <1>1, <1>2

\* ChangePassword reads the revision of its user at once.
LEMMA ChangePasswordAInv ==
  ASSUME AInv, NEW p \in Procs, NEW u \in Users, NEW pw \in Passwords, NEW new \in Passwords,
         requests' \in 0..MaxRequests, ChangePassword(p, u, pw, new)
  PROVE  AInv'
  <1>1. PICK r \in Nat, e \in 0..MaxRuns : r = users[u].rev /\ e = epoch
    BY Tables DEF AInv, TypeOK
  <1>2. PICK l : l = [Idle EXCEPT !.pc = "changeHash", !.user = u, !.pw = pw, !.new = new,
                                  !.rev = r, !.epoch = e]
    OBVIOUS
  <1>3. l = [pc |-> "changeHash", user |-> u, pw |-> pw, new |-> new, session |-> 0,
             via |-> FALSE, rev |-> r, epoch |-> e, hash |-> NoHash, purpose |-> "password_reset"]
    BY <1>2 DEF Idle
  <1>4. l \in Local
    BY <1>3, AccountsAssumption
    DEF AccountsAssumption, Local, Hash, NoHash, Purposes, Revision
  <1>5. Carries(l) /\ Vouches(l)
    BY <1>1, <1>3, FloorIsPast DEF Carries, Vouches, Read, Resolved
  <1> QED BY <1>1, <1>2, <1>4, <1>5, MoveAInv DEF ChangePassword

\* What a session may begin: it reads the revision before it looks at the session.
LEMMA SensitiveAInv ==
  ASSUME AInv, NEW p \in Procs, NEW s \in sessions, requests' \in 0..MaxRequests,
         \/ \E new \in Passwords \cup {None} : Sensitive(p, s, new)
         \/ \E pw \in Passwords : StepUp(p, s, pw)
  PROVE  AInv'
  <1>0. PICK u \in Users, i \in 1..MaxSessions : u = s.user /\ i = s.id
    BY Tables DEF AInv
  <1>1. PICK r \in Nat, e \in 0..MaxRuns : r = users[u].rev /\ e = epoch
    BY Tables DEF AInv, TypeOK
  <1>2. i \in 0..MaxSessions /\ i # 0 /\ i <= made /\ \A t \in sessions : t.id = i => t.user = u
    BY <1>0, AccountsAssumption DEF AccountsAssumption, AInv, SessionsSound
  <1>3. CASE \E new \in Passwords \cup {None} : Sensitive(p, s, new)
    <2>1. PICK new \in Passwords \cup {None} : Sensitive(p, s, new)
      BY <1>3
    <2>2. PICK l : l = [Idle EXCEPT !.pc = "owned", !.user = u, !.session = i, !.new = new,
                                    !.rev = r, !.epoch = e]
      OBVIOUS
    <2>3. l = [pc |-> "owned", user |-> u, pw |-> None, new |-> new, session |-> i,
               via |-> FALSE, rev |-> r, epoch |-> e, hash |-> NoHash, purpose |-> "password_reset"]
      BY <2>2 DEF Idle
    <2>4. l \in Local
      BY <1>2, <2>3, AccountsAssumption
      DEF AccountsAssumption, Local, Hash, NoHash, Purposes, Revision
    <2>5. Carries(l) /\ Vouches(l)
      BY <1>1, <1>2, <2>3, FloorIsPast DEF Carries, Vouches, Read, Resolved
    <2> QED BY <1>0, <1>1, <2>1, <2>2, <2>4, <2>5, MoveAInv DEF Sensitive
  <1>4. CASE \E pw \in Passwords : StepUp(p, s, pw)
    <2>1. PICK pw \in Passwords : StepUp(p, s, pw)
      BY <1>4
    <2>2. PICK l : l = [Idle EXCEPT !.pc = "live", !.user = u, !.session = i, !.pw = pw,
                                    !.rev = r, !.epoch = e]
      OBVIOUS
    <2>3. l = [pc |-> "live", user |-> u, pw |-> pw, new |-> None, session |-> i,
               via |-> FALSE, rev |-> r, epoch |-> e, hash |-> NoHash, purpose |-> "password_reset"]
      BY <2>2 DEF Idle
    <2>4. l \in Local
      BY <1>2, <2>3, AccountsAssumption
      DEF AccountsAssumption, Local, Hash, NoHash, Purposes, Revision
    <2>5. Carries(l) /\ Vouches(l)
      BY <1>1, <1>2, <2>3, FloorIsPast DEF Carries, Vouches, Read, Resolved
    <2> QED BY <1>0, <1>1, <2>1, <2>2, <2>4, <2>5, MoveAInv DEF StepUp
  <1> QED BY <1>3, <1>4

-----------------------------------------------------------------------------
(* Transactions that leave every revision as it is. *)

\* A steady transaction and the move of the request that makes it.
LEMMA SteadyAInv ==
  ASSUME AInv, TypeOK', Steady, NEW p \in Procs,
         \E l \in Local : Carries(l) /\ Vouches(l) /\ Goto(p, l)
  PROVE  AInv'
  <1>1. PICK l \in Local : Carries(l) /\ Vouches(l) /\ Goto(p, l)
    OBVIOUS
  <1>2. Forward /\ SessionsSound' /\ BindingsSound' /\ ErasedIsEmpty'
    BY SteadySound
  <1>3. RunSound'
    BY DEF AInv, RunSound, Steady
  <1>4. Carries(l)' /\ Vouches(l)'
    BY <1>1, <1>2, CarriesOn
  <1> QED BY <1>1, <1>2, <1>3, <1>4, StepAInv DEF Goto

\* The session of a fresh proof is admitted.
LEMMA MintAInv ==
  ASSUME AInv, NEW p \in Procs, Mint(p), UNCHANGED requests
  PROVE  AInv'
  <1>1. PICK k \in Local : k = proc[p]
    BY Held
  <1>2. /\ Carries(k) /\ Vouches(k) /\ k.pc = "mint" /\ k.user \in Users
    BY <1>1, Held DEF Mint, At, Carries
  <1>3. CASE UNCHANGED <<made, sessions>>
    BY <1>3, ReturnAInv, Held DEF Mint, store
  <1>4. CASE admits(p) /\ made < MaxSessions /\ made' = made + 1
             /\ sessions' = sessions \cup
                  {[id |-> made + 1, user |-> proc[p].user, pw |-> proc[p].pw, via |-> proc[p].via,
                    rev |-> proc[p].rev, epoch |-> proc[p].epoch]}
    <2> DEFINE new == [id |-> made + 1, user |-> k.user, pw |-> k.pw, via |-> k.via,
                       rev |-> k.rev, epoch |-> k.epoch]
    <2>1. made + 1 \in 1..MaxSessions /\ made' \in 0..MaxSessions /\ made \in Nat
      BY <1>4, AccountsAssumption DEF AccountsAssumption, AInv, TypeOK
    <2>2. new \in Session
      BY <1>2, <2>1, LocalFields DEF Session, Revision
    <2>3. proc' \in [Procs -> Local]
      BY IdleHolds DEF Mint, Return, Goto, AInv, TypeOK
    <2>4. TypeOK'
      BY <1>1, <1>4, <2>1, <2>2, <2>3 DEF Mint, AInv, TypeOK, run
    <2>5. Fresh(k) /\ Active(k.user)
      BY <1>1, <1>2, <1>4 DEF admits, Fresh, Read
    <2>6. /\ k.epoch >= Floor(k.user)
          /\ k.pw # None => k.pw = hash[k.user].pw
          /\ k.via => AddressActive(k.user)
      BY <1>2, <2>5 DEF Vouches, Resolved
    <2>7. sessions' \ sessions \subseteq {new}
      BY <1>1, <1>4
    <2>8. \A s \in sessions' \ sessions :
             /\ s.id = made + 1 /\ made' = made + 1
             /\ Active(s.user) /\ s.epoch >= Floor(s.user)
             /\ s.pw # None => s.pw = hash[s.user].pw
             /\ s.via => AddressActive(s.user)
      BY <1>4, <2>5, <2>6, <2>7
    <2>9. Steady
      BY <1>4, <2>1, <2>7, <2>8 DEF Mint, Steady, run
    <2> QED BY <2>4, <2>9, IdleHolds, SteadyAInv DEF Mint, Return
  <1> QED BY <1>3, <1>4 DEF Mint

\* An upgrade keeps the password, and makes none where there is none.
LEMMA RehashKeeps ==
  ASSUME AInv, NEW p \in Procs, Rehash(p)
  PROVE  /\ hash' \in [Users -> Hash]
         /\ \A u \in Users : hash'[u].pw = hash[u].pw /\ (hash[u] = NoHash => hash'[u] = NoHash)
  <1>1. CASE UNCHANGED hash
    BY <1>1 DEF AInv, TypeOK
  <1>2. CASE upgrades(p) /\ hash' = [hash EXCEPT ![proc[p].user] = [proc[p].hash EXCEPT !.weak = FALSE]]
    <2>1. proc[p].user \in Users
      BY Held DEF Rehash, At, Carries
    <2>2. PICK g \in Hash : g = hash[proc[p].user] /\ g = proc[p].hash
      BY <1>2, <2>1, Tables DEF AInv, upgrades
    <2>3. /\ [g EXCEPT !.weak = FALSE] \in Hash /\ [g EXCEPT !.weak = FALSE].pw = g.pw
          /\ g = NoHash => [g EXCEPT !.weak = FALSE] = NoHash
      <3>1. CASE g = NoHash
        <4>1. [NoHash EXCEPT !.weak = FALSE] = NoHash
          <5>1. NoHash \in [pw : {None}, weak : {FALSE}]
            BY DEF NoHash
          <5>2. \A x \in [pw : {None}, weak : {FALSE}] : [x EXCEPT !.weak = FALSE] = x
            OBVIOUS
          <5> QED BY <5>1, <5>2
        <4>2. NoHash \in Hash
          BY DEF Hash
        <4> QED BY <3>1, <4>1, <4>2
      <3>2. CASE g # NoHash
        <4>1. g \in [pw : Passwords, weak : BOOLEAN]
          BY <3>2 DEF Hash
        <4>2. /\ [g EXCEPT !.weak = FALSE] \in [pw : Passwords, weak : BOOLEAN]
              /\ [g EXCEPT !.weak = FALSE].pw = g.pw
          BY <4>1
        <4> QED BY <3>2, <4>2 DEF Hash
      <3> QED BY <3>1, <3>2
    <2> QED BY <1>2, <2>1, <2>2, <2>3 DEF AInv, TypeOK
  <1> QED BY <1>1, <1>2 DEF Rehash

\* An upgrade rehashes the password it was computed from.
LEMMA RehashAInv ==
  ASSUME AInv, NEW p \in Procs, Rehash(p), UNCHANGED requests
  PROVE  AInv'
  <1>1. PICK k \in Local : k = proc[p]
    BY Held
  <1>2. /\ Carries(k) /\ Vouches(k) /\ k.pc = "rehash" /\ k.user \in Users
    BY <1>1, Held DEF Rehash, At, Carries
  <1>3. PICK pc \in {"mint", "grant"} : pc = IF k.session = 0 THEN "mint" ELSE "grant"
    OBVIOUS
  <1>4. PICK h \in Hash : h = NoHash
    BY DEF Hash
  <1>5. pc \in Steps
    BY DEF Steps, Read
  <1>a. PICK m \in Local : m = [k EXCEPT !.pc = pc]
    BY <1>5, Retag
  <1>b. PICK l \in Local : l = [m EXCEPT !.hash = h]
    BY WithHash
  <1>6. /\ l = [k EXCEPT !.pc = pc, !.hash = h] /\ l.pc = pc
        /\ l.user = k.user /\ l.pw = k.pw /\ l.new = k.new /\ l.session = k.session
        /\ l.via = k.via /\ l.rev = k.rev /\ l.epoch = k.epoch
    <2>1. l = [k EXCEPT !.pc = pc, !.hash = h]
      BY <1>a, <1>b
    <2>2. /\ m.pc = pc /\ m.user = k.user /\ m.pw = k.pw /\ m.new = k.new
          /\ m.session = k.session /\ m.via = k.via /\ m.rev = k.rev /\ m.epoch = k.epoch
      BY <1>5, <1>a, Retag
    <2>3. /\ l.pc = m.pc /\ l.user = m.user /\ l.pw = m.pw /\ l.new = m.new
          /\ l.session = m.session /\ l.via = m.via /\ l.rev = m.rev /\ l.epoch = m.epoch
      BY <1>b, WithHash
    <2> QED BY <2>1, <2>2, <2>3
  <1>7. Goto(p, l)
    BY <1>1, <1>3, <1>4, <1>6 DEF Rehash
  <1>8. Carries(l)
    BY <1>2, <1>6 DEF Carries, Read
  <1>9. Vouches(l)
    <2> SUFFICES ASSUME Fresh(l) PROVE Vouches(l)
      BY DEF Vouches
    <2>1. Fresh(k)
      BY <1>2, <1>6 DEF Fresh, Read
    <2>2. /\ k.via => AddressActive(k.user)
          /\ k.pw # None => hash[k.user].pw = k.pw
          /\ Active(k.user) => k.epoch >= Floor(k.user)
      BY <1>2, <2>1 DEF Vouches, Resolved
    <2> QED BY <1>6, <2>2 DEF Vouches
  <1>10. /\ hash' \in [Users -> Hash]
         /\ \A u \in Users : hash'[u].pw = hash[u].pw /\ (hash[u] = NoHash => hash'[u] = NoHash)
    BY RehashKeeps
  <1>11. TypeOK'
    BY <1>7, <1>10 DEF Rehash, Goto, AInv, TypeOK, run
  <1>12. Steady
    BY <1>10, Tables DEF Rehash, Steady, run, AInv
  <1> QED BY <1>7, <1>8, <1>9, <1>11, <1>12, SteadyAInv

\* A grant is issued or spent, and a session's grants are dropped.
LEMMA GrantsAInv ==
  ASSUME AInv, NEW p \in Procs, IssueGrant(p) \/ LogoutGrants(p), UNCHANGED requests
  PROVE  AInv'
  <1>2. grants' \subseteq Grant /\ \A g \in grants' : g \in grants \/ Active(g.user)
    <2>1. CASE LogoutGrants(p)
      BY <2>1 DEF LogoutGrants, AInv, TypeOK
    <2>2. CASE IssueGrant(p) /\ grants' # grants
      <3>1. lockGrantSession(p)
            /\ grants' = grants \cup {[session |-> proc[p].session, user |-> proc[p].user]}
        BY <2>2 DEF IssueGrant
      <3>2. proc[p].session \in 1..MaxSessions /\ proc[p].user \in Users /\ Active(proc[p].user)
        <4>1. PICK s \in sessions : s.id = proc[p].session
          BY <3>1 DEF lockGrantSession, Live
        <4>2. s.id \in 1..MaxSessions
          BY Tables DEF AInv
        <4> QED BY <2>2, <3>1, <4>1, <4>2, Held DEF lockGrantSession, IssueGrant, At, Carries
      <3> QED BY <3>1, <3>2 DEF AInv, TypeOK, Grant
    <2>3. CASE IssueGrant(p) /\ grants' = grants
      BY <2>3 DEF AInv, TypeOK
    <2> QED BY <2>1, <2>2, <2>3
  <1>3. Return(p) /\ UNCHANGED <<users, hash, retired, challenges, sessions, made, revoked, run>>
    BY DEF IssueGrant, LogoutGrants
  <1>4. TypeOK'
    BY <1>2, <1>3, IdleHolds DEF AInv, TypeOK, run, Return, Goto
  <1>5. Steady
    BY <1>2, <1>3, Tables DEF Steady, run, AInv
  <1> QED BY <1>3, <1>4, <1>5, IdleHolds, SteadyAInv DEF Return

\* A recent login or a grant authorises what was checked against the session.
LEMMA AuthoriseAInv ==
  ASSUME AInv, NEW p \in Procs, Authorise(p), UNCHANGED requests
  PROVE  AInv'
  <1>1. PICK k \in Local : k = proc[p]
    BY Held
  <1>2. /\ Carries(k) /\ Vouches(k) /\ k.pc = "authorise" /\ k.user \in Users
    BY <1>1, Held DEF Authorise, At, Carries
  <1>3. PICK pc \in {"change", "retire"} : pc = IF k.new # None THEN "change" ELSE "retire"
    OBVIOUS
  <1>4. PICK l \in Local : l = [k EXCEPT !.pc = pc]
    BY Retag DEF Steps, Read
  <1>5. /\ l.pc = pc /\ l.user = k.user /\ l.pw = k.pw /\ l.new = k.new /\ l.session = k.session
        /\ l.via = k.via /\ l.rev = k.rev /\ l.epoch = k.epoch
    BY <1>4, Retag DEF Steps, Read
  <1>6. Goto(p, l)
    BY <1>1, <1>3, <1>4 DEF Authorise, Authorised, On
  <1>7. Carries(l)
    BY <1>2, <1>3, <1>5, LocalFields DEF Carries, Read
  <1>8. Vouches(l)
    <2> SUFFICES ASSUME Fresh(l) PROVE Vouches(l)
      BY DEF Vouches
    <2>1. Fresh(k)
      BY <1>2, <1>5 DEF Fresh, Read
    <2>2. /\ k.session # 0 => k.session \notin revoked
          /\ Active(k.user) => k.epoch >= Floor(k.user)
      BY <1>2, <2>1 DEF Vouches
    <2> QED BY <1>5, <2>2 DEF Vouches, Resolved
  <1>9. grants' \subseteq grants /\ UNCHANGED <<users, hash, retired, challenges, sessions, made, revoked, run>>
    BY DEF Authorise
  <1>10. TypeOK'
    BY <1>6, <1>9 DEF AInv, TypeOK, run, Goto
  <1>11. Steady
    BY <1>9, Tables DEF Steady, run, AInv
  <1> QED BY <1>6, <1>7, <1>8, <1>10, <1>11, SteadyAInv

\* A fresh delivery binds its token to an address that is the user's.
LEMMA ReplaceAInv ==
  ASSUME AInv, NEW p \in Procs, Replace(p), UNCHANGED requests
  PROVE  AInv'
  <1>1. PICK k \in Local : k = proc[p]
    BY Held
  <1>2. /\ Carries(k) /\ Vouches(k) /\ k.pc = "issue" /\ k.user \in Users /\ k.purpose \in Purposes
    BY <1>1, Held, LocalFields DEF Replace, At, Carries
  <1>3. PICK b \in Binding : b = [rev |-> k.rev, epoch |-> k.epoch]
    BY LocalFields DEF Binding, Revision
  <1>4. b.rev <= users[k.user].rev
    BY <1>2, <1>3 DEF Carries, Read
  <1>5. b.rev = users[k.user].rev =>
           AddressActive(k.user) /\ (Active(k.user) => b.epoch >= Floor(k.user))
    BY <1>2, <1>3 DEF Vouches, Fresh, Read
  <1>6. challenges' = [challenges EXCEPT ![k.user][k.purpose] = b]
    BY <1>1, <1>3 DEF Replace
  <1>7. /\ challenges' \in [Users -> [Purposes -> Binding \cup {NoBinding}]]
        /\ \A u \in Users, c \in Purposes :
              challenges'[u][c] = IF u = k.user /\ c = k.purpose THEN b ELSE challenges[u][c]
    BY <1>2, <1>6 DEF AInv, TypeOK
  <1>8. Return(p) /\ UNCHANGED <<users, hash, retired, sessions, grants, made, revoked, run>>
    BY DEF Replace
  <1>9. TypeOK'
    BY <1>7, <1>8, IdleHolds DEF AInv, TypeOK, run, Return, Goto
  <1>10. Steady
    BY <1>4, <1>5, <1>7, <1>8, Tables DEF Steady, run, AInv
  <1> QED BY <1>8, <1>9, <1>10, IdleHolds, SteadyAInv DEF Return

\* A link is spent; what it vouches for is what its binding does.
LEMMA RedeemLinkAInv ==
  ASSUME AInv, NEW p \in Procs, NEW u \in Users, RedeemLink(p, u), requests' \in 0..MaxRequests
  PROVE  AInv'
  <1>0. "login_magic_link" \in Purposes
    BY DEF Purposes
  <1>1. challenges[u]["login_magic_link"] \in Binding
    BY <1>0 DEF RedeemLink, AInv, TypeOK
  <1>2. PICK b \in Binding : b = challenges[u]["login_magic_link"]
    BY <1>1
  <1>3. b.rev \in Nat /\ b.epoch \in 0..MaxRuns
    BY DEF Binding, Revision
  <1>4. PICK l : l = [Idle EXCEPT !.pc = "linkResolve", !.user = u, !.via = TRUE,
                                  !.rev = b.rev, !.epoch = b.epoch]
    OBVIOUS
  <1>5. l = [pc |-> "linkResolve", user |-> u, pw |-> None, new |-> None, session |-> 0,
             via |-> TRUE, rev |-> b.rev, epoch |-> b.epoch, hash |-> NoHash,
             purpose |-> "password_reset"]
    BY <1>4 DEF Idle
  <1>6. l \in Local
    BY <1>3, <1>5, AccountsAssumption
    DEF AccountsAssumption, Local, Hash, NoHash, Purposes, Revision
  <1>7. /\ b.rev <= users[u].rev
        /\ b.rev = users[u].rev => AddressActive(u) /\ (Active(u) => b.epoch >= Floor(u))
    BY <1>0, <1>2 DEF AInv, BindingsSound
  <1>8. Carries(l)
    BY <1>5, <1>7 DEF Carries
  <1>9. Vouches(l)
    BY <1>5, <1>7 DEF Vouches, Fresh
  <1>10. Goto(p, l) /\ UNCHANGED <<users, hash, retired, sessions, grants, made, revoked, run>>
    BY <1>2, <1>4 DEF RedeemLink
  <1>11. /\ challenges' \in [Users -> [Purposes -> Binding \cup {NoBinding}]]
         /\ \A v \in Users, c \in Purposes : challenges'[v][c] \in {challenges[v][c], NoBinding}
    BY <1>0 DEF RedeemLink, AInv, TypeOK
  <1>12. TypeOK'
    BY <1>6, <1>10, <1>11 DEF AInv, TypeOK, run, Goto
  <1>13. Steady
    BY <1>10, <1>11, Tables DEF Steady, run, AInv
  <1> QED BY <1>6, <1>8, <1>9, <1>10, <1>12, <1>13, SteadyAInv

\* A session is ended by its owner.
LEMMA LogoutAInv ==
  ASSUME AInv, NEW p \in Procs, NEW s \in sessions, Logout(p, s), requests' \in 0..MaxRequests
  PROVE  AInv'
  <1>1. PICK i \in 0..MaxSessions : i = s.id
    BY Tables, AccountsAssumption DEF AccountsAssumption, AInv
  <1>2. PICK l : l = [Idle EXCEPT !.pc = "logoutGrants", !.session = i]
    OBVIOUS
  <1>3. l = [pc |-> "logoutGrants", user |-> 0, pw |-> None, new |-> None, session |-> i,
             via |-> FALSE, rev |-> 0, epoch |-> 0, hash |-> NoHash, purpose |-> "password_reset"]
    BY <1>2 DEF Idle
  <1>4. l \in Local
    BY <1>3, AccountsAssumption
    DEF AccountsAssumption, Local, Hash, NoHash, Purposes, Revision
  <1>5. Carries(l) /\ Vouches(l)
    BY <1>3 DEF Carries, Vouches, Fresh, Read
  <1>6. /\ Goto(p, l) /\ sessions' \subseteq sessions
        /\ UNCHANGED <<users, hash, retired, challenges, grants, made, revoked, run>>
    BY <1>1, <1>2 DEF Logout
  <1>7. TypeOK'
    BY <1>4, <1>6 DEF AInv, TypeOK, run, Goto
  <1>8. Steady
    BY <1>6, Tables DEF Steady, run, AInv
  <1> QED BY <1>4, <1>5, <1>6, <1>7, <1>8, SteadyAInv

\* A session is ended by its owner from another one.
LEMMA DeleteAInv ==
  ASSUME AInv, NEW s \in sessions, DeleteForUser(s), UNCHANGED requests
  PROVE  AInv'
  <1>1. /\ sessions' \subseteq sessions /\ grants' \subseteq grants /\ proc' = proc
        /\ UNCHANGED <<users, hash, retired, challenges, made, revoked, run>>
    BY DEF DeleteForUser
  <1>2. TypeOK'
    BY <1>1 DEF AInv, TypeOK, run
  <1>3. Steady
    BY <1>1, Tables DEF Steady, run, AInv
  <1>4. RunSound'
    BY <1>1 DEF AInv, RunSound, run
  <1> QED BY <1>1, <1>2, <1>3, <1>4, SteadySound, TablesAInv

-----------------------------------------------------------------------------
(* Transactions that advance a revision. *)

\* Advancing the revisions of U.
LEMMA BumpedSound ==
  ASSUME AInv, NEW U, U \subseteq Users
  PROVE  /\ Bumped(U) \in [Users -> [status : {"active", "deactivated", "erased"}, rev : Revision]]
         /\ \A u \in U : Bumped(U)[u].rev = users[u].rev + 1 /\ Bumped(U)[u].status = users[u].status
         /\ \A u \in Users \ U : Bumped(U)[u] = users[u]
  <1>1. users \in [Users -> [status : {"active", "deactivated", "erased"}, rev : Nat]]
    BY DEF AInv, TypeOK, Revision
  <1>2. ASSUME NEW u \in Users
        PROVE  /\ [users[u] EXCEPT !.rev = @ + 1] \in
                     [status : {"active", "deactivated", "erased"}, rev : Nat]
               /\ [users[u] EXCEPT !.rev = @ + 1].rev = users[u].rev + 1
               /\ [users[u] EXCEPT !.rev = @ + 1].status = users[u].status
    BY <1>1
  <1> QED BY <1>1, <1>2 DEF Bumped, Revision

\* Ending the sessions of U.
LEMMA EndSessionsTyped ==
  ASSUME AInv, NEW U, EndSessions(U)
  PROVE  sessions' \subseteq Session /\ grants' \subseteq Grant /\ revoked' \subseteq 1..MaxSessions
  <1>1. \A s \in sessions : s.id \in 1..MaxSessions
    BY Tables DEF AInv
  <1> QED BY <1>1 DEF EndSessions, SessionsOf, AInv, TypeOK

\* Dropping the reset tokens of U.
LEMMA WithoutResetsSound ==
  ASSUME AInv, NEW U
  PROVE  /\ WithoutResets(U) \in [Users -> [Purposes -> Binding \cup {NoBinding}]]
         /\ \A u \in Users, c \in Purposes :
               WithoutResets(U)[u][c] \in {challenges[u][c], NoBinding}
  <1>1. ASSUME NEW u \in Users
        PROVE  /\ [challenges[u] EXCEPT !["password_reset"] = NoBinding]
                     \in [Purposes -> Binding \cup {NoBinding}]
               /\ \A c \in Purposes : [challenges[u] EXCEPT !["password_reset"] = NoBinding][c]
                     \in {challenges[u][c], NoBinding}
    BY DEF AInv, TypeOK
  <1> QED BY <1>1 DEF WithoutResets, AInv, TypeOK

\* A transaction that advances revisions beside which no request moves.
LEMMA AdvanceAInv ==
  ASSUME AInv, TypeOK', RunSound', NEW U, Advance(U), proc' = proc
  PROVE  AInv'
  BY AdvanceSound, TablesAInv

\* The run of RevokeAllSessions stands still beside the other transactions.
LEMMA FloorStands ==
  ASSUME AInv, UNCHANGED run
  PROVE  RunSound' /\ \A u \in Users : Floor(u)' <= Floor(u) /\ Floor(u)' = Floor(u)
  <1>1. \A u \in Users : Floor(u)' = Floor(u)
    BY DEF run, Floor, Swept
  <1>2. \A u \in Users : Floor(u) \in Nat
    BY Tables DEF AInv
  <1>3. RunSound'
    BY DEF AInv, RunSound, run
  <1> QED BY <1>1, <1>2, <1>3

\* Revoking all sessions of a user, and resetting the password.
LEMMA RevokeUserAInv ==
  ASSUME AInv, NEW u \in Users, UNCHANGED requests,
         RevokeAllForUser(u) \/ \E new \in Passwords : ResetPassword(u, new)
  PROVE  AInv'
  <1>1. /\ users' = Bumped({u}) /\ revokeCredentialState({u})
        /\ UNCHANGED <<retired, made, proc, run>>
        /\ \/ hash' = hash
           \/ Active(u) /\ \E new \in Passwords : hash' = [hash EXCEPT ![u] = [pw |-> new, weak |-> FALSE]]
    BY DEF RevokeAllForUser, ResetPassword
  <1>2. /\ hash' \in [Users -> Hash]
        /\ \A v \in Users \ {u} : hash'[v] = hash[v]
        /\ hash' = hash \/ Active(u)
    <2>1. CASE hash' = hash
      BY <2>1 DEF AInv, TypeOK
    <2>2. CASE hash' # hash
      <3>1. PICK new \in Passwords : hash' = [hash EXCEPT ![u] = [pw |-> new, weak |-> FALSE]]
        BY <1>1, <2>2
      <3>2. [pw |-> new, weak |-> FALSE] \in Hash
        BY DEF Hash
      <3> QED BY <1>1, <2>2, <3>1, <3>2 DEF AInv, TypeOK
    <2> QED BY <2>1, <2>2
  <1>a. /\ users' \in [Users -> [status : {"active", "deactivated", "erased"}, rev : Revision]]
        /\ sessions' \subseteq Session /\ grants' \subseteq Grant /\ revoked' \subseteq 1..MaxSessions
        /\ challenges' \in [Users -> [Purposes -> Binding \cup {NoBinding}]]
    BY <1>1, BumpedSound, EndSessionsTyped, WithoutResetsSound DEF revokeCredentialState
  <1>3. TypeOK'
    BY <1>1, <1>2, <1>a DEF AInv, TypeOK, run
  <1>4. Advance({u})
    <2>1. /\ users'[u].rev = users[u].rev + 1 /\ users'[u].status = users[u].status
          /\ \A v \in Users \ {u} : users'[v] = users[v]
      BY <1>1, BumpedSound
    <2>2. users'[u].status = "erased" => hash'[u] = NoHash /\ retired'[u] # 0
      BY <1>1, <1>2, <2>1 DEF Active, AInv, ErasedIsEmpty, AddressActive
    <2>3. \A v \in Users, c \in Purposes : challenges'[v][c] \in {challenges[v][c], NoBinding}
      BY <1>1, WithoutResetsSound DEF revokeCredentialState
    <2> QED BY <1>1, <1>2, <2>1, <2>2, <2>3, FloorStands DEF Advance, revokeCredentialState, EndSessions
  <1> QED BY <1>1, <1>3, <1>4, FloorStands, AdvanceAInv

\* Deactivating, reactivating and erasing a user.
LEMMA StatusAInv ==
  ASSUME AInv, NEW u \in Users, UNCHANGED requests,
         Erase(u) \/ \E status \in {"active", "deactivated"} : SetStatus(u, status)
  PROVE  AInv'
  <1>0. users[u].rev \in Nat /\ users[u].rev + 1 # 0 /\ retired[u] \in Nat
    BY Tables DEF AInv
  <1>1. PICK status \in {"active", "deactivated", "erased"} :
           users' = [users EXCEPT ![u] = [status |-> status, rev |-> users[u].rev + 1]]
           /\ (Erase(u) <=> status = "erased")
    <2>1. CASE Erase(u) /\ ~ \E status \in {"active", "deactivated"} : SetStatus(u, status)
      BY <2>1 DEF Erase
    <2>2. CASE \E status \in {"active", "deactivated"} : SetStatus(u, status)
      <3>1. PICK status \in {"active", "deactivated"} : SetStatus(u, status)
        BY <2>2
      <3>2. users' = [users EXCEPT ![u] = [status |-> status, rev |-> users[u].rev + 1]]
        BY <3>1 DEF SetStatus
      <3>3. ~ Erase(u)
        <4> SUFFICES ASSUME Erase(u) PROVE FALSE
          OBVIOUS
        <4>1. users'[u].status = status /\ users'[u].status = "erased"
          <5>1. users' = [users EXCEPT ![u] = [status |-> "erased", rev |-> users[u].rev + 1]]
            BY DEF Erase
          <5> QED BY <3>2, <5>1 DEF AInv, TypeOK
        <4> QED BY <3>1, <4>1
      <3> QED BY <3>2, <3>3
    <2> QED BY <2>1, <2>2
  <1>2. EndSessions({u}) /\ UNCHANGED <<made, proc, run>>
    BY DEF Erase, SetStatus
  <1>3. /\ hash' \in [Users -> Hash] /\ retired' \in [Users -> Nat]
        /\ challenges' \in [Users -> [Purposes -> Binding \cup {NoBinding}]]
        /\ \A v \in Users \ {u} : hash'[v] = hash[v] /\ retired'[v] = retired[v]
        /\ \A v \in Users, c \in Purposes : challenges'[v][c] \in {challenges[v][c], NoBinding}
        /\ status = "erased" => hash'[u] = NoHash /\ retired'[u] # 0
    <2>1. CASE Erase(u)
      <3>1. /\ hash' \in [Users -> Hash] /\ \A v \in Users \ {u} : hash'[v] = hash[v]
            /\ hash'[u] = NoHash
        BY <2>1 DEF Erase, AInv, TypeOK, Hash
      <3>2. /\ retired' \in [Users -> Nat] /\ \A v \in Users \ {u} : retired'[v] = retired[v]
            /\ retired'[u] # 0
        BY <1>0, <2>1 DEF Erase, AInv, TypeOK, Revision
      <3>3. /\ challenges' \in [Users -> [Purposes -> Binding \cup {NoBinding}]]
            /\ \A v \in Users, c \in Purposes : challenges'[v][c] \in {challenges[v][c], NoBinding}
        BY <2>1 DEF Erase, AInv, TypeOK
      <3> QED BY <3>1, <3>2, <3>3
    <2>2. CASE ~ Erase(u)
      BY <1>1, <2>2 DEF SetStatus, AInv, TypeOK, Revision
    <2> QED BY <2>1, <2>2
  <1>4. /\ users' \in [Users -> [status : {"active", "deactivated", "erased"}, rev : Nat]]
        /\ users'[u].rev = users[u].rev + 1 /\ users'[u].status = status
        /\ \A v \in Users \ {u} : users'[v] = users[v]
    BY <1>0, <1>1 DEF AInv, TypeOK, Revision
  <1>5. TypeOK'
    BY <1>2, <1>3, <1>4, EndSessionsTyped DEF AInv, TypeOK, run, Revision
  <1>6. Advance({u})
    BY <1>2, <1>3, <1>4, FloorStands DEF Advance, EndSessions
  <1> QED BY <1>2, <1>5, <1>6, FloorStands, AdvanceAInv

\* A fenced removal of the address.
LEMMA RetireAInv ==
  ASSUME AInv, NEW p \in Procs, RetireIdentifier(p), UNCHANGED requests
  PROVE  AInv'
  <1>1. PICK k \in Local : k = proc[p]
    BY Held
  <1>2. /\ Carries(k) /\ Vouches(k) /\ k.pc = "retire" /\ k.user \in Users
    BY <1>1, Held DEF RetireIdentifier, At, Carries
  <1>3. CASE UNCHANGED <<users, retired, challenges, sessions, grants, revoked>>
    BY <1>3, ReturnAInv, Held DEF RetireIdentifier, store
  <1>4. CASE /\ mayRetire(p) /\ users' = Bumped({k.user})
             /\ retired' = [retired EXCEPT ![k.user] = users[k.user].rev + 1]
             /\ revokeCredentialState({k.user})
    <2>0. users[k.user].rev \in Nat /\ users[k.user].rev + 1 # 0
      BY <1>2, Tables DEF AInv
    <2>1. /\ users'[k.user].rev = users[k.user].rev + 1
          /\ users'[k.user].status = users[k.user].status
          /\ \A v \in Users \ {k.user} : users'[v] = users[v]
      BY <1>2, <1>4, BumpedSound
    <2>2. /\ retired' \in [Users -> Nat] /\ retired'[k.user] # 0
          /\ \A v \in Users \ {k.user} : retired'[v] = retired[v]
      BY <1>2, <1>4, <2>0 DEF AInv, TypeOK, Revision
    <2>3. UNCHANGED <<hash, made, run>> /\ proc' \in [Procs -> Local]
      BY IdleHolds DEF RetireIdentifier, Return, Goto, AInv, TypeOK
    <2>t. /\ users' \in [Users -> [status : {"active", "deactivated", "erased"}, rev : Revision]]
          /\ sessions' \subseteq Session /\ grants' \subseteq Grant /\ revoked' \subseteq 1..MaxSessions
          /\ challenges' \in [Users -> [Purposes -> Binding \cup {NoBinding}]]
      BY <1>2, <1>4, BumpedSound, EndSessionsTyped, WithoutResetsSound DEF revokeCredentialState
    <2>4. TypeOK'
      BY <2>2, <2>3, <2>t DEF AInv, TypeOK, run, Revision
    <2>5. \A v \in Users, c \in Purposes : challenges'[v][c] \in {challenges[v][c], NoBinding}
      BY <1>4, WithoutResetsSound DEF revokeCredentialState
    <2>6. users'[k.user].status = "erased" => hash'[k.user] = NoHash
      BY <1>2, <2>1, <2>3 DEF AInv, ErasedIsEmpty
    <2>7. Advance({k.user})
      BY <1>2, <1>4, <2>1, <2>2, <2>3, <2>5, <2>6, FloorStands DEF Advance, revokeCredentialState, EndSessions
    <2>8. Forward /\ SessionsSound' /\ BindingsSound' /\ ErasedIsEmpty' /\ RunSound'
      BY <2>3, <2>4, <2>7, AdvanceSound, FloorStands
    <2>9. Carries(Idle)' /\ Vouches(Idle)'
      BY <2>4, <2>8, IdleHolds, CarriesOn
    <2> QED BY <2>4, <2>8, <2>9, IdleHolds, StepAInv DEF RetireIdentifier, Return, Goto
  <1> QED BY <1>1, <1>3, <1>4 DEF RetireIdentifier

\* A fenced change of the password, and the proof of the session it will mint.
LEMMA ChangeAInv ==
  ASSUME AInv, NEW p \in Procs, Change(p), UNCHANGED requests
  PROVE  AInv'
  <1>1. PICK k \in Local : k = proc[p]
    BY Held
  <1>2. /\ Carries(k) /\ Vouches(k) /\ k.pc = "change" /\ k.user \in Users /\ k.new \in Passwords
    BY <1>1, Held DEF Change, At, Carries
  <1>3. CASE Return(p) /\ UNCHANGED <<users, hash, challenges, sessions, grants, revoked>>
    BY <1>3, ReturnAInv, Held DEF Change, store
  <1>4. CASE /\ mayChange(p) /\ users' = Bumped({k.user})
             /\ hash' = [hash EXCEPT ![k.user] = [pw |-> k.new, weak |-> FALSE]]
             /\ revokeCredentialState({k.user})
             /\ Goto(p, [Idle EXCEPT !.pc = "mint", !.user = k.user, !.pw = k.new,
                                     !.rev = k.rev + 1, !.epoch = k.epoch])
    <2>0. /\ users[k.user].rev = k.rev /\ Active(k.user) /\ k.rev \in Nat
          /\ k.epoch \in 0..MaxRuns /\ k.epoch >= Floor(k.user)
      BY <1>1, <1>2, <1>4, LocalFields DEF mayChange, Vouches, Fresh, Read
    <2>1. /\ users'[k.user].rev = k.rev + 1
          /\ users'[k.user].status = users[k.user].status
          /\ \A v \in Users \ {k.user} : users'[v] = users[v]
      BY <1>2, <1>4, <2>0, BumpedSound, SMTT(30)
    <2>2. /\ hash' \in [Users -> Hash] /\ hash'[k.user].pw = k.new
          /\ \A v \in Users \ {k.user} : hash'[v] = hash[v]
      BY <1>2, <1>4 DEF AInv, TypeOK, Hash
    <2>a. PICK l : l = [Idle EXCEPT !.pc = "mint", !.user = k.user, !.pw = k.new,
                                    !.rev = k.rev + 1, !.epoch = k.epoch]
      OBVIOUS
    <2>b. l = [pc |-> "mint", user |-> k.user, pw |-> k.new, new |-> None, session |-> 0,
               via |-> FALSE, rev |-> k.rev + 1, epoch |-> k.epoch, hash |-> NoHash,
               purpose |-> "password_reset"]
      BY <2>a DEF Idle
    <2>c. l \in Local
      BY <1>2, <2>0, <2>b, AccountsAssumption
      DEF AccountsAssumption, Local, Hash, NoHash, Purposes, Revision
    <2>3. UNCHANGED <<retired, made, run>> /\ proc' \in [Procs -> Local] /\ Goto(p, l)
      BY <1>4, <2>a, <2>c DEF Change, Goto, AInv, TypeOK
    <2>t. /\ users' \in [Users -> [status : {"active", "deactivated", "erased"}, rev : Revision]]
          /\ sessions' \subseteq Session /\ grants' \subseteq Grant /\ revoked' \subseteq 1..MaxSessions
          /\ challenges' \in [Users -> [Purposes -> Binding \cup {NoBinding}]]
      BY <1>2, <1>4, BumpedSound, EndSessionsTyped, WithoutResetsSound DEF revokeCredentialState
    <2>4. TypeOK'
      BY <2>2, <2>3, <2>t DEF AInv, TypeOK, run, Revision
    <2>5. \A v \in Users, c \in Purposes : challenges'[v][c] \in {challenges[v][c], NoBinding}
      BY <1>4, WithoutResetsSound DEF revokeCredentialState
    <2>6. users'[k.user].status # "erased"
      BY <2>0, <2>1 DEF Active
    <2>7. Advance({k.user})
      BY <1>2, <1>4, <2>0, <2>1, <2>2, <2>3, <2>5, <2>6, FloorStands DEF Advance, revokeCredentialState, EndSessions
    <2>8. Forward /\ SessionsSound' /\ BindingsSound' /\ ErasedIsEmpty' /\ RunSound'
      BY <2>3, <2>4, <2>7, AdvanceSound, FloorStands
    <2>9. Carries(l)'
      BY <1>2, <2>0, <2>1, <2>b DEF Carries
    <2>10. Vouches(l)'
      <3>1. Floor(k.user)' = Floor(k.user)
        BY <1>2, <2>3, FloorStands
      <3> QED BY <2>0, <2>2, <2>b, <3>1 DEF Vouches
    <2> QED BY <2>3, <2>4, <2>8, <2>9, <2>10, <2>c, StepAInv DEF Goto
  <1> QED BY <1>1, <1>3, <1>4 DEF Change

-----------------------------------------------------------------------------
(* The run of RevokeAllSessions. *)

\* A step of the run that touches no table but, at most, grants, and asks of an
\* active user's proofs no more than before.
LEMMA RunAInv ==
  ASSUME AInv, UNCHANGED <<users, hash, retired, challenges, sessions, made, revoked, proc, requests>>,
         grants' \subseteq grants, RunSound',
         global' \in [pc : {"idle", "page", "lock", "sweep"}, after : Users \cup {0}, page : SUBSET Users],
         epoch' \in 0..MaxRuns, cleared' \in 0..MaxRuns,
         \A u \in Users : Active(u) => Floor(u)' <= Floor(u)
  PROVE  AInv'
  <1>1. TypeOK'
    BY DEF AInv, TypeOK
  <1>2. Advance({})
    BY DEF Advance, SessionsOf, GrantsOf
  <1> QED BY <1>1, <1>2, AdvanceAInv

\* The page holds the first of the active users after the last page, and all
\* of them when it is not full.
LEMMA PageSound ==
  ASSUME NEW rest, rest \subseteq Users, NEW page,
         page = {u \in rest : Cardinality({x \in rest : x < u}) < Batch}
  PROVE  /\ page = {} => rest = {}
         /\ page # {} => \A u \in rest \ page : u > Max(page) /\ Cardinality(page) >= Batch
  <1>0. Batch \in Nat \ {0} /\ \A u \in Users : u \in Nat
    BY AccountsAssumption DEF AccountsAssumption
  <1>1. ASSUME NEW u \in rest
        PROVE  IsFiniteSet({x \in rest : x < u}) /\ Cardinality({x \in rest : x < u}) \in Nat
    BY UserSets
  <1>2. ASSUME NEW w \in rest, \A x \in rest : x < w => x \in page,
               page = {} \/ Cardinality(page) < Batch
        PROVE  w \in page
    <2> DEFINE below == {x \in rest : x < w}
    <2>1. below \subseteq page /\ IsFiniteSet(page) /\ Cardinality(page) \in Nat
      BY <1>2, UserSets
    <2>2. Cardinality(below) <= Cardinality(page) /\ Cardinality(below) \in Nat
      BY <1>1, <2>1, FS_Subset
    <2>3. page = {} => Cardinality(page) = 0
      BY FS_EmptySet
    <2>4. Cardinality(below) < Batch
      BY <1>0, <1>2, <2>1, <2>2, <2>3
    <2> QED BY <2>4
  <1>3. ASSUME NEW u \in rest \ page, page = {} \/ Cardinality(page) < Batch
        PROVE  FALSE
    <2>1. PICK w \in rest \ page : \A y \in rest \ page : w <= y
      BY <1>0, LeastNatural
    <2>2. \A x \in rest : x < w => x \in page
      <3> SUFFICES ASSUME NEW x \in rest, x \notin page PROVE ~ (x < w)
        OBVIOUS
      <3>1. w <= x
        BY <2>1
      <3>2. x \in Nat /\ w \in Nat
        BY <1>0
      <3> QED BY <3>1, <3>2
    <2> QED BY <1>2, <1>3, <2>1, <2>2
  <1>4. ASSUME NEW u \in rest \ page, page # {}, ~ (u > Max(page))
        PROVE  FALSE
    <2>1. PICK m \in page : m = Max(page)
      BY <1>4, UserSets
    <2>2. u < m /\ m \in rest
      BY <1>0, <1>4, <2>1
    <2> DEFINE below(x) == {y \in rest : y < x}
    <2>3. below(u) \subseteq below(m)
      BY <1>0, <2>2
    <2>4. Cardinality(below(u)) <= Cardinality(below(m))
      BY <1>1, <2>2, <2>3, FS_Subset
    <2>5. /\ Cardinality(below(u)) \in Nat /\ Cardinality(below(m)) \in Nat
          /\ Cardinality(below(m)) < Batch /\ ~ (Cardinality(below(u)) < Batch)
      BY <1>1, <2>1, <2>2
    <2> HIDE DEF below
    <2> QED BY <1>0, <2>4, <2>5
  <1>5. Cardinality(page) \in Nat
    BY UserSets
  <1>6. page = {} => rest = {}
    BY <1>3
  <1>7. ASSUME NEW u \in rest \ page, page # {} PROVE Cardinality(page) >= Batch
    <2>1. ~ (Cardinality(page) < Batch)
      BY <1>3
    <2> QED BY <1>0, <1>5, <2>1
  <1> QED BY <1>4, <1>6, <1>7

\* The run starts, reads a page, sweeps up or fails.
LEMMA RevocationAInv ==
  ASSUME AInv, UNCHANGED requests,
         RevokeAllSessions \/ RevokePage \/ SweepOrphans \/ RevocationFails
  PROVE  AInv'
  <1>0. /\ epoch \in Nat /\ cleared \in Nat /\ cleared <= epoch /\ MaxRuns \in Nat
        /\ epoch \in 0..MaxRuns /\ cleared \in 0..MaxRuns
        /\ \A u \in Users : u \in Nat /\ u > 0
    BY Tables, AccountsAssumption DEF AccountsAssumption, AInv, RunSound, TypeOK
  <1> DEFINE Run == [pc : {"idle", "page", "lock", "sweep"}, after : Users \cup {0}, page : SUBSET Users]
  <1>r. global \in Run
    BY DEF AInv, TypeOK
  <1>1. CASE RevokeAllSessions
    <2>1. epoch' = epoch + 1 /\ epoch' \in 0..MaxRuns /\ cleared' = cleared
      BY <1>0, <1>1 DEF RevokeAllSessions
    <2>2. global' \in Run /\ global'.pc = "page" /\ global'.after = 0
      BY <1>1 DEF RevokeAllSessions
    <2>3. RunSound'
      BY <1>0, <2>1, <2>2 DEF RunSound
    <2>4. ASSUME NEW u \in Users PROVE Floor(u)' <= Floor(u)
      BY <1>0, <1>1, <2>1, <2>2 DEF Floor, Swept, RevokeAllSessions
    <2> QED BY <1>0, <1>1, <2>1, <2>2, <2>3, <2>4, RunAInv DEF RevokeAllSessions, store
  <1>2. CASE RevocationFails
    <2>2. global' \in Run /\ global'.pc = "idle"
      BY <1>2 DEF RevocationFails
    <2>3. RunSound'
      BY <1>0, <1>2, <2>2 DEF RunSound, RevocationFails
    <2>4. ASSUME NEW u \in Users PROVE Floor(u)' <= Floor(u)
      BY <1>0, <1>2, <2>2 DEF Floor, Swept, RevocationFails
    <2> QED BY <1>0, <1>2, <2>2, <2>3, <2>4, RunAInv DEF RevocationFails, store
  <1>3. CASE SweepOrphans
    <2>1. SessionsOf({u \in Users : ~ Active(u)}) = {}
      BY DEF SessionsOf, AInv, SessionsSound
    <2>2. sessions' = sessions /\ grants' \subseteq grants /\ revoked' = revoked
      BY <1>3, <2>1 DEF SweepOrphans, EndSessions
    <2>3. global' \in Run /\ global'.pc = "idle" /\ global.pc = "sweep" /\ cleared' = epoch
      BY <1>3 DEF SweepOrphans
    <2>4. RunSound'
      BY <1>0, <1>3, <2>3 DEF RunSound, SweepOrphans
    <2>5. ASSUME NEW u \in Users PROVE Floor(u)' <= Floor(u)
      BY <1>0, <1>3, <2>3 DEF Floor, Swept, SweepOrphans
    <2> QED BY <1>0, <1>3, <2>2, <2>3, <2>4, <2>5, RunAInv DEF SweepOrphans
  <1>4. CASE RevokePage
    <2> DEFINE rest == {u \in Users : u > global.after /\ Active(u)}
               page == {u \in rest : Cardinality({x \in rest : x < u}) < Batch}
    <2>0. UNCHANGED <<store, proc, epoch, cleared>> /\ global.pc = "page"
      BY <1>4 DEF RevokePage
    <2>1. PICK R, P : R = rest /\ P = page
      OBVIOUS
    <2>2. R \subseteq Users /\ P \subseteq R /\ P = {u \in R : Cardinality({x \in R : x < u}) < Batch}
      BY <2>1
    <2>3. \A u \in Users : Active(u) /\ u \notin R => u <= global.after
      BY <1>0, <1>r, <2>1
    <2>4. CASE P = {} /\ global' = [global EXCEPT !.pc = "sweep"]
      <3>1. global' \in Run /\ global'.pc = "sweep"
        BY <1>r, <2>4
      <3>2. RunSound'
        BY <1>0, <2>0, <3>1 DEF RunSound
      <3>3. R = {}
        BY <2>2, <2>4, PageSound
      <3>4. ASSUME NEW u \in Users, Active(u) PROVE Floor(u)' <= Floor(u)
        <4>1. u \in Swept
          BY <2>0, <2>3, <3>3, <3>4 DEF Swept
        <4> QED BY <1>0, <2>0, <4>1 DEF Floor
      <3> QED BY <1>0, <2>0, <3>1, <3>2, <3>4, RunAInv DEF store
    <2>5. CASE P # {} /\ global' = [global EXCEPT !.pc = "lock", !.page = P]
      <3>1. global' \in Run /\ global'.pc = "lock" /\ global'.page = P
        BY <1>r, <2>2, <2>5
      <3>2. RunSound'
        BY <1>0, <2>0, <2>5, <3>1 DEF RunSound
      <3>3. Max(P) \in Users /\ Cardinality(P) \in Nat /\ Batch \in Nat
        BY <2>2, <2>5, UserSets, AccountsAssumption DEF AccountsAssumption
      <3>4. ASSUME NEW u \in Users, Active(u) PROVE Floor(u)' <= Floor(u)
        <4>1. CASE u \in R
          <5>1. u \in P \/ (u > Max(P) /\ Cardinality(P) >= Batch)
            BY <2>2, <2>5, <4>1, PageSound
          <5>2. ~ (u \in Swept')
            BY <1>0, <3>1, <3>3, <5>1 DEF Swept
          <5>3. Floor(u)' = cleared
            BY <2>0, <5>2 DEF Floor
          <5> QED BY <1>0, <5>3 DEF Floor
        <4>2. CASE u \notin R
          <5>1. u \in Swept
            BY <2>0, <2>3, <3>4, <4>2 DEF Swept
          <5> QED BY <1>0, <2>0, <5>1 DEF Floor
        <4> QED BY <4>1, <4>2
      <3> QED BY <1>0, <2>0, <3>1, <3>2, <3>4, RunAInv DEF store
    <2> QED BY <1>4, <2>1, <2>4, <2>5 DEF RevokePage
  <1> QED BY <1>1, <1>2, <1>3, <1>4

\* A batch commits: the users of the page that are still active are revoked.
LEMMA RevokeBatchAInv ==
  ASSUME AInv, UNCHANGED requests, RevokeBatch
  PROVE  AInv'
  <1>0. /\ epoch \in Nat /\ cleared \in Nat /\ cleared <= epoch
        /\ \A u \in Users : u \in Nat
    BY Tables, AccountsAssumption DEF AccountsAssumption, AInv, RunSound
  <1>1. PICK U, P : U = {u \in global.page : Active(u)} /\ P = global.page
    OBVIOUS
  <1>2. /\ P \subseteq Users /\ P # {} /\ U \subseteq Users /\ Max(P) \in Users
        /\ \A u \in U : Active(u)
    BY <1>1, UserSets DEF AInv, TypeOK, RunSound, RevokeBatch
  <1>3. /\ global.pc = "lock" /\ users' = Bumped(U) /\ revokeCredentialState(U)
        /\ global' = [pc |-> IF lastPage(P, U) THEN "sweep" ELSE "page", after |-> Max(P), page |-> {}]
        /\ UNCHANGED <<hash, retired, made, proc, epoch, cleared>>
    BY <1>1 DEF RevokeBatch
  <1>4. global' \in [pc : {"idle", "page", "lock", "sweep"}, after : Users \cup {0}, page : SUBSET Users]
    BY <1>2, <1>3
  <1>5. RunSound'
    BY <1>0, <1>3 DEF RunSound
  <1>6. /\ users' \in [Users -> [status : {"active", "deactivated", "erased"}, rev : Revision]]
        /\ sessions' \subseteq Session /\ grants' \subseteq Grant /\ revoked' \subseteq 1..MaxSessions
        /\ challenges' \in [Users -> [Purposes -> Binding \cup {NoBinding}]]
    BY <1>2, <1>3, BumpedSound, EndSessionsTyped, WithoutResetsSound DEF revokeCredentialState
  <1>7. TypeOK'
    BY <1>3, <1>4, <1>6 DEF AInv, TypeOK
  <1>8. ASSUME NEW u \in Users \ U, Active(u) PROVE Floor(u)' <= Floor(u)
    <2>1. u \notin P
      BY <1>1, <1>8
    <2>2. u \in Swept' => u \in Swept
      BY <1>1, <1>3, <2>1 DEF Swept, lastPage
    <2>3. CASE u \in Swept'
      BY <1>0, <1>3, <2>2, <2>3 DEF Floor
    <2>4. CASE ~ (u \in Swept')
      <3>1. Floor(u)' = cleared
        BY <1>3, <2>4 DEF Floor
      <3> QED BY <1>0, <3>1 DEF Floor
    <2> QED BY <2>3, <2>4
  <1>9. Advance(U)
    <2>1. /\ \A u \in U : users'[u].rev = users[u].rev + 1 /\ users'[u].status = users[u].status
          /\ \A u \in Users \ U : users'[u] = users[u]
      BY <1>2, <1>3, BumpedSound
    <2>2. \A u \in U : users'[u].status # "erased"
      BY <1>2, <2>1 DEF Active
    <2>3. \A v \in Users, c \in Purposes : challenges'[v][c] \in {challenges[v][c], NoBinding}
      BY <1>3, WithoutResetsSound DEF revokeCredentialState
    <2> QED BY <1>2, <1>3, <1>8, <2>1, <2>2, <2>3 DEF Advance, revokeCredentialState, EndSessions
  <1> QED BY <1>3, <1>5, <1>7, <1>9, AdvanceAInv

-----------------------------------------------------------------------------
(* The theorems. *)

\* Registered users and nothing under way.
LEMMA InitAInv == Init => AInv
  <1> SUFFICES ASSUME Init PROVE AInv
    OBVIOUS
  <1>0. /\ MaxSessions \in Nat /\ MaxRuns \in Nat /\ MaxRequests \in Nat
        /\ \A u \in Users : u \in Nat /\ u > 0 /\ u \in 1..MaxSessions
    BY AccountsAssumption DEF AccountsAssumption
  <1>1. made \in 0..MaxSessions /\ \A u \in Users : u <= made
    <2>1. \E m \in Users \cup {0} : \A y \in Users \cup {0} : m >= y
      <3>1. CASE Users = {}
        BY <3>1
      <3>2. CASE Users # {}
        <4>1. Max(Users) \in Users /\ \A y \in Users : y <= Max(Users)
          BY <3>2, UserSets
        <4>2. \A y \in Users \cup {0} : Max(Users) >= y
          BY <1>0, <4>1
        <4> QED BY <4>1, <4>2
      <3> QED BY <3>1, <3>2
    <2>2. Max(Users \cup {0}) \in Users \cup {0} /\ \A y \in Users \cup {0} : Max(Users \cup {0}) >= y
      BY <2>1 DEF Max
    <2>3. made \in Users \cup {0} /\ \A y \in Users \cup {0} : made >= y
      BY <2>2 DEF Init
    <2>4. made \in Nat /\ made \in 0..MaxSessions
      BY <1>0, <2>3
    <2>5. \A u \in Users : u <= made
      BY <1>0, <2>3, <2>4
    <2> QED BY <2>4, <2>5
  <1>2. hash \in [Users -> Hash]
    <2>1. [pw : Passwords, weak : {TRUE}] \subseteq Hash /\ NoHash \in Hash
      BY DEF Hash
    <2> QED BY <2>1 DEF Init
  <1>a. \A s \in sessions : \E u \in Users :
           s = [id |-> u, user |-> u, pw |-> None, via |-> FALSE, rev |-> 0, epoch |-> 0]
    BY DEF Init
  <1>3. sessions \subseteq Session
    <2> SUFFICES ASSUME NEW u \in Users
                 PROVE  [id |-> u, user |-> u, pw |-> None, via |-> FALSE, rev |-> 0, epoch |-> 0]
                           \in Session
      BY <1>a
    <2> QED BY <1>0 DEF Session, Revision
  <1>4. proc \in [Procs -> Local] /\ \A p \in Procs : proc[p] = Idle
    BY IdleHolds DEF Init
  <1>5. TypeOK
    BY <1>0, <1>1, <1>2, <1>3, <1>4 DEF Init, TypeOK, Revision
  <1>6. Swept = {} /\ cleared = 0 /\ epoch = 0
    BY DEF Init, Swept
  <1>7. \A s \in sessions : /\ s.user \in Users /\ s.id = s.user /\ s.pw = None /\ s.via = FALSE
                            /\ s.rev = 0 /\ s.epoch = 0
    BY <1>a
  <1>8. SessionsSound
    <2>1. ASSUME NEW s \in sessions, NEW t \in sessions, s.id = t.id PROVE s = t
      <3>1. PICK u \in Users : s = [id |-> u, user |-> u, pw |-> None, via |-> FALSE, rev |-> 0, epoch |-> 0]
        BY <1>a
      <3>2. PICK v \in Users : t = [id |-> v, user |-> v, pw |-> None, via |-> FALSE, rev |-> 0, epoch |-> 0]
        BY <1>a
      <3>3. u = v
        BY <2>1, <3>1, <3>2
      <3> QED BY <3>1, <3>2, <3>3
    <2>2. ASSUME NEW s \in sessions
          PROVE  /\ Active(s.user) /\ (s.pw # None => s.pw = hash[s.user].pw)
                 /\ (s.via => AddressActive(s.user)) /\ s.epoch >= Floor(s.user)
                 /\ s.id <= made /\ s.id \notin revoked
      <3>1. Active(s.user) /\ s.id \notin revoked
        BY <1>7 DEF Active, Init
      <3>2. Floor(s.user) = 0
        BY <1>6 DEF Floor
      <3> QED BY <1>1, <1>7, <3>1, <3>2
    <2>3. revoked = {}
      BY DEF Init
    <2> QED BY <2>1, <2>2, <2>3 DEF SessionsSound
  <1>9. BindingsSound
    BY DEF Init, BindingsSound, NoBinding
  <1>10. ErasedIsEmpty
    BY DEF Init, ErasedIsEmpty
  <1>11. RunSound
    BY DEF Init, RunSound
  <1>12. \A p \in Procs : Carries(proc[p]) /\ Vouches(proc[p])
    BY <1>4, IdleHolds
  <1> QED BY <1>5, <1>8, <1>9, <1>10, <1>11, <1>12 DEF AInv

\* A request is made.
LEMMA RequestAInv ==
  ASSUME AInv, NEW p \in Procs, Request(p)
  PROVE  AInv'
  <1>1. requests' \in 0..MaxRequests /\ Callers \subseteq Users
    BY AccountsAssumption DEF AccountsAssumption, Request, AInv, TypeOK
  <1>2. CASE \E u \in Callers, pw \in Passwords :
               Login(p, u, pw) \/ \E new \in Passwords : ChangePassword(p, u, pw, new)
    BY <1>1, <1>2, BeginAInv, ChangePasswordAInv
  <1>3. CASE \E s \in SessionsOf(Callers) :
               \/ Logout(p, s)
               \/ \E new \in Passwords \cup {None} : Sensitive(p, s, new)
               \/ \E pw \in Passwords : StepUp(p, s, pw)
    BY <1>1, <1>3, LogoutAInv, SensitiveAInv DEF SessionsOf
  <1>4. CASE \E u \in Callers : RedeemLink(p, u) \/ \E purpose \in Purposes : Issue(p, u, purpose)
    BY <1>1, <1>4, RedeemLinkAInv, BeginAInv
  <1> QED BY <1>2, <1>3, <1>4 DEF Request

\* A request goes on.
LEMMA ContinueAInv ==
  ASSUME AInv, NEW p \in Procs, Continue(p), UNCHANGED requests
  PROVE  AInv'
  BY ReadsAInv, RehashAInv, MintAInv, ChangeHashAInv, ChangeAInv, GrantsAInv, AuthoriseAInv,
     RetireAInv, ReplaceAInv DEF Continue

\* Every step keeps the invariant.
LEMMA NextAInv == AInv /\ [Next]_vars => AInv'
  <1> SUFFICES ASSUME AInv, [Next]_vars PROVE AInv'
    OBVIOUS
  <1>1. CASE \E p \in Procs : Request(p)
    BY <1>1, RequestAInv
  <1>2. CASE (\E p \in Procs : Continue(p)) /\ UNCHANGED requests
    BY <1>2, ContinueAInv
  <1>3. CASE Administration /\ UNCHANGED requests
    <2>1. Callers \subseteq Users
      BY AccountsAssumption DEF AccountsAssumption
    <2> QED BY <1>3, <2>1, RevokeUserAInv, StatusAInv, DeleteAInv DEF Administration, SessionsOf
  <1>4. CASE Revocation /\ UNCHANGED requests
    BY <1>4, RevocationAInv, RevokeBatchAInv DEF Revocation
  <1>5. CASE UNCHANGED vars
    <2>1. UNCHANGED <<store, run, requests, proc>>
      BY <1>5 DEF vars
    <2>2. TypeOK'
      BY <2>1 DEF AInv, TypeOK, store, run
    <2>3. Steady
      BY <2>1, Tables DEF AInv, Steady, store, run
    <2>4. RunSound'
      BY <2>1, FloorStands
    <2> QED BY <2>1, <2>2, <2>3, <2>4, SteadySound, TablesAInv
  <1> QED BY <1>1, <1>2, <1>3, <1>4, <1>5 DEF Next

\* Every reachable state satisfies the inductive invariant: whatever a request,
\* a session or a stored proof says of its user stands as long as its revision
\* does (the revision fence of users, sessions and challenges).
THEOREM FenceInvariant == Spec => []AInv
  <1>1. AInv /\ [Next]_vars => AInv'
    BY NextAInv
  <1> QED BY <1>1, InitAInv, PTL DEF Spec

\* No session outlives its proof: its owner is active and the password and the
\* address that admitted it are the present ones (CreateForActiveUser).
THEOREM SessionsRestOnStandingProofHolds == Spec => []SessionsRestOnStandingProof
  <1>1. AInv => SessionsRestOnStandingProof
    BY DEF AInv, SessionsSound, SessionsRestOnStandingProof
  <1> QED BY <1>1, FenceInvariant, PTL

\* A reset token or magic link the revision would admit names an address that
\* is still the user's (Replace, Redeem, ConsumeToken).
THEOREM ProofsNamePresentAddressHolds == Spec => []ProofsNamePresentAddress
  <1>1. AInv => ProofsNamePresentAddress
    BY DEF AInv, BindingsSound, ProofsNamePresentAddress
  <1> QED BY <1>1, FenceInvariant, PTL

\* The tables are well formed, and an erased user has and gets nothing (Erase).
THEOREM ErasureSoundHolds == Spec => []ErasureSound
  <1>1. AInv => ErasureSound
    BY DEF AInv, ErasureSound
  <1> QED BY <1>1, FenceInvariant, PTL

\* After a successful RevokeAllSessions, for every batch size and every
\* interleaving, nobody is in on a proof begun before it started.
THEOREM GlobalRevocationCompleteHolds == Spec => []GlobalRevocationComplete
  <1>1. AInv => GlobalRevocationComplete
    <2> SUFFICES ASSUME AInv, NEW s \in sessions PROVE s.epoch >= cleared
      BY DEF GlobalRevocationComplete
    <2>1. /\ s.user \in Users /\ s.epoch \in Nat /\ epoch \in Nat /\ cleared \in Nat
          /\ cleared <= epoch /\ s.epoch >= Floor(s.user)
      BY Tables DEF AInv, SessionsSound, RunSound
    <2> QED BY <2>1 DEF Floor
  <1> QED BY <1>1, FenceInvariant, PTL

\* Passwords are written by four transactions.
LEMMA PasswordWriters ==
  ASSUME [Next]_vars, hash' # hash
  PROVE  \/ \E p \in Procs : Rehash(p) \/ Change(p)
         \/ \E u \in Callers : Erase(u) \/ \E new \in Passwords : ResetPassword(u, new)
  <1>1. CASE \E p \in Procs : Request(p)
    BY <1>1 DEF Request, Login, ChangePassword, Logout, Sensitive, StepUp, RedeemLink, Issue, store
  <1>2. CASE \E p \in Procs : Continue(p)
    BY <1>2 DEF Continue, LoginUser, LoginAgain, LoginHash, Mint, ChangeHash, Owned,
       LiveStepUpSession, StepHash, IssueGrant, Authorise, RetireIdentifier, IssueUser, IssueAgain,
       Replace, LinkResolve, LinkUser, LinkAgain, LogoutGrants, Abandon, store
  <1>3. CASE Administration
    BY <1>3 DEF Administration, RevokeAllForUser, SetStatus, DeleteForUser
  <1>4. CASE Revocation
    BY <1>4 DEF Revocation, RevokeAllSessions, RevokePage, RevokeBatch, SweepOrphans,
       RevocationFails, store
  <1>5. CASE UNCHANGED vars
    BY <1>5 DEF vars, store
  <1>6. \/ \E p \in Procs : Request(p)
        \/ \E p \in Procs : Continue(p)
        \/ Administration \/ Revocation \/ UNCHANGED vars
    BY Zenon DEF Next
  <1> QED BY <1>1, <1>2, <1>3, <1>4, <1>5, <1>6

\* A step keeps each password or advances its user's revision.
LEMMA PasswordsFenced ==
  ASSUME AInv, [Next]_vars, NEW u \in Users, hash'[u].pw # hash[u].pw
  PROVE  users'[u].rev > users[u].rev
  <1>0. users[u].rev \in Nat /\ users[u].rev + 1 > users[u].rev /\ hash \in [Users -> Hash]
        /\ users \in [Users -> [status : {"active", "deactivated", "erased"}, rev : Nat]]
    BY Tables DEF AInv, TypeOK, Revision
  <1>1. CASE \E p \in Procs : Rehash(p)
    BY <1>1, RehashKeeps
  <1>2. CASE \E p \in Procs : Change(p)
    <2>1. PICK p \in Procs : Change(p)
      BY <1>2
    <2>2. PICK v \in Users : v = proc[p].user
      BY <2>1, Held DEF Change, At, Carries
    <2>3. users' = Bumped({v}) /\ u = v
      <3>1. users' = Bumped({v}) /\ hash' = [hash EXCEPT ![v] = [pw |-> proc[p].new, weak |-> FALSE]]
        BY <2>1, <2>2 DEF Change
      <3> QED BY <1>0, <3>1
    <2> QED BY <1>0, <2>3, BumpedSound
  <1>3. CASE \E v \in Callers : Erase(v)
    <2>1. PICK v \in Users : Erase(v)
      BY <1>3, AccountsAssumption DEF AccountsAssumption
    <2>2. u = v
      BY <1>0, <2>1 DEF Erase
    <2> QED BY <1>0, <2>1, <2>2 DEF Erase
  <1>4. CASE \E v \in Callers, new \in Passwords : ResetPassword(v, new)
    <2>1. PICK v \in Users, new \in Passwords : ResetPassword(v, new)
      BY <1>4, AccountsAssumption DEF AccountsAssumption
    <2>2. users' = Bumped({v}) /\ u = v
      BY <1>0, <2>1 DEF ResetPassword
    <2> QED BY <1>0, <2>2, BumpedSound
  <1> QED BY <1>1, <1>2, <1>3, <1>4, PasswordWriters

\* A request moves only itself.
LEMMA Moves ==
  ASSUME NEW q \in Procs, Request(q) \/ Continue(q)
  PROVE  \E l : proc' = [proc EXCEPT ![q] = l]
  <1>1. CASE Request(q)
    BY <1>1 DEF Request, Login, ChangePassword, Logout, Sensitive, StepUp, RedeemLink, Issue, Goto
  <1>2. CASE Continue(q)
    <2>1. CASE \/ LoginUser(q) \/ LoginAgain(q) \/ LoginHash(q) \/ Rehash(q) \/ Mint(q)
               \/ ChangeHash(q) \/ Change(q) \/ Owned(q) \/ LiveStepUpSession(q) \/ StepHash(q)
      BY <2>1 DEF LoginUser, LoginAgain, LoginHash, Rehash, Mint, ChangeHash, Change, Owned,
         LiveStepUpSession, StepHash, Verified, ReadUser, On, Return, Goto
    <2>2. CASE \/ IssueGrant(q) \/ Authorise(q) \/ RetireIdentifier(q) \/ IssueUser(q)
               \/ IssueAgain(q) \/ Replace(q) \/ LinkResolve(q) \/ LinkUser(q) \/ LinkAgain(q)
               \/ LogoutGrants(q) \/ Abandon(q)
      BY <2>2 DEF IssueGrant, Authorise, Authorised, RetireIdentifier, IssueUser, IssueAgain,
         Replace, LinkResolve, LinkUser, LinkAgain, LogoutGrants, Abandon, ReadUser, On, Return, Goto
    <2> QED BY <1>2, <2>1, <2>2 DEF Continue
  <1> QED BY <1>1, <1>2

\* What a session authorised commits only at the revision read before the
\* session was found alive, and so only while no revocation has ended it.
LEMMA RevokedCommitsNothing ==
  ASSUME AInv, [Next]_vars, NEW p \in Procs, Commits(p)
  PROVE  proc[p].session \notin revoked
  <1>0. /\ proc[p].pc \in {"change", "retire"} /\ proc[p].session # 0 /\ proc'[p] # proc[p]
        /\ users' # users
    BY DEF Commits
  <1>1. PICK q \in Procs : Request(q) \/ Continue(q)
    <2>1. CASE Administration
      BY <1>0, <2>1 DEF Administration, RevokeAllForUser, SetStatus, DeleteForUser, Erase, ResetPassword
    <2>2. CASE Revocation
      BY <1>0, <2>2 DEF Revocation, RevokeAllSessions, RevokePage, RevokeBatch, SweepOrphans, RevocationFails
    <2>3. CASE UNCHANGED vars
      BY <1>0, <2>3 DEF vars
    <2> QED BY <2>1, <2>2, <2>3 DEF Next
  <1>2. q = p
    <2>1. PICK l : proc' = [proc EXCEPT ![q] = l]
      BY <1>1, Moves
    <2>2. proc \in [Procs -> Local]
      BY DEF AInv, TypeOK
    <2> QED BY <1>0, <2>1, <2>2
  <1>3. ~ Request(p)
    <2>1. Request(p) => proc[p] = Idle
      BY DEF Request, Login, ChangePassword, Logout, Sensitive, StepUp, RedeemLink, Issue
    <2>2. Idle.pc = "idle"
      BY DEF Idle
    <2> QED BY <1>0, <2>1, <2>2
  <1>4. Change(p) \/ RetireIdentifier(p)
    BY <1>0, <1>1, <1>2, <1>3 DEF Continue, LoginUser, LoginAgain, LoginHash, Rehash, Mint, ChangeHash,
       Owned, LiveStepUpSession, StepHash, IssueGrant, Authorise, IssueUser, IssueAgain, Replace,
       LinkResolve, LinkUser, LinkAgain, LogoutGrants, Abandon, At, store
  <1>5. users[proc[p].user].rev = proc[p].rev
    BY <1>0, <1>4 DEF Change, RetireIdentifier, mayChange, mayRetire
  <1>6. Fresh(proc[p]) /\ Vouches(proc[p])
    BY <1>0, <1>5, Held DEF Fresh, Read
  <1> QED BY <1>0, <1>6 DEF Vouches

\* Every write of a credential is fenced by the revision: a password is replaced
\* only together with it, and a revoked session commits nothing (UpgradeHash,
\* Change, Apply).
THEOREM CredentialWritesFencedHolds == Spec => CredentialWritesFenced
  <1>1. AInv /\ [Next]_vars =>
           [\A u \in Users : hash'[u].pw # hash[u].pw => users'[u].rev > users[u].rev]_vars
    BY PasswordsFenced
  <1>2. AInv /\ [Next]_vars =>
           [\A p \in Procs : Commits(p) => proc[p].session \notin revoked]_vars
    BY RevokedCommitsNothing
  <1> QED BY <1>1, <1>2, FenceInvariant, PTL
      DEF Spec, CredentialWritesFenced, PasswordChangesAreFenced, RevokedNeverAuthorises
=============================================================================
