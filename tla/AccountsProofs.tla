----------------------------- MODULE AccountsProofs -----------------------------
(* Theorems about Accounts, for any accounts, browsers, clocks and numbers of   *)
(* requests in flight.                                                          *)
EXTENDS Accounts, FiniteSetTheorems, TLAPS

--------------------------------------------------------------------------------
(* Types, and what a request in flight is about.                                *)

Routed(q) == q.op \in Managing \cup Own

Sensible(q, m) ==
    IF q.pc = "idle" THEN q.op = "none"
    ELSE /\ q.op # "none" /\ q.n \in 1..m
         /\ Routed(q) => /\ q.by \in Users /\ q.target \in Users
                         /\ q.pc \in {"read", "write"}
                         /\ q.jar.uid \in {q.by, Nobody}
                         /\ q.op \in Own => q.target = q.by /\ q.pc = "write"
         /\ q.op \in SignIn => q.from \in Browsers /\ q.pc \in {"verify", "write", "count"}
         /\ q.op = "login" => \/ q.target \in Users
                              \/ q.target = Nobody /\ q.pc # "verify" /\ q.row = FreeRow
         /\ q.op = "second" => /\ q.target \in Users /\ q.pc # "verify"
                               /\ q.row.role \in {"user", "admin"}

Typed == /\ TypeOK /\ now >= 1
         /\ \A r \in Requests : Sensible(req[r], made)

LEMMA KnownValues ==
    /\ FreeRow \in Row /\ FreeRow.role = "free"
    /\ NoFailures \in LockRow /\ Blank \in Cookie /\ Blank.uid = Nobody
    /\ Idle \in Request /\ Idle.pc = "idle" /\ Idle.op = "none" /\ Wrong \in Nat
    /\ Managing \cap SignIn = {} /\ Own \cap SignIn = {} /\ Managing \cap Own = {}
    /\ "none" \notin Managing \cup Own \cup SignIn
  <1>1. FreeRow \in Row /\ FreeRow.role = "free"
    BY DEF FreeRow, Row
  <1>2. NoFailures \in LockRow
    BY DEF NoFailures, LockRow
  <1>3. Blank \in Cookie /\ Blank.uid = Nobody
    BY DEF Blank, Cookie
  <1>4. Idle \in Request /\ Idle.pc = "idle" /\ Idle.op = "none"
    BY <1>1, <1>2, <1>3 DEF Idle, Request, Ops
  <1>5. Wrong \in Nat
    BY LimitsAssumption DEF Wrong
  <1> QED
    BY <1>1, <1>2, <1>3, <1>4, <1>5 DEF Managing, Own, SignIn

LEMMA FlushedRow ==
    ASSUME NEW a \in Row, NEW b \in Row, NEW c \in Row
    PROVE  /\ Flush(a, b, c) \in Row
           /\ Flush(a, b, c).role  = IF c.role = b.role THEN a.role ELSE c.role
           /\ Flush(a, b, c).pw    = IF c.pw = b.pw THEN a.pw ELSE c.pw
           /\ Flush(a, b, c).epoch = IF c.epoch = b.epoch THEN a.epoch ELSE c.epoch
  <1>1. DOMAIN a = {"role", "pw", "epoch", "totp", "token"}
    BY DEF Row
  <1>2. Flush(a, b, c) = [role  |-> IF c.role = b.role THEN a.role ELSE c.role,
                          pw    |-> IF c.pw = b.pw THEN a.pw ELSE c.pw,
                          epoch |-> IF c.epoch = b.epoch THEN a.epoch ELSE c.epoch,
                          totp  |-> IF c.totp = b.totp THEN a.totp ELSE c.totp,
                          token |-> IF c.token = b.token THEN a.token ELSE c.token]
    BY <1>1 DEF Flush
  <1>3. (IF c.totp = b.totp THEN a.totp ELSE c.totp) \in BOOLEAN
    BY DEF Row
  <1> QED
    BY <1>2, <1>3 DEF Row

LEMMA FlushedLock ==
    ASSUME NEW a \in LockRow, NEW b \in LockRow
    PROVE  /\ Flush(a, a, b) = b
           /\ \A c \in LockRow : Flush(a, b, c) \in LockRow
  BY DEF Flush, LockRow

LEMMA LockRowsStay ==
    ASSUME NEW row \in LockRow, NEW t \in Nat
    PROVE  Pruned(row, t) \in LockRow /\ Failed(row, t) \in LockRow
  <1> DEFINE count == (IF Aged(row, t) THEN 0 ELSE row.count) + 1
  <1>1. count \in Nat /\ t + Lockout \in Nat
    BY ThrottleAssumption DEF LockRow
  <1>2. Failed(row, t) = IF count >= MaxFailures
                         THEN [count |-> 0, last |-> t, until |-> t + Lockout]
                         ELSE [row EXCEPT !.count = count, !.last = t]
    BY DEF Failed
  <1> HIDE DEF count
  <1>3. [row EXCEPT !.count = count, !.last = t] \in LockRow
    BY <1>1 DEF LockRow
  <1>4. [count |-> 0, last |-> t, until |-> t + Lockout] \in LockRow
    BY <1>1 DEF LockRow
  <1> QED
    BY <1>2, <1>3, <1>4 DEF Pruned, NoFailures, LockRow

LEMMA ChangedIsRow ==
    ASSUME NEW q \in Request PROVE Changed(q) \in Row /\ JarAfter(q) \in Cookie
  <1>1. q.row \in Row /\ q.n \in Nat /\ q.jar \in Cookie
    BY DEF Request
  <1>2. NewEpoch(q.row) \in Nat /\ \A op : NewRole(op) \in {"user", "admin"}
    BY <1>1 DEF NewEpoch, NewRole, Row
  <1> HIDE DEF NewEpoch, NewRole
  <1>3. Changed(q) \in Row
    BY <1>1, <1>2 DEF Changed, Row
  <1>4. JarAfter(q) \in Cookie
    BY <1>1, <1>2 DEF JarAfter, Cookie
  <1> QED
    BY <1>3, <1>4

\* One request moves on; the count of requests may grow.
LEMMA OneRequest ==
    ASSUME Typed, NEW r \in Requests, NEW q \in Request, made' \in Nat, made <= made',
           Sensible(q, made'), req' = [req EXCEPT ![r] = q]
    PROVE  req' \in [Requests -> Request] /\ \A x \in Requests : Sensible(req'[x], made')
  <1>1. req \in [Requests -> Request] /\ made \in Nat /\ \A x \in Requests : Sensible(req[x], made)
    BY LimitsAssumption DEF Typed, TypeOK
  <1>2. req' \in [Requests -> Request] /\ req'[r] = q
        /\ \A x \in Requests \ {r} : req'[x] = req[x]
    BY <1>1
  <1>3. ASSUME NEW x \in Requests PROVE Sensible(req'[x], made')
    <2>1. CASE x = r
      BY <1>2, <2>1 DEF Sensible, Routed
    <2>2. CASE x # r
      <3>1. req'[x] = req[x] /\ Sensible(req[x], made) /\ 1..made \subseteq 1..made'
        BY <1>1, <1>2, <2>2
      <3> QED
        BY <3>1 DEF Sensible, Routed
    <2> QED
      BY <2>1, <2>2
  <1> QED
    BY <1>2, <1>3

LEMMA IdleIsSensible == \A m : Sensible(Idle, m)
  BY KnownValues DEF Sensible

LEMMA OpenedTyped ==
    ASSUME Typed, NEW r \in Requests, NEW q \in Request, Open(r, q),
           Sensible([q EXCEPT !.n = made + 1], made + 1)
    PROVE  /\ made' \in 0..MaxRequests
           /\ req' \in [Requests -> Request] /\ \A x \in Requests : Sensible(req'[x], made')
  <1> DEFINE new == [q EXCEPT !.n = made + 1]
  <1>1. made \in Nat /\ made' \in 0..MaxRequests /\ made <= made' /\ made' = made + 1
        /\ made' \in Nat
    BY LimitsAssumption DEF Open, Typed, TypeOK
  <1>2. new \in Request
    BY <1>1 DEF Request
  <1>3. req' = [req EXCEPT ![r] = new]
    BY DEF Open
  <1>4. Sensible(new, made')
    BY <1>1
  <1> HIDE DEF new
  <1> QED
    BY <1>1, <1>2, <1>3, <1>4, OneRequest

\* A request that ends marks the others, at most.
LEMMA ClosedTyped ==
    ASSUME Typed, NEW r \in Requests, Close(r), made' = made
    PROVE  req' \in [Requests -> Request] /\ \A x \in Requests : Sensible(req'[x], made')
  <1>1. req \in [Requests -> Request] /\ \A x \in Requests : Sensible(req[x], made)
    BY DEF Typed, TypeOK
  <1>2. ASSUME NEW x \in Requests
        PROVE  req'[x] \in Request /\ Sensible(req'[x], made')
    <2>1. req'[x] \in {Idle, req[x], [req[x] EXCEPT !.late = TRUE]}
      BY DEF Close
    <2>2. req[x] \in Request
      BY <1>1
    <2>3. CASE req'[x] = Idle
      BY <2>3, KnownValues DEF Sensible
    <2>4. CASE req'[x] = req[x]
      BY <1>1, <2>2, <2>4 DEF Sensible, Routed
    <2>5. CASE req'[x] = [req[x] EXCEPT !.late = TRUE]
      <3> DEFINE q == [req[x] EXCEPT !.late = TRUE]
      <3>1. q \in Request
        BY <2>2 DEF Request
      <3>2. /\ q.op = req[x].op /\ q.pc = req[x].pc /\ q.n = req[x].n /\ q.by = req[x].by
            /\ q.target = req[x].target /\ q.jar = req[x].jar /\ q.from = req[x].from
            /\ q.row = req[x].row
        BY <2>2 DEF Request
      <3>3. req'[x] = q
        BY <2>5
      <3> HIDE DEF q
      <3> QED
        BY <1>1, <3>1, <3>2, <3>3 DEF Sensible, Routed
    <2> QED
      BY <2>1, <2>3, <2>4, <2>5
  <1>3. req' = [x \in Requests |-> req'[x]]
    BY DEF Close
  <1> QED
    BY <1>2, <1>3

LEMMA ResponseTyped ==
    ASSUME Typed, NEW r \in Requests, NEW jar \in Cookie, Respond(req[r], jar)
    PROVE  cookie' \in [Browsers -> Cookie]
  BY DEF Respond, Typed, TypeOK

LEMMA AuthorisedTyped ==
    ASSUME Typed, NEW r \in Requests, NEW from \in Browsers \cup {Script},
           NEW jar \in Cookie, NEW by \in Users, NEW op \in Offered, NEW t \in Users,
           jar.uid \in {by, Nobody}, Authorised(r, from, jar, by, op, t)
    PROVE  Typed'
  <1> DEFINE pc == IF op \in Managing THEN "read" ELSE "write"
             q  == [Idle EXCEPT !.op = op, !.from = from, !.jar = jar, !.by = by,
                      !.target = t, !.row = acct[by], !.pc = pc]
             new == [q EXCEPT !.n = made + 1]
  <1>1. acct[by] \in Row /\ made \in Nat /\ op \in Managing \cup Own
    BY OfferedAssumption, LimitsAssumption DEF Typed, TypeOK
  <1>2. pc \in {"read", "write"} /\ (op \in Own => pc = "write") /\ (op \in Own => t = by)
    BY KnownValues DEF Authorised
  <1>3. Open(r, q) /\ UNCHANGED << acct, cookie, lock, now, clashed, wrong, raced >>
    BY DEF Authorised
  <1> HIDE DEF pc
  <1>4. q \in Request
    BY <1>1, <1>2, KnownValues DEF Request, Ops
  <1>5. /\ new.op = op /\ new.pc = pc /\ new.n = made + 1 /\ new.by = by
        /\ new.target = t /\ new.jar = jar
    BY KnownValues DEF Request
  <1> HIDE DEF q, new
  <1>6. Sensible(new, made + 1)
    BY <1>1, <1>2, <1>5, KnownValues DEF Sensible, Routed, SignIn
  <1>7. /\ made' \in 0..MaxRequests
        /\ req' \in [Requests -> Request] /\ \A x \in Requests : Sensible(req'[x], made')
    BY <1>3, <1>4, <1>6, OpenedTyped DEF new
  <1> QED
    BY <1>3, <1>7 DEF Typed, TypeOK

LEMMA AskTyped ==
    ASSUME Typed, NEW r \in Requests, NEW b \in Browsers, NEW op \in Offered,
           NEW t \in Users, Ask(r, b, op, t)
    PROVE  Typed'
  <1>1. cookie[b] \in Cookie /\ cookie[b].uid \in Users
    BY DEF Ask, Valid, Typed, TypeOK
  <1> QED
    BY <1>1, AuthorisedTyped DEF Ask

LEMMA AskByTokenTyped ==
    ASSUME Typed, NEW r \in Requests, NEW u \in Users, NEW op \in Offered,
           NEW t \in Users, AskByToken(r, u, op, t)
    PROVE  Typed'
  BY KnownValues, AuthorisedTyped DEF AskByToken

LEMMA ReadTargetTyped ==
    ASSUME Typed, NEW r \in Requests, ReadTarget(r) PROVE Typed'
  <1> DEFINE q   == req[r]
             own == q.target = q.by
             row == IF own THEN q.row ELSE acct[q.target]
             new == [q EXCEPT !.row = row, !.pc = "write", !.late = own /\ q.late]
  <1>1. q \in Request /\ Sensible(q, made) /\ q.pc = "read"
    BY DEF ReadTarget, Typed, TypeOK
  <1>2. Routed(q) /\ q.by \in Users /\ q.target \in Users /\ q.op \in Managing
    BY <1>1, KnownValues DEF Sensible, Routed, Request, Ops, SignIn
  <1>3. acct \in [Users -> Row] /\ row \in Row /\ (own /\ q.late) \in BOOLEAN
    BY <1>1, <1>2 DEF Typed, TypeOK, Request
  <1>4. new \in Request
    BY <1>1, <1>3 DEF Request
  <1>5. /\ new.op = q.op /\ new.pc = "write" /\ new.n = q.n /\ new.by = q.by
        /\ new.target = q.target /\ new.jar = q.jar
    BY <1>1 DEF Request
  <1>6. UNCHANGED << acct, lock, now, made, clashed, wrong, raced >>
    BY DEF ReadTarget
  <1>7. Sensible(new, made')
    BY <1>1, <1>2, <1>5, <1>6, KnownValues DEF Sensible, Routed, SignIn
  <1>8. \/ req' = [req EXCEPT ![r] = Idle] /\ Respond(q, q.jar)
        \/ req' = [req EXCEPT ![r] = new] /\ UNCHANGED cookie
    BY DEF ReadTarget
  <1>9. cookie' \in [Browsers -> Cookie]
    BY <1>1, <1>8, ResponseTyped DEF Typed, TypeOK, Request
  <1> HIDE DEF new
  <1>10. made' \in Nat /\ made <= made'
    BY <1>6 DEF Typed, TypeOK
  <1>11. req' \in [Requests -> Request] /\ \A x \in Requests : Sensible(req'[x], made')
    BY <1>4, <1>7, <1>8, <1>10, KnownValues, IdleIsSensible, OneRequest
  <1> QED
    BY <1>6, <1>9, <1>11 DEF Typed, TypeOK

LEMMA WriteAccountTyped ==
    ASSUME Typed, NEW r \in Requests, WriteAccount(r) PROVE Typed'
  <1> DEFINE q == req[r]
             t == q.target
  <1>1. q \in Request /\ Sensible(q, made) /\ q.pc = "write" /\ Routed(q)
    BY DEF WriteAccount, Typed, TypeOK, Routed
  <1>2. t \in Users /\ q.row \in Row
    BY <1>1 DEF Sensible, Request
  <1>3. /\ Close(r) /\ UNCHANGED << lock, now, made, wrong, raced >>
        /\ clashed' \in {clashed, clashed \cup {t}}
        /\ \/ acct' = [acct EXCEPT ![t] = Flush(acct[t], q.row, Changed(q))]
              /\ Respond(q, JarAfter(q))
           \/ UNCHANGED << acct, cookie >>
    BY DEF WriteAccount
  <1>4. Changed(q) \in Row /\ JarAfter(q) \in Cookie
    BY <1>1, ChangedIsRow
  <1>5. acct[t] \in Row /\ acct \in [Users -> Row]
    BY <1>2 DEF Typed, TypeOK
  <1>6. Flush(acct[t], q.row, Changed(q)) \in Row
    BY <1>2, <1>4, <1>5, FlushedRow
  <1>7. acct' \in [Users -> Row]
    BY <1>3, <1>5, <1>6
  <1>8. cookie' \in [Browsers -> Cookie]
    BY <1>3, <1>4, ResponseTyped DEF Typed, TypeOK
  <1>9. req' \in [Requests -> Request] /\ \A x \in Requests : Sensible(req'[x], made')
    BY <1>3, ClosedTyped
  <1>10. clashed' \subseteq Users
    BY <1>2, <1>3 DEF Typed, TypeOK
  <1> QED
    BY <1>3, <1>7, <1>8, <1>9, <1>10 DEF Typed, TypeOK

LEMMA WriteNewAccountTyped ==
    ASSUME Typed, NEW r \in Requests, WriteNewAccount(r) PROVE Typed'
  <1> DEFINE q == req[r]
  <1>1. q \in Request
    BY DEF Typed, TypeOK
  <1>2. q.n \in Nat /\ q.jar \in Cookie
    BY <1>1 DEF Request
  <1>3. Close(r) /\ UNCHANGED << lock, now, made, clashed, wrong, raced >>
    BY DEF WriteNewAccount
  <1>4. acct' \in [Users -> Row] /\ cookie' \in [Browsers -> Cookie]
    <2>1. CASE acct[q.target].role = "free"
      <3>1. PICK role \in {"user", "admin"} :
                acct' = [acct EXCEPT ![q.target] = [FreeRow EXCEPT !.role = role, !.pw = q.n]]
        BY <2>1 DEF WriteNewAccount
      <3>2. [FreeRow EXCEPT !.role = role, !.pw = q.n] \in Row
        BY <1>2 DEF FreeRow, Row
      <3>3. Respond(q, q.jar)
        BY <2>1 DEF WriteNewAccount
      <3> QED
        BY <1>2, <3>1, <3>2, <3>3, ResponseTyped DEF Typed, TypeOK
    <2>2. CASE acct[q.target].role # "free"
      BY <2>2 DEF WriteNewAccount, Typed, TypeOK
    <2> QED
      BY <2>1, <2>2
  <1>5. req' \in [Requests -> Request] /\ \A x \in Requests : Sensible(req'[x], made')
    BY <1>3, ClosedTyped
  <1> QED
    BY <1>3, <1>4, <1>5 DEF Typed, TypeOK
--------------------------------------------------------------------------------
LEMMA AdmitTyped ==
    ASSUME Typed, NEW r \in Requests, NEW q \in Request, Admit(r, q), q.op \in SignIn,
           Sensible([q EXCEPT !.n = made + 1], made + 1),
           KeyOf(q) \in Keys, UNCHANGED << acct, cookie, now, clashed, wrong >>
    PROVE  Typed'
  <1> DEFINE k == KeyOf(q)
  <1>1. Open(r, q) /\ lock' = [lock EXCEPT ![k] = Pruned(lock[k], now)]
        /\ raced' \in {raced, raced \cup {k}}
    BY DEF Admit
  <1>2. lock[k] \in LockRow /\ now \in Nat
    BY DEF Typed, TypeOK
  <1>3. lock' \in [Keys -> LockRow]
    BY <1>1, <1>2, LockRowsStay DEF Typed, TypeOK
  <1>4. raced' \subseteq Keys
    BY <1>1 DEF Typed, TypeOK
  <1>5. /\ made' \in 0..MaxRequests
        /\ req' \in [Requests -> Request] /\ \A x \in Requests : Sensible(req'[x], made')
    BY <1>1, OpenedTyped
  <1> QED
    BY <1>3, <1>4, <1>5 DEF Typed, TypeOK

LEMMA LoginTyped ==
    ASSUME Typed, NEW r \in Requests, NEW b \in Browsers, NEW u \in Users \cup {Nobody},
           Login(r, b, u)
    PROVE  Typed'
  <1> DEFINE guess == IF u = Nobody THEN Wrong ELSE acct[u].pw
             pc    == IF u = Nobody THEN "write" ELSE "verify"
             q     == [Idle EXCEPT !.op = "login", !.from = b, !.jar = cookie[b],
                         !.target = u, !.guess = guess, !.pc = pc]
             new   == [q EXCEPT !.n = made + 1]
  <1>1. guess \in Nat /\ cookie[b] \in Cookie /\ pc \in {"write", "verify"}
        /\ made \in Nat
    BY KnownValues, LimitsAssumption DEF Typed, TypeOK, Row
  <1>2. pc = "verify" => u \in Users
    OBVIOUS
  <1>3. Admit(r, q) /\ UNCHANGED << acct, cookie, now, clashed, wrong >>
    BY DEF Login
  <1> HIDE DEF guess, pc
  <1>4. q \in Request /\ q.op = "login" /\ q.from = b
    BY <1>1, KnownValues DEF Request, Ops, SignIn
  <1>5. /\ new.op = "login" /\ new.pc = pc /\ new.n = made + 1 /\ new.from = b
        /\ new.target = u /\ new.row = FreeRow
    BY KnownValues DEF Request, Idle
  <1> HIDE DEF q
  <1>6. Sensible(new, made + 1)
    <2> HIDE DEF new
    <2>1. new.op \in SignIn /\ ~Routed(new)
      BY <1>5, KnownValues DEF Routed, Managing, Own, SignIn
    <2> QED
      BY <1>1, <1>2, <1>5, <2>1 DEF Sensible
  <1>7. KeyOf(q) \in Keys /\ q.op \in SignIn
    BY <1>4 DEF KeyOf, Keys, SignIn
  <1> QED
    BY <1>3, <1>4, <1>6, <1>7, AdmitTyped

LEMMA SecondFactorTyped ==
    ASSUME Typed, NEW r \in Requests, NEW b \in Browsers, NEW guess \in {0, Wrong},
           SecondFactor(r, b, guess)
    PROVE  Typed'
  <1> DEFINE u   == cookie[b].pending
             q   == [Idle EXCEPT !.op = "second", !.pc = "write", !.from = b,
                       !.jar = cookie[b], !.target = u, !.row = acct[u], !.guess = guess]
             new == [q EXCEPT !.n = made + 1]
  <1>1. cookie[b] \in Cookie /\ made \in Nat /\ guess \in Nat
    BY KnownValues, LimitsAssumption DEF Typed, TypeOK
  <1>2. u \in Users /\ acct[u] \in Row /\ acct[u].role \in {"user", "admin"}
    BY <1>1 DEF SecondFactor, Exists, Typed, TypeOK, Cookie
  <1>3. Admit(r, q) /\ UNCHANGED << acct, cookie, now, clashed, wrong >>
    BY DEF SecondFactor
  <1> HIDE DEF u
  <1>4. q \in Request /\ q.op = "second" /\ q.target = u
    BY <1>1, <1>2, KnownValues DEF Request, Ops, SignIn
  <1>5. /\ new.op = "second" /\ new.pc = "write" /\ new.n = made + 1 /\ new.from = b
        /\ new.target = u /\ new.row = acct[u]
    BY KnownValues DEF Request, Idle
  <1> HIDE DEF q
  <1>6. Sensible(new, made + 1)
    <2> HIDE DEF new
    <2>1. new.op \in SignIn /\ ~Routed(new)
      BY <1>5, KnownValues DEF Routed, Managing, Own, SignIn
    <2> QED
      BY <1>1, <1>2, <1>5, <2>1 DEF Sensible
  <1>7. KeyOf(q) \in Keys /\ q.op \in SignIn
    BY <1>2, <1>4 DEF KeyOf, Keys, SignIn
  <1> QED
    BY <1>3, <1>4, <1>6, <1>7, AdmitTyped

\* What a sign-in is about.
LEMMA SigningIn ==
    ASSUME Typed, NEW r \in Requests, req[r].op \in SignIn
    PROVE  /\ req[r] \in Request /\ ~Routed(req[r]) /\ req[r].pc # "idle"
           /\ KeyOf(req[r]) \in Keys /\ req[r].from \in Browsers
  <1>1. req[r] \in Request /\ Sensible(req[r], made)
    BY DEF Typed, TypeOK
  <1> QED
    BY <1>1, KnownValues DEF Sensible, Routed, KeyOf, Keys, SignIn, Managing, Own

LEMMA VerifyTyped ==
    ASSUME Typed, NEW r \in Requests, Verify(r) PROVE Typed'
  <1> DEFINE q   == req[r]
             new == [q EXCEPT !.pc = "write", !.row = acct[q.target], !.late = FALSE]
  <1>1. q \in Request /\ Sensible(q, made) /\ q.pc = "verify"
    BY DEF Verify, Typed, TypeOK
  <1>2. q.op = "login" /\ q.target \in Users /\ ~Routed(q)
    BY <1>1, KnownValues DEF Sensible, Routed, Request, Ops, SignIn, Managing, Own
  <1>3. acct[q.target] \in Row
    BY <1>2 DEF Typed, TypeOK
  <1>4. /\ new \in Request /\ new.op = "login" /\ new.pc = "write" /\ new.n = q.n
        /\ new.target = q.target /\ new.from = q.from
    BY <1>1, <1>2, <1>3 DEF Request
  <1>5. req' = [req EXCEPT ![r] = new]
        /\ UNCHANGED << acct, cookie, lock, now, made, clashed, wrong, raced >>
    BY <1>1 DEF Verify, Typed, TypeOK
  <1> HIDE DEF new
  <1>6. Sensible(new, made')
    BY <1>1, <1>2, <1>4, <1>5 DEF Sensible, Routed, SignIn, Managing, Own
  <1>7. made' \in Nat /\ made <= made'
    BY <1>5 DEF Typed, TypeOK
  <1>8. req' \in [Requests -> Request] /\ \A x \in Requests : Sensible(req'[x], made')
    BY <1>4, <1>5, <1>6, <1>7, OneRequest
  <1> QED
    BY <1>5, <1>8 DEF Typed, TypeOK

LEMMA EndedTyped ==
    ASSUME Typed, NEW r \in Requests, req' = [req EXCEPT ![r] = Idle], made' = made
    PROVE  req' \in [Requests -> Request] /\ \A x \in Requests : Sensible(req'[x], made')
  BY KnownValues, IdleIsSensible, OneRequest DEF Typed, TypeOK

LEMMA SucceedTyped ==
    ASSUME Typed, NEW r \in Requests, Succeed(r) PROVE Typed'
  <1> DEFINE q == req[r]
  <1>1. q \in Request /\ KeyOf(q) \in Keys
    BY SigningIn DEF Succeed
  <1>2. q.jar \in Cookie /\ q.row \in Row /\ q.target \in Users \cup {Nobody}
    BY <1>1 DEF Request
  <1>3. SignedIn(q) \in Cookie
    BY <1>2 DEF SignedIn, Cookie, Row
  <1>4. cookie' \in [Browsers -> Cookie]
    BY <1>3, ResponseTyped DEF Succeed
  <1>5. lock' \in [Keys -> LockRow]
    BY <1>1, KnownValues DEF Succeed, Typed, TypeOK
  <1>6. wrong' \in [Keys -> SUBSET [n : Nat, at : Nat]]
    BY <1>1 DEF Succeed, Typed, TypeOK
  <1>7. req' \in [Requests -> Request] /\ \A x \in Requests : Sensible(req'[x], made')
    BY EndedTyped DEF Succeed
  <1> QED
    BY <1>4, <1>5, <1>6, <1>7 DEF Succeed, Typed, TypeOK

LEMMA FailTyped ==
    ASSUME Typed, NEW r \in Requests, Fail(r) PROVE Typed'
  <1> DEFINE q   == req[r]
             new == [q EXCEPT !.pc = "count", !.seen = lock[KeyOf(q)]]
  <1>1. q \in Request /\ Sensible(q, made) /\ q.pc = "write" /\ q.op \in SignIn
        /\ KeyOf(q) \in Keys /\ ~Routed(q)
    BY SigningIn DEF Fail, Typed, TypeOK
  <1>2. lock[KeyOf(q)] \in LockRow
    BY <1>1 DEF Typed, TypeOK
  <1>3. /\ new \in Request /\ new.op = q.op /\ new.pc = "count" /\ new.n = q.n
        /\ new.target = q.target /\ new.from = q.from /\ new.row = q.row
    BY <1>1, <1>2 DEF Request
  <1>4. req' = [req EXCEPT ![r] = new]
        /\ UNCHANGED << acct, cookie, lock, now, made, clashed, wrong, raced >>
    BY <1>1 DEF Fail, Typed, TypeOK
  <1> HIDE DEF new
  <1>5. Sensible(new, made')
    BY <1>1, <1>3, <1>4 DEF Sensible, Routed
  <1>6. made' \in Nat /\ made <= made'
    BY <1>4 DEF Typed, TypeOK
  <1>7. req' \in [Requests -> Request] /\ \A x \in Requests : Sensible(req'[x], made')
    BY <1>3, <1>4, <1>5, <1>6, OneRequest
  <1> QED
    BY <1>4, <1>7 DEF Typed, TypeOK

LEMMA CountTyped ==
    ASSUME Typed, NEW r \in Requests, Count(r) PROVE Typed'
  <1> DEFINE q == req[r]
             k == KeyOf(q)
  <1>1. q \in Request /\ k \in Keys /\ q.n \in Nat /\ now \in Nat
    <2>1. q.op \in SignIn /\ q \in Request
      BY KnownValues DEF Count, Typed, TypeOK, Sensible, Routed, Request, Ops
    <2> QED
      BY <2>1, SigningIn DEF Typed, TypeOK, Request
  <1>2. q.seen \in LockRow /\ lock[k] \in LockRow /\ q.jar \in Cookie
    BY <1>1 DEF Typed, TypeOK, Request
  <1>3. lock' \in [Keys -> LockRow]
    <2>1. Failed(q.seen, now) \in LockRow
      BY <1>1, <1>2, LockRowsStay
    <2>2. Flush(lock[k], q.seen, Failed(q.seen, now)) \in LockRow
      BY <1>2, <2>1 DEF Flush, LockRow
    <2> QED
      BY <1>1, <2>2 DEF Count, Typed, TypeOK
  <1>4. wrong' \in [Keys -> SUBSET [n : Nat, at : Nat]]
    BY <1>1 DEF Count, Typed, TypeOK
  <1>5. AskedAgain(q) \in Cookie
    BY <1>2, KnownValues DEF AskedAgain, Shown
  <1>6. cookie' \in [Browsers -> Cookie]
    BY <1>5, ResponseTyped DEF Count, Typed, TypeOK
  <1>7. req' \in [Requests -> Request] /\ \A x \in Requests : Sensible(req'[x], made')
    BY EndedTyped DEF Count
  <1> QED
    BY <1>3, <1>4, <1>6, <1>7 DEF Count, Typed, TypeOK

LEMMA BrowserTyped ==
    ASSUME Typed, NEW b \in Browsers, TurnedAway(b) \/ SecondDropped(b) \/ Logout(b)
    PROVE  Typed'
  BY KnownValues DEF TurnedAway, SecondDropped, Logout, Typed, TypeOK

LEMMA TickTyped == ASSUME Typed, Tick PROVE Typed'
  BY DEF Tick, Typed, TypeOK

LEMMA RestartTyped == ASSUME Typed, Restart PROVE Typed'
  <1>1. req' \in [Requests -> Request] /\ \A x \in Requests : Sensible(req'[x], made')
    BY KnownValues, IdleIsSensible DEF Restart
  <1>2. acct' \in [Users -> Row]
    BY DEF Restart, Typed, TypeOK, Row
  <1> QED
    BY <1>1, <1>2 DEF Restart, Typed, TypeOK

LEMMA FirstTyped == Init => Typed
  <1> SUFFICES ASSUME Init PROVE Typed
      OBVIOUS
  <1>1. acct \in [Users -> Row]
    <2>1. PICK one, two \in Users, role \in {"free", "user", "admin"}, totp \in BOOLEAN :
              /\ one # two
              /\ totp => role # "free"
              /\ acct = [u \in Users |->
                           IF u = one THEN [FreeRow EXCEPT !.role = "admin"]
                           ELSE IF u = two THEN [FreeRow EXCEPT !.role = role, !.totp = totp]
                           ELSE FreeRow]
      BY Zenon DEF Init
    <2>2. [FreeRow EXCEPT !.role = "admin"] \in Row
      BY DEF FreeRow, Row
    <2>3. [FreeRow EXCEPT !.role = role, !.totp = totp] \in Row
      BY DEF FreeRow, Row
    <2> QED
      BY <2>1, <2>2, <2>3, KnownValues
  <1>2. cookie \in [Browsers -> Cookie]
    <2>1. \A u \in Users : [Blank EXCEPT !.uid = u] \in Cookie
      BY KnownValues DEF Cookie
    <2> QED
      BY <2>1, KnownValues DEF Init
  <1>3. req \in [Requests -> Request] /\ \A r \in Requests : Sensible(req[r], made)
    BY KnownValues, IdleIsSensible DEF Init
  <1>4. lock \in [Keys -> LockRow]
    <2>1. now \in Nat /\ Failed(NoFailures, now) \in LockRow
      BY KnownValues, LockRowsStay DEF Init
    <2> QED
      BY <2>1, KnownValues DEF Init
  <1>5. wrong \in [Keys -> SUBSET [n : Nat, at : Nat]]
    BY DEF Init
  <1> QED
    BY <1>1, <1>2, <1>3, <1>4, <1>5, LimitsAssumption DEF Init, Typed, TypeOK

LEMMA StepsTyped == Typed /\ [Next]_vars => Typed'
  <1> SUFFICES ASSUME Typed, [Next]_vars PROVE Typed'
      OBVIOUS
  <1>1. CASE UNCHANGED vars
    BY <1>1 DEF vars, Typed, TypeOK
  <1>2. CASE Next
    BY <1>2, AskTyped, AskByTokenTyped, ReadTargetTyped, WriteAccountTyped,
       WriteNewAccountTyped, LoginTyped, SecondFactorTyped, VerifyTyped, SucceedTyped,
       FailTyped, CountTyped, BrowserTyped, TickTyped, RestartTyped DEF Next
  <1> QED
    BY <1>1, <1>2

LEMMA AlwaysTyped == Spec => []Typed
  BY FirstTyped, StepsTyped, PTL DEF Spec

\* Every variable keeps its type, whatever the requests in flight do to the accounts,
\* sessions and lockouts they share.
THEOREM AccountsTypeCorrect == Spec => []TypeOK
  <1>1. Typed => TypeOK
    BY DEF Typed
  <1> QED
    BY <1>1, AlwaysTyped, PTL
--------------------------------------------------------------------------------
(* The last admin.                                                              *)

\* Whose row a request has read.
Owner(q) == IF q.pc = "read" THEN q.by ELSE q.target

\* Unless it is late, what a request has read still holds: the row, and that there
\* is another admin when it takes one away.
Fresh(q, a) ==
    q.pc # "idle" /\ Routed(q) /\ ~q.late =>
        /\ q.row = a[Owner(q)]
        /\ q.pc = "write" /\ q.op \in {"delete", "demote"} /\ q.row.role = "admin"
              => \E u \in Users \ {q.target} : a[u].role = "admin"

AdminInv == AdminRemains /\ \A r \in Requests : Fresh(req[r], acct)

LEMMA AnotherAdmin ==
    ASSUME NEW t \in Users, ~(AdminCount <= 1)
    PROVE  \E u \in Users \ {t} : acct[u].role = "admin"
  <1> DEFINE A == {u \in Users : acct[u].role = "admin"}
  <1>1. SUFFICES ASSUME A \subseteq {t} PROVE FALSE
    OBVIOUS
  <1>2. IsFiniteSet({t}) /\ Cardinality({t}) = 1
    BY FS_Singleton
  <1>3. Cardinality(A) <= 1
    BY <1>1, <1>2, FS_Subset
  <1> QED
    BY <1>3 DEF AdminCount

\* A step that writes no account and lets one request move on.
LEMMA FreshRequest ==
    ASSUME Typed, AdminInv, NEW r \in Requests, NEW q, req' = [req EXCEPT ![r] = q],
           Fresh(q, acct), UNCHANGED << acct, clashed >>
    PROVE  AdminInv'
  <1>1. req'[r] = q /\ \A x \in Requests \ {r} : req'[x] = req[x]
    BY DEF Typed, TypeOK
  <1>2. \A x \in Requests : Fresh(req'[x], acct')
    BY <1>1 DEF AdminInv
  <1> QED
    BY <1>2 DEF AdminInv, AdminRemains

LEMMA IdleIsFresh == \A q, a : q.pc = "idle" \/ ~Routed(q) => Fresh(q, a)
  BY DEF Fresh

LEMMA AuthorisedKeepsAdmin ==
    ASSUME Typed, AdminInv, NEW r \in Requests, NEW from, NEW jar, NEW by \in Users,
           NEW op \in Offered, NEW t \in Users, Authorised(r, from, jar, by, op, t)
    PROVE  AdminInv'
  <1> DEFINE new == [Idle EXCEPT !.op = op, !.from = from, !.jar = jar, !.by = by,
                       !.target = t, !.row = acct[by], !.n = made + 1,
                       !.pc = IF op \in Managing THEN "read" ELSE "write"]
  <1>1. req' = [req EXCEPT ![r] = new] /\ UNCHANGED << acct, clashed >>
    BY DEF Authorised, Open, Idle
  <1>2. /\ new.row = acct[by] /\ new.by = by /\ new.target = t /\ new.op = op
        /\ new.pc = IF op \in Managing THEN "read" ELSE "write"
    BY DEF Idle
  <1>3. op \in Own => t = by
    BY DEF Authorised
  <1> HIDE DEF new
  <1>4. Fresh(new, acct)
    BY <1>2, <1>3, OfferedAssumption DEF Fresh, Owner, Own, Managing
  <1> QED
    BY <1>1, <1>4, FreshRequest

LEMMA ReadTargetKeepsAdmin ==
    ASSUME Typed, AdminInv, NEW r \in Requests, ReadTarget(r) PROVE AdminInv'
  <1> DEFINE q   == req[r]
             own == q.target = q.by
             row == IF own THEN q.row ELSE acct[q.target]
             new == [q EXCEPT !.row = row, !.pc = "write", !.late = own /\ q.late]
  <1>1. q \in Request /\ Sensible(q, made) /\ q.pc = "read" /\ Fresh(q, acct)
    BY DEF ReadTarget, Typed, TypeOK, AdminInv
  <1>2. q.target \in Users /\ Routed(q)
    BY <1>1, KnownValues DEF Sensible, Routed, Request, Ops, SignIn
  <1>3. UNCHANGED << acct, clashed >>
    BY DEF ReadTarget
  <1>4. CASE req' = [req EXCEPT ![r] = Idle]
    BY <1>3, <1>4, KnownValues, IdleIsFresh, FreshRequest
  <1>5. CASE req' = [req EXCEPT ![r] = new] /\ ~Refused(q, row)
    <2>1. /\ new.row = row /\ new.pc = "write" /\ new.late = (own /\ q.late)
          /\ new.target = q.target /\ new.op = q.op /\ new.by = q.by
      BY <1>1 DEF Request
    <2>2. ~new.late => row = acct[q.target]
      BY <1>1, <1>2, <2>1 DEF Fresh, Owner
    <2>3. new.op \in {"delete", "demote"} /\ row.role = "admin"
              => \E u \in Users \ {q.target} : acct[u].role = "admin"
      BY <1>2, <1>5, <2>1, AnotherAdmin DEF Refused
    <2> HIDE DEF new, row
    <2>4. Fresh(new, acct)
      BY <2>1, <2>2, <2>3 DEF Fresh, Owner
    <2> QED
      BY <1>3, <1>5, <2>4, FreshRequest
  <1> QED
    BY <1>4, <1>5 DEF ReadTarget

\* A request that ends leaves the others late if it wrote anything.
LEMMA OthersAreLate ==
    ASSUME Typed, AdminInv, NEW r \in Requests, Close(r)
    PROVE  \A x \in Requests : Fresh(req'[x], acct')
  <1> SUFFICES ASSUME NEW x \in Requests PROVE Fresh(req'[x], acct')
      OBVIOUS
  <1>1. Fresh(req[x], acct) /\ req[x] \in Request
    BY DEF Typed, TypeOK, AdminInv
  <1>2. CASE x = r
    BY <1>2, KnownValues, IdleIsFresh DEF Close
  <1>3. CASE x # r /\ req[x].pc # "idle" /\ acct' # acct
    <2>1. req'[x].late
      BY <1>1, <1>3 DEF Close, Request
    <2> QED
      BY <2>1 DEF Fresh
  <1>4. CASE x # r /\ (req[x].pc = "idle" \/ acct' = acct)
    <2>1. req'[x] = req[x]
      BY <1>4 DEF Close
    <2> QED
      BY <1>1, <1>4, <2>1 DEF Fresh
  <1> QED
    BY <1>2, <1>3, <1>4

LEMMA WriteAccountKeepsAdmin ==
    ASSUME Typed, AdminInv, NEW r \in Requests, WriteAccount(r) PROVE AdminInv'
  <1> DEFINE q == req[r]
             t == q.target
  <1>1. q \in Request /\ q.pc = "write" /\ Routed(q) /\ Fresh(q, acct)
        /\ Sensible(q, made) /\ q.op # "create"
    BY DEF WriteAccount, Typed, TypeOK, Routed, AdminInv
  <1>2. t \in Users /\ q.row \in Row /\ acct[t] \in Row /\ Changed(q) \in Row
    BY <1>1, ChangedIsRow DEF Sensible, Request, Typed, TypeOK
  <1>3. \A x \in Requests : Fresh(req'[x], acct')
    BY OthersAreLate DEF WriteAccount
  <1>4. ASSUME clashed' = {} PROVE \E u \in Users : acct'[u].role = "admin"
    <2>1. clashed = {} /\ (acct' = acct \/ ~q.late)
      BY <1>4 DEF WriteAccount
    <2>2. PICK a \in Users : acct[a].role = "admin"
      BY <2>1 DEF AdminInv, AdminRemains
    <2>3. CASE acct' = acct
      BY <2>2, <2>3
    <2>4. CASE acct' # acct
      <3>1. acct' = [acct EXCEPT ![t] = Flush(acct[t], q.row, Changed(q))] /\ ~q.late
        BY <2>1, <2>4 DEF WriteAccount
      <3>2. q.row = acct[t]
        BY <1>1, <3>1 DEF Fresh, Owner
      <3>3. acct'[t].role = Changed(q).role /\ \A u \in Users \ {t} : acct'[u] = acct[u]
        BY <1>2, <3>1, <3>2, FlushedRow DEF Typed, TypeOK
      <3>4. CASE a # t
        BY <2>2, <3>3, <3>4
      <3>5. CASE a = t /\ q.op \in {"delete", "demote"}
        BY <1>1, <2>2, <3>1, <3>2, <3>3, <3>5 DEF Fresh
      <3>6. CASE a = t /\ q.op \notin {"delete", "demote"}
        <4>1. Changed(q).role = "admin"
          BY <1>2, <2>2, <3>2, <3>6 DEF Changed, NewRole, Row
        <4> QED
          BY <1>2, <3>3, <4>1
      <3> QED
        BY <3>4, <3>5, <3>6
    <2> QED
      BY <2>3, <2>4
  <1> QED
    BY <1>3, <1>4 DEF AdminInv, AdminRemains

LEMMA WriteNewAccountKeepsAdmin ==
    ASSUME Typed, AdminInv, NEW r \in Requests, WriteNewAccount(r) PROVE AdminInv'
  <1>1. \A x \in Requests : Fresh(req'[x], acct')
    BY OthersAreLate DEF WriteNewAccount
  <1>2. ASSUME NEW a \in Users, acct[a].role = "admin" PROVE acct'[a].role = "admin"
    BY <1>2 DEF WriteNewAccount, Typed, TypeOK
  <1> QED
    BY <1>1, <1>2 DEF AdminInv, AdminRemains, WriteNewAccount

\* Signing in writes no account.
LEMMA SignInKeepsAdmin ==
    ASSUME Typed, AdminInv, NEW r \in Requests, NEW q, ~Routed(q) \/ q.pc = "idle",
           req' = [req EXCEPT ![r] = q], UNCHANGED << acct, clashed >>
    PROVE  AdminInv'
  BY IdleIsFresh, FreshRequest

LEMMA AdmitKeepsAdmin ==
    ASSUME Typed, AdminInv, NEW r \in Requests,
           \/ \E b \in Browsers, u \in Users \cup {Nobody} : Login(r, b, u)
           \/ \E b \in Browsers, guess \in {0, Wrong} : SecondFactor(r, b, guess)
    PROVE  AdminInv'
  <1>1. CASE \E b \in Browsers, u \in Users \cup {Nobody} : Login(r, b, u)
    <2>1. PICK b \in Browsers, u \in Users \cup {Nobody} : Login(r, b, u)
      BY <1>1
    <2> DEFINE new == [Idle EXCEPT !.op = "login", !.from = b, !.jar = cookie[b],
                         !.target = u, !.guess = IF u = Nobody THEN Wrong ELSE acct[u].pw,
                         !.pc = IF u = Nobody THEN "write" ELSE "verify", !.n = made + 1]
    <2>2. req' = [req EXCEPT ![r] = new] /\ UNCHANGED << acct, clashed >>
      BY <2>1 DEF Login, Admit, Open, Idle
    <2>3. ~Routed(new)
      BY DEF Idle, Routed, Managing, Own
    <2> HIDE DEF new
    <2> QED
      BY <2>2, <2>3, SignInKeepsAdmin
  <1>2. CASE \E b \in Browsers, guess \in {0, Wrong} : SecondFactor(r, b, guess)
    <2>1. PICK b \in Browsers, guess \in {0, Wrong} : SecondFactor(r, b, guess)
      BY <1>2
    <2> DEFINE u   == cookie[b].pending
               new == [Idle EXCEPT !.op = "second", !.pc = "write", !.from = b,
                         !.jar = cookie[b], !.target = u, !.row = acct[u], !.guess = guess,
                         !.n = made + 1]
    <2>2. req' = [req EXCEPT ![r] = new] /\ UNCHANGED << acct, clashed >>
      BY <2>1 DEF SecondFactor, Admit, Open, Idle
    <2>3. ~Routed(new)
      BY DEF Idle, Routed, Managing, Own
    <2> HIDE DEF new
    <2> QED
      BY <2>2, <2>3, SignInKeepsAdmin
  <1> QED
    BY <1>1, <1>2

LEMMA SigningInKeepsAdmin ==
    ASSUME Typed, AdminInv, NEW r \in Requests,
           Verify(r) \/ Succeed(r) \/ Fail(r) \/ Count(r)
    PROVE  AdminInv'
  <1> DEFINE q == req[r]
  <1>1. q \in Request /\ Sensible(q, made) /\ UNCHANGED << acct, clashed >>
    BY DEF Verify, Succeed, Fail, Count, Typed, TypeOK
  <1>2. CASE Succeed(r) \/ Count(r)
    BY <1>1, <1>2, KnownValues, SignInKeepsAdmin DEF Succeed, Count
  <1>3. CASE Verify(r) \/ Fail(r)
    <2>1. ~Routed(q)
      BY <1>1, <1>3, KnownValues DEF Verify, Fail, Sensible, Routed
    <2>2. req' = [req EXCEPT ![r] = req'[r]] /\ req'[r].op = q.op
      BY <1>1, <1>3 DEF Verify, Fail, Typed, TypeOK, Request
    <2>3. ~Routed(req'[r])
      BY <2>1, <2>2 DEF Routed
    <2> QED
      BY <1>1, <2>2, <2>3, SignInKeepsAdmin
  <1> QED
    BY <1>2, <1>3

LEMMA RestartKeepsAdmin == ASSUME Typed, AdminInv, Restart PROVE AdminInv'
  <1>1. \A x \in Requests : Fresh(req'[x], acct')
    BY KnownValues, IdleIsFresh DEF Restart
  <1>2. ASSUME NEW a \in Users, acct[a].role = "admin" PROVE acct'[a].role = "admin"
    BY <1>2 DEF Restart, Exists
  <1> QED
    BY <1>1, <1>2 DEF AdminInv, AdminRemains, Restart

LEMMA FirstAdmin == Init => AdminInv
  <1> SUFFICES ASSUME Init PROVE AdminInv
      OBVIOUS
  <1>1. \A r \in Requests : Fresh(req[r], acct)
    BY KnownValues, IdleIsFresh DEF Init
  <1>2. \E u \in Users : acct[u].role = "admin"
    BY DEF Init, FreeRow
  <1> QED
    BY <1>1, <1>2 DEF AdminInv, AdminRemains

LEMMA StepsKeepAdmin ==
    ASSUME Typed, AdminInv, [Next]_vars PROVE AdminInv'
  <1>1. CASE UNCHANGED << acct, req, clashed >>
    BY <1>1 DEF AdminInv, AdminRemains
  <1>2. CASE Next
    <2>1. ASSUME NEW r \in Requests, NEW op \in Offered, NEW t \in Users,
                 \/ \E b \in Browsers : Ask(r, b, op, t)
                 \/ \E u \in Users : AskByToken(r, u, op, t)
          PROVE  AdminInv'
      BY <2>1, AuthorisedKeepsAdmin DEF Ask, AskByToken, Valid
    <2>2. ASSUME NEW r \in Requests,
                 ReadTarget(r) \/ WriteAccount(r) \/ WriteNewAccount(r)
          PROVE  AdminInv'
      BY <2>2, ReadTargetKeepsAdmin, WriteAccountKeepsAdmin,
         WriteNewAccountKeepsAdmin
    <2>3. ASSUME NEW b \in Browsers, TurnedAway(b) \/ SecondDropped(b) \/ Logout(b)
          PROVE  UNCHANGED << acct, req, clashed >>
      BY <2>3 DEF TurnedAway, SecondDropped, Logout
    <2>4. Tick => UNCHANGED << acct, req, clashed >>
      BY DEF Tick
    <2> QED
      BY <1>1, <1>2, <2>1, <2>2, <2>3, <2>4, AdmitKeepsAdmin, SigningInKeepsAdmin,
         RestartKeepsAdmin DEF Next
  <1> QED
    BY <1>1, <1>2 DEF vars

LEMMA AlwaysAdmin == Spec => []AdminInv
  BY FirstAdmin, StepsKeepAdmin, AlwaysTyped, PTL DEF Spec

\* The last-admin checks of change_role and delete_user keep an admin, as long as no
\* account is written from a row that another request changed meanwhile.
THEOREM AdminsRemain == Spec => []AdminRemains
  <1>1. AdminInv => AdminRemains
    BY DEF AdminInv
  <1> QED
    BY <1>1, AlwaysAdmin, PTL
--------------------------------------------------------------------------------
(* The number of a request in flight is in no row, and no other has it.         *)

Flying(q) == q.pc # "idle"

NumbersInv ==
    /\ \A u \in Users : acct[u].pw <= made
    /\ \A x \in Requests : req[x].row.pw <= made
    /\ \A r \in Requests : Flying(req[r]) =>
          /\ \A u \in Users : acct[u].pw # req[r].n
          /\ \A x \in Requests : req[x].row.pw # req[r].n
          /\ \A x \in Requests \ {r} : Flying(req[x]) => req[x].n # req[r].n

Passwords == {0} \cup {acct[u].pw : u \in Users}

LEMMA IntTypes ==
    ASSUME Typed
    PROVE  /\ made \in Nat /\ \A x \in Requests : req[x] \in Request /\ req[x].n \in Nat
                                                  /\ req[x].row \in Row /\ req[x].row.pw \in Nat
           /\ \A u \in Users : acct[u] \in Row /\ acct[u].pw \in Nat /\ acct[u].epoch \in Nat
           /\ \A x \in Requests : Flying(req[x]) => req[x].n \in 1..made
  BY DEF Typed, TypeOK, Request, Row, Sensible, Flying

\* One request moves on, or ends.
LEMMA NumberedRequest ==
    ASSUME Typed, NumbersInv, NEW r \in Requests, NEW q,
           req' = [req EXCEPT ![r] = q], UNCHANGED << acct, made >>,
           q.row.pw \in Passwords \cup {req[r].row.pw},
           Flying(q) => Flying(req[r]) /\ q.n = req[r].n
    PROVE  NumbersInv'
  <1>1. req'[r] = q /\ \A x \in Requests \ {r} : req'[x] = req[x]
    BY DEF Typed, TypeOK
  <1>2. q.row.pw \in Nat /\ q.row.pw <= made
    BY IntTypes DEF NumbersInv, Passwords
  <1>3. \A x \in Requests : Flying(req[x]) => q.row.pw # req[x].n
    BY IntTypes DEF NumbersInv, Passwords
  <1>4. \A x \in Requests : Flying(req'[x]) => Flying(req[x]) /\ req'[x].n = req[x].n
    BY <1>1
  <1>5. \A x \in Requests : req'[x].row.pw \in {req[x].row.pw, q.row.pw}
    BY <1>1
  <1> QED
    BY <1>2, <1>3, <1>4, <1>5, IntTypes DEF NumbersInv

LEMMA NumberedOpening ==
    ASSUME Typed, NumbersInv, NEW r \in Requests, NEW q \in Request,
           req' = [req EXCEPT ![r] = q], made' = made + 1, UNCHANGED acct,
           q.n = made + 1, q.row.pw \in Passwords
    PROVE  NumbersInv'
  <1>1. req'[r] = q /\ \A x \in Requests \ {r} : req'[x] = req[x]
    BY DEF Typed, TypeOK
  <1>2. q.row.pw \in Nat /\ q.row.pw <= made /\ made \in Nat
    BY IntTypes DEF NumbersInv, Passwords
  <1>3. ASSUME NEW x \in Requests PROVE req'[x].row.pw \in Nat /\ req'[x].row.pw <= made
    BY <1>1, <1>2, IntTypes DEF NumbersInv
  <1>4. ASSUME NEW x \in Requests, Flying(req'[x])
        PROVE  /\ \A u \in Users : acct'[u].pw # req'[x].n
               /\ \A y \in Requests : req'[y].row.pw # req'[x].n
               /\ \A y \in Requests \ {x} : Flying(req'[y]) => req'[y].n # req'[x].n
    <2>1. CASE x = r
      <3>1. req'[x].n = made + 1
        BY <1>1, <2>1
      <3>2. \A y \in Requests \ {x} : Flying(req'[y]) => req'[y].n \in 1..made
        BY <1>1, <2>1, IntTypes
      <3> QED
        BY <1>2, <1>3, <3>1, <3>2, IntTypes DEF NumbersInv
    <2>2. CASE x # r
      <3>1. req'[x] = req[x] /\ Flying(req[x]) /\ req[x].n \in 1..made
        BY <1>1, <1>4, <2>2, IntTypes
      <3>2. \A u \in Users : acct[u].pw # req[x].n
        BY <3>1 DEF NumbersInv
      <3>3. q.row.pw # req[x].n
        BY <3>1, <3>2 DEF Passwords
      <3>4. \A y \in Requests \ {x} : Flying(req'[y]) => req'[y].n # req'[x].n
        BY <1>1, <1>2, <3>1 DEF NumbersInv
      <3> QED
        BY <1>1, <3>1, <3>2, <3>3, <3>4 DEF NumbersInv
    <2> QED
      BY <2>1, <2>2
  <1> QED
    BY <1>2, <1>3, <1>4, IntTypes DEF NumbersInv

\* A request that ends may have put its number into a row.
LEMMA NumberedEnd ==
    ASSUME Typed, NumbersInv, NEW r \in Requests, Close(r), made' = made, Flying(req[r]),
           \A u \in Users : acct'[u].pw \in {acct[u].pw, req[r].row.pw, req[r].n, 0}
    PROVE  NumbersInv'
  <1>1. ASSUME NEW x \in Requests
        PROVE  /\ req'[x].row.pw \in {0, req[x].row.pw}
               /\ Flying(req'[x]) => x # r /\ Flying(req[x]) /\ req'[x].n = req[x].n
    <2>1. req'[x] = Idle \/ (x # r /\ req'[x] \in {req[x], [req[x] EXCEPT !.late = TRUE]})
      BY DEF Close
    <2>2. Idle.row.pw = 0 /\ Idle.pc = "idle"
      BY DEF Idle, FreeRow
    <2>3. [req[x] EXCEPT !.late = TRUE].row = req[x].row
          /\ [req[x] EXCEPT !.late = TRUE].n = req[x].n
          /\ [req[x] EXCEPT !.late = TRUE].pc = req[x].pc
      BY IntTypes DEF Request
    <2> QED
      BY <2>1, <2>2, <2>3 DEF Flying
  <1>2. \A u \in Users : acct'[u].pw <= made
    BY IntTypes DEF NumbersInv
  <1>3. \A x \in Requests : req'[x].row.pw <= made
    BY <1>1, IntTypes DEF NumbersInv
  <1>4. ASSUME NEW x \in Requests, Flying(req'[x])
        PROVE  /\ \A u \in Users : acct'[u].pw # req'[x].n
               /\ \A y \in Requests : req'[y].row.pw # req'[x].n
               /\ \A y \in Requests \ {x} : Flying(req'[y]) => req'[y].n # req'[x].n
    <2>1. x # r /\ Flying(req[x]) /\ req'[x].n = req[x].n /\ req[x].n \in 1..made
      BY <1>1, <1>4, IntTypes
    <2>2. /\ \A u \in Users : acct[u].pw # req[x].n
          /\ \A y \in Requests : req[y].row.pw # req[x].n
          /\ \A y \in Requests \ {x} : Flying(req[y]) => req[y].n # req[x].n
      BY <2>1 DEF NumbersInv
    <2>3. req[r].n # req[x].n /\ 0 # req[x].n
      BY <2>1, <2>2
    <2> QED
      BY <1>1, <2>1, <2>2, <2>3
  <1> QED
    BY <1>2, <1>3, <1>4 DEF NumbersInv

LEMMA AuthorisedIsNumbered ==
    ASSUME Typed, NumbersInv, NEW r \in Requests, NEW from \in Browsers \cup {Script},
           NEW jar \in Cookie, NEW by \in Users, NEW op \in Offered, NEW t \in Users,
           Authorised(r, from, jar, by, op, t)
    PROVE  NumbersInv'
  <1> DEFINE pc  == IF op \in Managing THEN "read" ELSE "write"
             new == [Idle EXCEPT !.op = op, !.from = from, !.jar = jar, !.by = by,
                       !.target = t, !.row = acct[by], !.n = made + 1, !.pc = pc]
  <1>1. req' = [req EXCEPT ![r] = new] /\ UNCHANGED acct /\ made' = made + 1
    BY DEF Authorised, Open, Idle
  <1>2. pc \in {"read", "write"} /\ op \in Ops /\ acct[by] \in Row /\ made + 1 \in Nat
    BY IntTypes, OfferedAssumption DEF Ops
  <1> HIDE DEF pc
  <1>3. new \in Request /\ new.n = made + 1 /\ new.row = acct[by]
    BY <1>2, KnownValues DEF Request
  <1> HIDE DEF new
  <1> QED
    BY <1>1, <1>3, NumberedOpening DEF Passwords

LEMMA AdmitIsNumbered ==
    ASSUME Typed, NumbersInv, NEW r \in Requests, NEW q \in Request, Admit(r, q),
           q.row.pw \in Passwords, UNCHANGED acct
    PROVE  NumbersInv'
  <1> DEFINE new == [q EXCEPT !.n = made + 1]
  <1>1. req' = [req EXCEPT ![r] = new] /\ made' = made + 1
    BY DEF Admit, Open
  <1>2. new \in Request /\ new.n = made + 1 /\ new.row = q.row
    BY IntTypes DEF Request
  <1> HIDE DEF new
  <1> QED
    BY <1>1, <1>2, NumberedOpening

LEMMA SignInIsNumbered ==
    ASSUME Typed, NumbersInv, NEW r \in Requests, NEW b \in Browsers,
           \/ \E u \in Users \cup {Nobody} : Login(r, b, u)
           \/ \E guess \in {0, Wrong} : SecondFactor(r, b, guess)
    PROVE  NumbersInv'
  <1>1. CASE \E u \in Users \cup {Nobody} : Login(r, b, u)
    <2>1. PICK u \in Users \cup {Nobody} : Login(r, b, u)
      BY <1>1
    <2> DEFINE guess == IF u = Nobody THEN Wrong ELSE acct[u].pw
               pc    == IF u = Nobody THEN "write" ELSE "verify"
               q     == [Idle EXCEPT !.op = "login", !.from = b, !.jar = cookie[b],
                           !.target = u, !.guess = guess, !.pc = pc]
    <2>2. guess \in Nat /\ cookie[b] \in Cookie /\ pc \in {"write", "verify"}
      BY KnownValues, IntTypes DEF Typed, TypeOK
    <2>3. Admit(r, q) /\ UNCHANGED acct
      BY <2>1 DEF Login
    <2> HIDE DEF guess, pc
    <2>4. q \in Request /\ q.row = FreeRow
      BY <2>2, KnownValues DEF Request, Ops, SignIn, Idle
    <2> HIDE DEF q
    <2>5. FreeRow.pw \in Passwords
      BY DEF FreeRow, Passwords
    <2> QED
      BY <2>3, <2>4, <2>5, AdmitIsNumbered
  <1>2. CASE \E guess \in {0, Wrong} : SecondFactor(r, b, guess)
    <2>1. PICK guess \in {0, Wrong} : SecondFactor(r, b, guess)
      BY <1>2
    <2> DEFINE u == cookie[b].pending
               q == [Idle EXCEPT !.op = "second", !.pc = "write", !.from = b,
                       !.jar = cookie[b], !.target = u, !.row = acct[u], !.guess = guess]
    <2>2. cookie[b] \in Cookie /\ guess \in Nat
      BY KnownValues DEF Typed, TypeOK
    <2>3. u \in Users /\ acct[u] \in Row
      BY <2>1, <2>2, IntTypes DEF SecondFactor, Cookie
    <2>4. Admit(r, q) /\ UNCHANGED acct
      BY <2>1 DEF SecondFactor
    <2> HIDE DEF u
    <2>5. q \in Request /\ q.row = acct[u]
      BY <2>2, <2>3, KnownValues DEF Request, Ops, SignIn
    <2> HIDE DEF q
    <2> QED
      BY <2>3, <2>4, <2>5, AdmitIsNumbered DEF Passwords
  <1> QED
    BY <1>1, <1>2

LEMMA IdleIsNumbered == Idle.row.pw = 0 /\ ~Flying(Idle)
  BY DEF Idle, FreeRow, Flying

LEMMA ReadingIsNumbered ==
    ASSUME Typed, NumbersInv, NEW r \in Requests,
           ReadTarget(r) \/ Verify(r) \/ Succeed(r) \/ Fail(r) \/ Count(r)
    PROVE  NumbersInv'
  <1> DEFINE q == req[r]
  <1>1. q \in Request /\ Sensible(q, made) /\ UNCHANGED << acct, made >>
    BY DEF ReadTarget, Verify, Succeed, Fail, Count, Typed, TypeOK
  <1>2. ASSUME req' = [req EXCEPT ![r] = Idle] PROVE NumbersInv'
    BY <1>1, <1>2, IdleIsNumbered, NumberedRequest DEF Passwords
  <1>3. CASE ReadTarget(r)
    <2> DEFINE own == q.target = q.by
               row == IF own THEN q.row ELSE acct[q.target]
               new == [q EXCEPT !.row = row, !.pc = "write", !.late = own /\ q.late]
    <2>1. q.pc = "read" /\ q.target \in Users
      BY <1>1, <1>3, KnownValues DEF ReadTarget, Sensible, Routed, Request, Ops, SignIn
    <2>2. row.pw \in Passwords \cup {q.row.pw} /\ new.row = row /\ new.n = q.n
      BY <1>1, <2>1 DEF Passwords, Request
    <2>3. req' = [req EXCEPT ![r] = Idle] \/ req' = [req EXCEPT ![r] = new]
      BY <1>3 DEF ReadTarget
    <2> HIDE DEF new
    <2> QED
      BY <1>1, <1>2, <2>1, <2>2, <2>3, NumberedRequest DEF Flying
  <1>4. CASE Verify(r)
    <2> DEFINE new == [q EXCEPT !.pc = "write", !.row = acct[q.target], !.late = FALSE]
    <2>1. q.pc = "verify" /\ q.target \in Users
      BY <1>1, <1>4, KnownValues DEF Verify, Sensible, Routed, Request, Ops, SignIn
    <2>2. new.row = acct[q.target] /\ new.n = q.n
      BY <1>1 DEF Request
    <2>3. req' = [req EXCEPT ![r] = new]
      BY <1>4 DEF Verify, Typed, TypeOK
    <2> HIDE DEF new
    <2> QED
      BY <1>1, <2>1, <2>2, <2>3, NumberedRequest DEF Flying, Passwords
  <1>5. CASE Fail(r)
    <2> DEFINE new == [q EXCEPT !.pc = "count", !.seen = lock[KeyOf(q)]]
    <2>1. new.row = q.row /\ new.n = q.n /\ q.pc = "write"
      BY <1>1, <1>5 DEF Request, Fail
    <2>2. req' = [req EXCEPT ![r] = new]
      BY <1>5 DEF Fail, Typed, TypeOK
    <2> HIDE DEF new
    <2> QED
      BY <1>1, <2>1, <2>2, NumberedRequest DEF Flying
  <1>6. CASE Succeed(r) \/ Count(r)
    BY <1>2, <1>6 DEF Succeed, Count
  <1> QED
    BY <1>3, <1>4, <1>5, <1>6

LEMMA WriteAccountIsNumbered ==
    ASSUME Typed, NumbersInv, NEW r \in Requests, WriteAccount(r) PROVE NumbersInv'
  <1> DEFINE q == req[r]
             t == q.target
  <1>1. q \in Request /\ q.pc = "write" /\ Routed(q) /\ Sensible(q, made)
    BY DEF WriteAccount, Typed, TypeOK, Routed
  <1>2. t \in Users /\ q.row \in Row /\ acct[t] \in Row /\ Changed(q) \in Row
    BY <1>1, ChangedIsRow DEF Sensible, Request, Typed, TypeOK
  <1>3. Changed(q).pw \in {q.row.pw, q.n}
    BY <1>2 DEF Changed, Row
  <1>4. Flush(acct[t], q.row, Changed(q)).pw \in {acct[t].pw, q.row.pw, q.n}
    BY <1>2, <1>3, FlushedRow
  <1>5. \A u \in Users : acct'[u].pw \in {acct[u].pw, q.row.pw, q.n, 0}
    BY <1>2, <1>4 DEF WriteAccount, Typed, TypeOK
  <1> QED
    BY <1>1, <1>5, NumberedEnd DEF WriteAccount, Flying

LEMMA WriteNewAccountIsNumbered ==
    ASSUME Typed, NumbersInv, NEW r \in Requests, WriteNewAccount(r) PROVE NumbersInv'
  <1> DEFINE q == req[r]
  <1>1. \A u \in Users : acct'[u].pw \in {acct[u].pw, q.row.pw, q.n, 0}
    <2>1. CASE acct[q.target].role = "free"
      <3>1. PICK role \in {"user", "admin"} :
                acct' = [acct EXCEPT ![q.target] = [FreeRow EXCEPT !.role = role, !.pw = q.n]]
        BY <2>1 DEF WriteNewAccount
      <3>2. [FreeRow EXCEPT !.role = role, !.pw = q.n].pw = q.n
        BY DEF FreeRow
      <3> QED
        BY <3>1, <3>2 DEF Typed, TypeOK
    <2>2. CASE acct[q.target].role # "free"
      BY <2>2 DEF WriteNewAccount
    <2> QED
      BY <2>1, <2>2
  <1> QED
    BY <1>1, NumberedEnd DEF WriteNewAccount, Flying

LEMMA RestartIsNumbered == ASSUME Typed, NumbersInv, Restart PROVE NumbersInv'
  <1>1. \A u \in Users : acct'[u].pw = acct[u].pw
    BY IntTypes DEF Restart, Row, Typed, TypeOK
  <1>2. \A x \in Requests : req'[x].row.pw = 0 /\ ~Flying(req'[x])
    BY IdleIsNumbered DEF Restart
  <1>3. made' = made /\ 0 <= made
    BY IntTypes DEF Restart
  <1> QED
    BY <1>1, <1>2, <1>3 DEF NumbersInv

LEMMA FirstNumbers == Init => NumbersInv
  <1> SUFFICES ASSUME Init PROVE NumbersInv
      OBVIOUS
  <1>1. \A u \in Users : acct[u].pw = 0
    BY DEF Init, FreeRow
  <1> QED
    BY <1>1, IdleIsNumbered DEF Init, NumbersInv

LEMMA AlwaysNumbered == Spec => []NumbersInv
  <1>1. ASSUME Typed, NumbersInv, [Next]_vars PROVE NumbersInv'
    <2>1. CASE UNCHANGED << acct, req, made >>
      BY <1>1, <2>1 DEF NumbersInv
    <2>2. CASE Next
      <3>1. ASSUME NEW r \in Requests, NEW op \in Offered, NEW t \in Users,
                   \/ \E b \in Browsers : Ask(r, b, op, t)
                   \/ \E u \in Users : AskByToken(r, u, op, t)
            PROVE  NumbersInv'
        <4>1. \A b \in Browsers : cookie[b] \in Cookie
          BY <1>1 DEF Typed, TypeOK
        <4> QED
          BY <1>1, <3>1, <4>1, KnownValues, AuthorisedIsNumbered DEF Ask, AskByToken, Valid
      <3>2. ASSUME NEW b \in Browsers, TurnedAway(b) \/ SecondDropped(b) \/ Logout(b)
            PROVE  UNCHANGED << acct, req, made >>
        BY <3>2 DEF TurnedAway, SecondDropped, Logout
      <3>3. Tick => UNCHANGED << acct, req, made >>
        BY DEF Tick
      <3> QED
        BY <1>1, <2>1, <2>2, <3>1, <3>2, <3>3, SignInIsNumbered, ReadingIsNumbered,
           WriteAccountIsNumbered, WriteNewAccountIsNumbered, RestartIsNumbered DEF Next
    <2> QED
      BY <1>1, <2>1, <2>2 DEF vars
  <1> QED
    BY <1>1, FirstNumbers, AlwaysTyped, PTL DEF Spec
--------------------------------------------------------------------------------
(* Sessions and passwords.                                                      *)

\* What somebody knows of an account is its present state, or carries an older epoch.
Current(u, a, ep, pw) == /\ a[u].role # "free" /\ ep <= a[u].epoch
                         /\ ep = a[u].epoch => pw = a[u].pw

Remembers(c, a, cl) == c.uid \in Users \ cl => Current(c.uid, a, c.ep, c.pw)

Knows(q, a, cl) ==
    Flying(q) => /\ Remembers(q.jar, a, cl)
                 /\ q.row.role # "free" /\ Owner(q) \in Users \ cl
                       => Current(Owner(q), a, q.row.epoch, q.row.pw)

SessionInv == /\ \A b \in Browsers : Remembers(cookie[b], acct, clashed)
              /\ \A r \in Requests : Knows(req[r], acct, clashed)

LEMMA SessionMoves ==
    ASSUME Typed, SessionInv, NEW r \in Requests, NEW q, req' = [req EXCEPT ![r] = q],
           UNCHANGED << acct, clashed >>, Knows(q, acct, clashed),
           NEW jar, Remembers(jar, acct, clashed), Respond(req[r], jar) \/ UNCHANGED cookie
    PROVE  SessionInv'
  <1>1. req'[r] = q /\ \A x \in Requests \ {r} : req'[x] = req[x]
    BY DEF Typed, TypeOK
  <1>2. \A x \in Requests : Knows(req'[x], acct', clashed')
    BY <1>1 DEF SessionInv
  <1>3. \A b \in Browsers : cookie'[b] = cookie[b] \/ cookie'[b] = jar
    BY DEF Respond, Typed, TypeOK
  <1>4. \A b \in Browsers : Remembers(cookie'[b], acct', clashed')
    BY <1>3 DEF SessionInv
  <1> QED
    BY <1>2, <1>4 DEF SessionInv

LEMMA NothingToKnow ==
    /\ \A a, cl : Remembers(Blank, a, cl) /\ Knows(Idle, a, cl)
    /\ FreeRow.role = "free"
  BY KnownValues, PartiesAssumption DEF Remembers, Knows, Flying

\* What an existing account is, is current.
LEMMA NowIsCurrent ==
    ASSUME Typed, NEW u \in Users, acct[u].role # "free"
    PROVE  Current(u, acct, acct[u].epoch, acct[u].pw)
  BY IntTypes DEF Current

LEMMA AuthorisedKeepsSessions ==
    ASSUME Typed, SessionInv, NEW r \in Requests, NEW from, NEW jar, NEW by \in Users,
           NEW op \in Offered, NEW t \in Users, Authorised(r, from, jar, by, op, t),
           Remembers(jar, acct, clashed)
    PROVE  SessionInv'
  <1> DEFINE new == [Idle EXCEPT !.op = op, !.from = from, !.jar = jar, !.by = by,
                       !.target = t, !.row = acct[by], !.n = made + 1,
                       !.pc = IF op \in Managing THEN "read" ELSE "write"]
  <1>1. req' = [req EXCEPT ![r] = new] /\ UNCHANGED << acct, clashed, cookie >>
    BY DEF Authorised, Open, Idle
  <1>2. /\ new.row = acct[by] /\ new.by = by /\ new.target = t /\ new.op = op
        /\ new.pc = (IF op \in Managing THEN "read" ELSE "write") /\ new.jar = jar
    BY DEF Idle
  <1>3. op \in Own => t = by
    BY DEF Authorised
  <1> HIDE DEF new
  <1>4. Owner(new) = by
    BY <1>2, <1>3, OfferedAssumption DEF Owner
  <1>5. Knows(new, acct, clashed)
    BY <1>2, <1>4, NowIsCurrent DEF Knows
  <1> QED
    BY <1>1, <1>5, SessionMoves

LEMMA ReadTargetKeepsSessions ==
    ASSUME Typed, SessionInv, NEW r \in Requests, ReadTarget(r) PROVE SessionInv'
  <1> DEFINE q   == req[r]
             own == q.target = q.by
             row == IF own THEN q.row ELSE acct[q.target]
             new == [q EXCEPT !.row = row, !.pc = "write", !.late = own /\ q.late]
  <1>1. q \in Request /\ Sensible(q, made) /\ q.pc = "read" /\ Knows(q, acct, clashed)
    BY DEF ReadTarget, Typed, TypeOK, SessionInv
  <1>2. q.target \in Users /\ q.by \in Users
    BY <1>1, KnownValues DEF Sensible, Routed, Request, Ops, SignIn
  <1>3. UNCHANGED << acct, clashed >> /\ Remembers(q.jar, acct, clashed)
    BY <1>1 DEF ReadTarget, Knows, Flying
  <1>4. CASE req' = [req EXCEPT ![r] = Idle] /\ Respond(q, q.jar)
    BY <1>3, <1>4, NothingToKnow, SessionMoves
  <1>5. CASE req' = [req EXCEPT ![r] = new] /\ UNCHANGED cookie
    <2>1. /\ new.row = row /\ new.pc = "write" /\ new.target = q.target
          /\ new.jar = q.jar
      BY <1>1 DEF Request
    <2>2. row.role # "free" /\ q.target \notin clashed
              => Current(q.target, acct, row.epoch, row.pw)
      BY <1>1, <1>2, NowIsCurrent DEF Knows, Flying, Owner
    <2> HIDE DEF new, row
    <2>3. Knows(new, acct, clashed)
      BY <1>3, <2>1, <2>2 DEF Knows, Owner
    <2> QED
      BY <1>3, <1>5, <2>3, SessionMoves
  <1> QED
    BY <1>4, <1>5 DEF ReadTarget

\* Writing an account leaves what others know of it behind by an epoch, or right.
LEMMA StaysCurrent ==
    ASSUME Typed, AdminInv, NEW r \in Requests, WriteAccount(r),
           NEW u \in Users, u \notin clashed', NEW ep \in Nat, NEW pw,
           Current(u, acct, ep, pw)
    PROVE  Current(u, acct', ep, pw)
  <1> DEFINE q == req[r]
             t == q.target
  <1>1. q \in Request /\ q.pc = "write" /\ Routed(q) /\ Fresh(q, acct) /\ Sensible(q, made)
    BY DEF WriteAccount, Typed, TypeOK, Routed, AdminInv
  <1>2. t \in Users /\ q.row \in Row /\ acct[t] \in Row /\ Changed(q) \in Row
    BY <1>1, ChangedIsRow DEF Sensible, Request, Typed, TypeOK
  <1>3. CASE acct'[u] = acct[u]
    BY <1>3 DEF Current
  <1>4. CASE acct'[u] # acct[u]
    <2>1. acct' = [acct EXCEPT ![t] = Flush(acct[t], q.row, Changed(q))] /\ acct' # acct
      BY <1>4 DEF WriteAccount
    <2>2. u = t
      BY <1>4, <2>1 DEF Typed, TypeOK
    <2>3. ~q.late
      BY <2>1, <2>2 DEF WriteAccount
    <2>4. q.row = acct[t]
      BY <1>1, <2>3 DEF Fresh, Owner
    <2>5. /\ acct'[u].role = Changed(q).role /\ acct'[u].epoch = Changed(q).epoch
          /\ acct'[u].pw = Changed(q).pw
      BY <1>2, <2>1, <2>2, <2>4, FlushedRow DEF Typed, TypeOK
    <2>6. /\ Changed(q).role \in {q.row.role, "user", "admin", "gone"}
          /\ \/ Changed(q).epoch = q.row.epoch /\ Changed(q).pw = q.row.pw
             \/ Changed(q).epoch = q.row.epoch + 1
      BY <1>2 DEF Changed, NewRole, NewEpoch, Row
    <2>7. q.row.epoch \in Nat
      BY <1>2 DEF Row
    <2> QED
      BY <2>2, <2>4, <2>5, <2>6, <2>7 DEF Current
  <1> QED
    BY <1>3, <1>4

\* Whoever changes their own password goes on with the session they leave behind.
LEMMA AdoptsTheEpoch ==
    ASSUME Typed, AdminInv, NumbersInv, SessionInv, NEW r \in Requests, WriteAccount(r),
           Exists(req[r].target)
    PROVE  Remembers(JarAfter(req[r]), acct', clashed')
  <1> DEFINE q == req[r]
             t == q.target
  <1>1. q \in Request /\ q.pc = "write" /\ Routed(q) /\ Fresh(q, acct) /\ Sensible(q, made)
        /\ Knows(q, acct, clashed)
    BY DEF WriteAccount, Typed, TypeOK, Routed, AdminInv, SessionInv
  <1>2. t \in Users /\ q.row \in Row /\ acct[t] \in Row /\ Changed(q) \in Row
        /\ q.jar \in Cookie /\ clashed \subseteq clashed'
    BY <1>1, ChangedIsRow DEF Sensible, Request, Typed, TypeOK, WriteAccount
  <1>3. acct' = [acct EXCEPT ![t] = Flush(acct[t], q.row, Changed(q))]
    BY DEF WriteAccount
  <1>4. CASE q.op = "password" \/ (q.op = "reset" /\ q.target = q.by)
    <2>1. JarAfter(q) = [q.jar EXCEPT !.ep = NewEpoch(q.row), !.pw = q.n]
      BY <1>4 DEF JarAfter
    <2>2. JarAfter(q).uid \in {t, Nobody} /\ JarAfter(q).ep = q.row.epoch + 1
          /\ JarAfter(q).pw = q.n
      BY <1>1, <1>2, <1>4, <2>1 DEF Sensible, Own, Cookie, NewEpoch
    <2>3. /\ Changed(q).role = q.row.role /\ Changed(q).epoch = q.row.epoch + 1
          /\ Changed(q).pw = q.n
      BY <1>2, <1>4 DEF Changed, NewEpoch, Row
    <2>4. q.n # q.row.pw /\ q.n # acct[t].pw
      BY <1>1, <1>2 DEF NumbersInv, Flying
    <2>5. acct'[t].pw = q.n /\ acct' # acct
      BY <1>2, <1>3, <2>3, <2>4, FlushedRow DEF Typed, TypeOK
    <2>6. ASSUME t \notin clashed' PROVE Current(t, acct', q.row.epoch + 1, q.n)
      <3>1. ~q.late
        BY <2>5, <2>6 DEF WriteAccount
      <3>2. q.row = acct[t]
        BY <1>1, <3>1 DEF Fresh, Owner
      <3>3. acct'[t].role = acct[t].role /\ acct'[t].epoch = q.row.epoch + 1
        BY <1>2, <1>3, <2>3, <3>2, FlushedRow DEF Typed, TypeOK
      <3>4. q.row.epoch + 1 \in Nat /\ acct[t].role # "free"
        BY <1>2 DEF Row, Exists
      <3> QED
        BY <2>5, <3>3, <3>4 DEF Current
    <2> QED
      BY <2>2, <2>6, PartiesAssumption DEF Remembers
  <1>5. CASE ~(q.op = "password" \/ (q.op = "reset" /\ q.target = q.by))
    <2>1. /\ JarAfter(q).uid = q.jar.uid /\ JarAfter(q).ep = q.jar.ep
          /\ JarAfter(q).pw = q.jar.pw
      BY <1>2, <1>5 DEF JarAfter, Cookie
    <2>2. Remembers(q.jar, acct, clashed) /\ q.jar.ep \in Nat
      BY <1>1, <1>2 DEF Knows, Flying, Cookie
    <2> QED
      BY <1>2, <2>1, <2>2, StaysCurrent DEF Remembers
  <1> QED
    BY <1>4, <1>5

\* A request that ends, for any change under which knowledge stays current.
LEMMA ClosingKeepsSessions ==
    ASSUME Typed, SessionInv, NEW r \in Requests, Close(r), clashed \subseteq clashed',
           NEW jar, Respond(req[r], jar) \/ UNCHANGED cookie,
           Respond(req[r], jar) => Remembers(jar, acct', clashed'),
           \A u \in Users \ clashed', ep \in Nat, pw \in Nat :
               Current(u, acct, ep, pw) => Current(u, acct', ep, pw)
    PROVE  SessionInv'
  <1>1. ASSUME NEW c \in Cookie, Remembers(c, acct, clashed)
        PROVE  Remembers(c, acct', clashed')
    BY <1>1 DEF Remembers, Cookie
  <1>2. ASSUME NEW b \in Browsers PROVE Remembers(cookie'[b], acct', clashed')
    <2>1. cookie[b] \in Cookie /\ Remembers(cookie[b], acct, clashed)
      BY DEF Typed, TypeOK, SessionInv
    <2>2. \/ cookie'[b] = cookie[b]
          \/ cookie'[b] = jar /\ Respond(req[r], jar)
      BY DEF Respond, Typed, TypeOK
    <2> QED
      BY <1>1, <2>1, <2>2
  <1>3. ASSUME NEW x \in Requests PROVE Knows(req'[x], acct', clashed')
    <2>1. req[x] \in Request /\ Knows(req[x], acct, clashed)
      BY DEF Typed, TypeOK, SessionInv
    <2>2. req'[x] = Idle \/ req'[x] = req[x] \/ req'[x] = [req[x] EXCEPT !.late = TRUE]
      BY DEF Close
    <2>3. CASE req'[x] = Idle
      BY <2>3, NothingToKnow
    <2>4. CASE req'[x] # Idle
      <3>1. /\ req'[x].pc = req[x].pc /\ req'[x].jar = req[x].jar
            /\ req'[x].row = req[x].row /\ Owner(req'[x]) = Owner(req[x])
        BY <2>1, <2>2, <2>4 DEF Request, Owner
      <3>2. req[x].jar \in Cookie /\ req[x].row.epoch \in Nat /\ req[x].row.pw \in Nat
        BY <2>1 DEF Request, Row
      <3> QED
        BY <1>1, <2>1, <3>1, <3>2 DEF Knows, Flying
    <2> QED
      BY <2>3, <2>4
  <1> QED
    BY <1>2, <1>3 DEF SessionInv

LEMMA WriteAccountKeepsSessions ==
    ASSUME Typed, AdminInv, NumbersInv, SessionInv, NEW r \in Requests, WriteAccount(r)
    PROVE  SessionInv'
  <1>1. Close(r) /\ clashed \subseteq clashed'
    BY DEF WriteAccount
  <1>2. \A u \in Users \ clashed', ep \in Nat, pw \in Nat :
            Current(u, acct, ep, pw) => Current(u, acct', ep, pw)
    BY StaysCurrent
  <1>3. CASE Exists(req[r].target)
    <2>1. Respond(req[r], JarAfter(req[r]))
      BY <1>3 DEF WriteAccount
    <2> QED
      BY <1>1, <1>2, <1>3, <2>1, AdoptsTheEpoch, ClosingKeepsSessions
  <1>4. CASE ~Exists(req[r].target)
    <2>1. UNCHANGED << acct, clashed, cookie >>
      BY <1>4 DEF WriteAccount
    <2>2. Remembers(Blank, acct', clashed')
      BY NothingToKnow
    <2> QED
      BY <1>1, <1>2, <2>1, <2>2, ClosingKeepsSessions
  <1> QED
    BY <1>3, <1>4

LEMMA WriteNewAccountKeepsSessions ==
    ASSUME Typed, SessionInv, NEW r \in Requests, WriteNewAccount(r) PROVE SessionInv'
  <1> DEFINE q == req[r]
  <1>1. Close(r) /\ clashed' = clashed
    BY DEF WriteNewAccount
  <1>2. \A u \in Users : acct[u].role # "free" => acct'[u] = acct[u]
    BY DEF WriteNewAccount, Typed, TypeOK
  <1>3. \A u \in Users \ clashed', ep \in Nat, pw \in Nat :
            Current(u, acct, ep, pw) => Current(u, acct', ep, pw)
    BY <1>2 DEF Current
  <1>4. Remembers(q.jar, acct, clashed)
    BY DEF WriteNewAccount, SessionInv, Knows, Flying
  <1>5. Remembers(q.jar, acct', clashed')
    BY <1>1, <1>2, <1>4 DEF Remembers, Current
  <1>6. Respond(q, q.jar) \/ UNCHANGED cookie
    BY DEF WriteNewAccount
  <1> QED
    BY <1>1, <1>3, <1>5, <1>6, ClosingKeepsSessions

LEMMA LoginKeepsSessions ==
    ASSUME Typed, SessionInv, NEW r \in Requests, NEW b \in Browsers,
           NEW u \in Users \cup {Nobody}, Login(r, b, u)
    PROVE  SessionInv'
  <1> DEFINE new == [Idle EXCEPT !.op = "login", !.from = b, !.jar = cookie[b],
                       !.target = u, !.guess = IF u = Nobody THEN Wrong ELSE acct[u].pw,
                       !.pc = IF u = Nobody THEN "write" ELSE "verify", !.n = made + 1]
  <1>1. req' = [req EXCEPT ![r] = new] /\ UNCHANGED << acct, clashed, cookie >>
    BY DEF Login, Admit, Open, Idle
  <1>2. new.row = FreeRow /\ new.jar = cookie[b]
    BY DEF Idle
  <1>3. Remembers(cookie[b], acct, clashed)
    BY DEF SessionInv
  <1> HIDE DEF new
  <1>4. Knows(new, acct, clashed)
    BY <1>2, <1>3, NothingToKnow DEF Knows
  <1> QED
    BY <1>1, <1>3, <1>4, SessionMoves

LEMMA SecondFactorKeepsSessions ==
    ASSUME Typed, SessionInv, NEW r \in Requests, NEW b \in Browsers,
           NEW guess \in {0, Wrong}, SecondFactor(r, b, guess)
    PROVE  SessionInv'
  <1> DEFINE u   == cookie[b].pending
             new == [Idle EXCEPT !.op = "second", !.pc = "write", !.from = b,
                       !.jar = cookie[b], !.target = u, !.row = acct[u], !.guess = guess,
                       !.n = made + 1]
  <1>1. req' = [req EXCEPT ![r] = new] /\ UNCHANGED << acct, clashed, cookie >>
    BY DEF SecondFactor, Admit, Open, Idle
  <1>2. /\ new.row = acct[u] /\ new.jar = cookie[b] /\ new.pc = "write" /\ new.target = u
    BY DEF Idle
  <1>3. Remembers(cookie[b], acct, clashed)
    BY DEF SessionInv
  <1> HIDE DEF new, u
  <1>4. Knows(new, acct, clashed)
    BY <1>2, <1>3, NowIsCurrent DEF Knows, Owner
  <1> QED
    BY <1>1, <1>3, <1>4, SessionMoves

LEMMA SignedInIsCurrent ==
    ASSUME Typed, SessionInv, NEW r \in Requests, Succeed(r)
    PROVE  Remembers(SignedIn(req[r]), acct, clashed)
  <1> DEFINE q == req[r]
  <1>1. q \in Request /\ Sensible(q, made) /\ Knows(q, acct, clashed) /\ q.pc = "write"
        /\ q.op \in SignIn /\ Proven(q)
    BY DEF Succeed, Typed, TypeOK, SessionInv
  <1>2. q.jar \in Cookie /\ q.row \in Row /\ Remembers(q.jar, acct, clashed)
    BY <1>1 DEF Request, Knows, Flying
  <1>3. CASE q.op = "login" /\ q.row.totp
    <2>1. /\ SignedIn(q).uid = q.jar.uid /\ SignedIn(q).ep = q.jar.ep
          /\ SignedIn(q).pw = q.jar.pw
      BY <1>2, <1>3 DEF SignedIn, Cookie
    <2> QED
      BY <1>2, <2>1 DEF Remembers
  <1>4. CASE ~(q.op = "login" /\ q.row.totp)
    <2>1. /\ SignedIn(q).uid = q.target /\ SignedIn(q).ep = q.row.epoch
          /\ SignedIn(q).pw = q.row.pw
      BY <1>2, <1>4 DEF SignedIn, Cookie
    <2>2. q.row.role # "free"
      BY <1>1 DEF Proven, Sensible, SignIn
    <2>3. q.target \in Users \ clashed => Current(q.target, acct, q.row.epoch, q.row.pw)
      BY <1>1, <2>2 DEF Knows, Flying, Owner
    <2> QED
      BY <2>1, <2>3 DEF Remembers
  <1> QED
    BY <1>3, <1>4

LEMMA SigningInKeepsSessions ==
    ASSUME Typed, SessionInv, NEW r \in Requests,
           Verify(r) \/ Succeed(r) \/ Fail(r) \/ Count(r)
    PROVE  SessionInv'
  <1> DEFINE q == req[r]
  <1>1. q \in Request /\ Sensible(q, made) /\ Knows(q, acct, clashed) /\ Flying(q)
        /\ UNCHANGED << acct, clashed >>
    BY DEF Verify, Succeed, Fail, Count, Typed, TypeOK, SessionInv, Flying
  <1>2. Remembers(q.jar, acct, clashed)
    BY <1>1 DEF Knows
  <1>3. CASE Verify(r)
    <2> DEFINE new == [q EXCEPT !.pc = "write", !.row = acct[q.target], !.late = FALSE]
    <2>1. q.target \in Users
      BY <1>1, <1>3, KnownValues DEF Verify, Sensible, Routed, Request, Ops, SignIn
    <2>2. /\ new.row = acct[q.target] /\ new.jar = q.jar /\ new.pc = "write"
          /\ new.target = q.target
      BY <1>1 DEF Request
    <2>3. req' = [req EXCEPT ![r] = new] /\ UNCHANGED cookie
      BY <1>3 DEF Verify, Typed, TypeOK
    <2> HIDE DEF new
    <2>4. Knows(new, acct, clashed)
      BY <1>2, <2>1, <2>2, NowIsCurrent DEF Knows, Owner
    <2> QED
      BY <1>1, <1>2, <2>3, <2>4, SessionMoves
  <1>4. CASE Fail(r)
    <2> DEFINE new == [q EXCEPT !.pc = "count", !.seen = lock[KeyOf(q)]]
    <2>1. /\ new.row = q.row /\ new.jar = q.jar /\ new.target = q.target /\ new.pc = "count"
          /\ q.pc = "write"
      BY <1>1, <1>4 DEF Request, Fail
    <2>2. req' = [req EXCEPT ![r] = new] /\ UNCHANGED cookie
      BY <1>4 DEF Fail, Typed, TypeOK
    <2> HIDE DEF new
    <2>3. Knows(new, acct, clashed)
      BY <1>1, <2>1 DEF Knows, Owner, Flying
    <2> QED
      BY <1>1, <1>2, <2>2, <2>3, SessionMoves
  <1>5. CASE Succeed(r)
    BY <1>1, <1>5, SignedInIsCurrent, NothingToKnow, SessionMoves DEF Succeed
  <1>6. CASE Count(r)
    <2>1. AskedAgain(q) = q.jar \/ AskedAgain(q) = Blank
      BY DEF AskedAgain, Shown
    <2>2. Remembers(AskedAgain(q), acct, clashed)
      BY <1>2, <2>1, NothingToKnow
    <2>3. req' = [req EXCEPT ![r] = Idle] /\ (UNCHANGED cookie \/ Respond(q, AskedAgain(q)))
      BY <1>6 DEF Count
    <2> QED
      BY <1>1, <2>2, <2>3, NothingToKnow, SessionMoves
  <1> QED
    BY <1>3, <1>4, <1>5, <1>6

LEMMA BrowserKeepsSessions ==
    ASSUME Typed, SessionInv, NEW b \in Browsers, TurnedAway(b) \/ SecondDropped(b) \/ Logout(b)
    PROVE  SessionInv'
  <1>1. UNCHANGED << acct, clashed, req >> /\ cookie' = [cookie EXCEPT ![b] = Blank]
    BY DEF TurnedAway, SecondDropped, Logout
  <1>2. \A x \in Browsers : cookie'[x] \in {cookie[x], Blank}
    BY <1>1 DEF Typed, TypeOK
  <1> QED
    BY <1>1, <1>2, NothingToKnow DEF SessionInv

LEMMA RestartKeepsSessions == ASSUME Typed, SessionInv, Restart PROVE SessionInv'
  <1>1. \A u \in Users : acct[u].role # "free" => acct'[u] = acct[u]
    BY DEF Restart, Typed, TypeOK
  <1>2. \A b \in Browsers : Remembers(cookie'[b], acct', clashed')
    BY <1>1 DEF Restart, SessionInv, Remembers, Current
  <1>3. \A x \in Requests : Knows(req'[x], acct', clashed')
    BY NothingToKnow DEF Restart
  <1> QED
    BY <1>2, <1>3 DEF SessionInv

LEMMA FirstSessions == Init => SessionInv
  <1> SUFFICES ASSUME Init PROVE SessionInv
      OBVIOUS
  <1>1. \A u \in Users : acct[u].pw = 0 /\ acct[u].epoch = 0
    BY DEF Init, FreeRow
  <1>2. ASSUME NEW b \in Browsers PROVE Remembers(cookie[b], acct, clashed)
    <2>1. \/ cookie[b] = Blank
          \/ \E u \in Users : Exists(u) /\ cookie[b] = [Blank EXCEPT !.uid = u]
      BY DEF Init
    <2>2. ASSUME NEW u \in Users, Exists(u), cookie[b] = [Blank EXCEPT !.uid = u]
          PROVE  Remembers(cookie[b], acct, clashed)
      <3>1. cookie[b].uid = u /\ cookie[b].ep = 0 /\ cookie[b].pw = 0
        BY <2>2 DEF Blank
      <3> QED
        BY <1>1, <2>2, <3>1 DEF Remembers, Current, Exists
    <2> QED
      BY <2>1, <2>2, NothingToKnow
  <1>3. \A r \in Requests : Knows(req[r], acct, clashed)
    BY NothingToKnow DEF Init
  <1> QED
    BY <1>2, <1>3 DEF SessionInv

\* A password change signs every other session out: the epoch it counts up and the one
\* each session carries keep them apart (deps.current_user), whatever sign-ins and slow
\* responses cross it, for accounts that no two requests changed at once.
THEOREM SessionsAreCurrent == Spec => []SessionsFollowPasswords
  <1>1. ASSUME Typed, AdminInv, NumbersInv, SessionInv, [Next]_vars PROVE SessionInv'
    <2>1. CASE UNCHANGED << acct, req, cookie, clashed >>
      BY <1>1, <2>1 DEF SessionInv
    <2>2. CASE Next
      <3>1. ASSUME NEW r \in Requests, NEW op \in Offered, NEW t \in Users,
                   \/ \E b \in Browsers : Ask(r, b, op, t)
                   \/ \E u \in Users : AskByToken(r, u, op, t)
            PROVE  SessionInv'
        <4>1. \A b \in Browsers : Remembers(cookie[b], acct, clashed)
          BY <1>1 DEF SessionInv
        <4> QED
          BY <1>1, <3>1, <4>1, NothingToKnow, AuthorisedKeepsSessions
             DEF Ask, AskByToken, Valid
      <3>2. Tick => UNCHANGED << acct, req, cookie, clashed >>
        BY DEF Tick
      <3> QED
        BY <1>1, <2>1, <2>2, <3>1, <3>2, ReadTargetKeepsSessions, WriteAccountKeepsSessions,
           WriteNewAccountKeepsSessions, LoginKeepsSessions, SecondFactorKeepsSessions,
           SigningInKeepsSessions, BrowserKeepsSessions, RestartKeepsSessions DEF Next
    <2> QED
      BY <1>1, <2>1, <2>2 DEF vars
  <1>2. SessionInv => SessionsFollowPasswords
    BY DEF SessionInv, SessionsFollowPasswords, Remembers, Current, Valid
  <1> QED
    BY <1>1, <1>2, FirstSessions, AlwaysTyped, AlwaysAdmin, AlwaysNumbered, PTL DEF Spec
--------------------------------------------------------------------------------
(* The throttle.                                                                *)

Recent(w, t) == {x \in w : x.at + Window > t}

\* What a row of the table promises of the wrong answers w at time t: it counts those
\* of the window, and once the key is locked, or the row is gone, none is left out.
RowSound(row, w, t) ==
    /\ IsFiniteSet(w) /\ row.last <= t
    /\ \A x \in w : x.at + Window <= t \/ (HasRow(row) /\ x.at <= row.last)
    /\ row.until = 0 => row.count < MaxFailures /\ Cardinality(Recent(w, t)) <= row.count
    /\ row.until # 0 => /\ HasRow(row) /\ row.until = row.last + Lockout
                        /\ Cardinality(Recent(w, t)) <= MaxFailures

Signing(q, k) == q.op \in SignIn /\ KeyOf(q) = k

\* A key is signed in with once at a time, when it is not locked, and nobody else
\* changes its row between record_failure's read and its commit.
Undisturbed(rq, k, row) ==
    \A r \in Requests : Signing(rq[r], k) =>
        /\ row.until = 0
        /\ rq[r].pc = "count" => rq[r].seen = row
        /\ \A x \in Requests : Signing(rq[x], k) => x = r

ThrottleInv == \A k \in Keys \ raced : /\ RowSound(lock[k], wrong[k], now)
                                       /\ Undisturbed(req, k, lock[k])

Answers == SUBSET [n : Nat, at : Nat]

LEMMA RecentFew ==
    ASSUME NEW w \in Answers, IsFiniteSet(w), NEW t \in Nat
    PROVE  /\ IsFiniteSet(Recent(w, t)) /\ Cardinality(Recent(w, t)) \in Nat
           /\ Cardinality(Recent(w, t + 1)) <= Cardinality(Recent(w, t))
           /\ \A x : x.at = t =>
                 Cardinality(Recent(w \cup {x}, t)) <= Cardinality(Recent(w, t)) + 1
  <1>1. IsFiniteSet(Recent(w, t)) /\ Cardinality(Recent(w, t)) \in Nat
    BY FS_Subset, FS_CardinalityType DEF Recent
  <1>2. Recent(w, t + 1) \subseteq Recent(w, t)
    BY ThrottleAssumption DEF Recent, Answers
  <1>3. ASSUME NEW x
        PROVE  Cardinality(Recent(w \cup {x}, t)) <= Cardinality(Recent(w, t)) + 1
    <2> DEFINE R == Recent(w, t)
               S == R \cup {x}
    <2>1. Recent(w \cup {x}, t) \subseteq S
      BY DEF Recent
    <2>2. IsFiniteSet(R) /\ Cardinality(R) \in Nat
      BY <1>1
    <2> HIDE DEF R
    <2>3. IsFiniteSet(S) /\ (Cardinality(S) = Cardinality(R) \/ Cardinality(S) = Cardinality(R) + 1)
      BY <2>2, FS_AddElement
    <2>4. IsFiniteSet(S) /\ Cardinality(S) <= Cardinality(R) + 1 /\ Cardinality(S) \in Nat
      BY <2>2, <2>3, FS_CardinalityType
    <2> HIDE DEF S
    <2>5. Cardinality(Recent(w \cup {x}, t)) <= Cardinality(S)
          /\ Cardinality(Recent(w \cup {x}, t)) \in Nat
      BY <2>1, <2>4, FS_Subset, FS_CardinalityType
    <2> QED
      BY <2>2, <2>4, <2>5 DEF R
  <1> QED
    BY <1>1, <1>2, <1>3, FS_Subset

LEMMA AnswersGrowOld ==
    ASSUME NEW row \in LockRow, NEW w \in Answers, NEW t \in Nat, RowSound(row, w, t)
    PROVE  RowSound(row, w, t + 1)
  <1>1. IsFiniteSet(w) /\ Cardinality(Recent(w, t)) \in Nat
        /\ Cardinality(Recent(w, t + 1)) \in Nat
        /\ Cardinality(Recent(w, t + 1)) <= Cardinality(Recent(w, t))
    BY RecentFew DEF RowSound
  <1>2. \A x \in w : x.at + Window <= t => x.at + Window <= t + 1
    BY ThrottleAssumption DEF Answers
  <1>3. row.last \in Nat /\ row.count \in Nat /\ row.until \in Nat
    BY DEF LockRow
  <1> QED
    BY <1>1, <1>2, <1>3, ThrottleAssumption DEF RowSound

\* Outside the window of the row's last failure no answer is recent.
LEMMA NothingRecent ==
    ASSUME NEW row \in LockRow, NEW w \in Answers, NEW t \in Nat, RowSound(row, w, t),
           Aged(row, t)
    PROVE  \A x \in w : x.at + Window <= t
  <1>1. row.last \in Nat /\ row.last + Window <= t /\ Window \in Nat
    BY ThrottleAssumption DEF LockRow, Aged
  <1>2. \A x \in w : x.at \in Nat
    BY DEF Answers
  <1> QED
    BY <1>1, <1>2 DEF RowSound

LEMMA NoneRecent ==
    ASSUME NEW w \in Answers, NEW t \in Nat, \A x \in w : x.at + Window <= t
    PROVE  Recent(w, t) = {} /\ Cardinality(Recent(w, t)) = 0
  <1>1. Recent(w, t) = {}
    BY ThrottleAssumption DEF Recent, Answers
  <1> QED
    BY <1>1, FS_EmptySet

LEMMA ClearRowSound ==
    ASSUME NEW w \in Answers, NEW t \in Nat, IsFiniteSet(w), \A x \in w : x.at + Window <= t
    PROVE  RowSound(NoFailures, w, t)
  BY NoneRecent, ThrottleAssumption DEF RowSound, NoFailures

\* retry_after: past a lockout, which is no shorter than the window, the row is out
\* of its window as well and goes.
LEMMA PrunedRowSound ==
    ASSUME NEW row \in LockRow, NEW w \in Answers, NEW t \in Nat, RowSound(row, w, t),
           ~Locked(row, t)
    PROVE  RowSound(Pruned(row, t), w, t) /\ Pruned(row, t).until = 0
  <1>1. CASE Aged(row, t)
    <2>1. Pruned(row, t) = NoFailures /\ NoFailures.until = 0
      BY <1>1 DEF Pruned, NoFailures
    <2> QED
      BY <1>1, <2>1, NothingRecent, ClearRowSound DEF RowSound
  <1>2. CASE ~Aged(row, t)
    <2>1. row.until \in Nat /\ row.last \in Nat
      BY DEF LockRow
    <2>2. row.until # 0 => Aged(row, t)
      BY <2>1, ThrottleAssumption DEF RowSound, Aged, Locked
    <2> QED
      BY <1>2, <2>2 DEF Pruned
  <1> QED
    BY <1>1, <1>2

\* record_failure counts the answer it is called for.
LEMMA FailedRowSound ==
    ASSUME NEW row \in LockRow, NEW w \in Answers, NEW t \in Nat \ {0},
           RowSound(row, w, t), row.until = 0, NEW n \in Nat
    PROVE  RowSound(Failed(row, t), w \cup {[n |-> n, at |-> t]}, t)
  <1> DEFINE count == (IF Aged(row, t) THEN 0 ELSE row.count) + 1
             x     == [n |-> n, at |-> t]
             all   == w \cup {x}
             new   == Failed(row, t)
  <1>1. row.count \in Nat /\ row.last \in Nat /\ IsFiniteSet(w) /\ IsFiniteSet(all)
        /\ row.count < MaxFailures /\ Cardinality(Recent(w, t)) <= row.count
        /\ Cardinality(Recent(w, t)) \in Nat
    BY RecentFew, FS_AddElement DEF RowSound, LockRow
  <1>2. Aged(row, t) => Cardinality(Recent(w, t)) = 0
    BY NothingRecent, NoneRecent
  <1>3. Cardinality(Recent(all, t)) <= Cardinality(Recent(w, t)) + 1 /\ x.at = t
    BY <1>1, RecentFew
  <1>4. all \in Answers /\ Cardinality(Recent(all, t)) \in Nat
    <2>1. all \in Answers
      BY DEF Answers
    <2> QED
      BY <1>1, <2>1, RecentFew
  <1>5. count \in Nat /\ Cardinality(Recent(all, t)) <= count /\ count <= MaxFailures
    BY <1>1, <1>2, <1>3, <1>4, ThrottleAssumption
  <1>6. \A y \in all : y.at \in Nat /\ (y.at + Window <= t \/ y.at <= t)
    <2>1. \A y \in w : y.at \in Nat
      BY DEF Answers
    <2> QED
      BY <1>1, <2>1, ThrottleAssumption DEF RowSound
  <1>7. new = IF count >= MaxFailures THEN [count |-> 0, last |-> t, until |-> t + Lockout]
              ELSE [row EXCEPT !.count = count, !.last = t]
    BY DEF Failed
  <1> HIDE DEF count, x, all, new
  <1>8. new.last = t /\ HasRow(new)
    BY <1>7 DEF LockRow, HasRow
  <1>9. CASE count >= MaxFailures
    <2>1. new.until = t + Lockout /\ new.until # 0
      BY <1>7, <1>9, ThrottleAssumption
    <2> QED
      BY <1>1, <1>4, <1>5, <1>6, <1>8, <2>1, ThrottleAssumption DEF RowSound, all, x, new
  <1>10. CASE ~(count >= MaxFailures)
    <2>1. new.until = 0 /\ new.count = count
      BY <1>7, <1>10 DEF LockRow
    <2> QED
      BY <1>1, <1>5, <1>6, <1>8, <1>10, <2>1, ThrottleAssumption DEF RowSound, all, x, new
  <1> QED
    BY <1>9, <1>10

\* A step that leaves the rows alone and starts no sign-in.
LEMMA NoNewSignIn ==
    ASSUME ThrottleInv, UNCHANGED << lock, wrong, now, raced >>,
           \A x \in Requests, k \in Keys : Signing(req'[x], k) =>
               /\ Signing(req[x], k)
               /\ req'[x].pc = "count" =>
                     \/ req'[x].seen = lock[k]
                     \/ req[x].pc = "count" /\ req'[x].seen = req[x].seen
    PROVE  ThrottleInv'
  BY DEF ThrottleInv, Undisturbed

LEMMA OnlyOneMoves ==
    ASSUME Typed, NEW r \in Requests, NEW q, req' = [req EXCEPT ![r] = q]
    PROVE  req'[r] = q /\ \A x \in Requests \ {r} : req'[x] = req[x]
  BY DEF Typed, TypeOK

LEMMA IdleSignsNothing == \A k : ~Signing(Idle, k)
  BY KnownValues DEF Signing

LEMMA AuthorisedKeepsThrottle ==
    ASSUME Typed, ThrottleInv, NEW r \in Requests, NEW from, NEW jar, NEW by,
           NEW op \in Offered, NEW t, Authorised(r, from, jar, by, op, t)
    PROVE  ThrottleInv'
  <1> DEFINE new == [Idle EXCEPT !.op = op, !.from = from, !.jar = jar, !.by = by,
                       !.target = t, !.row = acct[by], !.n = made + 1,
                       !.pc = IF op \in Managing THEN "read" ELSE "write"]
  <1>1. req' = [req EXCEPT ![r] = new] /\ UNCHANGED << lock, wrong, now, raced >>
    BY DEF Authorised, Open, Idle
  <1>2. new.op = op
    BY DEF Idle
  <1> HIDE DEF new
  <1>3. \A k : ~Signing(new, k)
    BY <1>2, KnownValues, OfferedAssumption DEF Signing
  <1> QED
    BY <1>1, <1>3, OnlyOneMoves, NoNewSignIn

LEMMA WritingKeepsThrottle ==
    ASSUME Typed, ThrottleInv, NEW r \in Requests,
           ReadTarget(r) \/ WriteAccount(r) \/ WriteNewAccount(r)
    PROVE  ThrottleInv'
  <1> DEFINE q == req[r]
  <1>1. UNCHANGED << lock, wrong, now, raced >>
    BY DEF ReadTarget, WriteAccount, WriteNewAccount
  <1>2. CASE ReadTarget(r)
    <2> DEFINE own == q.target = q.by
               row == IF own THEN q.row ELSE acct[q.target]
               new == [q EXCEPT !.row = row, !.pc = "write", !.late = own /\ q.late]
    <2>1. q \in Request /\ Sensible(q, made) /\ q.pc = "read"
      BY <1>2 DEF ReadTarget, Typed, TypeOK
    <2>2. new.op = q.op /\ q.op \notin SignIn
      BY <2>1 DEF Sensible, Request
    <2>3. req' = [req EXCEPT ![r] = Idle] \/ req' = [req EXCEPT ![r] = new]
      BY <1>2 DEF ReadTarget
    <2> HIDE DEF new
    <2>4. \A k : ~Signing(new, k)
      BY <2>2 DEF Signing
    <2> QED
      BY <1>1, <2>3, <2>4, IdleSignsNothing, OnlyOneMoves, NoNewSignIn
  <1>3. CASE Close(r)
    <2>1. ASSUME NEW x \in Requests, NEW k \in Keys, Signing(req'[x], k)
          PROVE  /\ Signing(req[x], k)
                 /\ req'[x].pc = req[x].pc /\ req'[x].seen = req[x].seen
      <3>1. req[x] \in Request
        BY DEF Typed, TypeOK
      <3>2. req'[x] \in {Idle, req[x], [req[x] EXCEPT !.late = TRUE]}
        BY <1>3 DEF Close
      <3>3. req'[x] # Idle
        BY <2>1, IdleSignsNothing
      <3> QED
        BY <2>1, <3>1, <3>2, <3>3 DEF Signing, KeyOf, Request
    <2> QED
      BY <1>1, <2>1, NoNewSignIn
  <1> QED
    BY <1>2, <1>3 DEF WriteAccount, WriteNewAccount

LEMMA VerifyKeepsThrottle ==
    ASSUME Typed, ThrottleInv, NEW r \in Requests, Verify(r) \/ Fail(r) PROVE ThrottleInv'
  <1> DEFINE q    == req[r]
             one  == [q EXCEPT !.pc = "write", !.row = acct[q.target], !.late = FALSE]
             two  == [q EXCEPT !.pc = "count", !.seen = lock[KeyOf(q)]]
  <1>1. q \in Request /\ UNCHANGED << lock, wrong, now, raced >>
    BY DEF Verify, Fail, Typed, TypeOK
  <1>2. req' = [req EXCEPT ![r] = one] \/ req' = [req EXCEPT ![r] = two]
    BY DEF Verify, Fail, Typed, TypeOK
  <1>3. /\ one.op = q.op /\ one.target = q.target /\ one.from = q.from /\ one.pc = "write"
        /\ two.op = q.op /\ two.target = q.target /\ two.from = q.from
        /\ two.seen = lock[KeyOf(q)]
    BY <1>1 DEF Request
  <1> HIDE DEF one, two
  <1>4. ASSUME NEW k, Signing(one, k) PROVE Signing(q, k) /\ one.pc # "count"
    BY <1>3, <1>4 DEF Signing, KeyOf
  <1>5. ASSUME NEW k, Signing(two, k) PROVE Signing(q, k) /\ two.seen = lock[k]
    BY <1>3, <1>5 DEF Signing, KeyOf
  <1> QED
    BY <1>1, <1>2, <1>4, <1>5, OnlyOneMoves, NoNewSignIn

LEMMA RowsTyped ==
    ASSUME Typed, NEW k \in Keys
    PROVE  lock[k] \in LockRow /\ wrong[k] \in Answers /\ now \in Nat \ {0} /\ now \in Nat
  BY DEF Typed, TypeOK, Answers

\* A sign-in starts for a key that is not locked.
LEMMA AdmitKeepsThrottle ==
    ASSUME Typed, ThrottleInv, NEW r \in Requests, NEW q, NEW new, q.op \in SignIn,
           req' = [req EXCEPT ![r] = new], new.op = q.op, new.pc # "count",
           KeyOf(new) = KeyOf(q), KeyOf(q) \in Keys,
           Admit(r, q), UNCHANGED << now, wrong >>
    PROVE  ThrottleInv'
  <1> DEFINE k == KeyOf(q)
  <1>1. /\ ~Locked(lock[k], now) /\ lock' = [lock EXCEPT ![k] = Pruned(lock[k], now)]
        /\ raced \subseteq raced'
        /\ k \notin raced' => ~\E x \in Requests : Signing(req[x], k)
    BY DEF Admit, Signing
  <1>2. ASSUME NEW j \in Keys \ raced', j # k
        PROVE  RowSound(lock'[j], wrong'[j], now') /\ Undisturbed(req', j, lock'[j])
    <2>1. lock'[j] = lock[j] /\ wrong'[j] = wrong[j] /\ j \in Keys \ raced
      BY <1>1, <1>2 DEF Typed, TypeOK
    <2>2. \A x \in Requests : Signing(req'[x], j) => req'[x] = req[x]
      BY <1>2, OnlyOneMoves DEF Signing
    <2> QED
      BY <2>1, <2>2 DEF ThrottleInv, Undisturbed
  <1>3. ASSUME k \notin raced'
        PROVE  RowSound(lock'[k], wrong'[k], now') /\ Undisturbed(req', k, lock'[k])
    <2>1. lock'[k] = Pruned(lock[k], now) /\ RowSound(lock[k], wrong[k], now)
      BY <1>1, <1>3 DEF Typed, TypeOK, ThrottleInv
    <2>2. RowSound(lock'[k], wrong'[k], now') /\ lock'[k].until = 0
      BY <1>1, <2>1, RowsTyped, PrunedRowSound
    <2>3. \A x \in Requests : Signing(req'[x], k) => x = r
      BY <1>1, <1>3, OnlyOneMoves
    <2>4. req'[r].pc # "count"
      BY OnlyOneMoves
    <2>5. Undisturbed(req', k, lock'[k])
      BY <2>2, <2>3, <2>4 DEF Undisturbed
    <2> QED
      BY <2>2, <2>5
  <1> QED
    BY <1>2, <1>3 DEF ThrottleInv

LEMMA SignInKeepsThrottle ==
    ASSUME Typed, ThrottleInv, NEW r \in Requests, NEW b \in Browsers,
           \/ \E u \in Users \cup {Nobody} : Login(r, b, u)
           \/ \E guess \in {0, Wrong} : SecondFactor(r, b, guess)
    PROVE  ThrottleInv'
  <1>1. ASSUME NEW u \in Users \cup {Nobody}, Login(r, b, u) PROVE ThrottleInv'
    <2> DEFINE q   == [Idle EXCEPT !.op = "login", !.from = b, !.jar = cookie[b],
                         !.target = u, !.guess = IF u = Nobody THEN Wrong ELSE acct[u].pw,
                         !.pc = IF u = Nobody THEN "write" ELSE "verify"]
               new == [q EXCEPT !.n = made + 1]
    <2>1. Admit(r, q) /\ req' = [req EXCEPT ![r] = new] /\ UNCHANGED << now, wrong >>
      BY <1>1 DEF Login, Admit, Open
    <2>2. /\ q.op = "login" /\ new.op = "login" /\ new.pc # "count" /\ q.from = b
          /\ new.from = b
      BY DEF Idle
    <2> HIDE DEF q, new
    <2>3. q.op \in SignIn /\ KeyOf(new) = KeyOf(q) /\ KeyOf(q) \in Keys
      BY <2>2 DEF SignIn, KeyOf, Keys
    <2> QED
      BY <2>1, <2>2, <2>3, AdmitKeepsThrottle
  <1>2. ASSUME NEW guess \in {0, Wrong}, SecondFactor(r, b, guess) PROVE ThrottleInv'
    <2> DEFINE u   == cookie[b].pending
               q   == [Idle EXCEPT !.op = "second", !.pc = "write", !.from = b,
                         !.jar = cookie[b], !.target = u, !.row = acct[u], !.guess = guess]
               new == [q EXCEPT !.n = made + 1]
    <2>1. Admit(r, q) /\ req' = [req EXCEPT ![r] = new] /\ UNCHANGED << now, wrong >>
      BY <1>2 DEF SecondFactor, Admit, Open
    <2>2. /\ q.op = "second" /\ new.op = "second" /\ new.pc # "count" /\ q.target = u
          /\ new.target = u
      BY DEF Idle
    <2>3. u \in Users
      BY <1>2 DEF SecondFactor, Typed, TypeOK, Cookie
    <2> HIDE DEF q, new, u
    <2>4. q.op \in SignIn /\ KeyOf(new) = KeyOf(q) /\ KeyOf(q) \in Keys
      BY <2>2, <2>3 DEF SignIn, KeyOf, Keys
    <2> QED
      BY <2>1, <2>2, <2>4, AdmitKeepsThrottle
  <1> QED
    BY <1>1, <1>2

\* A sign-in ends, and only its own key's row changes.
LEMMA SignInEnds ==
    ASSUME Typed, ThrottleInv, NEW r \in Requests, NEW k \in Keys, Signing(req[r], k),
           req' = [req EXCEPT ![r] = Idle], UNCHANGED << now, raced >>,
           \A j \in Keys \ {k} : lock'[j] = lock[j] /\ wrong'[j] = wrong[j],
           k \notin raced => RowSound(lock'[k], wrong'[k], now)
    PROVE  ThrottleInv'
  <1>1. ASSUME NEW x \in Requests, NEW j, Signing(req'[x], j)
        PROVE  req'[x] = req[x] /\ x # r
    BY <1>1, OnlyOneMoves, IdleSignsNothing
  <1>2. ASSUME NEW j \in Keys \ raced, j # k
        PROVE  RowSound(lock'[j], wrong'[j], now') /\ Undisturbed(req', j, lock'[j])
    <2>1. lock'[j] = lock[j] /\ wrong'[j] = wrong[j]
      BY <1>2
    <2>2. RowSound(lock[j], wrong[j], now) /\ Undisturbed(req, j, lock[j])
      BY DEF ThrottleInv
    <2>3. Undisturbed(req', j, lock[j])
      BY <1>1, <2>2 DEF Undisturbed
    <2> QED
      BY <2>1, <2>2, <2>3
  <1>3. ASSUME k \notin raced
        PROVE  RowSound(lock'[k], wrong'[k], now') /\ Undisturbed(req', k, lock'[k])
    BY <1>1, <1>3 DEF ThrottleInv, Undisturbed
  <1> QED
    BY <1>2, <1>3 DEF ThrottleInv

LEMMA SucceedKeepsThrottle ==
    ASSUME Typed, ThrottleInv, NEW r \in Requests, Succeed(r) PROVE ThrottleInv'
  <1> DEFINE k == KeyOf(req[r])
  <1>1. k \in Keys /\ Signing(req[r], k)
    BY SigningIn DEF Succeed, Signing
  <1>2. req' = [req EXCEPT ![r] = Idle] /\ UNCHANGED << now, raced >>
    BY DEF Succeed
  <1>3. /\ lock'[k] = NoFailures /\ wrong'[k] = {}
        /\ \A j \in Keys \ {k} : lock'[j] = lock[j] /\ wrong'[j] = wrong[j]
    BY <1>1 DEF Succeed, Typed, TypeOK
  <1>4. RowSound(NoFailures, {}, now)
    BY <1>1, RowsTyped, ClearRowSound, FS_EmptySet DEF Answers
  <1> HIDE DEF k
  <1> QED
    BY <1>1, <1>2, <1>3, <1>4, SignInEnds

LEMMA CountKeepsThrottle ==
    ASSUME Typed, ThrottleInv, NEW r \in Requests, Count(r) PROVE ThrottleInv'
  <1> DEFINE q == req[r]
             k == KeyOf(q)
             x == [n |-> q.n, at |-> now]
  <1>1. q.op \in SignIn /\ q \in Request /\ q.pc = "count"
    BY KnownValues DEF Count, Typed, TypeOK, Sensible, Routed, Request, Ops
  <1>2. k \in Keys /\ Signing(q, k) /\ q.n \in Nat
    BY <1>1, SigningIn DEF Signing, Request
  <1>3. req' = [req EXCEPT ![r] = Idle] /\ UNCHANGED << now, raced >>
    BY DEF Count
  <1>4. \A j \in Keys \ {k} : lock'[j] = lock[j] /\ wrong'[j] = wrong[j]
    BY <1>2 DEF Count, Typed, TypeOK
  <1>5. lock[k] \in LockRow /\ wrong[k] \in Answers /\ now \in Nat \ {0} /\ now \in Nat
    BY <1>2, RowsTyped
  <1>6. ASSUME k \notin raced PROVE RowSound(lock'[k], wrong'[k], now)
    <2>1. RowSound(lock[k], wrong[k], now) /\ lock[k].until = 0 /\ q.seen = lock[k]
      BY <1>1, <1>2, <1>6 DEF ThrottleInv, Undisturbed
    <2>2. Failed(lock[k], now) \in LockRow
      BY <1>5, LockRowsStay
    <2>3. lock'[k] = Failed(lock[k], now)
      BY <1>2, <1>5, <2>1, <2>2, FlushedLock DEF Count, Typed, TypeOK
    <2>4. wrong'[k] = wrong[k] \cup {x}
      BY <1>2 DEF Count, Typed, TypeOK
    <2> QED
      BY <1>2, <1>5, <2>1, <2>3, <2>4, FailedRowSound
  <1> HIDE DEF k
  <1> QED
    BY <1>2, <1>3, <1>4, <1>6, SignInEnds

LEMMA TickKeepsThrottle == ASSUME Typed, ThrottleInv, Tick PROVE ThrottleInv'
  <1>1. UNCHANGED << req, lock, wrong, raced >> /\ now' = now + 1
    BY DEF Tick
  <1>2. \A k \in Keys \ raced : RowSound(lock[k], wrong[k], now + 1)
    BY RowsTyped, AnswersGrowOld DEF ThrottleInv
  <1> QED
    BY <1>1, <1>2 DEF ThrottleInv

LEMMA FirstThrottle == Init => ThrottleInv
  <1> SUFFICES ASSUME Init PROVE ThrottleInv
      OBVIOUS
  <1>1. now = 1 /\ \A r \in Requests : req[r] = Idle
    BY DEF Init
  <1>2. PICK k \in Browsers \cup {u \in Users : acct[u].totp} :
           /\ lock = [x \in Keys |-> IF x = k THEN Failed(NoFailures, now) ELSE NoFailures]
           /\ wrong = [x \in Keys |-> IF x = k THEN {[n |-> 0, at |-> now]} ELSE {}]
    BY Zenon DEF Init
  <1>3. RowSound(NoFailures, {}, 1) /\ {} \in Answers
    BY ClearRowSound, FS_EmptySet DEF Answers
  <1>4. RowSound(Failed(NoFailures, 1), {} \cup {[n |-> 0, at |-> 1]}, 1)
    <2>1. NoFailures.until = 0 /\ 1 \in Nat \ {0} /\ 0 \in Nat /\ 1 \in Nat
      BY DEF NoFailures
    <2> QED
      BY <1>3, <2>1, KnownValues, FailedRowSound
  <1>5. {} \cup {[n |-> 0, at |-> 1]} = {[n |-> 0, at |-> 1]}
    OBVIOUS
  <1>6. \A x \in Keys : RowSound(lock[x], wrong[x], now)
    BY <1>1, <1>2, <1>3, <1>4, <1>5
  <1>7. \A x \in Keys : Undisturbed(req, x, lock[x])
    BY <1>1, IdleSignsNothing DEF Undisturbed
  <1> QED
    BY <1>6, <1>7 DEF ThrottleInv

\* The throttle of ratelimit.py bounds guessing: within any window no key gets more than
\* MaxFailures wrong answers checked, through lockouts that run out, rows that are
\* pruned, and restarts, as long as one sign-in at a time uses the key.
THEOREM WrongAnswersAreBounded == Spec => []ThrottleHolds
  <1>1. ASSUME Typed, ThrottleInv, [Next]_vars PROVE ThrottleInv'
    <2>1. CASE UNCHANGED << req, lock, wrong, now, raced >>
      BY <1>1, <2>1 DEF ThrottleInv
    <2>2. CASE Next
      <3>1. ASSUME NEW r \in Requests, NEW op \in Offered, NEW t \in Users,
                   \/ \E b \in Browsers : Ask(r, b, op, t)
                   \/ \E u \in Users : AskByToken(r, u, op, t)
            PROVE  ThrottleInv'
        BY <1>1, <3>1, AuthorisedKeepsThrottle DEF Ask, AskByToken
      <3>2. ASSUME NEW b \in Browsers, TurnedAway(b) \/ SecondDropped(b) \/ Logout(b)
            PROVE  UNCHANGED << req, lock, wrong, now, raced >>
        BY <3>2 DEF TurnedAway, SecondDropped, Logout
      <3>3. Restart => ThrottleInv'
        BY <1>1, IdleSignsNothing, NoNewSignIn DEF Restart
      <3> QED
        BY <1>1, <2>1, <2>2, <3>1, <3>2, <3>3, WritingKeepsThrottle, SignInKeepsThrottle,
           VerifyKeepsThrottle, SucceedKeepsThrottle, CountKeepsThrottle,
           TickKeepsThrottle DEF Next
    <2> QED
      BY <1>1, <2>1, <2>2 DEF vars
  <1>2. ASSUME Typed, ThrottleInv PROVE ThrottleHolds
    <2>1. ASSUME NEW k \in Keys \ raced PROVE Cardinality(Recent(wrong[k], now)) <= MaxFailures
      <3>1. RowSound(lock[k], wrong[k], now) /\ lock[k] \in LockRow /\ wrong[k] \in Answers
            /\ now \in Nat
        BY <1>2, RowsTyped DEF ThrottleInv
      <3>2. Cardinality(Recent(wrong[k], now)) \in Nat /\ lock[k].count \in Nat
        BY <3>1, RecentFew DEF RowSound, LockRow
      <3> QED
        BY <3>1, <3>2, ThrottleAssumption DEF RowSound
    <2> QED
      BY <2>1 DEF ThrottleHolds, Recent
  <1> QED
    BY <1>1, <1>2, FirstThrottle, AlwaysTyped, PTL DEF Spec
================================================================================
