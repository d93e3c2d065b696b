-------------------------------- MODULE Accounts --------------------------------
(***************************************************************************)
(* Accounts, sign-in and sessions: routers/users.py, routers/auth.py,      *)
(* deps.py and the lockouts of services/ratelimit.py.                      *)
(*                                                                         *)
(* The routes are synchronous, so requests run side by side in the thread  *)
(* pool.  A request reads rows once (a database session keeps what it      *)
(* read), computes a bcrypt hash, which takes long, and then commits; only *)
(* the columns that differ from what it read are written.  A session is a  *)
(* signed cookie: a request works on its own copy, and its response        *)
(* replaces the browser's.                                                 *)
(***************************************************************************)
EXTENDS RateLimit, FiniteSets

CONSTANTS
    Users,        \* account slots; one that was deleted is not given out again
    Nobody,       \* no account
    Browsers,     \* each at an address of its own
    Script,       \* a client that sends an API token and keeps no cookie
    Requests,     \* requests that can be in flight at once
    Offered,      \* what signed-in users ask for
    MaxRequests,  \* bound: requests in a behaviour
    MaxClock      \* bound: the last tick

ASSUME PartiesAssumption == /\ Nobody \notin Users /\ Script \notin Browsers
                            /\ IsFiniteSet(Users)
ASSUME LimitsAssumption  == MaxRequests \in Nat /\ MaxClock \in Nat

VARIABLES
    acct,     \* the users table
    cookie,   \* the session each browser holds
    req,      \* requests in flight
    lock,     \* the login_lockouts table
    now,      \* the clock
    made,     \* how many requests were made
    clashed,  \* history: accounts written from rows another request had changed
    wrong,    \* history: the failed sign-ins of each key since its last success
    raced     \* history: keys that had two sign-ins at once

vars == << acct, cookie, req, lock, now, made, clashed, wrong, raced >>

Keys  == Browsers \cup Users
Wrong == MaxRequests + 1   \* a password nobody has

\* A password is the number of the request that set it; so is an API token.
Row     == [role : {"free", "gone", "user", "admin"}, pw : Nat, epoch : Nat,
            totp : BOOLEAN, token : Nat]
FreeRow == [role |-> "free", pw |-> 0, epoch |-> 0, totp |-> FALSE, token |-> 0]

\* uid and ep of the session, totp_uid, totp_pending; and, for the properties,
\* the password that was current when uid was filled in.
Cookie == [uid : Users \cup {Nobody}, ep : Nat, pending : Users \cup {Nobody},
           setup : BOOLEAN, pw : Nat]
Blank  == [uid |-> Nobody, ep |-> 0, pending |-> Nobody, setup |-> FALSE, pw |-> 0]

Managing == {"create", "reset", "promote", "demote", "delete"}
Own      == {"password", "totp_start", "totp_confirm", "totp_disable",
             "token", "untoken", "page"}
SignIn   == {"login", "second"}
Ops      == Managing \cup Own \cup SignIn \cup {"none"}

ASSUME OfferedAssumption == Offered \subseteq Managing \cup Own

Request == [op : Ops, pc : {"idle", "read", "verify", "write", "count"}, n : Nat,
            from : Browsers \cup {Script}, jar : Cookie, by : Users \cup {Nobody},
            target : Users \cup {Nobody}, row : Row, seen : LockRow, guess : Nat,
            late : BOOLEAN]
Idle    == [op |-> "none", pc |-> "idle", n |-> 0, from |-> Script, jar |-> Blank,
            by |-> Nobody, target |-> Nobody, row |-> FreeRow, seen |-> NoFailures,
            guess |-> 0, late |-> FALSE]

Exists(u)   == acct[u].role \in {"user", "admin"}
AdminCount  == Cardinality({u \in Users : acct[u].role = "admin"})

\* current_user: a session counts if its account exists and has the same epoch.
Valid(c)    == c.uid \in Users /\ Exists(c.uid) /\ acct[c.uid].epoch = c.ep

\* The session a page leaves behind: one that no longer counts is emptied.
Shown(c)    == IF c.uid # Nobody /\ ~Valid(c) THEN Blank ELSE c

\* SQLAlchemy writes the columns that differ from what was read.
Flush(current, read, new) ==
    [f \in DOMAIN current |-> IF new[f] = read[f] THEN current[f] ELSE new[f]]

\* A response carries the request's copy of the session.  A script drops it, and
\* a request without one that leaves it empty sends no cookie.
Respond(q, jar) ==
    cookie' = IF q.from = Script \/ (q.jar = Blank /\ jar = Blank) THEN cookie
              ELSE [cookie EXCEPT ![q.from] = jar]

\* A running installation: an admin, another account or room for one, sessions
\* that were left open, and one wrong answer a moment ago for some key.
Init == /\ \E one, two \in Users, role \in {"free", "user", "admin"}, totp \in BOOLEAN :
              /\ one # two
              /\ totp => role # "free"
              /\ acct = [u \in Users |->
                           IF u = one THEN [FreeRow EXCEPT !.role = "admin"]
                           ELSE IF u = two THEN [FreeRow EXCEPT !.role = role, !.totp = totp]
                           ELSE FreeRow]
        /\ cookie \in [Browsers -> {Blank} \cup
                          {[Blank EXCEPT !.uid = u] : u \in {v \in Users : Exists(v)}}]
        /\ req = [r \in Requests |-> Idle]
        /\ now = 1
        /\ \E k \in Browsers \cup {u \in Users : acct[u].totp} :
              /\ lock = [x \in Keys |-> IF x = k THEN Failed(NoFailures, now) ELSE NoFailures]
              /\ wrong = [x \in Keys |-> IF x = k THEN {[n |-> 0, at |-> now]} ELSE {}]
        /\ made = 0
        /\ clashed = {}
        /\ raced = {}

Open(r, q) == /\ req[r].pc = "idle"
              /\ made < MaxRequests
              /\ made' = made + 1
              /\ req' = [req EXCEPT ![r] = [q EXCEPT !.n = made + 1]]

\* A request ends; if it wrote accounts, what the others read is out of date.
Close(r) ==
    req' = [x \in Requests |->
              IF x = r THEN Idle
              ELSE IF req[x].pc # "idle" /\ acct' # acct
                   THEN [req[x] EXCEPT !.late = TRUE] ELSE req[x]]

--------------------------------------------------------------------------------
(* Signed-in requests.                                                          *)

\* require_user turns a session that no longer counts away, and empties it.
TurnedAway(b) == /\ cookie[b].uid # Nobody /\ ~Valid(cookie[b])
                 /\ cookie' = [cookie EXCEPT ![b] = Blank]
                 /\ UNCHANGED << acct, req, lock, now, made, clashed, wrong, raced >>

\* require_admin or require_user passes; by's row is read here.
Authorised(r, from, jar, by, op, t) ==
    /\ op \in Managing => acct[by].role = "admin"
    /\ op \in Own => t = by
    /\ op = "totp_confirm" => jar.setup
    /\ Open(r, [Idle EXCEPT !.op = op, !.from = from, !.jar = jar, !.by = by,
                  !.target = t, !.row = acct[by],
                  !.pc = IF op \in Managing THEN "read" ELSE "write"])
    /\ UNCHANGED << acct, cookie, lock, now, clashed, wrong, raced >>

Ask(r, b, op, t) ==
    /\ Valid(cookie[b])
    /\ Authorised(r, b, cookie[b], cookie[b].uid, op, t)

\* An API token stands for its account, with no session.
AskByToken(r, u, op, t) ==
    /\ Exists(u) /\ acct[u].token # 0
    /\ Authorised(r, Script, Blank, u, op, t)

\* Faulty variant: an admin may be removed while at least one is left.
RefusedTooLate(q, row) ==
    CASE q.op = "create" -> row.role # "free"
      [] q.op = "delete" -> q.target = q.by \/ (row.role = "admin" /\ AdminCount < 1)
      [] q.op = "demote" -> row.role = "admin" /\ AdminCount < 1
      [] OTHER -> FALSE

\* What the routes refuse once they have the target's row.
Refused(q, row) ==
    CASE q.op = "create" -> row.role # "free"
      [] q.op = "delete" -> q.target = q.by \/ (row.role = "admin" /\ AdminCount <= 1)
      [] q.op = "demote" -> row.role = "admin" /\ AdminCount <= 1
      [] OTHER -> FALSE

\* The target is looked up.  The requester's own row was read with the session.
ReadTarget(r) ==
    LET q   == req[r]
        own == q.target = q.by
        row == IF own THEN q.row ELSE acct[q.target]
        new == [q EXCEPT !.row = row, !.pc = "write", !.late = own /\ q.late]
    IN /\ q.pc = "read"
       /\ IF Refused(q, row) \/ (q.op # "create" /\ row.role \notin {"user", "admin"})
          THEN req' = [req EXCEPT ![r] = Idle] /\ Respond(q, q.jar)
          ELSE req' = [req EXCEPT ![r] = new] /\ UNCHANGED cookie
       /\ UNCHANGED << acct, lock, now, made, clashed, wrong, raced >>

\* Faulty variant: a password change leaves the epoch of the sessions alone.
SameEpoch(row) == row.epoch

\* A password change counts the epoch up from what the request read.
NewEpoch(row) == row.epoch + 1

\* Faulty variant: the role is stored as the form sends it.
RoleAsSent(op) == IF op = "promote" THEN "admin" ELSE "viewer"

\* change_role: whatever is not "admin" is "user".
NewRole(op) == IF op = "promote" THEN "admin" ELSE "user"

\* The row each route writes.
Changed(q) ==
    CASE q.op \in {"password", "reset"} -> [q.row EXCEPT !.pw = q.n, !.epoch = NewEpoch(q.row)]
      [] q.op \in {"promote", "demote"} -> [q.row EXCEPT !.role = NewRole(q.op)]
      [] q.op = "delete"                -> [q.row EXCEPT !.role = "gone"]
      [] q.op = "totp_confirm"          -> [q.row EXCEPT !.totp = TRUE]
      [] q.op = "totp_disable"          -> [q.row EXCEPT !.totp = FALSE]
      [] q.op = "token"                 -> [q.row EXCEPT !.token = q.n]
      [] q.op = "untoken"               -> [q.row EXCEPT !.token = 0]
      [] OTHER                          -> q.row

\* The session as the route leaves it: whoever changes their own password adopts
\* the new epoch, and a second factor being set up is kept until it is confirmed.
JarAfter(q) ==
    CASE q.op = "password" \/ (q.op = "reset" /\ q.target = q.by)
                              -> [q.jar EXCEPT !.ep = NewEpoch(q.row), !.pw = q.n]
      [] q.op = "totp_start"   -> [q.jar EXCEPT !.setup = TRUE]
      [] q.op = "totp_confirm" -> [q.jar EXCEPT !.setup = FALSE]
      [] OTHER                 -> q.jar

\* The commit and the response.  A row that is gone fails the commit, and the
\* error page sets no cookie.
WriteAccount(r) ==
    LET q == req[r]
        t == q.target
    IN /\ q.pc = "write" /\ q.op \in (Managing \cup Own) \ {"create"}
       /\ IF Exists(t)
          THEN /\ acct' = [acct EXCEPT ![t] = Flush(@, q.row, Changed(q))]
               /\ Respond(q, JarAfter(q))
          ELSE UNCHANGED << acct, cookie >>
       /\ clashed' = IF q.late /\ acct' # acct THEN clashed \cup {t} ELSE clashed
       /\ Close(r)
       /\ UNCHANGED << lock, now, made, wrong, raced >>

\* A user name is unique: the slower of two requests that add it fails.
WriteNewAccount(r) ==
    LET q == req[r]
    IN /\ q.pc = "write" /\ q.op = "create"
       /\ IF acct[q.target].role = "free"
          THEN /\ \E role \in {"user", "admin"} :
                     acct' = [acct EXCEPT ![q.target] =
                                [FreeRow EXCEPT !.role = role, !.pw = q.n]]
               /\ Respond(q, q.jar)
          ELSE UNCHANGED << acct, cookie >>
       /\ Close(r)
       /\ UNCHANGED << lock, now, made, clashed, wrong, raced >>

--------------------------------------------------------------------------------
(* Signing in.                                                                  *)

KeyOf(q) == IF q.op = "login" THEN q.from ELSE q.target

\* retry_after lets the attempt through.
Admit(r, q) ==
    LET k == KeyOf(q)
    IN /\ ~Locked(lock[k], now)
       /\ lock' = [lock EXCEPT ![k] = Pruned(@, now)]
       /\ Open(r, q)
       /\ raced' = IF \E x \in Requests : req[x].op \in SignIn /\ KeyOf(req[x]) = k
                   THEN raced \cup {k} ELSE raced

\* login_submit: the throttle is asked before the password is looked at.  A wrong
\* password, or a name nobody has, is the same for every account.
Login(r, b, u) ==
    /\ Admit(r, [Idle EXCEPT !.op = "login", !.from = b, !.jar = cookie[b],
                   !.target = u, !.guess = IF u = Nobody THEN Wrong ELSE acct[u].pw,
                   !.pc = IF u = Nobody THEN "write" ELSE "verify"])
    /\ UNCHANGED << acct, cookie, now, clashed, wrong >>

\* authenticate reads the account's row; bcrypt then takes its time.
Verify(r) == /\ req[r].pc = "verify"
             /\ req' = [req EXCEPT ![r].pc = "write", ![r].row = acct[req[r].target],
                                   ![r].late = FALSE]
             /\ UNCHANGED << acct, cookie, lock, now, made, clashed, wrong, raced >>

\* totp_submit: the account whose password was given must still ask for a code.
SecondFactor(r, b, guess) ==
    LET u == cookie[b].pending
    IN /\ u # Nobody
       /\ Exists(u) /\ acct[u].totp
       /\ Admit(r, [Idle EXCEPT !.op = "second", !.pc = "write", !.from = b,
                      !.jar = cookie[b], !.target = u, !.row = acct[u],
                      !.guess = guess])
       /\ UNCHANGED << acct, cookie, now, clashed, wrong >>

SecondDropped(b) ==
    LET u == cookie[b].pending
    IN /\ u # Nobody
       /\ ~(Exists(u) /\ acct[u].totp)
       /\ cookie' = [cookie EXCEPT ![b] = Blank]
       /\ UNCHANGED << acct, req, lock, now, made, clashed, wrong, raced >>

Proven(q) == IF q.op = "login"
             THEN q.row.role \in {"user", "admin"} /\ q.guess = q.row.pw
             ELSE q.guess # Wrong

\* The session after a sign-in.  A password alone only leads to the second step
\* when the account has one.
SignedIn(q) ==
    IF q.op = "login" /\ q.row.totp
    THEN [q.jar EXCEPT !.pending = q.target]
    ELSE [q.jar EXCEPT !.uid = q.target, !.ep = q.row.epoch, !.pw = q.row.pw,
                       !.pending = IF q.op = "second" THEN Nobody ELSE @]

Succeed(r) ==
    LET q == req[r]
    IN /\ q.pc = "write" /\ q.op \in SignIn /\ Proven(q)
       /\ lock' = [lock EXCEPT ![KeyOf(q)] = NoFailures]
       /\ wrong' = [wrong EXCEPT ![KeyOf(q)] = {}]
       /\ Respond(q, SignedIn(q))
       /\ req' = [req EXCEPT ![r] = Idle]
       /\ UNCHANGED << acct, now, made, clashed, raced >>

\* record_failure reads the row again; its commit comes a moment later.
Fail(r) == /\ req[r].pc = "write" /\ req[r].op \in SignIn /\ ~Proven(req[r])
           /\ req' = [req EXCEPT ![r].pc = "count", ![r].seen = lock[KeyOf(req[r])]]
           /\ UNCHANGED << acct, cookie, lock, now, made, clashed, wrong, raced >>

\* The session on the page that asks again; the account of a second factor is
\* still the row that was read.
AskedAgain(q) ==
    IF q.op = "second" /\ q.jar.uid = q.target
    THEN IF q.row.epoch = q.jar.ep THEN q.jar ELSE Blank
    ELSE Shown(q.jar)

\* The commit fails if the row was deleted meanwhile, or added by another request.
Count(r) ==
    LET q    == req[r]
        k    == KeyOf(q)
        lost == HasRow(q.seen) # HasRow(lock[k])
    IN /\ q.pc = "count"
       /\ lock' = IF lost THEN lock
                  ELSE [lock EXCEPT ![k] = Flush(@, q.seen, Failed(q.seen, now))]
       /\ wrong' = [wrong EXCEPT ![k] = @ \cup {[n |-> q.n, at |-> now]}]
       /\ IF lost THEN UNCHANGED cookie ELSE Respond(q, AskedAgain(q))
       /\ req' = [req EXCEPT ![r] = Idle]
       /\ UNCHANGED << acct, now, made, clashed, raced >>

Logout(b) == /\ cookie[b] # Blank
             /\ cookie' = [cookie EXCEPT ![b] = Blank]
             /\ UNCHANGED << acct, req, lock, now, made, clashed, wrong, raced >>

--------------------------------------------------------------------------------
\* Only the lockout rows look at the clock: it need not run without one.
Tick == /\ now < MaxClock
        /\ \E k \in Keys : HasRow(lock[k])
        /\ now' = now + 1
        /\ UNCHANGED << acct, cookie, req, lock, made, clashed, wrong, raced >>

\* The web process starts again: requests are lost, lockouts are in the database,
\* and bootstrap adds the first admin if there is no account at all.
Restart ==
    /\ \E r \in Requests : req[r].pc # "idle"
    /\ req' = [r \in Requests |-> Idle]
    /\ IF \E u \in Users : Exists(u) THEN UNCHANGED acct
       ELSE \E u \in Users : /\ acct[u].role = "free"
                             /\ acct' = [acct EXCEPT ![u].role = "admin"]
    /\ UNCHANGED << cookie, lock, now, made, clashed, wrong, raced >>

Next == \/ \E r \in Requests, op \in Offered, t \in Users :
              \/ \E b \in Browsers : Ask(r, b, op, t)
              \/ \E u \in Users : AskByToken(r, u, op, t)
        \/ \E r \in Requests : ReadTarget(r) \/ WriteAccount(r) \/ WriteNewAccount(r)
        \/ \E r \in Requests, b \in Browsers :
              \/ \E u \in Users \cup {Nobody} : Login(r, b, u)
              \/ \E guess \in {0, Wrong} : SecondFactor(r, b, guess)
        \/ \E r \in Requests : Verify(r) \/ Succeed(r) \/ Fail(r) \/ Count(r)
        \/ \E b \in Browsers : TurnedAway(b) \/ SecondDropped(b) \/ Logout(b)
        \/ Tick
        \/ Restart

Spec == Init /\ [][Next]_vars

--------------------------------------------------------------------------------
(* Properties.                                                                  *)

\* Every variable has its type.
TypeOK == /\ acct \in [Users -> Row]
          /\ cookie \in [Browsers -> Cookie]
          /\ req \in [Requests -> Request]
          /\ lock \in [Keys -> LockRow]
          /\ now \in Nat
          /\ made \in 0..MaxRequests
          /\ clashed \subseteq Users
          /\ wrong \in [Keys -> SUBSET [n : Nat, at : Nat]]
          /\ raced \subseteq Keys

\* However accounts are demoted and deleted, an admin remains (the last-admin
\* checks of change_role and delete_user), unless two requests changed accounts
\* at once, each from what it had read before the other.
AdminRemains == clashed = {} => \E u \in Users : acct[u].role = "admin"

\* A session that counts was filled in under the account's present password: a
\* password change signs every other session out, whatever sign-ins and slow
\* responses cross it.  Holds for accounts no two requests changed at once.
SessionsFollowPasswords ==
    \A b \in Browsers : LET c == cookie[b]
                        IN Valid(c) /\ c.uid \notin clashed => c.pw = acct[c.uid].pw

\* No key gets more than MaxFailures wrong answers checked within a window, across
\* lockouts that run out and restarts.  Holds for keys that never had two sign-ins
\* under way at once: those count as one.
ThrottleHolds ==
    \A k \in Keys \ raced :
        Cardinality({w \in wrong[k] : w.at + Window > now}) <= MaxFailures
================================================================================
