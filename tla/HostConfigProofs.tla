---------------------------- MODULE HostConfigProofs ----------------------------
(* What holds of HostConfig for any hosts, settings and number of requests: the *)
(* types, what a restore has put where, whose settings are in which file, who   *)
(* holds the event loop, and what the generated files are drawn from.           *)
EXTENDS HostConfig, TLAPS

\* What is to be saved, written or uploaded is there.
Carrying == {"keys", "write", "transfer"}
Carries(q) == q.pc \in Carrying => q.new \in Db

ReqOK   == req \in [Slots -> Request] /\ \A r \in Slots : Carries(req[r])
DbOK    == /\ disk \in Db /\ pre \in Db /\ held \in Files /\ staged \in Files
           /\ previews \subseteq Db
           /\ swaps \in [old : Files, token : Files] /\ mingled \in BOOLEAN
ConfOK  == conf \in [text : Texts, stamp : Nat] /\ fresh \in BOOLEAN /\ missed \in BOOLEAN
ServedOK == /\ dns \in [text : Texts, last : Nat, up : BOOLEAN]
            /\ menu \in Hosts /\ grub \in Hosts /\ crossed \in BOOLEAN
CountOK == made \in 0..MaxRequests /\ restarts \in 0..MaxRestarts

HostInv == ReqOK /\ DbOK /\ ConfOK /\ ServedOK /\ CountOK

LEMMA InvIsTyped == HostInv => HostTypeOK
  BY DEF HostInv, ReqOK, DbOK, ConfOK, ServedOK, CountOK, HostTypeOK
--------------------------------------------------------------------------------
(* What the steps put together. *)

LEMMA KnownValues ==
    /\ Here \subseteq Hosts /\ Unset \in Hosts /\ Foreign \in Hosts
    /\ \A n \in Nat : Unusable(n) \in Db
    /\ \A d \in Db : Text(d) \in Texts
    /\ Torn \in Texts /\ Idle \in Request /\ Carries(Idle)
  <1>1. Here \subseteq Hosts /\ Unset \in Hosts /\ Foreign \in Hosts
    BY DEF Hosts
  <1>2. (CHOOSE m \in Modes : TRUE) \in Modes
    BY ValuesAssumption
  <1>3. \A n \in Nat : Unusable(n) \in Db
    BY <1>1, <1>2 DEF Unusable, Db
  <1>4. \A d \in Db : Text(d) \in Texts
    BY DEF Text, Db, Texts
  <1>5. Torn \in Texts
    BY DEF Texts
  <1>6. Idle \in Request
    BY <1>1 DEF Idle, Request, Ops, Steps, Keys, Files
  <1>7. Carries(Idle)
    BY DEF Idle, Carries, Carrying
  <1> QED
    BY <1>1, <1>3, <1>4, <1>5, <1>6, <1>7

LEMMA ReadableIsDb == ASSUME DbOK, NEW d \in Readable PROVE d \in Db
  BY DEF DbOK, Readable, Files

\* One request moves on.
LEMMA OneRequest ==
    ASSUME ReqOK, NEW r \in Slots, NEW q \in Request, Carries(q),
           req' = [req EXCEPT ![r] = q]
    PROVE  ReqOK'
  BY DEF ReqOK

LEMMA Opened ==
    ASSUME ReqOK, CountOK, NEW r \in Requests, NEW q \in Request, Carries(q), Open(r, q),
           UNCHANGED restarts
    PROVE  ReqOK' /\ CountOK'
  <1> DEFINE new == [q EXCEPT !.n = made + 1]
  <1>1. made \in Nat /\ made < MaxRequests /\ made' = made + 1 /\ MaxRequests \in Nat
    BY HostLimits DEF Open, CountOK
  <1>2. new \in Request /\ new.pc = q.pc /\ new.new = q.new
    BY <1>1 DEF Request
  <1>3. Carries(new)
    BY <1>2 DEF Carries
  <1>4. req' = [req EXCEPT ![r] = new]
    BY DEF Open
  <1> HIDE DEF new
  <1>5. ReqOK'
    BY <1>2, <1>3, <1>4, OneRequest DEF Slots
  <1> QED
    BY <1>1, <1>5 DEF CountOK

LEMMA GoesOn ==
    ASSUME ReqOK, NEW r \in Slots, NEW pc \in Steps \ Carrying, Goto(r, pc)
    PROVE  ReqOK'
  <1> DEFINE q == [req[r] EXCEPT !.pc = pc]
  <1>1. req[r] \in Request
    BY DEF ReqOK
  <1>2. q \in Request /\ q.pc = pc
    BY <1>1 DEF Request
  <1>3. Carries(q)
    BY <1>2 DEF Carries
  <1>4. req' = [req EXCEPT ![r] = q]
    BY DEF Goto, ReqOK
  <1> HIDE DEF q
  <1> QED
    BY <1>2, <1>3, <1>4, OneRequest

LEMMA Closed == ASSUME ReqOK, NEW r \in Slots, Close(r) PROVE ReqOK'
  BY KnownValues, OneRequest DEF Close

LEMMA Lost ==
    ASSUME NEW rest \in [Slots -> Request], \A x \in Slots : Carries(rest[x]),
           NEW to \in {"disk", "gone"}, req' = Lose(rest, to)
    PROVE  ReqOK'
  <1>1. ASSUME NEW x \in Slots
        PROVE  [rest[x] EXCEPT !.ino = to] \in Request /\ Carries([rest[x] EXCEPT !.ino = to])
    <2>1. rest[x] \in Request
      OBVIOUS
    <2> QED
      BY <2>1 DEF Request, Carries
  <1>2. \A x \in Slots : req'[x] = rest[x] \/ req'[x] = [rest[x] EXCEPT !.ino = to]
    BY DEF Lose
  <1>3. req' = [x \in Slots |-> req'[x]]
    BY DEF Lose
  <1>4. \A x \in Slots : req'[x] \in Request /\ Carries(req'[x])
    BY <1>1, <1>2
  <1> QED
    BY <1>3, <1>4 DEF ReqOK, Carries

\* A request ends, and the staged file with it.
LEMMA LostAndClosed ==
    ASSUME ReqOK, NEW r \in Slots, NEW to \in {"disk", "gone"},
           req' = Lose([req EXCEPT ![r] = Idle], to)
    PROVE  ReqOK'
  <1> DEFINE rest == [req EXCEPT ![r] = Idle]
  <1>1. rest \in [Slots -> Request] /\ \A x \in Slots : Carries(rest[x])
    BY KnownValues DEF ReqOK
  <1> HIDE DEF rest
  <1> QED
    BY <1>1, Lost DEF rest

LEMMA Disturbed == ASSUME DbOK, Mingles PROVE mingled' \in BOOLEAN
  BY DEF Mingles

LEMMA ConfIsWritten ==
    ASSUME ConfOK, NEW text \in Texts, Written(text)
    PROVE  ConfOK'
  <1>1. conf' \in [text : Texts, stamp : Nat]
    BY DEF ConfOK, Written
  <1>2. fresh' \in BOOLEAN /\ missed' \in BOOLEAN
    BY DEF Written
  <1> QED
    BY <1>1, <1>2 DEF ConfOK
--------------------------------------------------------------------------------
(* Saving and generating.                                                       *)

LEMMA SaveIsTyped ==
    ASSUME HostInv, NEW r \in Requests, Save(r) PROVE HostInv'
  <1>1. PICK h \in Here, m \in Modes :
            Open(r, [Idle EXCEPT !.op = "save", !.pc = "keys", !.todo = Keys,
                       !.new = [host |-> h, mode |-> m, from |-> 0, ok |-> TRUE]])
    BY DEF Save
  <1> DEFINE d == [host |-> h, mode |-> m, from |-> 0, ok |-> TRUE]
             q == [Idle EXCEPT !.op = "save", !.pc = "keys", !.todo = Keys, !.new = d]
  <1>2. d \in Db
    BY KnownValues DEF Db
  <1> HIDE DEF d
  <1>4. q \in Request /\ q.new = d
    BY <1>2, KnownValues DEF Idle, Request, Ops, Steps, Files
  <1>5. Carries(q)
    BY <1>2, <1>4 DEF Carries
  <1>6. Open(r, q)
    BY <1>1 DEF d
  <1> HIDE DEF q
  <1>7. ReqOK' /\ CountOK'
    BY <1>4, <1>5, <1>6, Opened DEF HostInv, Save
  <1> QED
    BY <1>7 DEF Save, HostInv, DbOK, ConfOK, ServedOK, dbVars, confVars

LEMMA SaveKeyIsTyped ==
    ASSUME HostInv, NEW r \in Requests, NEW k \in Keys, SaveKey(r, k) PROVE HostInv'
  <1> DEFINE new    == req[r].new
             Put(d) == IF k = "host" THEN [d EXCEPT !.host = new.host]
                                     ELSE [d EXCEPT !.mode = new.mode]
  <1>1. r \in Slots /\ req[r] \in Request /\ new \in Db /\ DbOK
    BY DEF HostInv, ReqOK, Carries, Carrying, SaveKey, Slots
  <1>2. \A d \in Db : Put(d) \in Db
    BY <1>1 DEF Db
  <1>3. /\ \/ disk' = Put(disk) /\ UNCHANGED held
           \/ held # Nothing /\ held' = Put(held) /\ UNCHANGED disk
        /\ UNCHANGED << staged, pre, previews, swaps, mingled, confVars, dns, menu,
                        grub, made, restarts, crossed >>
    BY DEF SaveKey
  <1> HIDE DEF Put
  <1>4. DbOK'
    BY <1>1, <1>2, <1>3 DEF DbOK, Files
  <1> DEFINE todo == req[r].todo \ {k}
             pc   == IF req[r].todo = {k} THEN "conf" ELSE req[r].pc
             q    == [req[r] EXCEPT !.todo = todo, !.pc = pc]
  <1>5. q \in Request /\ q.new = new
    BY <1>1 DEF Request, Steps
  <1>6. Carries(q)
    BY <1>1, <1>5 DEF Carries
  <1>7. req' = [req EXCEPT ![r] = q]
    BY <1>1 DEF SaveKey, Request, HostInv, ReqOK
  <1> HIDE DEF q
  <1>8. ReqOK'
    BY <1>1, <1>5, <1>6, <1>7, OneRequest DEF HostInv
  <1> QED
    BY <1>3, <1>4, <1>8 DEF HostInv, ConfOK, ServedOK, CountOK, confVars

LEMMA SecondIsTyped == ASSUME HostInv, Second PROVE HostInv'
  BY DEF Second, HostInv, ReqOK, DbOK, ConfOK, ServedOK, CountOK, dbVars

LEMMA RenderConfIsTyped ==
    ASSUME HostInv, NEW r \in Slots, RenderConf(r) PROVE HostInv'
  <1>1. UNCHANGED << dbVars, dns, menu, grub, made, restarts, crossed >>
    BY DEF RenderConf
  <1>2. PICK d \in Readable :
            IF Current(d) THEN Goto(r, AfterConf(req[r].op)) /\ UNCHANGED confVars
            ELSE Written(Torn) /\ req' = [req EXCEPT ![r].pc = "write", ![r].new = d]
    BY DEF RenderConf
  <1>3. d \in Db
    BY <1>2, ReadableIsDb DEF HostInv
  <1>4. CASE Current(d)
    <2>1. ReqOK'
      BY <1>2, <1>4, GoesOn DEF AfterConf, Steps, Carrying, HostInv
    <2> QED
      BY <1>1, <1>2, <1>4, <2>1 DEF HostInv, DbOK, ConfOK, ServedOK, CountOK, dbVars, confVars
  <1>5. CASE ~Current(d)
    <2> DEFINE q == [req[r] EXCEPT !.pc = "write", !.new = d]
    <2>1. ConfOK'
      BY <1>2, <1>5, ConfIsWritten, KnownValues DEF HostInv
    <2>2. req[r] \in Request
      BY DEF HostInv, ReqOK
    <2>3. q \in Request /\ q.new = d
      BY <1>3, <2>2 DEF Request, Steps, Files
    <2>4. Carries(q)
      BY <1>3, <2>3 DEF Carries
    <2>5. req' = [req EXCEPT ![r] = q]
      BY <1>2, <1>5, <2>2 DEF HostInv, ReqOK, Request
    <2> HIDE DEF q
    <2>6. ReqOK'
      BY <2>3, <2>4, <2>5, OneRequest DEF HostInv
    <2> QED
      BY <1>1, <2>1, <2>6 DEF HostInv, DbOK, ServedOK, CountOK, dbVars
  <1> QED
    BY <1>4, <1>5

LEMMA WriteConfIsTyped ==
    ASSUME HostInv, NEW r \in Slots, WriteConf(r) PROVE HostInv'
  <1>1. req[r].new \in Db
    BY DEF HostInv, ReqOK, Carries, Carrying, WriteConf
  <1>2. ConfOK'
    BY <1>1, ConfIsWritten, KnownValues DEF HostInv, WriteConf
  <1>3. ReqOK'
    BY GoesOn DEF AfterConf, Steps, Carrying, HostInv, WriteConf
  <1> QED
    BY <1>2, <1>3 DEF WriteConf, HostInv, DbOK, ServedOK, CountOK, dbVars

LEMMA DrawMenuIsTyped ==
    ASSUME HostInv, NEW r \in Requests, DrawMenu(r) PROVE HostInv'
  <1> DEFINE q == [Idle EXCEPT !.op = "render", !.pc = "menu"]
  <1>1. q \in Request /\ Carries(q)
    BY KnownValues DEF Idle, Request, Ops, Steps, Carries, Carrying
  <1>2. Open(r, q)
    BY DEF DrawMenu
  <1> HIDE DEF q
  <1>3. ReqOK' /\ CountOK'
    BY <1>1, <1>2, Opened DEF HostInv, DrawMenu
  <1> QED
    BY <1>3 DEF DrawMenu, HostInv, DbOK, ConfOK, ServedOK, dbVars, confVars

LEMMA RenderMenuIsTyped ==
    ASSUME HostInv, NEW r \in Slots, RenderMenu(r) PROVE HostInv'
  <1>1. PICK d \in Readable : req' = [req EXCEPT ![r].pc = "draw", ![r].drawn = d.host]
    BY DEF RenderMenu
  <1> DEFINE q == [req[r] EXCEPT !.pc = "draw", !.drawn = d.host]
  <1>2. d.host \in Hosts /\ req[r] \in Request
    BY ReadableIsDb DEF HostInv, ReqOK, Db
  <1>3. q \in Request /\ Carries(q)
    BY <1>2 DEF Request, Steps, Carries, Carrying
  <1>4. req' = [req EXCEPT ![r] = q]
    BY <1>1, <1>2 DEF HostInv, ReqOK, Request
  <1> HIDE DEF q
  <1>5. ReqOK'
    BY <1>3, <1>4, OneRequest DEF HostInv
  <1> QED
    BY <1>5 DEF RenderMenu, HostInv, DbOK, ConfOK, ServedOK, CountOK, dbVars, confVars

LEMMA WriteMenuIsTyped ==
    ASSUME HostInv, NEW r \in Slots, WriteMenu(r) PROVE HostInv'
  <1>1. menu' \in Hosts
    BY DEF WriteMenu, HostInv, ReqOK, Request
  <1>2. crossed' \in BOOLEAN
    BY DEF WriteMenu
  <1>3. ReqOK'
    BY GoesOn, Closed DEF WriteMenu, Steps, Carrying, HostInv
  <1> QED
    BY <1>1, <1>2, <1>3
       DEF WriteMenu, HostInv, DbOK, ConfOK, ServedOK, CountOK, dbVars, confVars

LEMMA RebuildGrubIsTyped ==
    ASSUME HostInv, NEW r \in Slots, RebuildGrub(r) PROVE HostInv'
  <1>1. grub' \in Hosts
    BY ReadableIsDb DEF RebuildGrub, HostInv, Db
  <1>2. ReqOK'
    BY GoesOn DEF RebuildGrub, Steps, Carrying, HostInv
  <1> QED
    BY <1>1, <1>2
       DEF RebuildGrub, HostInv, DbOK, ConfOK, ServedOK, CountOK, dbVars, confVars

LEMMA SaveEndsIsTyped ==
    ASSUME HostInv, NEW r \in Slots, SaveEnds(r) PROVE HostInv'
  <1>1. ReqOK'
    BY Closed DEF SaveEnds, HostInv
  <1> QED
    BY <1>1 DEF SaveEnds, HostInv, DbOK, ConfOK, ServedOK, CountOK, dbVars, confVars
--------------------------------------------------------------------------------
(* Restoring.                                                                   *)

LEMMA UploadOpenIsTyped ==
    ASSUME HostInv, NEW r \in Requests, UploadOpen(r) PROVE HostInv'
  <1>1. made + 1 \in Nat
    BY DEF HostInv, CountOK
  <1>2. PICK d \in {Unusable(made + 1)} \cup
                   [host : Hosts, mode : Modes, from : {made + 1}, ok : {TRUE}] :
            Open(r, [Idle EXCEPT !.op = "upload", !.pc = "transfer", !.ino = "staged",
                       !.new = d])
    BY DEF UploadOpen
  <1>3. d \in Db /\ Unusable(made + 1) \in Db
    BY <1>1, <1>2, KnownValues DEF Db
  <1> DEFINE q == [Idle EXCEPT !.op = "upload", !.pc = "transfer", !.ino = "staged",
                       !.new = d]
  <1>4. q \in Request /\ q.new = d
    BY <1>3, KnownValues DEF Idle, Request, Ops, Steps, Files
  <1>5. Carries(q)
    BY <1>3, <1>4 DEF Carries
  <1>6. Open(r, q)
    BY <1>2
  <1> HIDE DEF q
  <1>7. ReqOK' /\ CountOK'
    BY <1>4, <1>5, <1>6, Opened DEF HostInv, UploadOpen
  <1>8. mingled' \in BOOLEAN
    BY Disturbed DEF HostInv, UploadOpen
  <1>9. DbOK'
    BY <1>3, <1>8 DEF UploadOpen, HostInv, DbOK, Files
  <1> QED
    BY <1>7, <1>9 DEF UploadOpen, HostInv, ConfOK, ServedOK, confVars

LEMMA UploadWriteIsTyped ==
    ASSUME HostInv, NEW r \in Requests, UploadWrite(r) PROVE HostInv'
  <1> DEFINE q == req[r]
  <1>1. q.new \in Db /\ q \in Request /\ r \in Slots
    BY DEF HostInv, ReqOK, Carries, Carrying, UploadWrite, Slots
  <1>2. Unusable(q.n) \in Db
    BY <1>1, KnownValues DEF Request
  <1>3. PICK d \in {q.new, Unusable(q.n)} :
            /\ staged' = IF q.ino = "staged" THEN d ELSE staged
            /\ disk'   = IF q.ino = "disk" THEN d ELSE disk
    BY DEF UploadWrite
  <1>4. d \in Db
    BY <1>1, <1>2, <1>3
  <1> HIDE DEF q
  <1>5. mingled' \in BOOLEAN
    BY Disturbed DEF HostInv, UploadWrite
  <1>6. DbOK'
    BY <1>3, <1>4, <1>5 DEF UploadWrite, HostInv, DbOK, Files
  <1>7. ReqOK'
    BY <1>1, GoesOn DEF UploadWrite, Steps, Carrying, HostInv
  <1> QED
    BY <1>6, <1>7 DEF UploadWrite, HostInv, ConfOK, ServedOK, CountOK, confVars

LEMMA PreviewIsTyped ==
    ASSUME HostInv, NEW r \in Requests, Preview(r) PROVE HostInv'
  <1>1. r \in Slots
    BY DEF Slots
  <1>2. CASE staged # Nothing /\ staged.ok
    <2>1. ReqOK'
      BY <1>1, <1>2, Closed DEF Preview, HostInv
    <2>2. DbOK'
      BY <1>2 DEF Preview, HostInv, DbOK, Files
    <2> QED
      BY <2>1, <2>2 DEF Preview, HostInv, ConfOK, ServedOK, CountOK, confVars
  <1>3. CASE ~(staged # Nothing /\ staged.ok)
    <2>1. ReqOK'
      BY <1>1, <1>3, LostAndClosed DEF Preview, HostInv
    <2>2. mingled' \in BOOLEAN
      BY <1>3, Disturbed DEF Preview, HostInv
    <2>3. DbOK'
      BY <1>3, <2>2 DEF Preview, HostInv, DbOK, Files
    <2> QED
      BY <2>1, <2>3 DEF Preview, HostInv, ConfOK, ServedOK, CountOK, confVars
  <1> QED
    BY <1>2, <1>3

LEMMA CancelIsTyped == ASSUME HostInv, Cancel PROVE HostInv'
  <1>1. ReqOK'
    BY Lost DEF Cancel, HostInv, ReqOK
  <1>2. mingled' \in BOOLEAN
    BY Disturbed DEF Cancel, HostInv
  <1>3. DbOK'
    BY <1>2 DEF Cancel, HostInv, DbOK, Files
  <1>4. CountOK'
    BY HostLimits DEF Cancel, HostInv, CountOK
  <1> QED
    BY <1>1, <1>3, <1>4 DEF Cancel, HostInv, ConfOK, ServedOK, confVars

LEMMA ApplyIsTyped ==
    ASSUME HostInv, NEW r \in Requests, NEW token \in previews, Apply(r, token)
    PROVE  HostInv'
  <1> DEFINE q == [Idle EXCEPT !.op = "apply", !.pc = "token", !.token = token]
  <1>1. token \in Db
    BY DEF HostInv, DbOK
  <1>2. q \in Request /\ Carries(q)
    BY <1>1, KnownValues DEF Idle, Request, Ops, Steps, Files, Carries, Carrying
  <1>3. Open(r, q)
    BY DEF Apply
  <1> HIDE DEF q
  <1>4. ReqOK' /\ CountOK'
    BY <1>2, <1>3, Opened DEF HostInv, Apply
  <1> QED
    BY <1>4 DEF Apply, HostInv, DbOK, ConfOK, ServedOK, dbVars, confVars

LEMMA CheckTokenIsTyped ==
    ASSUME HostInv, NEW r \in Requests, CheckToken(r) PROVE HostInv'
  <1>1. r \in Slots
    BY DEF Slots
  <1>2. CASE Matches(req[r].token)
    <2>1. ReqOK'
      BY <1>1, <1>2, GoesOn DEF CheckToken, HostInv, Steps, Carrying
    <2>2. mingled' \in BOOLEAN
      BY <1>2 DEF CheckToken
    <2>3. DbOK'
      BY <1>2, <2>2 DEF CheckToken, HostInv, DbOK
    <2> QED
      BY <2>1, <2>3 DEF CheckToken, HostInv, ConfOK, ServedOK, CountOK, confVars
  <1>3. CASE ~Matches(req[r].token)
    <2>1. ReqOK'
      BY <1>1, <1>3, LostAndClosed DEF CheckToken, HostInv
    <2>2. mingled' \in BOOLEAN
      BY <1>3, Disturbed DEF CheckToken, HostInv
    <2>3. DbOK'
      BY <1>3, <2>2 DEF CheckToken, HostInv, DbOK, Files
    <2> QED
      BY <2>1, <2>3 DEF CheckToken, HostInv, ConfOK, ServedOK, CountOK, confVars
  <1> QED
    BY <1>2, <1>3

LEMMA InspectIsTyped ==
    ASSUME HostInv, NEW r \in Requests, Inspect(r) PROVE HostInv'
  <1>1. r \in Slots /\ req[r] \in Request
    BY DEF Slots, HostInv, ReqOK
  <1>2. CASE staged # Nothing /\ staged.ok
    <2>1. PICK d \in Readable :
              req' = [req EXCEPT ![r].pc = "rewrite",
                                 ![r].keep = HostDecision(d.host, staged.host)]
      BY <1>2 DEF Inspect
    <2> DEFINE keep == HostDecision(d.host, staged.host)
               q    == [req[r] EXCEPT !.pc = "rewrite", !.keep = keep]
    <2>2. d.host \in Hosts
      BY ReadableIsDb DEF HostInv, Db
    <2>3. keep \in Hosts \cup {Nothing}
      BY <2>2 DEF HostDecision
    <2>4. q \in Request /\ Carries(q)
      BY <1>1, <2>3 DEF Request, Steps, Carries, Carrying
    <2>5. req' = [req EXCEPT ![r] = q]
      BY <1>1, <2>1 DEF HostInv, ReqOK, Request
    <2> HIDE DEF q
    <2>6. ReqOK'
      BY <1>1, <2>4, <2>5, OneRequest DEF HostInv
    <2>7. DbOK'
      BY <1>2 DEF Inspect, HostInv, DbOK
    <2> QED
      BY <2>6, <2>7 DEF Inspect, HostInv, ConfOK, ServedOK, CountOK, confVars
  <1>3. CASE ~(staged # Nothing /\ staged.ok)
    <2>1. ReqOK'
      BY <1>1, <1>3, LostAndClosed DEF Inspect, HostInv
    <2>2. mingled' \in BOOLEAN
      BY <1>3 DEF Inspect
    <2>3. DbOK'
      BY <1>3, <2>2 DEF Inspect, HostInv, DbOK, Files
    <2> QED
      BY <2>1, <2>3 DEF Inspect, HostInv, ConfOK, ServedOK, CountOK, confVars
  <1> QED
    BY <1>2, <1>3

LEMMA RewriteStagedIsTyped ==
    ASSUME HostInv, NEW r \in Requests, RewriteStaged(r) PROVE HostInv'
  <1>1. r \in Slots /\ req[r] \in Request
    BY DEF Slots, HostInv, ReqOK
  <1>2. Unusable(req[r].n) \in Db
    BY <1>1, KnownValues DEF Request
  <1>3. ASSUME staged # Nothing PROVE Overridden(staged, req[r].keep) \in Db
    BY <1>1, <1>3 DEF Overridden, Request, HostInv, DbOK, Files, Db
  <1>4. staged' \in Files
    BY <1>2, <1>3 DEF RewriteStaged, HostInv, DbOK, Files
  <1>5. ReqOK'
    BY <1>1, GoesOn, Closed DEF RewriteStaged, HostInv, Steps, Carrying
  <1>6. DbOK'
    BY <1>4 DEF RewriteStaged, HostInv, DbOK
  <1> QED
    BY <1>5, <1>6 DEF RewriteStaged, HostInv, ConfOK, ServedOK, CountOK, confVars

LEMMA CopyLiveIsTyped ==
    ASSUME HostInv, NEW r \in Requests, CopyLive(r) PROVE HostInv'
  <1>1. ReqOK'
    BY GoesOn DEF CopyLive, HostInv, Steps, Carrying, Slots
  <1>2. DbOK'
    BY DEF CopyLive, SafetyCopy, HostInv, DbOK
  <1> QED
    BY <1>1, <1>2 DEF CopyLive, HostInv, ConfOK, ServedOK, CountOK, confVars

LEMMA ReplaceIsTyped ==
    ASSUME HostInv, NEW r \in Requests, Replace(r) PROVE HostInv'
  <1>1. r \in Slots /\ req[r].token \in Files
    BY DEF Slots, HostInv, ReqOK, Request
  <1>2. CASE staged = Nothing
    <2>1. ReqOK'
      BY <1>1, <1>2, Closed DEF Replace, HostInv
    <2> QED
      BY <1>2, <2>1 DEF Replace, HostInv, DbOK, ConfOK, ServedOK, CountOK, confVars
  <1>3. CASE staged # Nothing
    <2>1. ReqOK'
      BY <1>1, <1>3, LostAndClosed DEF Replace, HostInv
    <2>2. disk' \in Db /\ staged' \in Files /\ held' \in Files
      BY <1>3 DEF Replace, HostInv, DbOK, Files
    <2>3. swaps' \in [old : Files, token : Files]
      BY <1>1, <1>3 DEF Replace, HostInv, DbOK, Files
    <2>4. DbOK'
      BY <1>3, <2>2, <2>3 DEF Replace, HostInv, DbOK
    <2> QED
      BY <1>3, <2>1, <2>4 DEF Replace, HostInv, ConfOK, ServedOK, CountOK, confVars
  <1> QED
    BY <1>2, <1>3
--------------------------------------------------------------------------------
(* Starting again, and the dnsmasq container.                                   *)

LEMMA RestartIsTyped == ASSUME HostInv, Restart PROVE HostInv'
  <1> DEFINE start == [Idle EXCEPT !.op = "start", !.pc = StartsWith]
  <1>1. start \in Request /\ Carries(start)
    BY KnownValues DEF StartsWith, Idle, Request, Ops, Steps, Carries, Carrying
  <1>2. req' = [x \in Slots |-> IF x = Startup THEN start ELSE Idle]
    BY DEF Restart
  <1> HIDE DEF start
  <1>3. ReqOK'
    BY <1>1, <1>2, KnownValues DEF ReqOK, Carries
  <1>4. disk' \in Db /\ held' \in Files
    BY KnownValues DEF Restart, HostInv, DbOK, Db, Files
  <1>5. DbOK'
    BY <1>4 DEF Restart, HostInv, DbOK
  <1>6. CountOK'
    BY HostLimits DEF Restart, HostInv, CountOK
  <1> QED
    BY <1>3, <1>5, <1>6 DEF Restart, HostInv, ConfOK, ServedOK, confVars

LEMMA WatchingIsTyped == ASSUME HostInv, Watching PROVE HostInv'
  <1>1. dns' \in [text : Texts, last : Nat, up : BOOLEAN]
    BY DEF Watching, Poll, StartDnsmasq, DnsmasqExits, ReadAtStart, HostInv, ServedOK, ConfOK
  <1>2. UNCHANGED << dbVars, confVars, menu, grub, req, made, restarts, crossed >>
    BY DEF Watching, Poll, StartDnsmasq, DnsmasqExits
  <1> QED
    BY <1>1, <1>2 DEF HostInv, ReqOK, DbOK, ConfOK, ServedOK, CountOK, dbVars, confVars
--------------------------------------------------------------------------------
LEMMA AtFirst == HostInit => HostInv
  <1> SUFFICES ASSUME HostInit PROVE HostInv
      OBVIOUS
  <1>1. (CHOOSE h \in Here : TRUE) \in Hosts /\ (CHOOSE m \in Modes : TRUE) \in Modes
    BY ValuesAssumption, KnownValues
  <1>2. disk \in Db
    BY <1>1 DEF HostInit, Db
  <1>3. pre \in Db /\ staged \in Files /\ held \in Files
    <2>1. MaxRequests + 1 \in Nat /\ MaxRequests + 2 \in Nat
      BY HostLimits
    <2>2. pre = [disk EXCEPT !.from = MaxRequests + 2] /\ held = Nothing
      BY DEF HostInit
    <2>3. pre \in Db
      BY <1>2, <2>1, <2>2 DEF Db
    <2>4. [host : Hosts, mode : Modes, from : {MaxRequests + 1}, ok : {TRUE}] \subseteq Db
      BY <2>1 DEF Db
    <2>5. staged \in Files
      BY <2>4 DEF HostInit, Files
    <2> QED
      BY <2>2, <2>3, <2>5 DEF Files
  <1>4. previews \subseteq Db
    BY <1>3 DEF HostInit, Files
  <1>5. DbOK
    BY <1>2, <1>3, <1>4 DEF HostInit, DbOK, Files
  <1>6. ReqOK
    BY KnownValues DEF HostInit, ReqOK
  <1>7. ConfOK /\ CountOK
    <2>1. conf \in [text : Texts, stamp : Nat]
      BY <1>2, KnownValues DEF HostInit
    <2>2. 0 \in 0..MaxRequests /\ 0 \in 0..MaxRestarts
      BY HostLimits
    <2>3. made = 0 /\ restarts = 0 /\ fresh = FALSE /\ missed = FALSE
      BY DEF HostInit
    <2> QED
      BY <2>1, <2>2, <2>3 DEF ConfOK, CountOK
  <1>8. ServedOK
    BY <1>2, KnownValues DEF HostInit, ServedOK, Db
  <1> QED
    BY <1>5, <1>6, <1>7, <1>8 DEF HostInv

LEMMA SavingIsTyped ==
    ASSUME HostInv, NEW r \in Requests, Saving(r) PROVE HostInv'
  BY SaveKeyIsTyped, RebuildGrubIsTyped DEF Saving, Slots

LEMMA RenderingIsTyped ==
    ASSUME HostInv, NEW r \in Slots, Rendering(r) PROVE HostInv'
  BY RenderConfIsTyped, WriteConfIsTyped, RenderMenuIsTyped, WriteMenuIsTyped DEF Rendering

LEMMA RestoringIsTyped ==
    ASSUME HostInv, NEW r \in Requests, Restoring(r) PROVE HostInv'
  BY UploadWriteIsTyped, PreviewIsTyped, CheckTokenIsTyped, InspectIsTyped,
     RewriteStagedIsTyped, CopyLiveIsTyped, ReplaceIsTyped DEF Restoring

LEMMA NothingChanges == HostInv /\ UNCHANGED hostVars => HostInv'
  BY DEF hostVars, HostInv, ReqOK, DbOK, ConfOK, ServedOK, CountOK

\* Every variable of HostConfig keeps its type, when it runs by itself.
THEOREM HostTypeCorrect == HostSpec => []HostTypeOK
  <1>1. ASSUME HostInv, [HostNext \/ \E r \in Requests : SaveEnds(r)]_hostVars
        PROVE  HostInv'
    <2>1. CASE \E r \in Requests : \/ Save(r) \/ DrawMenu(r) \/ UploadOpen(r)
                                   \/ \E token \in previews : Apply(r, token)
                                   \/ Saving(r) \/ Restoring(r)
      BY <1>1, <2>1, SaveIsTyped, DrawMenuIsTyped, UploadOpenIsTyped, ApplyIsTyped,
         SavingIsTyped, RestoringIsTyped
    <2>2. CASE \E r \in Slots : Rendering(r)
      BY <1>1, <2>2, RenderingIsTyped
    <2>3. CASE Cancel \/ Restart \/ Watching \/ Second
      BY <1>1, <2>3, CancelIsTyped, RestartIsTyped, WatchingIsTyped, SecondIsTyped
    <2>4. CASE \E r \in Requests : SaveEnds(r)
      BY <1>1, <2>4, SaveEndsIsTyped DEF Slots
    <2>5. CASE UNCHANGED hostVars
      BY <1>1, <2>5, NothingChanges
    <2> QED
      BY <1>1, <2>1, <2>2, <2>3, <2>4, <2>5 DEF HostNext
  <1> QED
    BY <1>1, AtFirst, InvIsTyped, PTL DEF HostSpec
--------------------------------------------------------------------------------
(* What requests say after a step.                                              *)

\* All but where it is, and what is left to do.
Same(q, o) == /\ q.op = o.op /\ q.new = o.new /\ q.token = o.token /\ q.keep = o.keep
              /\ q.drawn = o.drawn /\ q.n = o.n

LEMMA IdleSays ==
    /\ Idle.op = "none" /\ Idle.pc = "idle" /\ Idle.new = Nothing /\ Idle.ino = "none"
    /\ Idle.token = Nothing /\ Idle.drawn = Unset /\ Idle.keep = Nothing
  BY DEF Idle

LEMMA AfterGoto ==
    ASSUME ReqOK, NEW r \in Slots, NEW pc, Goto(r, pc)
    PROVE  /\ req'[r].pc = pc /\ Same(req'[r], req[r]) /\ req'[r].ino = req[r].ino
           /\ \A x \in Slots \ {r} : req'[x] = req[x]
  <1>1. req[r] \in Request /\ req'[r] = [req[r] EXCEPT !.pc = pc]
        /\ \A x \in Slots \ {r} : req'[x] = req[x]
    BY DEF Goto, ReqOK
  <1> QED
    BY <1>1 DEF Same, Request

LEMMA AfterClose ==
    ASSUME ReqOK, NEW r \in Slots, Close(r)
    PROVE  req'[r] = Idle /\ \A x \in Slots \ {r} : req'[x] = req[x]
  BY DEF Close, ReqOK

LEMMA AfterOpen ==
    ASSUME ReqOK, NEW r \in Requests, NEW q \in Request, Open(r, q)
    PROVE  /\ req'[r].pc = q.pc /\ req'[r].ino = q.ino /\ req'[r].n = made + 1
           /\ req'[r].op = q.op /\ req'[r].new = q.new /\ req'[r].token = q.token
           /\ req'[r].keep = q.keep /\ req'[r].drawn = q.drawn
           /\ \A x \in Slots \ {r} : req'[x] = req[x]
           /\ req[r].pc = "idle"
  <1>1. r \in Slots /\ req[r].pc = "idle"
    BY DEF Open, Active, Slots
  <1>2. req'[r] = [q EXCEPT !.n = made + 1] /\ \A x \in Slots \ {r} : req'[x] = req[x]
    BY <1>1 DEF Open, ReqOK
  <1> QED
    BY <1>1, <1>2 DEF Request

\* The staged file is gone for those who were writing it.
LEMMA AfterLose ==
    ASSUME NEW rest \in [Slots -> Request], NEW to \in {"disk", "gone"},
           req' = Lose(rest, to)
    PROVE  \A x \in Slots : /\ req'[x].pc = rest[x].pc /\ Same(req'[x], rest[x])
                            /\ req'[x].ino = IF rest[x].ino = "staged" THEN to ELSE rest[x].ino
  <1> SUFFICES ASSUME NEW x \in Slots
               PROVE  /\ req'[x].pc = rest[x].pc /\ Same(req'[x], rest[x])
                      /\ req'[x].ino = IF rest[x].ino = "staged" THEN to ELSE rest[x].ino
      OBVIOUS
  <1>1. rest[x] \in Request
    OBVIOUS
  <1>2. req'[x] = IF rest[x].ino = "staged" THEN [rest[x] EXCEPT !.ino = to] ELSE rest[x]
    BY DEF Lose
  <1> QED
    BY <1>1, <1>2 DEF Same, Request

LEMMA AfterLoseAndClose ==
    ASSUME ReqOK, NEW r \in Slots, NEW to \in {"disk", "gone"},
           req' = Lose([req EXCEPT ![r] = Idle], to)
    PROVE  /\ req'[r].pc = "idle" /\ req'[r].op = "none"
           /\ \A x \in Slots \ {r} :
                 /\ req'[x].pc = req[x].pc /\ Same(req'[x], req[x])
                 /\ req'[x].ino = IF req[x].ino = "staged" THEN to ELSE req[x].ino
  <1> DEFINE rest == [req EXCEPT ![r] = Idle]
  <1>1. rest \in [Slots -> Request] /\ rest[r] = Idle /\ \A x \in Slots \ {r} : rest[x] = req[x]
    BY KnownValues DEF ReqOK
  <1>2. req' = Lose(rest, to)
    OBVIOUS
  <1> HIDE DEF rest
  <1>3. \A x \in Slots : /\ req'[x].pc = rest[x].pc /\ Same(req'[x], rest[x])
                         /\ req'[x].ino = IF rest[x].ino = "staged" THEN to ELSE rest[x].ino
    BY <1>1, <1>2, AfterLose
  <1>4. req'[r].pc = "idle" /\ req'[r].op = "none"
    BY <1>1, <1>3, IdleSays DEF Same
  <1> QED
    BY <1>1, <1>3, <1>4
--------------------------------------------------------------------------------
(* Restoring: the staged file between the preview and the swap.                 *)

Checked  == {"inspect", "rewrite", "copy", "replace"}
AppSteps == {"token"} \cup Checked

\* Tokens are given out for usable files only.
TokensInv == /\ \A p \in previews : p.ok
             /\ \A r \in Requests : req[r].pc \in AppSteps => req[r].token \in previews

\* What an apply that nobody disturbed counts on.
Follows(q, file, db, copy) ==
    /\ q.pc \in {"inspect", "rewrite"} => file = q.token
    /\ q.pc \in {"copy", "replace"} => file = Overridden(q.token, q.keep)
    /\ q.pc = "replace" => copy.from = db.from
    /\ q.pc = "transfer" => q.ino # "disk"

\* Nobody else applies, or writes the staged file, at the same time.
Apart(q, o) == q.pc \in Checked => /\ o.pc \notin Checked
                                   /\ o.pc = "transfer" => o.ino # "staged"

Restored(db, swap, shown) ==
    db.from # 0 => db.ok /\ swap.token \in shown /\ swap.token.from = db.from

FilesInv ==
    ~mingled =>
        /\ \A r \in Requests : Follows(req[r], staged, disk, pre)
        /\ \A r, x \in Requests : r # x => Apart(req[r], req[x])
        /\ Restored(disk, swaps, previews)
        /\ swaps.old # Nothing => pre.from \in {swaps.old.from, disk.from}

RestoreInv == TokensInv /\ FilesInv

\* A step that has nothing to do with backups.
KeepsFiles ==
    /\ UNCHANGED << staged, pre, previews, swaps, mingled >>
    /\ disk'.from = disk.from /\ disk'.ok = disk.ok
    /\ \A x \in Requests : req'[x].pc \in AppSteps \cup {"transfer"} => req'[x] = req[x]

LEMMA KeepingFiles == RestoreInv /\ KeepsFiles => RestoreInv'
  <1> SUFFICES ASSUME RestoreInv, KeepsFiles PROVE RestoreInv'
      OBVIOUS
  <1>1. TokensInv'
    BY DEF RestoreInv, TokensInv, KeepsFiles
  <1>2. ASSUME ~mingled' PROVE FilesInv'
    <2>1. ~mingled
      BY <1>2 DEF KeepsFiles
    <2>2. \A r \in Requests : Follows(req'[r], staged', disk', pre')
      BY <2>1 DEF RestoreInv, FilesInv, Follows, KeepsFiles, AppSteps, Checked
    <2>3. \A r, x \in Requests : r # x => Apart(req'[r], req'[x])
      BY <2>1 DEF RestoreInv, FilesInv, Apart, KeepsFiles, AppSteps, Checked
    <2>4. Restored(disk', swaps', previews')
      BY <2>1 DEF RestoreInv, FilesInv, Restored, KeepsFiles
    <2>5. swaps'.old # Nothing => pre'.from \in {swaps'.old.from, disk'.from}
      BY <2>1 DEF RestoreInv, FilesInv, KeepsFiles
    <2> QED
      BY <2>2, <2>3, <2>4, <2>5 DEF FilesInv
  <1>3. mingled' => FilesInv'
    BY DEF FilesInv
  <1> QED
    BY <1>1, <1>2, <1>3 DEF RestoreInv

LEMMA SavingKeepsFiles ==
    ASSUME HostInv, NEW r \in Requests, Save(r) \/ DrawMenu(r) \/ Saving(r) \/ SaveEnds(r)
    PROVE  KeepsFiles
  <1>1. r \in Slots /\ ReqOK /\ DbOK
    BY DEF Slots, HostInv
  <1>2. CASE Save(r)
    <2>1. PICK h \in Here, m \in Modes :
              Open(r, [Idle EXCEPT !.op = "save", !.pc = "keys", !.todo = Keys,
                         !.new = [host |-> h, mode |-> m, from |-> 0, ok |-> TRUE]])
      BY <1>2 DEF Save
    <2> DEFINE d == [host |-> h, mode |-> m, from |-> 0, ok |-> TRUE]
               q == [Idle EXCEPT !.op = "save", !.pc = "keys", !.todo = Keys, !.new = d]
    <2>2. req'[r].pc = "keys" /\ \A x \in Slots \ {r} : req'[x] = req[x]
      BY <1>1, <2>1 DEF Open, ReqOK, Idle
    <2> QED
      BY <1>2, <2>2 DEF Save, KeepsFiles, AppSteps, Checked, Slots, dbVars
  <1>3. CASE DrawMenu(r)
    <2>1. req'[r].pc = "menu" /\ \A x \in Slots \ {r} : req'[x] = req[x]
      BY <1>1, <1>3 DEF DrawMenu, Open, ReqOK, Idle
    <2> QED
      BY <1>3, <2>1 DEF DrawMenu, KeepsFiles, AppSteps, Checked, Slots, dbVars
  <1>4. ASSUME NEW k \in Keys, SaveKey(r, k) PROVE KeepsFiles
    <2>1. req[r] \in Request
      BY <1>1 DEF ReqOK
    <2>2. req'[r].pc \in {"keys", "conf"} /\ \A x \in Slots \ {r} : req'[x] = req[x]
      BY <1>1, <1>4, <2>1 DEF SaveKey, ReqOK, Request
    <2>3. disk'.from = disk.from /\ disk'.ok = disk.ok
      BY <1>1, <1>4 DEF SaveKey, DbOK, Db
    <2> QED
      BY <1>4, <2>2, <2>3 DEF SaveKey, KeepsFiles, AppSteps, Checked, Slots
  <1>5. CASE RebuildGrub(r)
    <2>1. req'[r].pc = "bake" /\ \A x \in Slots \ {r} : req'[x] = req[x]
      BY <1>1, <1>5, AfterGoto DEF RebuildGrub
    <2> QED
      BY <1>5, <2>1 DEF RebuildGrub, KeepsFiles, AppSteps, Checked, Slots, dbVars
  <1>6. CASE SaveEnds(r)
    <2>1. req'[r] = Idle /\ \A x \in Slots \ {r} : req'[x] = req[x]
      BY <1>1, <1>6, AfterClose DEF SaveEnds
    <2> QED
      BY <1>6, <2>1, IdleSays DEF SaveEnds, KeepsFiles, AppSteps, Checked, Slots, dbVars
  <1> QED
    BY <1>2, <1>3, <1>4, <1>5, <1>6 DEF Saving

LEMMA RenderingKeepsFiles ==
    ASSUME HostInv, NEW r \in Slots, Rendering(r) PROVE KeepsFiles
  <1>1. ReqOK /\ req[r] \in Request
    BY DEF HostInv, ReqOK
  <1>2. req'[r].pc \notin AppSteps \cup {"transfer"} /\ \A x \in Slots \ {r} : req'[x] = req[x]
    <2>1. CASE RenderConf(r)
      BY <1>1, <2>1 DEF RenderConf, Goto, AfterConf, ReqOK, Request, AppSteps, Checked
    <2>2. CASE WriteConf(r)
      BY <1>1, <2>2, AfterGoto DEF WriteConf, AfterConf, AppSteps, Checked
    <2>3. CASE RenderMenu(r)
      BY <1>1, <2>3 DEF RenderMenu, ReqOK, Request, AppSteps, Checked
    <2>4. CASE WriteMenu(r)
      BY <1>1, <2>4, AfterGoto, AfterClose, IdleSays DEF WriteMenu, AppSteps, Checked
    <2> QED
      BY <2>1, <2>2, <2>3, <2>4 DEF Rendering
  <1>3. UNCHANGED dbVars
    BY DEF Rendering, RenderConf, WriteConf, RenderMenu, WriteMenu
  <1> QED
    BY <1>2, <1>3 DEF KeepsFiles, Slots, dbVars

LEMMA OthersKeepFiles ==
    ASSUME HostInv, Restart \/ Watching \/ Second PROVE KeepsFiles
  <1>1. CASE Restart
    <2>1. \A x \in Requests : req'[x] = Idle
      BY <1>1, SlotsAssumption DEF Restart, Slots
    <2>2. disk'.from = disk.from /\ disk'.ok = disk.ok
      BY <1>1 DEF Restart, HostInv, DbOK, Db
    <2> QED
      BY <1>1, <2>1, <2>2, IdleSays DEF Restart, KeepsFiles, AppSteps, Checked
  <1>2. CASE Watching \/ Second
    BY <1>2 DEF Watching, Poll, StartDnsmasq, DnsmasqExits, Second, dbVars, KeepsFiles
  <1> QED
    BY <1>1, <1>2

\* A step before anybody applies, or one that ends the only apply.
LEMMA NobodyApplies ==
    ASSUME RestoreInv, TokensInv', mingled \/ mingled' \/
              /\ UNCHANGED << disk, pre, swaps >> /\ previews \subseteq previews'
              /\ \A x \in Requests : /\ req'[x].pc \notin Checked
                                     /\ req'[x].pc = "transfer" => req'[x].ino # "disk",
           mingled => mingled'
    PROVE  RestoreInv'
  <1>1. ASSUME ~mingled' PROVE FilesInv'
    <2>1. \A r \in Requests : Follows(req'[r], staged', disk', pre')
      BY <1>1 DEF Follows, Checked
    <2>2. \A r, x \in Requests : Apart(req'[r], req'[x])
      BY <1>1 DEF Apart
    <2> QED
      BY <1>1, <2>1, <2>2 DEF RestoreInv, FilesInv, Restored
  <1> QED
    BY <1>1 DEF RestoreInv, FilesInv

LEMMA MinglesOrNobody ==
    ASSUME DbOK, Mingles, ~mingled' PROVE ~mingled /\ \A x \in Requests : req[x].pc \notin Checked
  BY DEF Mingles, Applying, Checked

\* The staged file goes, and with it the apply or the upload of r.
LEMMA DroppedKeepsRestore ==
    ASSUME HostInv, RestoreInv, NEW r \in Requests, mingled => mingled',
           req' = Lose([req EXCEPT ![r] = Idle], "gone"),
           UNCHANGED << disk, pre, previews, swaps >>,
           ~mingled' => \A x \in Requests \ {r} : req[x].pc \notin Checked
    PROVE  RestoreInv'
  <1>1. /\ req'[r].pc = "idle"
        /\ \A x \in Requests \ {r} :
              /\ req'[x].pc = req[x].pc /\ req'[x].token = req[x].token
              /\ req'[x].ino = IF req[x].ino = "staged" THEN "gone" ELSE req[x].ino
    <2>1. r \in Slots /\ ReqOK /\ Requests \subseteq Slots
      BY DEF HostInv, Slots
    <2>2. /\ req'[r].pc = "idle"
          /\ \A x \in Slots \ {r} :
                /\ req'[x].pc = req[x].pc /\ Same(req'[x], req[x])
                /\ req'[x].ino = IF req[x].ino = "staged" THEN "gone" ELSE req[x].ino
      BY <2>1, AfterLoseAndClose
    <2> QED
      BY <2>1, <2>2 DEF Same
  <1>2. TokensInv'
    BY <1>1 DEF RestoreInv, TokensInv, AppSteps, Checked
  <1>3. ASSUME ~mingled', NEW x \in Requests
        PROVE  req'[x].pc \notin Checked /\ (req'[x].pc = "transfer" => req'[x].ino # "disk")
    BY <1>1, <1>3 DEF RestoreInv, FilesInv, Follows, Checked
  <1> QED
    BY <1>2, <1>3, NobodyApplies

LEMMA UploadOpenKeepsRestore ==
    ASSUME HostInv, RestoreInv, NEW r \in Requests, UploadOpen(r) PROVE RestoreInv'
  <1>1. PICK d \in {Unusable(made + 1)} \cup
                   [host : Hosts, mode : Modes, from : {made + 1}, ok : {TRUE}] :
            Open(r, [Idle EXCEPT !.op = "upload", !.pc = "transfer", !.ino = "staged",
                       !.new = d])
    BY DEF UploadOpen
  <1>2. /\ req'[r].pc = "transfer" /\ req'[r].ino = "staged"
        /\ \A x \in Requests \ {r} : req'[x] = req[x]
    BY <1>1 DEF Open, HostInv, ReqOK, Slots, Idle
  <1>3. TokensInv'
    BY <1>2 DEF UploadOpen, RestoreInv, TokensInv, AppSteps, Checked
  <1>4. ASSUME ~mingled', NEW x \in Requests
        PROVE  req'[x].pc \notin Checked /\ (req'[x].pc = "transfer" => req'[x].ino # "disk")
    BY <1>2, <1>4, MinglesOrNobody
       DEF UploadOpen, HostInv, RestoreInv, FilesInv, Follows, Checked
  <1> QED
    BY <1>3, <1>4, NobodyApplies DEF UploadOpen, Mingles

LEMMA UploadWriteKeepsRestore ==
    ASSUME HostInv, RestoreInv, NEW r \in Requests, UploadWrite(r) PROVE RestoreInv'
  <1>1. /\ req'[r].pc = "preview" /\ \A x \in Requests \ {r} : req'[x] = req[x]
    BY AfterGoto DEF UploadWrite, HostInv, Slots
  <1>2. TokensInv'
    BY <1>1 DEF UploadWrite, RestoreInv, TokensInv, AppSteps, Checked
  <1>3. ASSUME ~mingled'
        PROVE  /\ disk' = disk
               /\ \A x \in Requests : /\ req'[x].pc \notin Checked
                                      /\ req'[x].pc = "transfer" => req'[x].ino # "disk"
    <2>1. ~mingled /\ \A x \in Requests : req[x].pc \notin Checked
      BY <1>3, MinglesOrNobody DEF UploadWrite, HostInv
    <2>2. \A x \in Requests : req[x].pc = "transfer" => req[x].ino # "disk"
      BY <2>1 DEF RestoreInv, FilesInv, Follows
    <2>3. disk' = disk
      BY <2>2 DEF UploadWrite
    <2> QED
      BY <1>1, <2>1, <2>2, <2>3 DEF Checked
  <1> QED
    BY <1>2, <1>3, NobodyApplies DEF UploadWrite, Mingles

LEMMA CancelKeepsRestore ==
    ASSUME HostInv, RestoreInv, Cancel PROVE RestoreInv'
  <1>1. req \in [Slots -> Request] /\ req' = Lose(req, "gone")
    BY DEF Cancel, HostInv, ReqOK
  <1>2. \A x \in Requests :
           /\ req'[x].pc = req[x].pc /\ req'[x].token = req[x].token
           /\ req'[x].ino = IF req[x].ino = "staged" THEN "gone" ELSE req[x].ino
    BY <1>1, AfterLose DEF Slots, Same
  <1>3. TokensInv'
    BY <1>2 DEF Cancel, RestoreInv, TokensInv
  <1>4. ASSUME ~mingled', NEW x \in Requests
        PROVE  req'[x].pc \notin Checked /\ (req'[x].pc = "transfer" => req'[x].ino # "disk")
    BY <1>2, <1>4, MinglesOrNobody DEF Cancel, HostInv, RestoreInv, FilesInv, Follows
  <1> QED
    BY <1>3, <1>4, NobodyApplies DEF Cancel, Mingles

LEMMA PreviewKeepsRestore ==
    ASSUME HostInv, RestoreInv, NEW r \in Requests, Preview(r) PROVE RestoreInv'
  <1>1. CASE staged # Nothing /\ staged.ok
    <2>1. req'[r] = Idle /\ \A x \in Requests \ {r} : req'[x] = req[x]
      BY <1>1, AfterClose DEF Preview, HostInv, Slots
    <2>2. /\ previews' = previews \cup {staged}
          /\ UNCHANGED << staged, disk, pre, swaps, mingled >>
      BY <1>1 DEF Preview
    <2>3. TokensInv'
      BY <1>1, <2>1, <2>2, IdleSays DEF RestoreInv, TokensInv, AppSteps, Checked
    <2>4. ASSUME ~mingled PROVE FilesInv'
      <3>1. \A x \in Requests : Follows(req'[x], staged', disk', pre')
        BY <2>1, <2>2, <2>4, IdleSays DEF RestoreInv, FilesInv, Follows
      <3>2. \A x, y \in Requests : x # y => Apart(req'[x], req'[y])
        BY <2>1, <2>4, IdleSays DEF RestoreInv, FilesInv, Apart, Checked
      <3> QED
        BY <2>2, <2>4, <3>1, <3>2 DEF RestoreInv, FilesInv, Restored
    <2> QED
      BY <2>2, <2>3, <2>4 DEF RestoreInv, FilesInv
  <1>2. CASE ~(staged # Nothing /\ staged.ok)
    <2>1. ~mingled' => \A x \in Requests : req[x].pc \notin Checked
      BY <1>2, MinglesOrNobody DEF Preview, HostInv
    <2> QED
      BY <1>2, <2>1, DroppedKeepsRestore DEF Preview, Mingles
  <1> QED
    BY <1>1, <1>2

LEMMA ApplyKeepsRestore ==
    ASSUME HostInv, RestoreInv, NEW r \in Requests, NEW token \in previews, Apply(r, token)
    PROVE  RestoreInv'
  <1>1. /\ req'[r].pc = "token" /\ req'[r].token = token
        /\ \A x \in Requests \ {r} : req'[x] = req[x]
    BY DEF Apply, Open, HostInv, ReqOK, Slots, Idle
  <1>2. UNCHANGED << disk, staged, pre, previews, swaps, mingled >>
    BY DEF Apply, dbVars
  <1>3. TokensInv'
    BY <1>1, <1>2 DEF RestoreInv, TokensInv
  <1>4. ASSUME ~mingled PROVE FilesInv'
    <2>1. \A x \in Requests : Follows(req'[x], staged', disk', pre')
      BY <1>1, <1>2, <1>4 DEF RestoreInv, FilesInv, Follows
    <2>2. \A x, y \in Requests : x # y => Apart(req'[x], req'[y])
      BY <1>1, <1>4 DEF RestoreInv, FilesInv, Apart, Checked
    <2> QED
      BY <1>2, <1>4, <2>1, <2>2 DEF RestoreInv, FilesInv
  <1> QED
    BY <1>2, <1>3, <1>4 DEF RestoreInv, FilesInv

LEMMA CheckTokenKeepsRestore ==
    ASSUME HostInv, RestoreInv, NEW r \in Requests, CheckToken(r) PROVE RestoreInv'
  <1>1. CASE Matches(req[r].token)
    <2>1. /\ req'[r].pc = "inspect" /\ req'[r].token = req[r].token
          /\ \A x \in Requests \ {r} : req'[x] = req[x]
      BY <1>1, AfterGoto DEF CheckToken, HostInv, Slots, Same
    <2>2. UNCHANGED << disk, staged, pre, previews, swaps >> /\ staged = req[r].token
      BY <1>1 DEF CheckToken, Matches
    <2>3. TokensInv'
      BY <2>1, <2>2 DEF RestoreInv, TokensInv, AppSteps, CheckToken
    <2>4. ASSUME ~mingled' PROVE FilesInv'
      <3>1. /\ ~mingled /\ \A x \in Requests : req[x].pc \notin Checked
            /\ \A x \in Requests : req[x].pc = "transfer" => req[x].ino # "staged"
        BY <1>1, <2>4 DEF CheckToken, Applying, Checked
      <3>2. \A x \in Requests : Follows(req'[x], staged', disk', pre')
        BY <2>1, <2>2, <3>1 DEF RestoreInv, FilesInv, Follows, Checked
      <3>3. \A x, y \in Requests : x # y => Apart(req'[x], req'[y])
        BY <2>1, <3>1 DEF Apart, Checked
      <3> QED
        BY <2>2, <3>1, <3>2, <3>3 DEF RestoreInv, FilesInv
    <2> QED
      BY <2>3, <2>4 DEF RestoreInv, FilesInv
  <1>2. CASE ~Matches(req[r].token)
    <2>1. ~mingled' => \A x \in Requests : req[x].pc \notin Checked
      BY <1>2, MinglesOrNobody DEF CheckToken, HostInv
    <2> QED
      BY <1>2, <2>1, DroppedKeepsRestore DEF CheckToken, Mingles
  <1> QED
    BY <1>1, <1>2

\* Under ~mingled, what is checked is usable.
LEMMA CheckedIsUsable ==
    ASSUME HostInv, RestoreInv, ~mingled, NEW r \in Requests, req[r].pc \in Checked
    PROVE  /\ req[r].token \in previews /\ req[r].token \in Db /\ req[r].token.ok
           /\ staged # Nothing /\ staged \in Db
           /\ staged.ok /\ staged.from = req[r].token.from
  <1>1. req[r].token \in previews /\ req[r].token \in Db /\ req[r].token.ok
    BY DEF HostInv, DbOK, RestoreInv, TokensInv, AppSteps
  <1>2. staged \in {req[r].token, Overridden(req[r].token, req[r].keep)}
    BY DEF RestoreInv, FilesInv, Follows, Checked
  <1>3. staged \in {req[r].token, [req[r].token EXCEPT !.host = req[r].keep]}
    BY <1>2 DEF Overridden
  <1>4. staged.ok = req[r].token.ok /\ staged.from = req[r].token.from
        /\ staged # Nothing
    <2>1. CASE staged = req[r].token
      BY <1>1, <2>1, NothingAssumption
    <2>2. CASE staged = [req[r].token EXCEPT !.host = req[r].keep]
      <3>1. req[r] \in Request
        BY DEF HostInv, ReqOK, Slots
      <3>2. staged.ok = req[r].token.ok /\ staged.from = req[r].token.from
        BY <1>1, <2>2 DEF Db
      <3>3. staged # Nothing
        <4>1. CASE req[r].keep = Nothing
          BY <1>1, <1>2, <4>1, NothingAssumption DEF Overridden
        <4>2. CASE req[r].keep # Nothing
          <5>1. staged \in Db
            BY <1>1, <2>2, <3>1, <4>2 DEF Db, Request
          <5> QED
            BY <5>1, NothingAssumption
        <4> QED
          BY <4>1, <4>2
      <3> QED
        BY <3>2, <3>3
    <2> QED
      BY <1>3, <2>1, <2>2
  <1>5. staged \in Db
    BY <1>4 DEF HostInv, DbOK, Files
  <1> QED
    BY <1>1, <1>4, <1>5

LEMMA InspectKeepsRestore ==
    ASSUME HostInv, RestoreInv, NEW r \in Requests, Inspect(r) PROVE RestoreInv'
  <1>1. CASE staged # Nothing /\ staged.ok
    <2>1. PICK d \in Readable :
              req' = [req EXCEPT ![r].pc = "rewrite",
                                 ![r].keep = HostDecision(d.host, staged.host)]
      BY <1>1 DEF Inspect
    <2>2. req[r] \in Request /\ r \in Slots
      BY DEF HostInv, ReqOK, Slots
    <2>3. /\ req'[r].pc = "rewrite" /\ req'[r].token = req[r].token
          /\ \A x \in Requests \ {r} : req'[x] = req[x]
      BY <2>1, <2>2 DEF HostInv, ReqOK, Request, Slots
    <2>4. UNCHANGED << disk, staged, pre, previews, swaps, mingled >> /\ req[r].pc = "inspect"
      BY <1>1 DEF Inspect
    <2>5. TokensInv'
      BY <2>3, <2>4 DEF RestoreInv, TokensInv, AppSteps, Checked
    <2>6. ASSUME ~mingled PROVE FilesInv'
      <3>1. \A x \in Requests : Follows(req'[x], staged', disk', pre')
        BY <2>3, <2>4, <2>6 DEF RestoreInv, FilesInv, Follows
      <3>2. \A x, y \in Requests : x # y => Apart(req'[x], req'[y])
        BY <2>3, <2>4, <2>6 DEF RestoreInv, FilesInv, Apart, Checked
      <3> QED
        BY <2>4, <2>6, <3>1, <3>2 DEF RestoreInv, FilesInv
    <2> QED
      BY <2>4, <2>5, <2>6 DEF RestoreInv, FilesInv
  <1>2. CASE ~(staged # Nothing /\ staged.ok)
    <2>1. mingled
      BY <1>2, CheckedIsUsable DEF Inspect, Checked
    <2> QED
      BY <1>2, <2>1, DroppedKeepsRestore DEF Inspect
  <1> QED
    BY <1>1, <1>2

\* One request goes on with its apply, and the staged file with it.
LEMMA ApplyGoesOn ==
    ASSUME HostInv, RestoreInv, NEW r \in Requests, req[r].pc \in Checked,
           UNCHANGED << disk, previews, swaps, mingled >>,
           req'[r].token = req[r].token, req'[r].pc \in {"idle", "copy", "replace"},
           \A x \in Requests \ {r} : req'[x] = req[x],
           ~mingled => Follows(req'[r], staged', disk, pre'),
           ~mingled /\ swaps.old # Nothing => pre'.from \in {swaps.old.from, disk.from}
    PROVE  RestoreInv'
  <1>1. TokensInv'
    BY DEF RestoreInv, TokensInv, AppSteps, Checked
  <1>2. ASSUME ~mingled PROVE FilesInv'
    <2>1. ASSUME NEW x \in Requests PROVE Follows(req'[x], staged', disk', pre')
      <3>1. CASE x = r
        BY <1>2, <3>1
      <3>2. CASE x # r
        <4>1. req'[x] = req[x] /\ req[x].pc \notin Checked /\ Follows(req[x], staged, disk, pre)
          BY <1>2, <3>2 DEF RestoreInv, FilesInv, Apart
        <4> QED
          BY <4>1 DEF Follows, Checked
      <3> QED
        BY <3>1, <3>2
    <2>2. ASSUME NEW x \in Requests, NEW y \in Requests, x # y
          PROVE  Apart(req'[x], req'[y])
      <3>1. /\ Apart(req[x], req[y]) /\ Apart(req[y], req[x])
            /\ Apart(req[r], req[y]) \/ y = r
        BY <1>2, <2>2 DEF RestoreInv, FilesInv
      <3>2. Apart(req[x], req[y])
        BY <1>2, <2>2 DEF RestoreInv, FilesInv
      <3> QED
        BY <2>2, <3>1, <3>2 DEF Apart, Checked
    <2> QED
      BY <1>2, <2>1, <2>2 DEF RestoreInv, FilesInv, Restored
  <1> QED
    BY <1>1, <1>2 DEF RestoreInv, FilesInv

LEMMA RewriteKeepsRestore ==
    ASSUME HostInv, RestoreInv, NEW r \in Requests, RewriteStaged(r) PROVE RestoreInv'
  <1>1. r \in Slots /\ ReqOK /\ req[r].pc = "rewrite" /\ req[r].pc \in Checked
        /\ UNCHANGED << disk, pre, previews, swaps, mingled >>
    BY DEF HostInv, Slots, RewriteStaged, Checked
  <1>2. CASE staged # Nothing /\ staged.ok
    <2>1. /\ req'[r].pc = "copy" /\ Same(req'[r], req[r])
          /\ \A x \in Requests \ {r} : req'[x] = req[x]
      BY <1>1, <1>2, AfterGoto DEF RewriteStaged, Slots
    <2>2. staged' = Overridden(staged, req[r].keep)
      BY <1>2 DEF RewriteStaged
    <2>3. ~mingled => Follows(req'[r], staged', disk, pre')
      BY <1>1, <2>1, <2>2 DEF RestoreInv, FilesInv, Follows, Same
    <2> QED
      BY <1>1, <2>1, <2>3, ApplyGoesOn DEF RestoreInv, FilesInv, Same
  <1>3. CASE ~(staged # Nothing /\ staged.ok)
    <2>1. mingled
      BY <1>1, <1>3, CheckedIsUsable
    <2>2. req'[r] = Idle /\ \A x \in Requests \ {r} : req'[x] = req[x]
      BY <1>1, <1>3, AfterClose DEF RewriteStaged, Slots
    <2>3. TokensInv'
      BY <1>1, <2>2, IdleSays DEF RestoreInv, TokensInv, AppSteps, Checked
    <2> QED
      BY <1>1, <2>1, <2>3 DEF RestoreInv, FilesInv
  <1> QED
    BY <1>2, <1>3

LEMMA CopyLiveKeepsRestore ==
    ASSUME HostInv, RestoreInv, NEW r \in Requests, CopyLive(r) PROVE RestoreInv'
  <1>1. r \in Slots /\ ReqOK /\ req[r].pc = "copy" /\ req[r].pc \in Checked
        /\ UNCHANGED << disk, staged, previews, swaps, mingled >> /\ pre' = disk
    BY DEF HostInv, Slots, CopyLive, SafetyCopy, Checked
  <1>2. /\ req'[r].pc = "replace" /\ Same(req'[r], req[r])
        /\ \A x \in Requests \ {r} : req'[x] = req[x]
    BY <1>1, AfterGoto DEF CopyLive, Slots
  <1>3. ~mingled => Follows(req'[r], staged', disk, pre')
    BY <1>1, <1>2 DEF RestoreInv, FilesInv, Follows, Same
  <1> QED
    BY <1>1, <1>2, <1>3, ApplyGoesOn DEF Same

LEMMA ReplaceKeepsRestore ==
    ASSUME HostInv, RestoreInv, NEW r \in Requests, Replace(r) PROVE RestoreInv'
  <1>1. r \in Slots /\ ReqOK /\ req[r].pc = "replace" /\ req[r].pc \in Checked
        /\ UNCHANGED << pre, previews, mingled >> /\ Requests \subseteq Slots
    BY DEF HostInv, Slots, Replace, Checked
  <1>2. CASE staged = Nothing
    <2>1. mingled
      BY <1>1, <1>2, CheckedIsUsable
    <2>2. req'[r] = Idle /\ \A x \in Requests \ {r} : req'[x] = req[x]
      BY <1>1, <1>2, AfterClose DEF Replace
    <2>3. TokensInv'
      BY <1>1, <2>2, IdleSays DEF RestoreInv, TokensInv, AppSteps, Checked
    <2> QED
      BY <1>1, <2>1, <2>3 DEF RestoreInv, FilesInv
  <1>3. CASE staged # Nothing
    <2>1. /\ disk' = staged /\ swaps' = [old |-> disk, token |-> req[r].token]
          /\ req' = Lose([req EXCEPT ![r] = Idle], "disk")
      BY <1>3 DEF Replace
    <2>2. /\ req'[r].pc = "idle"
          /\ \A x \in Requests \ {r} :
                /\ req'[x].pc = req[x].pc /\ Same(req'[x], req[x])
                /\ req'[x].ino = IF req[x].ino = "staged" THEN "disk" ELSE req[x].ino
      BY <1>1, <2>1, AfterLoseAndClose
    <2>3. TokensInv'
      BY <1>1, <2>2 DEF RestoreInv, TokensInv, AppSteps, Checked, Same
    <2>4. ASSUME ~mingled PROVE FilesInv'
      <3>1. /\ req[r].token \in previews /\ staged.ok /\ staged.from = req[r].token.from
            /\ pre.from = disk.from
        BY <1>1, <2>4, CheckedIsUsable DEF RestoreInv, FilesInv, Follows
      <3>2. \A x \in Requests \ {r} : req[x].pc \notin Checked
                                      /\ (req[x].pc = "transfer" => req[x].ino \notin {"staged", "disk"})
        BY <1>1, <2>4 DEF RestoreInv, FilesInv, Apart, Follows
      <3>3. \A x \in Requests : req'[x].pc \notin Checked
                                /\ (req'[x].pc = "transfer" => req'[x].ino # "disk")
        BY <2>2, <3>2 DEF Checked
      <3>4. \A x \in Requests : Follows(req'[x], staged', disk', pre')
        BY <3>3 DEF Follows, Checked
      <3>5. \A x, y \in Requests : Apart(req'[x], req'[y])
        BY <3>3 DEF Apart
      <3>6. swaps'.old.from = disk.from /\ swaps'.token = req[r].token
        BY <2>1
      <3> QED
        BY <1>1, <2>1, <3>1, <3>4, <3>5, <3>6 DEF FilesInv, Restored
    <2> QED
      BY <1>1, <2>3, <2>4 DEF RestoreInv, FilesInv
  <1> QED
    BY <1>2, <1>3

LEMMA RestoringKeepsRestore ==
    ASSUME HostInv, RestoreInv, NEW r \in Requests, Restoring(r) PROVE RestoreInv'
  BY UploadWriteKeepsRestore, PreviewKeepsRestore, CheckTokenKeepsRestore,
     InspectKeepsRestore, RewriteKeepsRestore, CopyLiveKeepsRestore, ReplaceKeepsRestore
     DEF Restoring

LEMMA FirstRestore == HostInit => RestoreInv
  <1> SUFFICES ASSUME HostInit PROVE RestoreInv
      OBVIOUS
  <1>1. \A r \in Requests : req[r].pc = "idle"
    BY IdleSays DEF HostInit, Slots
  <1>2. previews = {staged} \ {Nothing} /\ (staged # Nothing => staged.ok)
    BY DEF HostInit
  <1>3. disk.from = 0 /\ swaps.old = Nothing
    BY DEF HostInit
  <1> QED
    BY <1>1, <1>2, <1>3
       DEF RestoreInv, TokensInv, FilesInv, Follows, Apart, Restored, AppSteps, Checked

LEMMA MingledStays ==
    ASSUME HostNext \/ \E r \in Requests : SaveEnds(r), mingled PROVE mingled'
  <1>1. ASSUME NEW r \in Slots, Saving(r) \/ Rendering(r) \/ SaveEnds(r) PROVE mingled'
    BY <1>1 DEF Saving, SaveKey, RebuildGrub, SaveEnds, Rendering, RenderConf, WriteConf,
                RenderMenu, WriteMenu, dbVars
  <1>2. ASSUME NEW r \in Requests, Restoring(r) PROVE mingled'
    BY <1>2 DEF Restoring, UploadWrite, Preview, CheckToken, Inspect, RewriteStaged,
                CopyLive, Replace, Mingles
  <1>3. ASSUME NEW r \in Requests, Save(r) \/ DrawMenu(r) \/ UploadOpen(r)
                                   \/ \E token \in previews : Apply(r, token)
        PROVE  mingled'
    BY <1>3 DEF Save, DrawMenu, UploadOpen, Apply, Mingles, dbVars
  <1>4. CASE Cancel \/ Restart \/ Watching \/ Second
    BY <1>4 DEF Cancel, Mingles, Restart, Watching, Poll, StartDnsmasq, DnsmasqExits,
                Second, dbVars
  <1> QED
    BY <1>1, <1>2, <1>3, <1>4 DEF HostNext, Slots
--------------------------------------------------------------------------------
(* Values of another machine.                                                   *)

OwnFiles == /\ disk.host # Foreign /\ (held # Nothing => held.host # Foreign)
            /\ Foreign \notin {conf.text.host, dns.text.host, menu, grub}

\* The steps of a request after which something it carries comes into use.
Brings == {"keys", "write", "draw", "rewrite", "copy", "replace"}

OwnRequest(q) ==
    /\ q.pc \in {"keys", "write"} => q.new.host # Foreign
    /\ q.pc = "draw" => q.drawn # Foreign
    /\ q.pc \in {"rewrite", "copy", "replace"} =>
          q.keep # Foreign /\ (q.token.host = Foreign => q.keep # Nothing)

ForeignInv == HostVisible /\ ~mingled =>
                 OwnFiles /\ \A r \in Slots : OwnRequest(req[r])

\* A request that brings nothing more, or the same as before.
BringsTheSame(q, o) ==
    \/ q.pc \notin Brings
    \/ /\ Same(q, o)
       /\ \/ q.pc = o.pc
          \/ {q.pc, o.pc} \subseteq {"rewrite", "copy", "replace"}

LEMMA SameIsOwn == \A q, o : OwnRequest(o) /\ BringsTheSame(q, o) => OwnRequest(q)
  BY DEF OwnRequest, BringsTheSame, Same, Brings

LEMMA UnchangedIsSame == \A q : BringsTheSame(q, q)
  BY DEF BringsTheSame, Same

\* A step that leaves the files as they are, and in which no request brings more.
LEMMA NothingForeign ==
    ASSUME ForeignInv, mingled => mingled',
           UNCHANGED << disk, held, conf, dns, menu, grub >>,
           \A x \in Slots : BringsTheSame(req'[x], req[x])
    PROVE  ForeignInv'
  <1>1. ASSUME HostVisible, ~mingled' PROVE OwnFiles' /\ \A x \in Slots : OwnRequest(req'[x])
    BY <1>1, SameIsOwn DEF ForeignInv, OwnFiles
  <1> QED
    BY <1>1 DEF ForeignInv

\* One request moves on, and some files change, all for the better.
LEMMA NothingForeignFrom ==
    ASSUME ForeignInv, mingled => mingled', NEW r \in Slots,
           \A x \in Slots \ {r} : req'[x] = req[x],
           HostVisible /\ ~mingled' => OwnFiles' /\ OwnRequest(req'[r])
    PROVE  ForeignInv'
  BY DEF ForeignInv

LEMMA ReadableIsOwn ==
    ASSUME ForeignInv, HostVisible, ~mingled, DbOK, NEW d \in Readable
    PROVE  d.host # Foreign /\ d.host \in Hosts /\ d.host # Nothing /\ Text(d).host = d.host
  <1>1. d \in Db /\ d.host # Foreign
    BY ReadableIsDb DEF ForeignInv, OwnFiles, Readable
  <1> QED
    BY <1>1, NothingAssumption DEF Db, Text

LEMMA SavingKeepsForeignOut ==
    ASSUME HostInv, ForeignInv, NEW r \in Requests,
           Save(r) \/ DrawMenu(r) \/ Saving(r) \/ SaveEnds(r)
    PROVE  ForeignInv'
  <1>1. r \in Slots /\ ReqOK /\ DbOK /\ Requests \subseteq Slots /\ req[r] \in Request
    BY DEF Slots, HostInv, ReqOK
  <1>2. CASE Save(r)
    <2>1. PICK h \in Here, m \in Modes :
              Open(r, [Idle EXCEPT !.op = "save", !.pc = "keys", !.todo = Keys,
                         !.new = [host |-> h, mode |-> m, from |-> 0, ok |-> TRUE]])
      BY <1>2 DEF Save
    <2>2. /\ req'[r].pc = "keys" /\ req'[r].new.host = h
          /\ \A x \in Slots \ {r} : req'[x] = req[x]
      BY <1>1, <2>1 DEF Open, ReqOK, Idle
    <2>3. OwnRequest(req'[r])
      BY <2>2, ValuesAssumption DEF OwnRequest
    <2>4. UNCHANGED << disk, held, conf, dns, menu, grub, mingled >>
      BY <1>2 DEF Save, dbVars, confVars
    <2> QED
      BY <1>1, <2>2, <2>3, <2>4, NothingForeignFrom DEF ForeignInv, OwnFiles
  <1>3. CASE DrawMenu(r)
    <2>1. req'[r].pc = "menu" /\ \A x \in Slots \ {r} : req'[x] = req[x]
      BY <1>1, <1>3 DEF DrawMenu, Open, ReqOK, Idle
    <2>2. UNCHANGED << disk, held, conf, dns, menu, grub, mingled >>
      BY <1>3 DEF DrawMenu, dbVars, confVars
    <2>3. \A x \in Slots : BringsTheSame(req'[x], req[x])
      BY <2>1, UnchangedIsSame DEF BringsTheSame, Brings
    <2> QED
      BY <2>2, <2>3, NothingForeign
  <1>4. ASSUME NEW k \in Keys, SaveKey(r, k) PROVE ForeignInv'
    <2>1. /\ req'[r].pc \in {"keys", "conf"} /\ req'[r].new = req[r].new /\ req[r].pc = "keys"
          /\ \A x \in Slots \ {r} : req'[x] = req[x]
      BY <1>1, <1>4 DEF SaveKey, ReqOK, Request
    <2>2. UNCHANGED << conf, dns, menu, grub, mingled >>
      BY <1>4 DEF SaveKey, confVars
    <2>3. disk'.host \in {disk.host, req[r].new.host}
      BY <1>1, <1>4 DEF SaveKey, DbOK, Db
    <2>4. \/ held' = held
          \/ held # Nothing /\ held'.host \in {held.host, req[r].new.host}
      BY <1>1, <1>4 DEF SaveKey, DbOK, Db, Files
    <2>5. ASSUME HostVisible, ~mingled' PROVE OwnFiles' /\ OwnRequest(req'[r])
      <3>1. req[r].new.host # Foreign /\ OwnFiles
        BY <1>1, <2>1, <2>2, <2>5 DEF ForeignInv, OwnRequest
      <3>2. OwnFiles'
        BY <2>2, <2>3, <2>4, <3>1 DEF OwnFiles
      <3> QED
        BY <2>1, <3>1, <3>2 DEF OwnRequest
    <2> QED
      BY <1>1, <2>1, <2>2, <2>5, NothingForeignFrom
  <1>5. CASE RebuildGrub(r)
    <2>1. req'[r].pc = "bake" /\ \A x \in Slots \ {r} : req'[x] = req[x]
      BY <1>1, <1>5, AfterGoto DEF RebuildGrub
    <2>2. UNCHANGED << disk, held, conf, dns, menu, mingled >>
      BY <1>5 DEF RebuildGrub, dbVars, confVars
    <2>3. PICK d \in Readable : grub' = d.host
      BY <1>5 DEF RebuildGrub
    <2>4. ASSUME HostVisible, ~mingled' PROVE OwnFiles' /\ OwnRequest(req'[r])
      BY <1>1, <2>1, <2>2, <2>3, <2>4, ReadableIsOwn DEF ForeignInv, OwnFiles, OwnRequest
    <2> QED
      BY <1>1, <2>1, <2>2, <2>4, NothingForeignFrom
  <1>6. CASE SaveEnds(r)
    <2>1. req'[r] = Idle /\ \A x \in Slots \ {r} : req'[x] = req[x]
      BY <1>1, <1>6, AfterClose DEF SaveEnds
    <2>2. \A x \in Slots : BringsTheSame(req'[x], req[x])
      BY <2>1, IdleSays, UnchangedIsSame DEF BringsTheSame, Brings
    <2>3. UNCHANGED << disk, held, conf, dns, menu, grub, mingled >>
      BY <1>6 DEF SaveEnds, dbVars, confVars
    <2> QED
      BY <2>2, <2>3, NothingForeign
  <1> QED
    BY <1>2, <1>3, <1>4, <1>5, <1>6 DEF Saving

LEMMA RenderingKeepsForeignOut ==
    ASSUME HostInv, ForeignInv, NEW r \in Slots, Rendering(r) PROVE ForeignInv'
  <1>1. ReqOK /\ DbOK /\ req[r] \in Request
    BY DEF HostInv, ReqOK
  <1>2. UNCHANGED << disk, held, dns, grub, mingled >>
    BY DEF Rendering, RenderConf, WriteConf, RenderMenu, WriteMenu, dbVars
  <1>3. CASE RenderConf(r)
    <2>1. PICK d \in Readable :
              IF Current(d) THEN Goto(r, AfterConf(req[r].op)) /\ UNCHANGED confVars
              ELSE /\ Written(Torn)
                   /\ req' = [req EXCEPT ![r].pc = "write", ![r].new = d]
      BY <1>3 DEF RenderConf
    <2>2. CASE Current(d)
      <3>1. req'[r].pc = "menu" /\ \A x \in Slots \ {r} : req'[x] = req[x]
        BY <1>1, <2>1, <2>2, AfterGoto DEF AfterConf
      <3>2. \A x \in Slots : BringsTheSame(req'[x], req[x])
        BY <3>1, UnchangedIsSame DEF BringsTheSame, Brings
      <3> QED
        BY <1>2, <1>3, <2>1, <2>2, <3>2, NothingForeign DEF RenderConf, confVars
    <2>3. CASE ~Current(d)
      <3>1. /\ req'[r].pc = "write" /\ req'[r].new = d
            /\ \A x \in Slots \ {r} : req'[x] = req[x]
        BY <1>1, <2>1, <2>3 DEF ReqOK, Request
      <3>2. conf'.text.host = Unset /\ menu' = menu
        BY <1>3, <2>1, <2>3 DEF RenderConf, Written, Torn
      <3>3. ASSUME HostVisible, ~mingled' PROVE OwnFiles' /\ OwnRequest(req'[r])
        BY <1>1, <1>2, <3>1, <3>2, <3>3, ReadableIsOwn, ValuesAssumption
           DEF ForeignInv, OwnFiles, OwnRequest
      <3> QED
        BY <1>2, <3>1, <3>3, NothingForeignFrom
    <2> QED
      BY <2>2, <2>3
  <1>4. CASE WriteConf(r)
    <2>1. /\ req'[r].pc = "menu" /\ Same(req'[r], req[r]) /\ req[r].pc = "write"
          /\ \A x \in Slots \ {r} : req'[x] = req[x]
      BY <1>1, <1>4, AfterGoto DEF WriteConf, AfterConf
    <2>2. conf'.text.host = req[r].new.host /\ menu' = menu
      BY <1>4 DEF WriteConf, Written, Text
    <2>3. ASSUME HostVisible, ~mingled' PROVE OwnFiles' /\ OwnRequest(req'[r])
      BY <1>2, <2>1, <2>2, <2>3 DEF ForeignInv, OwnFiles, OwnRequest
    <2> QED
      BY <1>2, <2>1, <2>3, NothingForeignFrom
  <1>5. CASE RenderMenu(r)
    <2>1. PICK d \in Readable : req' = [req EXCEPT ![r].pc = "draw", ![r].drawn = d.host]
      BY <1>5 DEF RenderMenu
    <2>2. /\ req'[r].pc = "draw" /\ req'[r].drawn = d.host
          /\ \A x \in Slots \ {r} : req'[x] = req[x]
      BY <1>1, <2>1 DEF ReqOK, Request
    <2>3. conf' = conf /\ menu' = menu
      BY <1>5 DEF RenderMenu, confVars
    <2>4. ASSUME HostVisible, ~mingled' PROVE OwnFiles' /\ OwnRequest(req'[r])
      BY <1>1, <1>2, <2>2, <2>3, <2>4, ReadableIsOwn DEF ForeignInv, OwnFiles, OwnRequest
    <2> QED
      BY <1>2, <2>2, <2>4, NothingForeignFrom
  <1>6. CASE WriteMenu(r)
    <2>1. /\ req'[r].pc \in {"grub", "idle"} /\ \A x \in Slots \ {r} : req'[x] = req[x]
      BY <1>1, <1>6, AfterGoto, AfterClose, IdleSays DEF WriteMenu
    <2>2. menu' = req[r].drawn /\ conf' = conf /\ req[r].pc = "draw"
      BY <1>6 DEF WriteMenu, confVars
    <2>3. ASSUME HostVisible, ~mingled' PROVE OwnFiles' /\ OwnRequest(req'[r])
      BY <1>2, <2>1, <2>2, <2>3 DEF ForeignInv, OwnFiles, OwnRequest
    <2> QED
      BY <1>2, <2>1, <2>3, NothingForeignFrom
  <1> QED
    BY <1>3, <1>4, <1>5, <1>6 DEF Rendering

\* The staged file goes, and whoever was dealing with it.
LEMMA DroppedBringsNothing ==
    ASSUME ReqOK, NEW r \in Slots, NEW to \in {"disk", "gone"},
           req' = Lose([req EXCEPT ![r] = Idle], to)
    PROVE  \A x \in Slots : BringsTheSame(req'[x], req[x])
  <1>1. /\ req'[r].pc = "idle"
        /\ \A x \in Slots \ {r} : req'[x].pc = req[x].pc /\ Same(req'[x], req[x])
    BY AfterLoseAndClose
  <1> QED
    BY <1>1 DEF BringsTheSame, Brings

\* One request goes on, with what it had, or closes.
LEMMA GoneOnBringsNothing ==
    ASSUME ReqOK, NEW r \in Slots, NEW pc,
           \/ Goto(r, pc) /\ pc \notin Brings
           \/ Goto(r, pc) /\ {req[r].pc, pc} \subseteq {"rewrite", "copy", "replace"}
           \/ Close(r)
    PROVE  \A x \in Slots : BringsTheSame(req'[x], req[x])
  BY AfterGoto, AfterClose, IdleSays, UnchangedIsSame DEF BringsTheSame, Brings, Same

\* What a restore decides to keep is this host's own (_host_decision).
LEMMA KeptIsOwn ==
    ASSUME HostVisible, NEW now \in Hosts, now # Foreign, NEW incoming
    PROVE  LET keep == HostDecision(now, incoming)
           IN  keep # Foreign /\ (incoming = Foreign => keep # Nothing)
  <1>1. now # Nothing /\ Foreign # Nothing
    BY NothingAssumption DEF Hosts
  <1> QED
    BY <1>1, ValuesAssumption DEF HostDecision

LEMMA InspectKeepsForeignOut ==
    ASSUME HostInv, RestoreInv, ForeignInv, NEW r \in Requests, Inspect(r) PROVE ForeignInv'
  <1>1. r \in Slots /\ ReqOK /\ DbOK /\ Requests \subseteq Slots /\ req[r] \in Request
        /\ UNCHANGED << disk, held, conf, dns, menu, grub >> /\ req[r].pc = "inspect"
    BY DEF Slots, HostInv, ReqOK, Inspect, confVars
  <1>2. CASE staged # Nothing /\ staged.ok
    <2>1. PICK d \in Readable :
              req' = [req EXCEPT ![r].pc = "rewrite",
                                 ![r].keep = HostDecision(d.host, staged.host)]
      BY <1>2 DEF Inspect
    <2>2. /\ req'[r].pc = "rewrite" /\ req'[r].token = req[r].token
          /\ req'[r].keep = HostDecision(d.host, staged.host)
          /\ \A x \in Slots \ {r} : req'[x] = req[x]
      BY <1>1, <2>1 DEF ReqOK, Request
    <2>3. mingled' = mingled
      BY <1>2 DEF Inspect
    <2>4. ASSUME HostVisible, ~mingled' PROVE OwnFiles' /\ OwnRequest(req'[r])
      <3>1. OwnFiles'
        BY <1>1, <2>3, <2>4 DEF ForeignInv, OwnFiles
      <3>2. staged = req[r].token
        BY <1>1, <2>3, <2>4 DEF RestoreInv, FilesInv, Follows
      <3>3. d.host \in Hosts /\ d.host # Foreign
        BY <1>1, <2>3, <2>4, ReadableIsOwn
      <3>4. OwnRequest(req'[r])
        BY <2>2, <2>4, <3>2, <3>3, KeptIsOwn DEF OwnRequest
      <3> QED
        BY <3>1, <3>4
    <2> QED
      BY <1>1, <2>2, <2>3, <2>4, NothingForeignFrom
  <1>3. CASE ~(staged # Nothing /\ staged.ok)
    <2>1. req' = Lose([req EXCEPT ![r] = Idle], "gone") /\ (mingled => mingled')
      BY <1>3 DEF Inspect
    <2> QED
      BY <1>1, <2>1, DroppedBringsNothing, NothingForeign
  <1> QED
    BY <1>2, <1>3

LEMMA ReplaceKeepsForeignOut ==
    ASSUME HostInv, RestoreInv, ForeignInv, NEW r \in Requests, Replace(r) PROVE ForeignInv'
  <1>1. r \in Slots /\ ReqOK /\ DbOK /\ Requests \subseteq Slots
        /\ UNCHANGED << mingled, conf, dns, menu, grub >> /\ req[r].pc = "replace"
    BY DEF Slots, HostInv, Replace, confVars
  <1>2. CASE staged = Nothing
    BY <1>1, <1>2, GoneOnBringsNothing, NothingForeign DEF Replace
  <1>3. CASE staged # Nothing
    <2>1. /\ disk' = staged /\ req' = Lose([req EXCEPT ![r] = Idle], "disk")
          /\ held' \in {disk, held} /\ (held = Nothing => held' = disk)
      BY <1>3 DEF Replace
    <2>2. \A x \in Slots : BringsTheSame(req'[x], req[x])
      BY <1>1, <2>1, DroppedBringsNothing
    <2>3. ASSUME HostVisible, ~mingled' PROVE OwnFiles'
      <3>1. OwnFiles /\ OwnRequest(req[r])
        BY <1>1, <2>3 DEF ForeignInv
      <3>2. staged = Overridden(req[r].token, req[r].keep) /\ req[r].token \in previews
        BY <1>1, <2>3 DEF RestoreInv, TokensInv, FilesInv, Follows, AppSteps, Checked
      <3>3. req[r].token \in Db
        BY <1>1, <3>2 DEF DbOK
      <3>4. staged.host # Foreign
        BY <1>1, <3>1, <3>2, <3>3 DEF OwnRequest, Overridden, Db
      <3> QED
        BY <1>1, <2>1, <3>1, <3>4 DEF OwnFiles
    <2> QED
      BY <1>1, <2>2, <2>3, SameIsOwn DEF ForeignInv
  <1> QED
    BY <1>2, <1>3

LEMMA RestoringKeepsForeignOut ==
    ASSUME HostInv, RestoreInv, ForeignInv, NEW r \in Requests, Restoring(r)
    PROVE  ForeignInv'
  <1>1. r \in Slots /\ ReqOK
    BY DEF Slots, HostInv
  <1>2. CASE UploadWrite(r)
    <2>1. UNCHANGED << held, conf, dns, menu, grub >> /\ req[r].pc = "transfer"
          /\ (mingled => mingled') /\ (req[r].ino # "disk" => disk' = disk)
      BY <1>2 DEF UploadWrite, Mingles, confVars
    <2>2. \A x \in Slots : BringsTheSame(req'[x], req[x])
      BY <1>1, <1>2, GoneOnBringsNothing DEF UploadWrite, Brings
    <2>3. ~mingled' => disk' = disk
      BY <2>1 DEF RestoreInv, FilesInv, Follows
    <2>4. HostVisible /\ ~mingled' => OwnFiles' /\ \A x \in Slots : OwnRequest(req'[x])
      BY <2>1, <2>2, <2>3, SameIsOwn DEF ForeignInv, OwnFiles
    <2> QED
      BY <2>4 DEF ForeignInv
  <1>3. CASE Preview(r)
    <2>1. UNCHANGED << disk, held, conf, dns, menu, grub >> /\ (mingled => mingled')
      BY <1>3 DEF Preview, Mingles, confVars
    <2>2. Close(r) \/ req' = Lose([req EXCEPT ![r] = Idle], "gone")
      BY <1>3 DEF Preview
    <2> QED
      BY <1>1, <2>1, <2>2, GoneOnBringsNothing, DroppedBringsNothing, NothingForeign
  <1>4. CASE CheckToken(r)
    <2>1. UNCHANGED << disk, held, conf, dns, menu, grub >> /\ (mingled => mingled')
      BY <1>4 DEF CheckToken, Mingles, confVars
    <2>2. Goto(r, "inspect") \/ req' = Lose([req EXCEPT ![r] = Idle], "gone")
      BY <1>4 DEF CheckToken
    <2>3. "inspect" \notin Brings
      BY DEF Brings
    <2> QED
      BY <1>1, <2>1, <2>2, <2>3, GoneOnBringsNothing, DroppedBringsNothing, NothingForeign
  <1>5. CASE RewriteStaged(r)
    <2>1. UNCHANGED << disk, held, conf, dns, menu, grub, mingled >> /\ req[r].pc = "rewrite"
      BY <1>5 DEF RewriteStaged, confVars
    <2>2. Goto(r, "copy") \/ Close(r)
      BY <1>5 DEF RewriteStaged
    <2> QED
      BY <1>1, <2>1, <2>2, GoneOnBringsNothing, NothingForeign
  <1>6. CASE CopyLive(r)
    <2>1. UNCHANGED << disk, held, conf, dns, menu, grub, mingled >> /\ req[r].pc = "copy"
          /\ Goto(r, "replace")
      BY <1>6 DEF CopyLive, confVars
    <2> QED
      BY <1>1, <2>1, GoneOnBringsNothing, NothingForeign
  <1> QED
    BY <1>2, <1>3, <1>4, <1>5, <1>6, InspectKeepsForeignOut, ReplaceKeepsForeignOut
       DEF Restoring

LEMMA RequestsKeepForeignOut ==
    ASSUME HostInv, ForeignInv, NEW r \in Requests,
           UploadOpen(r) \/ \E token \in previews : Apply(r, token)
    PROVE  ForeignInv'
  <1>1. r \in Slots /\ ReqOK /\ Requests \subseteq Slots
    BY DEF Slots, HostInv
  <1>2. /\ UNCHANGED << disk, held, conf, dns, menu, grub >> /\ (mingled => mingled')
        /\ req'[r].pc \in {"transfer", "token"} /\ \A x \in Slots \ {r} : req'[x] = req[x]
    <2>1. CASE UploadOpen(r)
      <3>1. UNCHANGED << disk, held, conf, dns, menu, grub >> /\ Mingles
        BY <2>1 DEF UploadOpen, confVars
      <3>2. PICK d : Open(r, [Idle EXCEPT !.op = "upload", !.pc = "transfer",
                                !.ino = "staged", !.new = d])
        BY <2>1 DEF UploadOpen
      <3>3. req'[r].pc = "transfer" /\ \A x \in Slots \ {r} : req'[x] = req[x]
        BY <1>1, <3>2 DEF Open, ReqOK, Idle
      <3> QED
        BY <3>1, <3>3 DEF Mingles
    <2>2. ASSUME NEW token \in previews, Apply(r, token)
          PROVE  /\ UNCHANGED << disk, held, conf, dns, menu, grub, mingled >>
                 /\ req'[r].pc = "token" /\ \A x \in Slots \ {r} : req'[x] = req[x]
      <3>1. UNCHANGED << disk, held, conf, dns, menu, grub, mingled >>
        BY <2>2 DEF Apply, dbVars, confVars
      <3>2. req'[r].pc = "token" /\ \A x \in Slots \ {r} : req'[x] = req[x]
        BY <1>1, <2>2 DEF Apply, Open, ReqOK, Idle
      <3> QED
        BY <3>1, <3>2
    <2> QED
      BY <2>1, <2>2
  <1>3. \A x \in Slots : BringsTheSame(req'[x], req[x])
    BY <1>2, UnchangedIsSame DEF BringsTheSame, Brings
  <1> QED
    BY <1>2, <1>3, NothingForeign

LEMMA OthersKeepForeignOut ==
    ASSUME HostInv, ForeignInv, Cancel \/ Restart \/ Watching \/ Second PROVE ForeignInv'
  <1>1. CASE Cancel
    <2>1. UNCHANGED << disk, held, conf, dns, menu, grub >> /\ (mingled => mingled')
          /\ req' = Lose(req, "gone")
      BY <1>1 DEF Cancel, Mingles, confVars
    <2>2. \A x \in Slots : BringsTheSame(req'[x], req[x])
      BY <2>1, AfterLose DEF HostInv, ReqOK, BringsTheSame
    <2> QED
      BY <2>1, <2>2, NothingForeign
  <1>2. CASE Restart
    <2>1. UNCHANGED << conf, dns, menu, grub, mingled >> /\ held' = Nothing
      BY <1>2 DEF Restart, confVars
    <2>2. disk'.host \in Here \cup {disk.host}
      BY <1>2 DEF Restart, HostInv, DbOK, Db
    <2>3. \A x \in Slots : req'[x].pc \in {"idle", "conf"}
      BY <1>2 DEF Restart, Idle, StartsWith
    <2>4. HostVisible /\ ~mingled' => OwnFiles' /\ \A x \in Slots : OwnRequest(req'[x])
      BY <2>1, <2>2, <2>3, ValuesAssumption DEF ForeignInv, OwnFiles, OwnRequest
    <2> QED
      BY <2>4 DEF ForeignInv
  <1>3. CASE Watching \/ Second
    <2>1. UNCHANGED << disk, held, menu, grub, mingled, req >>
          /\ conf'.text = conf.text /\ dns'.text \in {conf.text, dns.text}
      BY <1>3 DEF Watching, Poll, StartDnsmasq, DnsmasqExits, ReadAtStart, Second,
                  HostInv, ServedOK, dbVars, confVars
    <2>2. OwnFiles => OwnFiles'
      BY <2>1 DEF OwnFiles
    <2> QED
      BY <2>1, <2>2 DEF ForeignInv
  <1> QED
    BY <1>1, <1>2, <1>3

LEMMA FirstForeign == HostInit => ForeignInv
  <1> SUFFICES ASSUME HostInit PROVE ForeignInv
      OBVIOUS
  <1>1. disk.host \in Here /\ held = Nothing
    BY ValuesAssumption DEF HostInit
  <1>2. conf.text.host = disk.host /\ dns.text.host = disk.host /\ menu = disk.host
        /\ grub = disk.host
    BY DEF HostInit, Text
  <1>3. \A x \in Slots : req[x].pc = "idle"
    BY IdleSays DEF HostInit
  <1> QED
    BY <1>1, <1>2, <1>3, ValuesAssumption DEF ForeignInv, OwnFiles, OwnRequest
--------------------------------------------------------------------------------
(* Who is on the event loop: one save at a time, and none while the process starts. *)

SaveSteps  == {"keys", "conf", "write", "menu", "draw", "grub", "bake"}
StartSteps == {"conf", "write", "menu", "draw"}

OpFits(q) ==
    /\ q.op # "start" /\ (q.op = "none" <=> q.pc = "idle")
    /\ q.op = "save" => q.pc \in SaveSteps
    /\ q.pc \in SaveSteps => \/ q.op = "save"
                             \/ q.op = "render" /\ q.pc \in {"menu", "draw"}

StartFits ==
    \/ req[Startup].op = "none" /\ req[Startup].pc = "idle"
    \/ /\ req[Startup].op = "start" /\ req[Startup].pc \in StartSteps
       /\ held = Nothing /\ \A r \in Requests : req[r].pc = "idle"

LoopInv == /\ \A r \in Requests : OpFits(req[r])
           /\ \A r, x \in Requests : req[r].op = "save" /\ req[x].op = "save" => r = x
           /\ StartFits

\* While a request is under way, the process has started.
LEMMA BusyIsServing ==
    ASSUME LoopInv, NEW r \in Requests, req[r].pc # "idle" PROVE Serving
  BY DEF LoopInv, StartFits, Serving

\* One request moves on while the process serves.
LEMMA LoopGoesOn ==
    ASSUME LoopInv, Serving, NEW r \in Requests, OpFits(req'[r]),
           req'[r].op = "save" => req[r].op = "save" \/ LoopFree,
           \A x \in Slots \ {r} : req'[x].pc = req[x].pc /\ req'[x].op = req[x].op
    PROVE  LoopInv'
  <1>1. /\ req'[Startup].op = "none" /\ req'[Startup].pc = "idle"
        /\ Requests \subseteq Slots
    BY SlotsAssumption DEF LoopInv, StartFits, Serving, Slots
  <1>2. \A x \in Requests : OpFits(req'[x])
    BY <1>1 DEF LoopInv, OpFits
  <1>3. \A y, x \in Requests : req'[y].op = "save" /\ req'[x].op = "save" => y = x
    BY <1>1 DEF LoopInv, LoopFree
  <1> QED
    BY <1>1, <1>2, <1>3 DEF LoopInv, StartFits

LEMMA SavingFitsLoop ==
    ASSUME HostInv, LoopInv, NEW r \in Requests,
           Save(r) \/ DrawMenu(r) \/ Saving(r) \/ SaveEnds(r)
    PROVE  LoopInv'
  <1>1. r \in Slots /\ ReqOK /\ req[r] \in Request
    BY DEF Slots, HostInv, ReqOK
  <1>2. CASE Save(r)
    <2>1. PICK h \in Here, m \in Modes :
              Open(r, [Idle EXCEPT !.op = "save", !.pc = "keys", !.todo = Keys,
                         !.new = [host |-> h, mode |-> m, from |-> 0, ok |-> TRUE]])
      BY <1>2 DEF Save
    <2>2. /\ req'[r].pc = "keys" /\ req'[r].op = "save"
          /\ \A x \in Slots \ {r} : req'[x] = req[x]
      BY <1>1, <2>1 DEF Open, ReqOK, Idle
    <2> QED
      BY <1>2, <2>2, LoopGoesOn DEF Save, LoopFree, OpFits, SaveSteps
  <1>3. CASE DrawMenu(r)
    <2>1. /\ req'[r].pc = "menu" /\ req'[r].op = "render"
          /\ \A x \in Slots \ {r} : req'[x] = req[x]
      BY <1>1, <1>3 DEF DrawMenu, Open, ReqOK, Idle
    <2> QED
      BY <1>3, <2>1, LoopGoesOn DEF DrawMenu, OpFits, SaveSteps
  <1>4. ASSUME NEW k \in Keys, SaveKey(r, k) PROVE LoopInv'
    <2>1. /\ req'[r].pc \in {"keys", "conf"} /\ req'[r].op = req[r].op /\ req[r].pc = "keys"
          /\ \A x \in Slots \ {r} : req'[x] = req[x]
      BY <1>1, <1>4 DEF SaveKey, ReqOK, Request
    <2>2. OpFits(req'[r])
      BY <2>1 DEF LoopInv, OpFits, SaveSteps
    <2> QED
      BY <2>1, <2>2, LoopGoesOn, BusyIsServing
  <1>5. CASE RebuildGrub(r)
    <2>1. /\ req'[r].pc = "bake" /\ req'[r].op = req[r].op /\ req[r].pc = "grub"
          /\ \A x \in Slots \ {r} : req'[x] = req[x]
      BY <1>1, <1>5, AfterGoto DEF RebuildGrub, Same
    <2>2. OpFits(req'[r])
      BY <2>1 DEF LoopInv, OpFits, SaveSteps
    <2> QED
      BY <2>1, <2>2, LoopGoesOn, BusyIsServing
  <1>6. CASE SaveEnds(r)
    <2>1. req'[r] = Idle /\ req[r].pc = "bake" /\ \A x \in Slots \ {r} : req'[x] = req[x]
      BY <1>1, <1>6, AfterClose DEF SaveEnds
    <2> QED
      BY <2>1, IdleSays, LoopGoesOn, BusyIsServing DEF OpFits, SaveSteps
  <1> QED
    BY <1>2, <1>3, <1>4, <1>5, <1>6 DEF Saving

\* Where a rendering leads, and what the request is then.
LEMMA AfterRendering ==
    ASSUME HostInv, NEW r \in Slots, Rendering(r)
    PROVE  /\ \A x \in Slots \ {r} : req'[x] = req[x]
           /\ \/ /\ req'[r].op = req[r].op /\ req'[r].n = req[r].n
                 /\ \/ req[r].pc = "conf" /\ req'[r].pc \in {"write", "menu"}
                    \/ req[r].pc = "write" /\ req'[r].pc = "menu"
                    \/ req[r].pc = "menu" /\ req'[r].pc = "draw"
                    \/ req[r].pc = "draw" /\ req[r].op = "save" /\ req'[r].pc = "grub"
              \/ req[r].pc = "draw" /\ req[r].op # "save" /\ req'[r] = Idle
  <1>1. ReqOK /\ req[r] \in Request
    BY DEF HostInv, ReqOK
  <1>2. CASE RenderConf(r)
    BY <1>1, <1>2 DEF RenderConf, Goto, AfterConf, ReqOK, Request
  <1>3. CASE WriteConf(r)
    BY <1>1, <1>3, AfterGoto DEF WriteConf, AfterConf, Same
  <1>4. CASE RenderMenu(r)
    BY <1>1, <1>4 DEF RenderMenu, ReqOK, Request
  <1>5. CASE WriteMenu(r)
    BY <1>1, <1>5, AfterGoto, AfterClose DEF WriteMenu, Same
  <1> QED
    BY <1>2, <1>3, <1>4, <1>5 DEF Rendering

LEMMA RenderingFitsLoop ==
    ASSUME HostInv, LoopInv, NEW r \in Slots, Rendering(r) PROVE LoopInv'
  <1>1. held' = held
    BY DEF Rendering, RenderConf, WriteConf, RenderMenu, WriteMenu, dbVars
  <1>2. CASE r = Startup
    <2>1. \A x \in Requests : req'[x] = req[x]
      BY <1>2, AfterRendering, SlotsAssumption DEF Slots
    <2>2. StartFits'
      BY <1>1, <1>2, <2>1, AfterRendering, IdleSays DEF LoopInv, StartFits, StartSteps
    <2> QED
      BY <2>1, <2>2 DEF LoopInv
  <1>3. CASE r \in Requests
    <2>1. OpFits(req'[r]) /\ Serving /\ (req'[r].op = "save" => req[r].op = "save")
      BY <1>3, AfterRendering, BusyIsServing, IdleSays DEF LoopInv, OpFits, SaveSteps
    <2> QED
      BY <1>3, <2>1, AfterRendering, LoopGoesOn
  <1> QED
    BY <1>2, <1>3 DEF Slots

\* Outside of saving and drawing, a request moves on or ends.
LEMMA OutsideFits ==
    ASSUME LoopInv, NEW r \in Requests, req[r].pc \notin SaveSteps, req[r].pc # "idle",
           \/ req'[r].pc \notin SaveSteps /\ req'[r].pc # "idle" /\ req'[r].op = req[r].op
           \/ req'[r].op = "none" /\ req'[r].pc = "idle",
           \A x \in Slots \ {r} : req'[x].pc = req[x].pc /\ req'[x].op = req[x].op
    PROVE  LoopInv'
  <1>1. Serving /\ OpFits(req'[r]) /\ (req'[r].op = "save" => req[r].op = "save")
    BY BusyIsServing DEF LoopInv, OpFits, SaveSteps
  <1> QED
    BY <1>1, LoopGoesOn

RestoreSteps == {"transfer", "preview", "token", "inspect", "rewrite", "copy", "replace"}

LEMMA AfterRestoring ==
    ASSUME HostInv, NEW r \in Requests, Restoring(r)
    PROVE  /\ req[r].pc \in RestoreSteps
           /\ \/ /\ req'[r].pc \in RestoreSteps \ {"transfer"}
                 /\ req'[r].op = req[r].op /\ req'[r].n = req[r].n
              \/ req'[r].pc = "idle" /\ req'[r].op = "none"
           /\ \A x \in Slots \ {r} :
                 /\ req'[x].pc = req[x].pc /\ Same(req'[x], req[x])
                 /\ req'[x].ino = "disk" => req[x].ino = "disk" \/ held' # Nothing
  <1>1. r \in Slots /\ ReqOK /\ req[r] \in Request
    BY DEF Slots, HostInv, ReqOK
  <1>2. req[r].pc \in RestoreSteps
    BY DEF Restoring, UploadWrite, Preview, CheckToken, Inspect, RewriteStaged, CopyLive,
           Replace, RestoreSteps
  <1>3. ASSUME NEW pc \in RestoreSteps \ {"transfer"}, Goto(r, pc)
        PROVE  /\ req'[r].pc \in RestoreSteps \ {"transfer"}
               /\ req'[r].op = req[r].op /\ req'[r].n = req[r].n
               /\ \A x \in Slots \ {r} : req'[x] = req[x]
    BY <1>1, <1>3, AfterGoto DEF Same
  <1>4. ASSUME Close(r)
        PROVE  /\ req'[r].pc = "idle" /\ req'[r].op = "none"
               /\ \A x \in Slots \ {r} : req'[x] = req[x]
    BY <1>1, <1>4, AfterClose, IdleSays
  <1>5. ASSUME req' = Lose([req EXCEPT ![r] = Idle], "gone")
        PROVE  /\ req'[r].pc = "idle" /\ req'[r].op = "none"
               /\ \A x \in Slots \ {r} :
                     /\ req'[x].pc = req[x].pc /\ Same(req'[x], req[x])
                     /\ req'[x].ino = "disk" => req[x].ino = "disk"
    BY <1>1, <1>5, AfterLoseAndClose
  <1>6. CASE UploadWrite(r) \/ CopyLive(r)
    BY <1>2, <1>3, <1>6 DEF UploadWrite, CopyLive, Same, RestoreSteps
  <1>7. CASE Preview(r) \/ CheckToken(r)
    <2>1. \/ Goto(r, "inspect") \/ Close(r)
          \/ req' = Lose([req EXCEPT ![r] = Idle], "gone")
      BY <1>7 DEF Preview, CheckToken
    <2> QED
      BY <1>2, <1>3, <1>4, <1>5, <2>1 DEF Same, RestoreSteps
  <1>8. CASE Inspect(r)
    <2>1. CASE req' = Lose([req EXCEPT ![r] = Idle], "gone")
      BY <1>2, <1>5, <2>1
    <2>2. ASSUME NEW keep, req' = [req EXCEPT ![r].pc = "rewrite", ![r].keep = keep]
          PROVE  /\ req'[r].pc = "rewrite" /\ req'[r].op = req[r].op /\ req'[r].n = req[r].n
                 /\ \A x \in Slots \ {r} : req'[x] = req[x]
      BY <1>1, <2>2 DEF ReqOK, Request
    <2> QED
      BY <1>2, <1>8, <2>1, <2>2 DEF Inspect, Same, RestoreSteps
  <1>9. CASE RewriteStaged(r)
    <2>1. Goto(r, "copy") \/ Close(r)
      BY <1>9 DEF RewriteStaged
    <2> QED
      BY <1>2, <1>3, <1>4, <2>1 DEF Same, RestoreSteps
  <1>10. CASE Replace(r)
    <2>1. CASE Close(r)
      BY <1>2, <1>4, <2>1 DEF Same
    <2>2. CASE ~Close(r)
      <3>1. req' = Lose([req EXCEPT ![r] = Idle], "disk") /\ held' # Nothing
        BY <1>10, <2>2, NothingAssumption DEF Replace, HostInv, DbOK
      <3> QED
        BY <1>1, <1>2, <3>1, AfterLoseAndClose
    <2> QED
      BY <2>1, <2>2
  <1> QED
    BY <1>6, <1>7, <1>8, <1>9, <1>10 DEF Restoring

LEMMA RestoringFitsLoop ==
    ASSUME HostInv, LoopInv, NEW r \in Requests, Restoring(r) PROVE LoopInv'
  <1>1. req[r].pc \in RestoreSteps
        /\ \A x \in Slots \ {r} : req'[x].pc = req[x].pc /\ req'[x].op = req[x].op
    BY AfterRestoring DEF Same
  <1> QED
    BY <1>1, AfterRestoring, OutsideFits DEF RestoreSteps, SaveSteps

LEMMA RequestsFitLoop ==
    ASSUME HostInv, LoopInv, NEW r \in Requests,
           UploadOpen(r) \/ \E token \in previews : Apply(r, token)
    PROVE  LoopInv'
  <1>1. r \in Slots /\ ReqOK /\ Serving
    BY DEF Slots, HostInv, UploadOpen, Apply, LoopFree
  <1>2. /\ req'[r].pc \in {"transfer", "token"} /\ req'[r].op \in {"upload", "apply"}
        /\ \A x \in Slots \ {r} : req'[x] = req[x]
    <2>1. CASE UploadOpen(r)
      <3>1. PICK d : Open(r, [Idle EXCEPT !.op = "upload", !.pc = "transfer",
                                !.ino = "staged", !.new = d])
        BY <2>1 DEF UploadOpen
      <3> QED
        BY <1>1, <3>1 DEF Open, ReqOK, Idle
    <2>2. ASSUME NEW token \in previews, Apply(r, token)
          PROVE  /\ req'[r].pc = "token" /\ req'[r].op = "apply"
                 /\ \A x \in Slots \ {r} : req'[x] = req[x]
      BY <1>1, <2>2 DEF Apply, Open, ReqOK, Idle
    <2> QED
      BY <2>1, <2>2
  <1>3. OpFits(req'[r])
    BY <1>2 DEF OpFits, SaveSteps
  <1> QED
    BY <1>1, <1>2, <1>3, LoopGoesOn

LEMMA OthersFitLoop ==
    ASSUME HostInv, LoopInv, Cancel \/ Restart \/ Watching \/ Second PROVE LoopInv'
  <1>1. CASE Cancel
    <2>1. held' = held /\ req' = Lose(req, "gone")
      BY <1>1 DEF Cancel
    <2>2. \A x \in Slots : req'[x].pc = req[x].pc /\ req'[x].op = req[x].op
      BY <2>1, AfterLose DEF HostInv, ReqOK, Same
    <2> QED
      BY <2>1, <2>2 DEF LoopInv, OpFits, StartFits, Slots
  <1>2. CASE Restart
    <2>1. /\ \A x \in Requests : req'[x] = Idle
          /\ req'[Startup].op = "start" /\ req'[Startup].pc = "conf" /\ held' = Nothing
      BY <1>2, SlotsAssumption DEF Restart, Slots, Idle, StartsWith
    <2> QED
      BY <2>1, IdleSays DEF LoopInv, OpFits, StartFits, StartSteps, SaveSteps
  <1>3. CASE Watching \/ Second
    BY <1>3 DEF Watching, Poll, StartDnsmasq, DnsmasqExits, Second, dbVars, LoopInv,
                StartFits
  <1> QED
    BY <1>1, <1>2, <1>3

LEMMA FirstFitsLoop == HostInit => LoopInv
  <1> SUFFICES ASSUME HostInit PROVE LoopInv
      OBVIOUS
  <1>1. \A x \in Slots : req[x] = Idle
    BY DEF HostInit
  <1> QED
    BY <1>1, IdleSays DEF LoopInv, OpFits, StartFits, SaveSteps, Slots
--------------------------------------------------------------------------------
(* The generated files once nothing is under way.                               *)

\* A request that will still render the menu from the database.
Pending(q) == q.op \in {"save", "start"} /\ q.pc \in {"keys", "conf", "write", "menu", "draw"}

\* What is at hand to be written is what the database says.
AtHand(q, db) == /\ q.pc = "write" => Text(q.new) = Text(db)
                 /\ q.pc = "draw" /\ q.op # "render" => q.drawn = db.host

NoStray     == \A r \in Requests : ~(req[r].pc = "transfer" /\ req[r].ino = "disk")
ConfSettles == \/ conf.text = Text(disk)
               \/ \E r \in Slots : req[r].pc \in {"keys", "conf", "write"}
MenuSettles == crossed \/ (\E r \in Slots : Pending(req[r]))
                       \/ /\ menu = disk.host
                          /\ \A r \in Slots : req[r].pc = "draw" => req[r].drawn = disk.host

\* While no connection is left to a file that was replaced.
SettledInv == held = Nothing => /\ NoStray /\ ConfSettles /\ MenuSettles
                                /\ \A r \in Slots : AtHand(req[r], disk)

\* A request that goes on with what it had, or has nothing to render.
SettlesAlike(q, o) ==
    /\ q.pc = "transfer" /\ q.ino = "disk" => o.pc = "transfer" /\ o.ino = "disk"
    /\ \/ q.pc = o.pc /\ Same(q, o)
       \/ /\ o.pc \notin {"keys", "conf", "write", "menu", "draw"}
          /\ q.pc \notin {"write", "draw"}

LEMMA SettledAlike ==
    ASSUME SettledInv,
           held' = Nothing =>
              /\ held = Nothing /\ UNCHANGED << disk, menu >> /\ conf'.text = conf.text
              /\ crossed => crossed'
              /\ \A x \in Slots : SettlesAlike(req'[x], req[x])
    PROVE  SettledInv'
  <1> SUFFICES ASSUME held' = Nothing
               PROVE  /\ NoStray' /\ ConfSettles' /\ MenuSettles'
                      /\ \A r \in Slots : AtHand(req'[r], disk')
      BY DEF SettledInv
  <1>1. NoStray /\ ConfSettles /\ MenuSettles /\ \A r \in Slots : AtHand(req[r], disk)
    BY DEF SettledInv
  <1>2. NoStray'
    BY <1>1 DEF NoStray, SettlesAlike, Slots
  <1>3. ConfSettles'
    BY <1>1 DEF ConfSettles, SettlesAlike
  <1>4. \A r \in Slots : AtHand(req'[r], disk')
    BY <1>1 DEF AtHand, SettlesAlike, Same
  <1>5. MenuSettles'
    <2>1. \A x \in Slots : Pending(req[x]) => Pending(req'[x])
      BY DEF Pending, SettlesAlike, Same
    <2>2. \A x \in Slots : req'[x].pc = "draw" => req[x].pc = "draw" /\ req'[x].drawn = req[x].drawn
      BY DEF SettlesAlike, Same
    <2> QED
      BY <1>1, <2>1, <2>2 DEF MenuSettles
  <1> QED
    BY <1>2, <1>3, <1>4, <1>5

LEMMA AlikeItself == \A q : SettlesAlike(q, q)
  BY DEF SettlesAlike, Same

LEMMA SaveKeySettles ==
    ASSUME HostInv, LoopInv, SettledInv, NEW r \in Requests, NEW k \in Keys, SaveKey(r, k)
    PROVE  SettledInv'
  <1>1. r \in Slots /\ ReqOK /\ DbOK /\ req[r] \in Request /\ Carries(req[r])
    BY DEF Slots, HostInv, ReqOK
  <1>2. /\ req'[r].pc \in {"keys", "conf"} /\ req'[r].op = req[r].op /\ req[r].pc = "keys"
        /\ \A x \in Slots \ {r} : req'[x] = req[x]
    BY <1>1 DEF SaveKey, ReqOK, Request
  <1>3. req[r].op = "save" /\ Serving
    BY <1>2, BusyIsServing DEF LoopInv, OpFits, SaveSteps
  <1>4. held' = Nothing => held = Nothing
    <2>1. ASSUME held # Nothing PROVE held' \in Db
      <3>1. held \in Db /\ req[r].new \in Db
        BY <1>1, <1>2, <2>1 DEF DbOK, Files, Carries, Carrying
      <3> QED
        BY <3>1 DEF SaveKey, Db
    <2> QED
      BY <2>1, NothingAssumption
  <1>5. ASSUME NEW x \in Slots PROVE req'[x].pc \notin {"write"} /\ ~(req'[x].pc = "draw" /\ req'[x].op # "render")
    <2>1. CASE x = r
      BY <1>2, <2>1
    <2>2. CASE x \in Requests \ {r}
      BY <1>2, <1>3, <2>2 DEF LoopInv, OpFits, SaveSteps
    <2>3. CASE x = Startup
      BY <1>2, <1>3, <2>3, SlotsAssumption DEF LoopInv, StartFits, Serving, Slots
    <2> QED
      BY <2>1, <2>2, <2>3 DEF Slots
  <1>6. Pending(req'[r])
    BY <1>2, <1>3 DEF Pending
  <1>7. held' = Nothing => NoStray'
    BY <1>2, <1>4 DEF SettledInv, NoStray, Slots
  <1> QED
    BY <1>1, <1>2, <1>5, <1>6, <1>7 DEF SettledInv, ConfSettles, MenuSettles, AtHand

\* A rendering leaves the menu as it is.
LEMMA MenuStaysSettled ==
    ASSUME MenuSettles, NEW r \in Slots, UNCHANGED << disk, menu, crossed >>,
           \A x \in Slots \ {r} : req'[x] = req[x],
           Pending(req[r]) => Pending(req'[r]),
           req'[r].pc = "draw" => req'[r].drawn = disk.host
    PROVE  MenuSettles'
  BY DEF MenuSettles

\* What a step of rendering has to show.
LEMMA RenderedSettles ==
    ASSUME SettledInv, NEW r \in Slots, UNCHANGED << disk, held >>,
           \A x \in Slots \ {r} : req'[x] = req[x], req'[r].pc # "transfer",
           held = Nothing => ConfSettles' /\ MenuSettles' /\ AtHand(req'[r], disk)
    PROVE  SettledInv'
  <1>1. held = Nothing => NoStray'
    BY DEF SettledInv, NoStray, Slots
  <1> QED
    BY <1>1 DEF SettledInv

LEMMA RenderingSettles ==
    ASSUME HostInv, LoopInv, SettledInv, NEW r \in Slots, Rendering(r) PROVE SettledInv'
  <1>1. ReqOK /\ DbOK /\ req[r] \in Request
    BY DEF HostInv, ReqOK
  <1>2. UNCHANGED << disk, held >>
    BY DEF Rendering, RenderConf, WriteConf, RenderMenu, WriteMenu, dbVars
  <1>3. \A x \in Slots \ {r} : req'[x] = req[x]
    BY AfterRendering
  <1>4. req'[r].pc # "transfer"
    BY AfterRendering, IdleSays
  <1>5. ASSUME held = Nothing
        PROVE  ConfSettles' /\ MenuSettles' /\ AtHand(req'[r], disk)
    <2>1. Readable = {disk} /\ ConfSettles /\ MenuSettles /\ AtHand(req[r], disk)
      BY <1>5 DEF Readable, SettledInv
    <2>2. CASE RenderConf(r)
      <3>1. UNCHANGED << menu, crossed >> /\ req[r].pc = "conf"
        BY <2>2 DEF RenderConf
      <3>2. CASE Current(disk)
        <4>1. Goto(r, "menu") /\ conf' = conf
          BY <2>1, <2>2, <3>2 DEF RenderConf, AfterConf, confVars
        <4>2. req'[r].pc = "menu" /\ req'[r].op = req[r].op
          BY <1>1, <4>1, AfterGoto DEF Same
        <4>3. ConfSettles' /\ AtHand(req'[r], disk)
          BY <1>2, <3>2, <4>1, <4>2 DEF ConfSettles, Current, AtHand
        <4>4. MenuSettles'
          BY <1>2, <1>3, <2>1, <3>1, <4>2, MenuStaysSettled DEF Pending
        <4> QED
          BY <4>3, <4>4
      <3>3. CASE ~Current(disk)
        <4>1. req' = [req EXCEPT ![r].pc = "write", ![r].new = disk]
          BY <2>1, <2>2, <3>3 DEF RenderConf
        <4>2. req'[r].pc = "write" /\ req'[r].op = req[r].op /\ req'[r].new = disk
          BY <1>1, <4>1 DEF ReqOK, Request
        <4>3. ConfSettles' /\ AtHand(req'[r], disk)
          BY <4>2 DEF ConfSettles, AtHand
        <4>4. MenuSettles'
          BY <1>2, <1>3, <2>1, <3>1, <4>2, MenuStaysSettled DEF Pending
        <4> QED
          BY <4>3, <4>4
      <3> QED
        BY <3>2, <3>3
    <2>3. CASE WriteConf(r)
      <3>1. /\ UNCHANGED << menu, crossed >> /\ req[r].pc = "write" /\ Goto(r, "menu")
            /\ conf'.text = Text(req[r].new)
        BY <2>3 DEF WriteConf, AfterConf, Written
      <3>2. req'[r].pc = "menu" /\ req'[r].op = req[r].op
        BY <1>1, <3>1, AfterGoto DEF Same
      <3>3. ConfSettles' /\ AtHand(req'[r], disk)
        BY <1>2, <2>1, <3>1, <3>2 DEF ConfSettles, AtHand
      <3>4. MenuSettles'
        BY <1>2, <1>3, <2>1, <3>1, <3>2, MenuStaysSettled DEF Pending
      <3> QED
        BY <3>3, <3>4
    <2>4. CASE RenderMenu(r)
      <3>1. /\ UNCHANGED << menu, crossed, conf >> /\ req[r].pc = "menu"
            /\ req' = [req EXCEPT ![r].pc = "draw", ![r].drawn = disk.host]
        BY <2>1, <2>4 DEF RenderMenu, confVars
      <3>2. req'[r].pc = "draw" /\ req'[r].op = req[r].op /\ req'[r].drawn = disk.host
        BY <1>1, <3>1 DEF ReqOK, Request
      <3>3. ConfSettles' /\ AtHand(req'[r], disk)
        BY <1>2, <1>3, <2>1, <3>1, <3>2 DEF ConfSettles, AtHand
      <3>4. MenuSettles'
        BY <1>2, <1>3, <2>1, <3>1, <3>2, MenuStaysSettled DEF Pending
      <3> QED
        BY <3>3, <3>4
    <2>5. CASE WriteMenu(r)
      <3>1. /\ conf' = conf /\ req[r].pc = "draw" /\ menu' = req[r].drawn
            /\ crossed' = (crossed \/ \E x \in Slots \ {r} : req[x].pc = "draw")
        BY <2>5 DEF WriteMenu, confVars
      <3>2. req'[r].pc \in {"grub", "idle"}
        BY <3>1, AfterRendering, IdleSays
      <3>3. ConfSettles' /\ AtHand(req'[r], disk)
        BY <1>2, <1>3, <2>1, <3>1, <3>2 DEF ConfSettles, AtHand
      <3>4. ASSUME ~crossed' PROVE MenuSettles'
        <4>1. \A x \in Slots : req'[x].pc # "draw"
          BY <1>3, <3>1, <3>2, <3>4
        <4>2. CASE \E x \in Slots \ {r} : Pending(req[x])
          BY <1>3, <4>2 DEF MenuSettles
        <4>3. CASE req[r].drawn = disk.host
          BY <1>2, <3>1, <4>1, <4>3 DEF MenuSettles
        <4>4. req[r].drawn = disk.host \/ \E x \in Slots \ {r} : Pending(req[x])
          BY <2>1, <3>1, <3>4 DEF AtHand, MenuSettles, Pending
        <4> QED
          BY <4>2, <4>3, <4>4
      <3>5. MenuSettles'
        BY <3>4 DEF MenuSettles
      <3> QED
        BY <3>3, <3>5
    <2> QED
      BY <2>2, <2>3, <2>4, <2>5 DEF Rendering
  <1> QED
    BY <1>2, <1>3, <1>4, <1>5, RenderedSettles

LEMMA SavingSettles ==
    ASSUME HostInv, LoopInv, SettledInv, NEW r \in Requests,
           Save(r) \/ DrawMenu(r) \/ Saving(r) \/ SaveEnds(r)
    PROVE  SettledInv'
  <1>1. r \in Slots /\ ReqOK /\ req[r] \in Request
    BY DEF Slots, HostInv, ReqOK
  <1>2. CASE Save(r)
    <2>1. PICK h \in Here, m \in Modes :
              Open(r, [Idle EXCEPT !.op = "save", !.pc = "keys", !.todo = Keys,
                         !.new = [host |-> h, mode |-> m, from |-> 0, ok |-> TRUE]])
      BY <1>2 DEF Save
    <2>2. /\ req'[r].pc = "keys" /\ req[r].pc = "idle"
          /\ \A x \in Slots \ {r} : req'[x] = req[x]
      BY <1>1, <2>1 DEF Open, Active, ReqOK, Idle
    <2>3. \A x \in Slots : SettlesAlike(req'[x], req[x])
      BY <2>2, AlikeItself DEF SettlesAlike
    <2> QED
      BY <1>2, <2>3, SettledAlike DEF Save, dbVars, confVars
  <1>3. CASE DrawMenu(r)
    <2>1. /\ req'[r].pc = "menu" /\ req[r].pc = "idle"
          /\ \A x \in Slots \ {r} : req'[x] = req[x]
      BY <1>1, <1>3 DEF DrawMenu, Open, Active, ReqOK, Idle
    <2>2. \A x \in Slots : SettlesAlike(req'[x], req[x])
      BY <2>1, AlikeItself DEF SettlesAlike
    <2> QED
      BY <1>3, <2>2, SettledAlike DEF DrawMenu, dbVars, confVars
  <1>4. CASE RebuildGrub(r)
    <2>1. /\ req'[r].pc = "bake" /\ req[r].pc = "grub"
          /\ \A x \in Slots \ {r} : req'[x] = req[x]
      BY <1>1, <1>4, AfterGoto DEF RebuildGrub
    <2>2. \A x \in Slots : SettlesAlike(req'[x], req[x])
      BY <2>1, AlikeItself DEF SettlesAlike
    <2> QED
      BY <1>4, <2>2, SettledAlike DEF RebuildGrub, dbVars, confVars
  <1>5. CASE SaveEnds(r)
    <2>1. /\ req'[r] = Idle /\ req[r].pc = "bake"
          /\ \A x \in Slots \ {r} : req'[x] = req[x]
      BY <1>1, <1>5, AfterClose DEF SaveEnds
    <2>2. \A x \in Slots : SettlesAlike(req'[x], req[x])
      BY <2>1, IdleSays, AlikeItself DEF SettlesAlike
    <2> QED
      BY <1>5, <2>2, SettledAlike DEF SaveEnds, dbVars, confVars
  <1> QED
    BY <1>2, <1>3, <1>4, <1>5, SaveKeySettles DEF Saving

LEMMA RestoringSettles ==
    ASSUME HostInv, SettledInv, NEW r \in Requests, Restoring(r) PROVE SettledInv'
  <1>1. UNCHANGED << menu, conf, crossed >>
    BY DEF Restoring, UploadWrite, Preview, CheckToken, Inspect, RewriteStaged, CopyLive,
           Replace, confVars
  <1>2. held' = Nothing => UNCHANGED << disk, held >>
    <2>1. CASE UploadWrite(r)
      <3>1. held' = held /\ req[r].pc = "transfer" /\ (req[r].ino # "disk" => disk' = disk)
        BY <2>1 DEF UploadWrite
      <3> QED
        BY <3>1 DEF SettledInv, NoStray
    <2>2. CASE Replace(r)
      BY <2>2, NothingAssumption DEF Replace, HostInv, DbOK
    <2> QED
      BY <2>1, <2>2 DEF Restoring, Preview, CheckToken, Inspect, RewriteStaged, CopyLive
  <1>3. ASSUME held' = Nothing, NEW x \in Slots PROVE SettlesAlike(req'[x], req[x])
    BY <1>3, AfterRestoring DEF SettlesAlike, RestoreSteps
  <1> QED
    BY <1>1, <1>2, <1>3, SettledAlike

LEMMA RequestsSettle ==
    ASSUME HostInv, SettledInv, NEW r \in Requests,
           UploadOpen(r) \/ \E token \in previews : Apply(r, token)
    PROVE  SettledInv'
  <1>1. r \in Slots /\ ReqOK
    BY DEF Slots, HostInv
  <1>2. UNCHANGED << disk, held, conf, menu, crossed >>
    <2>1. CASE UploadOpen(r)
      BY <2>1 DEF UploadOpen, confVars
    <2>2. ASSUME NEW token \in previews, Apply(r, token)
          PROVE  UNCHANGED << disk, held, conf, menu, crossed >>
      BY <2>2 DEF Apply, dbVars, confVars
    <2> QED
      BY <2>1, <2>2
  <1>3. /\ req'[r].pc \in {"transfer", "token"} /\ req'[r].ino # "disk" /\ req[r].pc = "idle"
        /\ \A x \in Slots \ {r} : req'[x] = req[x]
    <2>1. CASE UploadOpen(r)
      <3>1. PICK d : Open(r, [Idle EXCEPT !.op = "upload", !.pc = "transfer",
                                !.ino = "staged", !.new = d])
        BY <2>1 DEF UploadOpen
      <3> QED
        BY <1>1, <3>1 DEF Open, Active, ReqOK, Idle
    <2>2. ASSUME NEW token \in previews, Apply(r, token)
          PROVE  /\ req'[r].pc = "token" /\ req'[r].ino = "none" /\ req[r].pc = "idle"
                 /\ \A x \in Slots \ {r} : req'[x] = req[x]
      BY <1>1, <2>2 DEF Apply, Open, Active, ReqOK, Idle
    <2> QED
      BY <2>1, <2>2
  <1>4. \A x \in Slots : SettlesAlike(req'[x], req[x])
    BY <1>3, AlikeItself DEF SettlesAlike
  <1> QED
    BY <1>2, <1>4, SettledAlike

LEMMA OthersSettle ==
    ASSUME HostInv, SettledInv, Cancel \/ Restart \/ Watching \/ Second PROVE SettledInv'
  <1>1. CASE Cancel
    <2>1. UNCHANGED << disk, held, conf, menu, crossed >> /\ req' = Lose(req, "gone")
      BY <1>1 DEF Cancel, confVars
    <2>2. \A x \in Slots : SettlesAlike(req'[x], req[x])
      BY <2>1, AfterLose DEF HostInv, ReqOK, SettlesAlike
    <2> QED
      BY <2>1, <2>2, SettledAlike
  <1>2. CASE Restart
    <2>1. /\ \A x \in Requests : req'[x] = Idle
          /\ req'[Startup].op = "start" /\ req'[Startup].pc = "conf"
      BY <1>2, SlotsAssumption DEF Restart, Slots, Idle, StartsWith
    <2>2. NoStray'
      BY <2>1, IdleSays DEF NoStray
    <2>3. ConfSettles' /\ MenuSettles'
      BY <2>1 DEF ConfSettles, MenuSettles, Pending, Slots
    <2>4. \A x \in Slots : AtHand(req'[x], disk')
      BY <2>1, IdleSays DEF AtHand, Slots
    <2> QED
      BY <2>2, <2>3, <2>4 DEF SettledInv
  <1>3. CASE Watching \/ Second
    <2>1. UNCHANGED << disk, held, conf, menu, crossed, req >>
      BY <1>3 DEF Watching, Poll, StartDnsmasq, DnsmasqExits, Second, dbVars, confVars
    <2> QED
      BY <2>1, AlikeItself, SettledAlike
  <1> QED
    BY <1>1, <1>2, <1>3

LEMMA FirstSettled == HostInit => SettledInv
  <1> SUFFICES ASSUME HostInit PROVE SettledInv
      OBVIOUS
  <1>1. \A x \in Slots : req[x].pc = "idle"
    BY IdleSays DEF HostInit
  <1>2. conf.text = Text(disk) /\ menu = disk.host
    BY DEF HostInit
  <1> QED
    BY <1>1, <1>2 DEF SettledInv, NoStray, ConfSettles, MenuSettles, AtHand, Slots
--------------------------------------------------------------------------------
(* All of it together.                                                          *)

HostMoves == HostNext \/ \E r \in Requests : SaveEnds(r)

\* Only the number of requests changes, if anything.
Elsewhere == UNCHANGED << dbVars, confVars, dns, menu, grub, req, restarts, crossed >>

SafeInv == RestoreInv /\ ForeignInv /\ LoopInv /\ SettledInv

LEMMA FirstSafe == HostInit => SafeInv
  BY FirstRestore, FirstForeign, FirstFitsLoop, FirstSettled DEF SafeInv

LEMMA ElsewhereSafe == SafeInv /\ Elsewhere => SafeInv'
  <1> SUFFICES ASSUME SafeInv, Elsewhere PROVE SafeInv'
      OBVIOUS
  <1>1. UNCHANGED << disk, held, staged, pre, conf, dns, menu, grub, req, previews, swaps,
                     mingled, crossed >>
    BY DEF Elsewhere, dbVars, confVars
  <1>2. RestoreInv'
    BY <1>1, KeepingFiles DEF SafeInv, KeepsFiles
  <1>3. ForeignInv'
    BY <1>1 DEF SafeInv, ForeignInv, OwnFiles
  <1>4. LoopInv'
    BY <1>1 DEF SafeInv, LoopInv, StartFits
  <1>5. SettledInv'
    BY <1>1, AlikeItself, SettledAlike DEF SafeInv
  <1> QED
    BY <1>2, <1>3, <1>4, <1>5 DEF SafeInv

LEMMA StepsAreSafe == HostInv /\ SafeInv /\ HostMoves => SafeInv'
  <1> SUFFICES ASSUME HostInv, SafeInv, HostMoves PROVE SafeInv'
      OBVIOUS
  <1>1. RestoreInv /\ ForeignInv /\ LoopInv /\ SettledInv
    BY DEF SafeInv
  <1>2. ASSUME NEW r \in Requests, Save(r) \/ DrawMenu(r) \/ Saving(r) \/ SaveEnds(r)
        PROVE  SafeInv'
    BY <1>1, <1>2, SavingKeepsFiles, KeepingFiles, SavingKeepsForeignOut, SavingFitsLoop,
       SavingSettles DEF SafeInv
  <1>3. ASSUME NEW r \in Requests, UploadOpen(r) PROVE SafeInv'
    BY <1>1, <1>3, UploadOpenKeepsRestore, RequestsKeepForeignOut, RequestsFitLoop,
       RequestsSettle DEF SafeInv
  <1>4. ASSUME NEW r \in Requests, NEW token \in previews, Apply(r, token) PROVE SafeInv'
    BY <1>1, <1>4, ApplyKeepsRestore, RequestsKeepForeignOut, RequestsFitLoop,
       RequestsSettle DEF SafeInv
  <1>5. ASSUME NEW r \in Requests, Restoring(r) PROVE SafeInv'
    BY <1>1, <1>5, RestoringKeepsRestore, RestoringKeepsForeignOut, RestoringFitsLoop,
       RestoringSettles DEF SafeInv
  <1>6. ASSUME NEW r \in Slots, Rendering(r) PROVE SafeInv'
    BY <1>1, <1>6, RenderingKeepsFiles, KeepingFiles, RenderingKeepsForeignOut,
       RenderingFitsLoop, RenderingSettles DEF SafeInv
  <1>7. CASE Cancel
    BY <1>1, <1>7, CancelKeepsRestore, OthersKeepForeignOut, OthersFitLoop, OthersSettle
       DEF SafeInv
  <1>8. CASE Restart \/ Watching \/ Second
    BY <1>1, <1>8, OthersKeepFiles, KeepingFiles, OthersKeepForeignOut, OthersFitLoop,
       OthersSettle DEF SafeInv
  <1> QED
    BY <1>2, <1>3, <1>4, <1>5, <1>6, <1>7, <1>8 DEF HostMoves, HostNext

\* What the invariants say.
LEMMA SafeMeans ==
    SafeInv => /\ PreviewedIsApplied /\ ForeignHostKeptOut /\ SafetyCopyUndoes
               /\ ConfFollowsSettings /\ MenuFollowsSettings
  <1> SUFFICES ASSUME SafeInv
               PROVE  /\ PreviewedIsApplied /\ ForeignHostKeptOut /\ SafetyCopyUndoes
                      /\ ConfFollowsSettings /\ MenuFollowsSettings
      OBVIOUS
  <1>1. PreviewedIsApplied
    BY DEF SafeInv, RestoreInv, FilesInv, Restored, PreviewedIsApplied
  <1>2. SafetyCopyUndoes
    BY DEF SafeInv, RestoreInv, FilesInv, SafetyCopyUndoes
  <1>3. ForeignHostKeptOut
    BY DEF SafeInv, ForeignInv, OwnFiles, ForeignHostKeptOut
  <1>4. Quiet => ConfSettles /\ MenuSettles /\ \A r \in Slots : req[r].pc = "idle"
    BY DEF SafeInv, SettledInv, Quiet, Active
  <1>5. ConfFollowsSettings
    BY <1>4 DEF ConfSettles, ConfFollowsSettings
  <1>6. MenuFollowsSettings
    BY <1>4 DEF MenuSettles, Pending, MenuFollowsSettings
  <1> QED
    BY <1>1, <1>2, <1>3, <1>5, <1>6
--------------------------------------------------------------------------------
(* Whose database it is.  As long as it is this host's own, only a save changes it. *)

Origin(q) == /\ q.pc = "transfer" => q.new.from # 0
             /\ q.pc # "idle" => q.n # 0
             /\ q.pc = "keys" => q.new.host \in Here

OriginsInv == /\ staged # Nothing => staged.from # 0
              /\ \A r \in Requests : Origin(req[r])
              /\ disk.from = 0 => held = Nothing /\ disk.host \in Here

\* A save goes on, and becomes one only by the request for it.
SaveGoesOn(q, o) == /\ o.op = "save" => q.op = "save"
                    /\ q.op = "save" /\ q.pc # "bake" => o.op = "save" /\ o.pc # "bake"

\* The database stays, or a save that is under way changes a key of it.
OwnDbKept == \/ disk' = disk
             \/ \E r \in Requests : {req[r].op, req'[r].op} = {"save"} /\ req'[r].pc # "bake"

OriginAlike(q, o) ==
    \/ q.pc = "idle" \/ q = o
    \/ /\ q.n = o.n /\ o.pc # "idle"
       /\ q.pc \in {"transfer", "keys"} => q.pc = o.pc /\ q.new = o.new

LEMMA OriginsStay ==
    ASSUME OriginsInv, UNCHANGED << disk, held >>, staged' \in {staged, Nothing},
           \A x \in Requests : OriginAlike(req'[x], req[x])
    PROVE  OriginsInv'
  BY DEF OriginsInv, Origin, OriginAlike

LEMMA RequestsHaveOrigin ==
    ASSUME HostInv, OriginsInv, NEW r \in Requests,
           Save(r) \/ DrawMenu(r) \/ UploadOpen(r) \/ \E token \in previews : Apply(r, token)
    PROVE  /\ OriginsInv' /\ disk' = disk /\ req[r].pc = "idle"
           /\ \A x \in Requests \ {r} : req'[x] = req[x]
  <1>1. r \in Slots /\ ReqOK /\ made + 1 # 0 /\ Requests \subseteq Slots
    BY HostLimits DEF Slots, HostInv, CountOK
  <1>2. CASE Save(r)
    <2>1. PICK h \in Here, m \in Modes :
              Open(r, [Idle EXCEPT !.op = "save", !.pc = "keys", !.todo = Keys,
                         !.new = [host |-> h, mode |-> m, from |-> 0, ok |-> TRUE]])
      BY <1>2 DEF Save
    <2>2. /\ req'[r].pc = "keys" /\ req'[r].new.host \in Here /\ req'[r].n = made + 1
          /\ req[r].pc = "idle" /\ \A x \in Slots \ {r} : req'[x] = req[x]
      BY <1>1, <2>1 DEF Open, Active, ReqOK, Idle
    <2>3. UNCHANGED << disk, held, staged >>
      BY <1>2 DEF Save, dbVars
    <2> QED
      BY <1>1, <2>2, <2>3 DEF OriginsInv, Origin
  <1>3. CASE DrawMenu(r)
    <2>1. /\ req'[r].pc = "menu" /\ req'[r].n = made + 1
          /\ req[r].pc = "idle" /\ \A x \in Slots \ {r} : req'[x] = req[x]
      BY <1>1, <1>3 DEF DrawMenu, Open, Active, ReqOK, Idle
    <2>2. UNCHANGED << disk, held, staged >>
      BY <1>3 DEF DrawMenu, dbVars
    <2> QED
      BY <1>1, <2>1, <2>2 DEF OriginsInv, Origin
  <1>4. CASE UploadOpen(r)
    <2>1. PICK d \in {Unusable(made + 1)} \cup
                     [host : Hosts, mode : Modes, from : {made + 1}, ok : {TRUE}] :
              Open(r, [Idle EXCEPT !.op = "upload", !.pc = "transfer", !.ino = "staged",
                         !.new = d])
      BY <1>4 DEF UploadOpen
    <2>2. d.from = made + 1 /\ Unusable(made + 1).from = made + 1
      <3>1. Unusable(made + 1).from = made + 1
        BY DEF Unusable
      <3>2. d \in [host : Hosts, mode : Modes, from : {made + 1}, ok : {TRUE}]
            => d.from = made + 1
        OBVIOUS
      <3> QED
        BY <3>1, <3>2
    <2>3. /\ req'[r].pc = "transfer" /\ req'[r].new = d /\ req'[r].n = made + 1
          /\ req[r].pc = "idle" /\ \A x \in Slots \ {r} : req'[x] = req[x]
      BY <1>1, <2>1 DEF Open, Active, ReqOK, Idle
    <2>4. UNCHANGED << disk, held >> /\ staged'.from = made + 1
      BY <1>4, <2>2 DEF UploadOpen
    <2> QED
      BY <1>1, <2>2, <2>3, <2>4 DEF OriginsInv, Origin
  <1>5. ASSUME NEW token \in previews, Apply(r, token)
        PROVE  /\ OriginsInv' /\ disk' = disk /\ req[r].pc = "idle"
               /\ \A x \in Requests \ {r} : req'[x] = req[x]
    <2>1. /\ req'[r].pc = "token" /\ req'[r].n = made + 1
          /\ req[r].pc = "idle" /\ \A x \in Slots \ {r} : req'[x] = req[x]
      BY <1>1, <1>5 DEF Apply, Open, Active, ReqOK, Idle
    <2>2. UNCHANGED << disk, held, staged >>
      BY <1>5 DEF Apply, dbVars
    <2> QED
      BY <1>1, <2>1, <2>2 DEF OriginsInv, Origin
  <1> QED
    BY <1>2, <1>3, <1>4, <1>5

LEMMA SavingHasOrigin ==
    ASSUME HostInv, LoopInv, OriginsInv, NEW r \in Requests, Saving(r)
    PROVE  /\ OriginsInv' /\ OwnDbKept /\ disk'.from = disk.from
           /\ \A x \in Requests : SaveGoesOn(req'[x], req[x])
  <1>1. r \in Slots /\ ReqOK /\ DbOK /\ Requests \subseteq Slots /\ req[r] \in Request
    BY DEF Slots, HostInv, ReqOK
  <1>2. ASSUME NEW k \in Keys, SaveKey(r, k)
        PROVE  /\ OriginsInv' /\ OwnDbKept /\ disk'.from = disk.from
               /\ \A x \in Requests : SaveGoesOn(req'[x], req[x])
    <2>1. /\ req'[r].pc \in {"keys", "conf"} /\ req[r].pc = "keys"
          /\ req'[r].op = req[r].op /\ req'[r].new = req[r].new /\ req'[r].n = req[r].n
          /\ \A x \in Slots \ {r} : req'[x] = req[x]
      BY <1>1, <1>2 DEF SaveKey, ReqOK, Request
    <2>2. req[r].op = "save"
      BY <2>1 DEF LoopInv, OpFits, SaveSteps
    <2>3. /\ disk'.from = disk.from /\ disk'.host \in {disk.host, req[r].new.host}
          /\ held = Nothing => held' = held
      BY <1>1, <1>2 DEF SaveKey, DbOK, Db
    <2>4. staged' = staged
      BY <1>2 DEF SaveKey
    <2>5. OriginsInv'
      BY <1>1, <2>1, <2>3, <2>4 DEF OriginsInv, Origin
    <2>6. OwnDbKept
      BY <2>1, <2>2 DEF OwnDbKept
    <2> QED
      BY <1>1, <2>1, <2>2, <2>3, <2>5, <2>6 DEF SaveGoesOn
  <1>3. CASE RebuildGrub(r)
    <2>1. /\ req'[r].pc = "bake" /\ req[r].pc = "grub" /\ Same(req'[r], req[r])
          /\ \A x \in Slots \ {r} : req'[x] = req[x]
      BY <1>1, <1>3, AfterGoto DEF RebuildGrub
    <2>2. UNCHANGED << disk, held, staged >>
      BY <1>3 DEF RebuildGrub, dbVars
    <2>3. OriginsInv'
      BY <1>1, <2>1, <2>2, OriginsStay DEF OriginAlike, Same
    <2> QED
      BY <1>1, <2>1, <2>2, <2>3 DEF OwnDbKept, SaveGoesOn, Same
  <1> QED
    BY <1>2, <1>3 DEF Saving

LEMMA SaveEndsHasOrigin ==
    ASSUME HostInv, OriginsInv, NEW r \in Requests, SaveEnds(r)
    PROVE  /\ OriginsInv' /\ disk' = disk /\ req'[r].op = "none"
           /\ \A x \in Requests \ {r} : req'[x] = req[x]
  <1>1. r \in Slots /\ ReqOK /\ Requests \subseteq Slots
    BY DEF Slots, HostInv
  <1>2. req'[r] = Idle /\ \A x \in Slots \ {r} : req'[x] = req[x]
    BY <1>1, AfterClose DEF SaveEnds
  <1>3. UNCHANGED << disk, held, staged >>
    BY DEF SaveEnds, dbVars
  <1> QED
    BY <1>1, <1>2, <1>3, IdleSays, OriginsStay DEF OriginAlike

LEMMA RenderingHasOrigin ==
    ASSUME HostInv, OriginsInv, NEW r \in Slots, Rendering(r)
    PROVE  /\ OriginsInv' /\ disk' = disk
           /\ \A x \in Requests : SaveGoesOn(req'[x], req[x])
  <1>1. UNCHANGED << disk, held, staged >>
    BY DEF Rendering, RenderConf, WriteConf, RenderMenu, WriteMenu, dbVars
  <1>2. \A x \in Requests : OriginAlike(req'[x], req[x]) /\ SaveGoesOn(req'[x], req[x])
    BY AfterRendering, IdleSays DEF Slots, OriginAlike, SaveGoesOn
  <1> QED
    BY <1>1, <1>2, OriginsStay

LEMMA RestoringHasOrigin ==
    ASSUME HostInv, LoopInv, SettledInv, OriginsInv, NEW r \in Requests, Restoring(r)
    PROVE  /\ OriginsInv' /\ (disk'.from = 0 => disk' = disk)
           /\ \A x \in Requests : SaveGoesOn(req'[x], req[x])
  <1>1. r \in Slots /\ ReqOK /\ DbOK /\ Requests \subseteq Slots /\ req[r] \in Request
    BY DEF Slots, HostInv, ReqOK
  <1>2. \A x \in Requests : OriginAlike(req'[x], req[x]) /\ SaveGoesOn(req'[x], req[x])
    <2>1. req[r].op # "save"
      BY AfterRestoring DEF LoopInv, OpFits, SaveSteps, RestoreSteps
    <2>2. OriginAlike(req'[r], req[r]) /\ SaveGoesOn(req'[r], req[r])
      BY <2>1, AfterRestoring DEF OriginAlike, SaveGoesOn, RestoreSteps
    <2>3. ASSUME NEW x \in Requests \ {r}
          PROVE  OriginAlike(req'[x], req[x]) /\ SaveGoesOn(req'[x], req[x])
      <3>1. req'[x].pc = req[x].pc /\ Same(req'[x], req[x])
        BY <1>1, AfterRestoring
      <3> QED
        BY <3>1 DEF OriginAlike, SaveGoesOn, Same
    <2> QED
      BY <2>2, <2>3
  <1>3. CASE UploadWrite(r)
    <2>1. req[r].new.from # 0 /\ Unusable(req[r].n).from # 0
      BY <1>3 DEF UploadWrite, OriginsInv, Origin, Unusable
    <2>2. /\ held' = held /\ (disk' = disk \/ disk'.from # 0)
          /\ staged' = staged \/ staged'.from # 0
      BY <1>3, <2>1 DEF UploadWrite
    <2> QED
      BY <1>2, <2>2 DEF OriginsInv, Origin, OriginAlike
  <1>4. CASE Preview(r) \/ CheckToken(r) \/ Inspect(r) \/ CopyLive(r)
    <2>1. UNCHANGED << disk, held >> /\ staged' \in {staged, Nothing}
      BY <1>4 DEF Preview, CheckToken, Inspect, CopyLive
    <2> QED
      BY <1>2, <2>1, OriginsStay
  <1>5. CASE RewriteStaged(r)
    <2>1. UNCHANGED << disk, held >>
      BY <1>5 DEF RewriteStaged
    <2>2. Unusable(req[r].n).from # 0
      BY <1>5 DEF RewriteStaged, OriginsInv, Origin, Unusable
    <2>3. staged # Nothing => Overridden(staged, req[r].keep).from = staged.from
      BY <1>1 DEF Overridden, DbOK, Files, Db
    <2>4. staged' # Nothing => staged'.from # 0
      BY <1>5, <2>2, <2>3 DEF RewriteStaged, OriginsInv
    <2> QED
      BY <1>2, <2>1, <2>4 DEF OriginsInv, Origin, OriginAlike
  <1>6. CASE Replace(r)
    <2>1. CASE staged = Nothing
      BY <1>2, <1>6, <2>1, OriginsStay DEF Replace
    <2>2. CASE staged # Nothing
      <3>1. disk'.from # 0 /\ staged' = Nothing
        BY <1>6, <2>2 DEF Replace, OriginsInv
      <3> QED
        BY <1>2, <3>1 DEF OriginsInv, Origin, OriginAlike
    <2> QED
      BY <2>1, <2>2
  <1> QED
    BY <1>2, <1>3, <1>4, <1>5, <1>6 DEF Restoring

LEMMA OthersHaveOrigin ==
    ASSUME HostInv, OriginsInv, Cancel \/ Watching \/ Second
    PROVE  /\ OriginsInv' /\ disk' = disk
           /\ \A x \in Requests : SaveGoesOn(req'[x], req[x])
  <1>1. CASE Cancel
    <2>1. UNCHANGED << disk, held >> /\ staged' = Nothing /\ req' = Lose(req, "gone")
      BY <1>1 DEF Cancel
    <2>2. \A x \in Slots : req'[x].pc = req[x].pc /\ Same(req'[x], req[x])
      BY <2>1, AfterLose DEF HostInv, ReqOK
    <2>3. \A x \in Requests : OriginAlike(req'[x], req[x]) /\ SaveGoesOn(req'[x], req[x])
      BY <2>2 DEF OriginAlike, SaveGoesOn, Same, Slots
    <2> QED
      BY <2>1, <2>3, OriginsStay
  <1>2. CASE Watching \/ Second
    <2>1. UNCHANGED << disk, held, staged, req >>
      BY <1>2 DEF Watching, Poll, StartDnsmasq, DnsmasqExits, Second, dbVars
    <2> QED
      BY <2>1, OriginsStay DEF OriginAlike, SaveGoesOn
  <1> QED
    BY <1>1, <1>2

LEMMA RestartHasOrigin ==
    ASSUME HostInv, OriginsInv, Restart
    PROVE  /\ OriginsInv' /\ disk'.from = disk.from /\ (disk.from = 0 => disk' = disk)
           /\ \A x \in Requests : req'[x] = Idle
  <1>1. \A x \in Requests : req'[x] = Idle
    BY SlotsAssumption DEF Restart, Slots
  <1>2. disk \in Db /\ held' = Nothing /\ staged' = staged
    BY DEF Restart, HostInv, DbOK
  <1>3. disk'.from = disk.from
    BY <1>2 DEF Restart, Db
  <1>4. ASSUME disk.from = 0 PROVE disk' = disk
    <2>1. disk.host # Unset
      BY <1>4, ValuesAssumption DEF OriginsInv
    <2>2. disk' = [disk EXCEPT !.host = disk.host]
      BY <2>1 DEF Restart
    <2> QED
      BY <1>2, <2>2 DEF Db
  <1> QED
    BY <1>1, <1>2, <1>3, <1>4, IdleSays DEF OriginsInv, Origin

LEMMA FirstOrigin == HostInit => OriginsInv
  <1> SUFFICES ASSUME HostInit PROVE OriginsInv
      OBVIOUS
  <1>1. \A x \in Requests : req[x].pc = "idle"
    BY IdleSays DEF HostInit, Slots
  <1>2. disk.host \in Here /\ held = Nothing
    BY ValuesAssumption DEF HostInit
  <1>3. staged # Nothing => staged.from = MaxRequests + 1
    BY DEF HostInit
  <1> QED
    BY <1>1, <1>2, <1>3, HostLimits DEF OriginsInv, Origin
--------------------------------------------------------------------------------
(* The settings and the restores, seen as Restores sees them.                   *)

\* A step of Restores, or none.
PlaysRestore == [R!Next]_(R!vars)

LEMMA NothingPlays == ASSUME UNCHANGED << disk, pre, previews, mingled >> PROVE PlaysRestore
  BY DEF PlaysRestore, R!vars

LEMMA ActionsPlay ==
    R!Save \/ R!Look \/ R!Copy \/ R!Swap \/ R!Disturb \/ R!Stray => PlaysRestore
  BY DEF PlaysRestore, R!Next

\* A step that at most disturbs an apply.
LEMMA DisturbingPlays ==
    ASSUME UNCHANGED << disk, pre, previews >>, mingled' = TRUE \/ mingled' = mingled
    PROVE  PlaysRestore
  <1>1. CASE mingled' = TRUE
    BY <1>1, ActionsPlay DEF R!Disturb
  <1>2. CASE mingled' = mingled
    BY <1>2, NothingPlays
  <1> QED
    BY <1>1, <1>2

LEMMA MinglesPlays ==
    ASSUME DbOK, UNCHANGED << disk, pre, previews >>, Mingles PROVE PlaysRestore
  <1>1. mingled' = TRUE \/ mingled' = mingled
    BY DEF DbOK, Mingles
  <1> QED
    BY <1>1, DisturbingPlays

LEMMA SavingPlays ==
    ASSUME HostInv, OriginsInv, NEW r \in Requests,
           Save(r) \/ DrawMenu(r) \/ Saving(r) \/ SaveEnds(r)
    PROVE  PlaysRestore
  <1>1. CASE Save(r) \/ DrawMenu(r) \/ RebuildGrub(r) \/ SaveEnds(r)
    <2>1. UNCHANGED dbVars
      <3>1. CASE Save(r)
        BY <3>1, Zenon DEF Save
      <3>2. CASE DrawMenu(r)
        BY <3>2, Zenon DEF DrawMenu
      <3> QED
        BY <1>1, <3>1, <3>2 DEF RebuildGrub, SaveEnds
    <2> QED
      BY <2>1, NothingPlays DEF dbVars
  <1>2. ASSUME NEW k \in Keys, SaveKey(r, k) PROVE PlaysRestore
    <2>1. disk \in Db /\ req[r] \in Request /\ req[r].pc = "keys" /\ req[r].new \in Db
      BY <1>2 DEF HostInv, DbOK, ReqOK, Slots, SaveKey, Carries, Carrying
    <2>2. UNCHANGED << pre, previews, mingled >>
      BY <1>2 DEF SaveKey
    <2>3. req[r].new.host \in Here /\ req[r].new.mode \in Modes
      BY <2>1 DEF OriginsInv, Origin, Db
    <2>4. CASE disk' = disk
      BY <2>2, <2>4, NothingPlays
    <2>5. CASE disk' \in {[disk EXCEPT !.host = req[r].new.host],
                          [disk EXCEPT !.mode = req[r].new.mode]}
      BY <2>2, <2>3, <2>5, ActionsPlay DEF R!Save
    <2> QED
      BY <1>2, <2>4, <2>5 DEF SaveKey
  <1> QED
    BY <1>1, <1>2 DEF Saving

LEMMA RestartPlays == ASSUME HostInv, Restart PROVE PlaysRestore
  <1>1. disk \in Db /\ UNCHANGED << pre, previews, mingled >>
    BY DEF HostInv, DbOK, Restart
  <1>2. CASE disk.host # Unset
    <2>1. disk' = [disk EXCEPT !.host = disk.host]
      BY <1>2 DEF Restart
    <2>2. disk' = disk
      BY <1>1, <2>1 DEF Db
    <2> QED
      BY <1>1, <2>2, NothingPlays
  <1>3. CASE disk.host = Unset
    <2>1. \E h \in Here : disk' = [disk EXCEPT !.host = h]
      BY <1>3 DEF Restart
    <2> QED
      BY <1>1, <2>1, ActionsPlay DEF R!Save
  <1> QED
    BY <1>2, <1>3

\* Only after a disturbance may the upload still have the database open.
LEMMA UploadWritePlays ==
    ASSUME HostInv, RestoreInv, NEW r \in Requests, UploadWrite(r) PROVE PlaysRestore
  <1>1. DbOK /\ Mingles /\ UNCHANGED << pre, previews >> /\ req[r].pc = "transfer"
    BY DEF HostInv, UploadWrite
  <1>2. CASE mingled
    <2>1. UNCHANGED << pre, previews, mingled >>
      BY <1>1, <1>2 DEF DbOK, Mingles
    <2> QED
      BY <1>2, <2>1, ActionsPlay DEF R!Stray
  <1>3. CASE ~mingled
    <2>1. req[r].ino # "disk"
      BY <1>1, <1>3 DEF RestoreInv, FilesInv, Follows
    <2>2. disk' = disk
      BY <2>1 DEF UploadWrite
    <2> QED
      BY <1>1, <2>2, MinglesPlays
  <1> QED
    BY <1>2, <1>3

LEMMA PreviewPlays == ASSUME HostInv, NEW r \in Requests, Preview(r) PROVE PlaysRestore
  <1>1. DbOK /\ UNCHANGED << disk, pre >>
    BY DEF HostInv, Preview
  <1>2. CASE staged # Nothing /\ staged.ok
    <2>1. previews' = previews \cup {staged} /\ mingled' = mingled /\ staged \in previews'
      BY <1>2 DEF Preview
    <2> QED
      BY <1>1, <1>2, <2>1, ActionsPlay DEF R!Look
  <1>3. CASE ~(staged # Nothing /\ staged.ok)
    BY <1>1, <1>3, MinglesPlays DEF Preview
  <1> QED
    BY <1>2, <1>3

\* What an undisturbed apply puts in place is what its admin looked at, with a host value
\* this machine can have, and the safety copy is of what it replaces.
LEMMA ReplacePlays ==
    ASSUME HostInv, RestoreInv, ForeignInv, NEW r \in Requests, Replace(r)
    PROVE  PlaysRestore
  <1>1. /\ req[r].pc = "replace" /\ req[r] \in Request /\ r \in Slots /\ DbOK
        /\ UNCHANGED << pre, previews, mingled >>
    BY DEF HostInv, ReqOK, Slots, Replace
  <1>2. CASE staged = Nothing
    BY <1>1, <1>2, NothingPlays DEF Replace
  <1>3. CASE mingled
    BY <1>1, <1>3, ActionsPlay DEF R!Stray
  <1>4. CASE staged # Nothing /\ ~mingled
    <2> DEFINE d == req[r].token
               keep == req[r].keep
    <2>1. disk' = staged
      BY <1>4 DEF Replace
    <2>2. d \in previews /\ d \in Db /\ staged \in Db
      BY <1>1, <1>4, CheckedIsUsable DEF Checked
    <2>3. staged = Overridden(d, keep) /\ pre.from = disk.from
      BY <1>1, <1>4 DEF RestoreInv, FilesInv, Follows
    <2>4. HostVisible => keep # Foreign /\ (d.host = Foreign => keep # Nothing)
      BY <1>1, <1>4 DEF ForeignInv, OwnRequest
    <2> HIDE DEF d, keep
    <2>5. staged = [d EXCEPT !.host = staged.host]
      BY <2>2, <2>3 DEF Overridden, Db
    <2>6. staged.host \in Hosts
      BY <2>2 DEF Db
    <2>7. HostVisible => staged.host # Foreign
      BY <2>2, <2>3, <2>4 DEF Overridden, Db
    <2> DEFINE Own == IF HostVisible THEN Hosts \ {Foreign} ELSE Hosts
    <2>8. staged.host \in Own
      BY <2>6, <2>7
    <2>9. \E x \in previews, h \in Own : disk' = [x EXCEPT !.host = h]
      BY <2>1, <2>2, <2>5, <2>8
    <2> QED
      BY <1>1, <2>3, <2>9, ActionsPlay DEF R!Swap
  <1> QED
    BY <1>2, <1>3, <1>4

LEMMA RestoringPlays ==
    ASSUME HostInv, RestoreInv, ForeignInv, NEW r \in Requests, Restoring(r)
    PROVE  PlaysRestore
  <1>1. DbOK
    BY DEF HostInv
  <1>2. CASE CheckToken(r)
    BY <1>1, <1>2, MinglesPlays, DisturbingPlays DEF CheckToken, DbOK
  <1>3. CASE Inspect(r)
    BY <1>1, <1>3, DisturbingPlays DEF Inspect, DbOK
  <1>4. CASE RewriteStaged(r)
    BY <1>4, NothingPlays DEF RewriteStaged
  <1>5. CASE CopyLive(r)
    BY <1>5, ActionsPlay DEF CopyLive, SafetyCopy, R!Copy
  <1> QED
    BY <1>2, <1>3, <1>4, <1>5, UploadWritePlays, PreviewPlays, ReplacePlays DEF Restoring

LEMMA HostPlaysRestore ==
    ASSUME HostInv, SafeInv, OriginsInv, HostMoves \/ Elsewhere PROVE PlaysRestore
  <1>1. DbOK /\ RestoreInv /\ ForeignInv
    BY DEF HostInv, SafeInv
  <1>2. ASSUME NEW r \in Requests, UploadOpen(r) PROVE PlaysRestore
    BY <1>1, <1>2, MinglesPlays DEF UploadOpen
  <1>3. ASSUME NEW r \in Requests, NEW token \in previews, Apply(r, token)
        PROVE  PlaysRestore
    BY <1>3, NothingPlays DEF Apply, dbVars
  <1>4. ASSUME NEW r \in Slots, Rendering(r) PROVE PlaysRestore
    BY <1>4, NothingPlays DEF Rendering, RenderConf, WriteConf, RenderMenu, WriteMenu, dbVars
  <1>5. CASE Cancel
    BY <1>1, <1>5, MinglesPlays DEF Cancel
  <1>6. CASE Watching \/ Second \/ Elsewhere
    BY <1>6, NothingPlays
       DEF Watching, Poll, StartDnsmasq, DnsmasqExits, Second, Elsewhere, dbVars
  <1> QED
    BY <1>1, <1>2, <1>3, <1>4, <1>5, <1>6, SavingPlays, RestoringPlays, RestartPlays
       DEF HostMoves, HostNext

LEMMA FirstPlays == HostInit => R!Init
  <1> SUFFICES ASSUME HostInit PROVE R!Init
      OBVIOUS
  <1>1. disk.host \in Here /\ disk.ok
    BY ValuesAssumption DEF HostInit
  <1>2. \A d \in previews : d.ok
    BY FirstRestore DEF RestoreInv, TokensInv
  <1> QED
    BY <1>1, <1>2 DEF HostInit, R!Init
================================================================================
