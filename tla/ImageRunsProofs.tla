---------------------------- MODULE ImageRunsProofs ----------------------------
(***************************************************************************)
(* Theorems about ImageRuns for every pool of threads, every set of file   *)
(* names and every bound: the variables keep their types, the folders of   *)
(* an image have one builder at a time, process_image implements the       *)
(* abstract lock of BuildLock, and rows, names, files, folders and menu    *)
(* stay together.                                                          *)
(***************************************************************************)
EXTENDS ImageRuns, TLAPS

\* A thread that is doing something does it to an image that has, or had, an id.
ActsHaveIds == \A t \in Threads : act[t].pc # "idle" => act[t].id \in Ids

\* Types, strengthened so that they are inductive.
TypeInv == TypeOK /\ ActsHaveIds

\* What a step of one thread does to act when it stays with its image.
LEMMA GotoType ==
    ASSUME TypeInv, NEW t \in Threads, NEW pc \in Pcs, act[t].pc # "idle", Goto(t, pc)
    PROVE  act' \in [Threads -> Act] /\ ActsHaveIds'
BY DEF TypeInv, TypeOK, ActsHaveIds, Goto, Act

LEMMA ReturnType ==
    ASSUME TypeInv, NEW t \in Threads, Return(t)
    PROVE  act' \in [Threads -> Act] /\ ActsHaveIds'
BY DEF TypeInv, TypeOK, ActsHaveIds, Return, Act, Idle, Pcs, RunPcs, RemovePcs, NoUpload, NoName

LEMMA SetStatusType ==
    ASSUME TypeInv, NEW id \in Ids, NEW st \in Status, Exists(id), SetStatus(id, st)
    PROVE  rows' \in [Ids -> Row \cup {NoRow}]
<1>1. rows \in [Ids -> Row \cup {NoRow}]
  BY DEF TypeInv, TypeOK
<1>2. rows[id] \in Row
  BY <1>1 DEF Exists, NoRow
<1>3. [rows[id] EXCEPT !.status = st] \in Row
  BY <1>2 DEF Row
<1> QED
  BY <1>1, <1>3 DEF SetStatus

LEMMA NoteType ==
    ASSUME TypeInv, act' \in [Threads -> Act], ActsHaveIds', NoteOvertaking
    PROVE  overtaken' \subseteq Ids /\ raced' \in BOOLEAN
BY DEF TypeInv, TypeOK, ActsHaveIds, NoteOvertaking

LEMMA CommitType ==
    ASSUME TypeInv, NEW t \in Threads, NEW st \in Status, NEW next \in Pcs,
           act[t].pc # "idle", CommitStatus(t, st, next)
    PROVE  TypeInv'
<1>1. act' \in [Threads -> Act] /\ ActsHaveIds'
  <2>1. "except" \in Pcs
    BY DEF Pcs, RunPcs
  <2> QED
    BY <2>1, GotoType DEF CommitStatus
<1>2. rows' \in [Ids -> Row \cup {NoRow}]
  BY SetStatusType DEF CommitStatus, TypeInv, TypeOK, ActsHaveIds
<1> QED
  BY <1>1, <1>2 DEF CommitStatus, TypeInv, TypeOK, history

LEMMA TypeInit == Init => TypeInv
<1> SUFFICES ASSUME Init PROVE TypeInv
  OBVIOUS
<1>1. Idle \in Act
  BY DEF Idle, Act, Pcs, NoName
<1>2. act \in [Threads -> Act] /\ ActsHaveIds
  BY <1>1 DEF Init, ActsHaveIds, Idle
<1>3. derived \in [Ids -> [from : Uploads \cup {NoUpload}, whole : BOOLEAN]]
  BY DEF Init, NoFiles
<1>4. born \in 0..MaxUploads
  BY UploadsAssumption DEF Init
<1> QED
  BY <1>2, <1>3, <1>4 DEF Init, TypeInv, TypeOK

LEMMA TypeUploads ==
    ASSUME TypeInv,
           \/ \E f \in Names : UploadOpen(f)
           \/ \E s \in streams : UploadCommit(s)
           \/ AddNetboot
    PROVE  TypeInv'
<1>1. CASE \E f \in Names : UploadOpen(f)
  <2> PICK f \in Names : UploadOpen(f)
    BY <1>1
  <2>1. born + 1 \in Uploads /\ born + 1 \in 0..MaxUploads
    BY UploadsAssumption DEF UploadOpen, TypeInv, TypeOK, Uploads
  <2>2. streams' \subseteq [upload : Uploads, file : Names]
    BY <2>1 DEF UploadOpen, TypeInv, TypeOK
  <2>3. iso' \in [Names -> Uploads \cup {NoUpload}]
    BY <2>1 DEF UploadOpen, TypeInv, TypeOK
  <2> QED
    BY <2>1, <2>2, <2>3 DEF UploadOpen, TypeInv, TypeOK, ActsHaveIds, history
<1>2. CASE \E s \in streams : UploadCommit(s)
  <2> PICK s \in streams : UploadCommit(s)
    BY <1>2
  <2>1. PICK id \in Ids :
           /\ rows' = [rows EXCEPT ![id] = [upload |-> s.upload, file |-> s.file,
                                            status |-> "pending"]]
           /\ queued' = [queued EXCEPT ![id] = @ + 1]
    BY DEF UploadCommit
  <2>2. [upload |-> s.upload, file |-> s.file, status |-> "pending"] \in Row
    BY DEF TypeInv, TypeOK, Row, Status, BUSY, IN_FLIGHT
  <2>3. rows' \in [Ids -> Row \cup {NoRow}] /\ queued' \in [Ids -> Nat]
    BY <2>1, <2>2 DEF TypeInv, TypeOK
  <2> QED
    BY <2>3 DEF UploadCommit, NoteReuse, TypeInv, TypeOK, ActsHaveIds
<1>3. CASE AddNetboot
  <2>1. PICK id \in Ids :
           /\ born < MaxUploads
           /\ rows' = [rows EXCEPT ![id] = [upload |-> born + 1, file |-> born + 1,
                                            status |-> "pending"]]
           /\ queued' = [queued EXCEPT ![id] = @ + 1]
    BY <1>3 DEF AddNetboot
  <2>2. born + 1 \in Uploads /\ born + 1 \in 0..MaxUploads
    BY <2>1, UploadsAssumption DEF TypeInv, TypeOK, Uploads
  <2>3. [upload |-> born + 1, file |-> born + 1, status |-> "pending"] \in Row
    BY <2>2 DEF Row, Names, Status, BUSY, IN_FLIGHT
  <2>4. rows' \in [Ids -> Row \cup {NoRow}] /\ queued' \in [Ids -> Nat]
    BY <2>1, <2>3 DEF TypeInv, TypeOK
  <2> QED
    BY <1>3, <2>2, <2>4 DEF AddNetboot, NoteReuse, TypeInv, TypeOK, ActsHaveIds
<1> QED
  BY <1>1, <1>2, <1>3

LEMMA TypeBegin ==
    ASSUME TypeInv, NEW id \in Ids,
           Drop(id) \/ \E t \in Threads : Begin(t, id)
    PROVE  TypeInv'
<1>1. CASE Drop(id)
  <2>1. queued' \in [Ids -> Nat]
    BY <1>1 DEF Drop, TypeInv, TypeOK
  <2> QED
    BY <1>1, <2>1 DEF Drop, TypeInv, TypeOK, ActsHaveIds, history
<1>2. CASE \E t \in Threads : Begin(t, id)
  <2> PICK t \in Threads : Begin(t, id)
    BY <1>2
  <2>1. queued' \in [Ids -> Nat] /\ runs' \in [Ids -> {"none", "live", "stop"}]
    BY DEF Begin, TypeInv, TypeOK
  <2>2. [Idle EXCEPT !.pc = "load", !.id = id] \in Act
    BY DEF Idle, Act, Pcs, RunPcs
  <2>3. act' \in [Threads -> Act] /\ ActsHaveIds'
    BY <2>2 DEF Begin, TypeInv, TypeOK, ActsHaveIds, Idle
  <2>4. overtaken' \subseteq Ids /\ raced' \in BOOLEAN
    BY <2>3, NoteType DEF Begin
  <2> QED
    BY <2>1, <2>3, <2>4 DEF Begin, TypeInv, TypeOK
<1> QED
  BY <1>1, <1>2

LEMMA TypeLoad == ASSUME TypeInv, NEW t \in Threads, Load(t) PROVE TypeInv'
<1> DEFINE r == rows[act[t].id]
<1>1. act[t] \in Act /\ act[t].id \in Ids
  BY DEF Load, TypeInv, TypeOK, ActsHaveIds
<1>2. CASE r.status = "pending"
  <2>1. r \in Row
    BY <1>1, <1>2 DEF TypeInv, TypeOK, NoRow
  <2>2. [act[t] EXCEPT !.pc = "claim", !.upload = r.upload, !.file = r.file] \in Act
    BY <1>1, <2>1 DEF Act, Row, Pcs, RunPcs
  <2>3. act' \in [Threads -> Act] /\ ActsHaveIds'
    BY <1>1, <1>2, <2>2 DEF Load, TypeInv, TypeOK, ActsHaveIds, Act
  <2> QED
    BY <2>3 DEF Load, TypeInv, TypeOK, history
<1>3. CASE r.status # "pending"
  <2>1. "end" \in Pcs /\ Goto(t, "end")
    BY <1>3 DEF Load, Goto, Pcs, RunPcs
  <2>2. act' \in [Threads -> Act] /\ ActsHaveIds'
    BY <2>1, GotoType DEF Load
  <2> QED
    BY <2>2 DEF Load, TypeInv, TypeOK, history
<1> QED
  BY <1>2, <1>3

LEMMA TypeClaim == ASSUME TypeInv, NEW t \in Threads, Claim(t) PROVE TypeInv'
<1>1. act[t].id \in Ids
  BY DEF Claim, TypeInv, ActsHaveIds
<1>2. {"read", "end", "except"} \subseteq Pcs /\ "processing" \in Status
  BY DEF Pcs, RunPcs, Status, BUSY, IN_FLIGHT
<1>3. act' \in [Threads -> Act] /\ ActsHaveIds'
  BY <1>2, GotoType DEF Claim, CheckStop
<1>4. rows' \in [Ids -> Row \cup {NoRow}]
  BY <1>1, <1>2, SetStatusType DEF Claim, TypeInv, TypeOK
<1>5. derived' \in [Ids -> [from : Uploads \cup {NoUpload}, whole : BOOLEAN]]
  <2>1. NoFiles \in [from : Uploads \cup {NoUpload}, whole : BOOLEAN]
    BY DEF NoFiles
  <2>2. derived' = derived \/ derived' = [derived EXCEPT ![act[t].id] = NoFiles]
    BY DEF Claim
  <2> QED
    BY <2>1, <2>2 DEF TypeInv, TypeOK
<1> QED
  BY <1>3, <1>4, <1>5 DEF Claim, TypeInv, TypeOK, history

\* The bytes a thread builds from are an upload, or missing.
LEMMA SourceType ==
    ASSUME TypeInv, NEW t \in Threads
    PROVE  Source(t) \in Uploads \cup {NoUpload}
<1>1. act[t] \in Act
  BY DEF TypeInv, TypeOK
<1>2. CASE Uploaded(t)
  BY <1>1, <1>2 DEF Source, Uploaded, TypeInv, TypeOK, Names
<1>3. CASE ~Uploaded(t)
  BY <1>1, <1>3 DEF Source, Act
<1> QED
  BY <1>2, <1>3

LEMMA TypeMove ==
    ASSUME TypeInv, NEW t \in Threads,
           Cancel(t) \/ Read(t) \/ Extract(t) \/ Unpack(t) \/ Raise(t) \/ RenderRun(t)
    PROVE  TypeInv'
<1>1. act[t] \in Act /\ act[t].pc # "idle" /\ act[t].id \in Ids
  BY DEF Cancel, Read, Extract, Unpack, Raise, RenderRun, TypeInv, TypeOK, ActsHaveIds
<1>2. act' \in [Threads -> Act] /\ ActsHaveIds'
  <2>1. \E pc \in Pcs : Goto(t, pc)
    BY DEF Cancel, Read, Extract, Unpack, Raise, RenderRun, CheckStop, Pcs, RunPcs
  <2> QED
    BY <1>1, <2>1, GotoType
<1>3. iso' \in [Names -> Uploads \cup {NoUpload}]
  BY <1>1 DEF Cancel, Read, Extract, Unpack, Raise, RenderRun, TypeInv, TypeOK, Act
<1>4. derived' \in [Ids -> [from : Uploads \cup {NoUpload}, whole : BOOLEAN]]
  <2>1. CASE Extract(t)
    BY <2>1, SourceType DEF Extract, TypeInv, TypeOK
  <2>2. CASE Unpack(t)
    <3>1. [from |-> Source(t), whole |-> derived[act[t].id].from = Source(t)]
            \in [from : Uploads \cup {NoUpload}, whole : BOOLEAN]
      BY SourceType
    <3> QED
      BY <2>2, <3>1, <1>1 DEF Unpack, TypeInv, TypeOK
  <2>3. CASE Cancel(t) \/ Read(t) \/ Raise(t) \/ RenderRun(t)
    BY <2>3 DEF Cancel, Read, Raise, RenderRun, TypeInv, TypeOK
  <2> QED
    BY <2>1, <2>2, <2>3
<1>5. menu' \subseteq Ids
  BY DEF Cancel, Read, Extract, Unpack, Raise, RenderRun, Render, MenuOf, TypeInv, TypeOK
<1>6. UNCHANGED << rows, runs, queued, streams, born, history >>
  BY DEF Cancel, Read, Extract, Unpack, Raise, RenderRun
<1> QED
  BY <1>2, <1>3, <1>4, <1>5, <1>6 DEF TypeInv, TypeOK, history

LEMMA TypeCommit ==
    ASSUME TypeInv, NEW t \in Threads, CommitReady(t) \/ Fail(t)
    PROVE  TypeInv'
<1>1. {"ready", "error"} \subseteq Status /\ {"render", "end"} \subseteq Pcs
  BY DEF Status, BUSY, IN_FLIGHT, Pcs, RunPcs
<1>2. CASE CommitReady(t)
  BY <1>1, <1>2, CommitType DEF CommitReady
<1>3. CASE Fail(t)
  BY <1>1, <1>3, CommitType DEF Fail
<1> QED
  BY <1>2, <1>3

LEMMA TypeExcept == ASSUME TypeInv, NEW t \in Threads, Except(t) PROVE TypeInv'
<1>1. "error" \in Status /\ {"render", "end"} \subseteq Pcs
  BY DEF Status, BUSY, IN_FLIGHT, Pcs, RunPcs
<1>2. act' \in [Threads -> Act] /\ ActsHaveIds'
  BY <1>1, GotoType DEF Except
<1>3. rows' \in [Ids -> Row \cup {NoRow}]
  BY <1>1, SetStatusType DEF Except, TypeInv, TypeOK, ActsHaveIds
<1> QED
  BY <1>2, <1>3 DEF Except, TypeInv, TypeOK, history

LEMMA TypeEnd ==
    ASSUME TypeInv, NEW t \in Threads, End(t) \/ Finish(t) \/ Sweep(t)
    PROVE  TypeInv'
<1>1. act' \in [Threads -> Act] /\ ActsHaveIds'
  <2>1. (\E pc \in Pcs : Goto(t, pc)) \/ Return(t)
    BY DEF End, Finish, Sweep, Pcs, RemovePcs
  <2> QED
    BY <2>1, GotoType, ReturnType DEF End, Finish, Sweep
<1>2. runs' \in [Ids -> {"none", "live", "stop"}]
  BY DEF End, Finish, Sweep, TypeInv, TypeOK
<1>3. iso' \in [Names -> Uploads \cup {NoUpload}]
  BY DEF End, Finish, Sweep, TypeInv, TypeOK
<1>4. derived' \in [Ids -> [from : Uploads \cup {NoUpload}, whole : BOOLEAN]]
  <2>1. NoFiles \in [from : Uploads \cup {NoUpload}, whole : BOOLEAN]
    BY DEF NoFiles
  <2>2. derived' = derived \/ derived' = [derived EXCEPT ![act[t].id] = NoFiles]
    BY DEF End, Finish, Sweep
  <2> QED
    BY <2>1, <2>2 DEF TypeInv, TypeOK
<1>5. overtaken' \subseteq Ids /\ raced' \in BOOLEAN /\ leaked' = leaked
  BY <1>1, NoteType DEF End, Finish, Sweep, TypeInv, TypeOK, history
<1>6. UNCHANGED << rows, menu, queued, streams, born >>
  BY DEF End, Finish, Sweep
<1> QED
  BY <1>1, <1>2, <1>3, <1>4, <1>5, <1>6 DEF TypeInv, TypeOK

LEMMA TypeRemove ==
    ASSUME TypeInv, NEW t \in Threads, Remove(t)
    PROVE  TypeInv'
<1>1. act' \in [Threads -> Act] /\ ActsHaveIds'
  <2>1. (\E pc \in Pcs : Goto(t, pc)) \/ Return(t)
    BY DEF Remove, RemoveFiles, RemoveRow, RemoveMenu, Pcs, RemovePcs
  <2> QED
    BY <2>1, GotoType, ReturnType DEF Remove, RemoveFiles, RemoveRow, RemoveMenu
<1>2. rows' \in [Ids -> Row \cup {NoRow}] /\ menu' \subseteq Ids
  BY DEF Remove, RemoveFiles, RemoveRow, RemoveMenu, Render, MenuOf, TypeInv, TypeOK
<1>3. iso' \in [Names -> Uploads \cup {NoUpload}]
  BY DEF Remove, RemoveFiles, RemoveRow, RemoveMenu, TypeInv, TypeOK
<1>4. derived' \in [Ids -> [from : Uploads \cup {NoUpload}, whole : BOOLEAN]]
  <2>1. NoFiles \in [from : Uploads \cup {NoUpload}, whole : BOOLEAN]
    BY DEF NoFiles
  <2>2. derived' = derived \/ derived' = [derived EXCEPT ![act[t].id] = NoFiles]
    BY DEF Remove, RemoveFiles, RemoveRow, RemoveMenu
  <2> QED
    BY <2>1, <2>2 DEF TypeInv, TypeOK
<1>5. UNCHANGED << runs, queued, streams, born, history >>
  BY DEF Remove, RemoveFiles, RemoveRow, RemoveMenu
<1> QED
  BY <1>1, <1>2, <1>3, <1>4, <1>5 DEF TypeInv, TypeOK, history

LEMMA TypeRequest ==
    ASSUME TypeInv, NEW t \in Threads, Request(t)
    PROVE  TypeInv'
<1>1. CASE \E id \in Ids : RetryLoad(t, id) \/ DeleteLoad(t, id)
  <2> PICK id \in Ids : RetryLoad(t, id) \/ DeleteLoad(t, id)
    BY <1>1
  <2>1. PICK pc \in {"retry", "delete"} :
           act' = [act EXCEPT ![t] = [pc |-> pc, id |-> id, upload |-> rows[id].upload,
                                      file |-> rows[id].file]]
    BY DEF RetryLoad, DeleteLoad
  <2>2. rows[id] \in Row
    BY DEF RetryLoad, DeleteLoad, Exists, TypeInv, TypeOK, NoRow
  <2>3. [pc |-> pc, id |-> id, upload |-> rows[id].upload, file |-> rows[id].file] \in Act
    BY <2>2 DEF Act, Row, Pcs
  <2>4. act' \in [Threads -> Act] /\ ActsHaveIds'
    BY <2>1, <2>3 DEF TypeInv, TypeOK, ActsHaveIds
  <2>5. overtaken' \subseteq Ids /\ raced' \in BOOLEAN
    BY <2>4, NoteType DEF RetryLoad, DeleteLoad
  <2> QED
    BY <2>4, <2>5 DEF RetryLoad, DeleteLoad, TypeInv, TypeOK
<1>2. CASE RetryCommit(t)
  <2>1. "pending" \in Status
    BY DEF Status, BUSY, IN_FLIGHT
  <2>2. act' \in [Threads -> Act] /\ ActsHaveIds'
    BY <1>2, ReturnType DEF RetryCommit
  <2>3. rows' \in [Ids -> Row \cup {NoRow}]
    BY <1>2, <2>1, SetStatusType DEF RetryCommit, TypeInv, TypeOK, ActsHaveIds
  <2>4. queued' \in [Ids -> Nat]
    BY <1>2 DEF RetryCommit, TypeInv, TypeOK
  <2> QED
    BY <1>2, <2>2, <2>3, <2>4 DEF RetryCommit, TypeInv, TypeOK, history
<1>3. CASE DeleteCheck(t)
  <2>1. "deleting" \in Status /\ "rmfiles" \in Pcs
    BY DEF Status, BUSY, Pcs, RemovePcs
  <2>2. act' \in [Threads -> Act] /\ ActsHaveIds'
    BY <1>3, <2>1, GotoType, ReturnType DEF DeleteCheck
  <2>3. rows' \in [Ids -> Row \cup {NoRow}]
    BY <1>3, <2>1, SetStatusType DEF DeleteCheck, TypeInv, TypeOK, ActsHaveIds
  <2>4. runs' \in [Ids -> {"none", "live", "stop"}]
    BY <1>3 DEF DeleteCheck, TypeInv, TypeOK
  <2>5. overtaken' \subseteq Ids /\ raced' \in BOOLEAN
    BY <1>3, <2>2, NoteType DEF DeleteCheck
  <2> QED
    BY <1>3, <2>2, <2>3, <2>4, <2>5 DEF DeleteCheck, TypeInv, TypeOK
<1> QED
  BY <1>1, <1>2, <1>3 DEF Request

LEMMA TypeRestart == ASSUME TypeInv, Restart PROVE TypeInv'
<1> PICK volumes \in {"kept", "destroyed"},
         looksMissing \in SUBSET {id \in MenuOf(rows) : ~derived[id].whole} :
      LET gone == {id \in Ids : rows[id].status = "deleting"}
          kept == [id \in Ids |-> IF volumes = "destroyed" \/ id \in gone THEN NoFiles
                                  ELSE derived[id]]
          table == [id \in Ids |-> ReconciledRow(id, kept, looksMissing)]
      IN /\ rows' = table
         /\ derived' = kept
         /\ iso' = [f \in Names |-> IF \E id \in gone : rows[id].file = f
                                    THEN NoUpload ELSE iso[f]]
         /\ menu' = MenuOf(table)
  BY DEF Restart
<1> DEFINE kept == derived'
<1>1. derived' \in [Ids -> [from : Uploads \cup {NoUpload}, whole : BOOLEAN]]
  <2>1. NoFiles \in [from : Uploads \cup {NoUpload}, whole : BOOLEAN]
    BY DEF NoFiles
  <2> QED
    BY <2>1 DEF TypeInv, TypeOK
<1>2. rows' \in [Ids -> Row \cup {NoRow}]
  <2> SUFFICES ASSUME NEW id \in Ids
               PROVE  ReconciledRow(id, kept, looksMissing) \in Row \cup {NoRow}
    OBVIOUS
  <2>1. rows[id] \in Row \cup {NoRow} /\ (rows[id] = NoRow => rows[id].status = "absent")
    BY DEF TypeInv, TypeOK, NoRow
  <2>2. rows[id].status \in IN_FLIGHT \cup {"ready"}
          => [rows[id] EXCEPT !.status = "needs_reprocess"] \in Row
    BY <2>1 DEF Row, Status, IN_FLIGHT
  <2>3. ReconciledRow(id, kept, looksMissing)
          \in {NoRow, [rows[id] EXCEPT !.status = "needs_reprocess"], rows[id]}
    BY DEF ReconciledRow
  <2>4. ReconciledRow(id, kept, looksMissing) = [rows[id] EXCEPT !.status = "needs_reprocess"]
          => \/ rows[id].status \in IN_FLIGHT \cup {"ready"}
             \/ ReconciledRow(id, kept, looksMissing) \in {NoRow, rows[id]}
    BY DEF ReconciledRow
  <2> QED
    BY <2>1, <2>2, <2>3, <2>4
<1>3. iso' \in [Names -> Uploads \cup {NoUpload}] /\ menu' \subseteq Ids
  BY DEF TypeInv, TypeOK, MenuOf
<1>4. runs' \in [Ids -> {"none", "live", "stop"}] /\ queued' \in [Ids -> Nat]
  BY DEF Restart
<1>5. act' \in [Threads -> Act] /\ ActsHaveIds'
  <2>1. Idle \in Act /\ Idle.pc = "idle"
    BY DEF Idle, Act, Pcs, NoName
  <2> QED
    BY <2>1 DEF Restart, ActsHaveIds
<1>6. streams' \subseteq [upload : Uploads, file : Names] /\ leaked' \subseteq Names
  BY DEF Restart, TypeInv, TypeOK
<1>7. UNCHANGED << born, overtaken >> /\ raced' \in BOOLEAN
  BY DEF Restart, TypeInv, TypeOK
<1> QED
  BY <1>1, <1>2, <1>3, <1>4, <1>5, <1>6, <1>7 DEF TypeInv, TypeOK

LEMMA TypeNext == TypeInv /\ [Next]_vars => TypeInv'
<1> SUFFICES ASSUME TypeInv, [Next]_vars PROVE TypeInv'
  OBVIOUS
<1>1. CASE \/ \E f \in Names : UploadOpen(f)
           \/ \E s \in streams : UploadCommit(s)
           \/ AddNetboot
  BY <1>1, TypeUploads
<1>2. CASE \E id \in Ids : Drop(id) \/ \E t \in Threads : Begin(t, id)
  BY <1>2, TypeBegin
<1>3. ASSUME NEW t \in Threads, Build(t) PROVE TypeInv'
  BY <1>3, TypeLoad, TypeClaim, TypeMove, TypeCommit, TypeExcept, TypeEnd DEF Build
<1>4. CASE \E t \in Threads : Remove(t) \/ Request(t)
  BY <1>4, TypeRemove, TypeRequest
<1>5. CASE Restart
  BY <1>5, TypeRestart
<1>6. CASE UNCHANGED vars
  BY <1>6 DEF vars, TypeInv, TypeOK, ActsHaveIds
<1> QED
  BY <1>1, <1>2, <1>3, <1>4, <1>5, <1>6 DEF Next

\* The variables keep their types in every execution, restarts included.
THEOREM TypeCorrect == Spec => []TypeOK
<1>1. Spec => []TypeInv
  BY TypeInit, TypeNext, PTL DEF Spec
<1>2. TypeInv => TypeOK
  BY DEF TypeInv
<1> QED
  BY <1>1, <1>2, PTL

--------------------------------------------------------------------------------
(* What the steps do to the builds under way.                                  *)

\* These threads go on building, or not building, what they did.
SameBuilds(S) == \A u \in S : /\ InRun(u)' <=> InRun(u)
                              /\ InRun(u) => act'[u].id = act[u].id

Quiet         == runs' = runs /\ SameBuilds(Threads)
Started(t, id) == /\ runs[id] = "none" /\ ~InRun(t)
                  /\ runs' = [runs EXCEPT ![id] = "live"]
                  /\ InRun(t)' /\ act'[t].id = id
                  /\ SameBuilds(Threads \ {t})
Told(id)      == /\ runs[id] = "live"
                 /\ runs' = [runs EXCEPT ![id] = "stop"]
                 /\ SameBuilds(Threads)
Ended(t)      == /\ InRun(t) /\ ~InRun(t)'
                 /\ runs' = [runs EXCEPT ![act[t].id] = "none"]
                 /\ SameBuilds(Threads \ {t})
Restarted     == /\ runs' = [id \in Ids |-> "none"]
                 /\ \A t \in Threads : ~InRun(t)'

BuildStep == \/ Quiet
             \/ \E t \in Threads, id \in Ids : Started(t, id)
             \/ \E id \in Ids : Told(id)
             \/ \E t \in Threads : Ended(t)
             \/ Restarted

\* A thread that moves from one step of a build to another still builds, and
\* one that moves outside a build still does not.
LEMMA GotoQuiet ==
    ASSUME TypeInv, NEW t \in Threads, NEW pc, Goto(t, pc),
           pc \in RunPcs <=> InRun(t)
    PROVE  SameBuilds(Threads)
BY DEF TypeInv, TypeOK, Act, Goto, SameBuilds, InRun

LEMMA ReturnQuiet ==
    ASSUME TypeInv, NEW t \in Threads, Return(t), ~InRun(t)
    PROVE  SameBuilds(Threads)
BY DEF TypeInv, TypeOK, Return, Idle, SameBuilds, InRun, RunPcs

LEMMA BuildSteps ==
    ASSUME TypeInv, NEW t \in Threads, Build(t)
    PROVE  BuildStep
<1>1. CASE Load(t)
  <2>1. act' = [act EXCEPT ![t] = act'[t]] /\ act'[t].id = act[t].id
          /\ act'[t].pc \in {"claim", "end"} /\ act[t].pc = "load"
    BY <1>1 DEF Load, TypeInv, TypeOK, Act
  <2> QED
    BY <1>1, <2>1 DEF Load, BuildStep, Quiet, SameBuilds, InRun, RunPcs, TypeInv, TypeOK
<1>2. CASE \/ Claim(t) \/ Cancel(t) \/ Read(t) \/ Extract(t) \/ Unpack(t)
           \/ CommitReady(t) \/ Fail(t) \/ Raise(t) \/ Except(t) \/ RenderRun(t)
  <2>1. InRun(t) /\ \E pc \in RunPcs : Goto(t, pc)
    BY <1>2 DEF Claim, Cancel, Read, Extract, Unpack, CommitReady, Fail, Raise, Except,
                RenderRun, CommitStatus, CheckStop, InRun, RunPcs
  <2>2. runs' = runs
    BY <1>2 DEF Claim, Cancel, Read, Extract, Unpack, CommitReady, Fail, Raise, Except,
                RenderRun, CommitStatus
  <2> QED
    BY <2>1, <2>2, GotoQuiet DEF BuildStep, Quiet
<1>3. CASE End(t)
  <2>1. Goto(t, "finish") \/ Return(t)
    BY <1>3 DEF End
  <2>2. SameBuilds(Threads \ {t}) /\ ~InRun(t)'
    BY <2>1 DEF Goto, Return, Idle, SameBuilds, InRun, RunPcs, TypeInv, TypeOK, Act
  <2> QED
    BY <1>3, <2>2 DEF End, BuildStep, Ended, InRun, RunPcs
<1>4. CASE Finish(t) \/ Sweep(t)
  <2>1. ~InRun(t) /\ runs' = runs
    BY <1>4 DEF Finish, Sweep, InRun, RunPcs
  <2>2. (\E pc \in {"sweep", "rmfiles"} : Goto(t, pc)) \/ Return(t)
    BY <1>4 DEF Finish, Sweep
  <2> QED
    BY <2>1, <2>2, GotoQuiet, ReturnQuiet DEF BuildStep, Quiet, RunPcs
<1> QED
  BY <1>1, <1>2, <1>3, <1>4 DEF Build

LEMMA RequestSteps ==
    ASSUME TypeInv, NEW t \in Threads, Remove(t) \/ Request(t)
    PROVE  BuildStep
<1>1. CASE Remove(t)
  <2>1. ~InRun(t) /\ runs' = runs
    BY <1>1 DEF Remove, RemoveFiles, RemoveRow, RemoveMenu, InRun, RunPcs
  <2>2. (\E pc \in RemovePcs : Goto(t, pc)) \/ Return(t)
    BY <1>1 DEF Remove, RemoveFiles, RemoveRow, RemoveMenu, RemovePcs
  <2> QED
    BY <2>1, <2>2, GotoQuiet, ReturnQuiet DEF BuildStep, Quiet, RunPcs, RemovePcs
<1>2. CASE \E id \in Ids : RetryLoad(t, id) \/ DeleteLoad(t, id)
  <2>1. act[t].pc = "idle" /\ act'[t].pc \in {"retry", "delete"}
          /\ act' = [act EXCEPT ![t] = act'[t]] /\ runs' = runs
    BY <1>2 DEF RetryLoad, DeleteLoad, TypeInv, TypeOK
  <2> QED
    BY <2>1 DEF BuildStep, Quiet, SameBuilds, InRun, RunPcs, TypeInv, TypeOK
<1>3. CASE RetryCommit(t)
  BY <1>3, ReturnQuiet DEF RetryCommit, BuildStep, Quiet, InRun, RunPcs
<1>4. CASE DeleteCheck(t)
  <2>1. ~InRun(t) /\ act[t].id \in Ids
    BY <1>4 DEF DeleteCheck, InRun, RunPcs, TypeInv, ActsHaveIds
  <2>2. Goto(t, "rmfiles") \/ Return(t)
    BY <1>4 DEF DeleteCheck
  <2>3. SameBuilds(Threads)
    BY <2>1, <2>2, GotoQuiet, ReturnQuiet DEF RunPcs
  <2> QED
    BY <1>4, <2>1, <2>3 DEF DeleteCheck, BuildStep, Quiet, Told
<1> QED
  BY <1>1, <1>2, <1>3, <1>4 DEF Request

LEMMA AllSteps == TypeInv /\ [Next]_vars => BuildStep
<1> SUFFICES ASSUME TypeInv, [Next]_vars PROVE BuildStep
  OBVIOUS
<1>1. CASE \/ \E f \in Names : UploadOpen(f)
           \/ \E s \in streams : UploadCommit(s)
           \/ AddNetboot
           \/ \E id \in Ids : Drop(id)
           \/ UNCHANGED vars
  <2>1. runs' = runs /\ act' = act
    BY <1>1 DEF UploadOpen, UploadCommit, AddNetboot, Drop, vars
  <2> QED
    BY <2>1 DEF BuildStep, Quiet, SameBuilds, InRun
<1>2. ASSUME NEW id \in Ids, NEW t \in Threads, Begin(t, id) PROVE BuildStep
  <2>1. act[t].pc = "idle" /\ act'[t].pc = "load" /\ act'[t].id = id
          /\ act' = [act EXCEPT ![t] = act'[t]]
    BY <1>2 DEF Begin, Idle, TypeInv, TypeOK
  <2> QED
    BY <1>2, <2>1 DEF Begin, BuildStep, Started, SameBuilds, InRun, RunPcs, TypeInv, TypeOK
<1>3. ASSUME NEW t \in Threads, Build(t) \/ Remove(t) \/ Request(t) PROVE BuildStep
  BY <1>3, BuildSteps, RequestSteps
<1>4. CASE Restart
  <2>1. runs' = [id \in Ids |-> "none"] /\ act' = [t \in Threads |-> Idle]
    BY <1>4 DEF Restart
  <2> QED
    BY <2>1 DEF BuildStep, Restarted, InRun, Idle, RunPcs
<1> QED
  BY <1>1, <1>2, <1>3, <1>4 DEF Next

--------------------------------------------------------------------------------
LEMMA OneRunStep ==
    ASSUME TypeInv, TypeInv', OneRunPerImage, BuildStep
    PROVE  OneRunPerImage'
<1> USE DEF OneRunPerImage, SameBuilds
<1>0. /\ runs \in [Ids -> {"none", "live", "stop"}]
      /\ \A t \in Threads : InRun(t) => act[t].id \in Ids
      /\ \A t \in Threads : InRun(t)' => act'[t].id \in Ids
  BY DEF TypeInv, TypeOK, ActsHaveIds, InRun, RunPcs
<1>1. CASE Quiet
  BY <1>1 DEF Quiet
<1>2. ASSUME NEW t \in Threads, NEW id \in Ids, Started(t, id) PROVE OneRunPerImage'
  BY <1>0, <1>2 DEF Started
<1>3. ASSUME NEW id \in Ids, Told(id) PROVE OneRunPerImage'
  BY <1>0, <1>3 DEF Told
<1>4. ASSUME NEW t \in Threads, Ended(t) PROVE OneRunPerImage'
  BY <1>0, <1>4 DEF Ended
<1>5. CASE Restarted
  BY <1>5 DEF Restarted
<1> QED
  BY <1>1, <1>2, <1>3, <1>4, <1>5 DEF BuildStep

LEMMA OneRunInit == Init => OneRunPerImage
BY DEF Init, OneRunPerImage, InRun, Idle, RunPcs

\* However Reprocess, Delete, queued tasks and restarts interleave, the folders
\* of an image are never built by two threads, and a build is a registered one.
THEOREM OneRunCorrect == Spec => []OneRunPerImage
<1>1. TypeInv /\ OneRunPerImage /\ [Next]_vars => (TypeInv /\ OneRunPerImage)'
  BY TypeNext, AllSteps, OneRunStep
<1> QED
  BY <1>1, TypeInit, OneRunInit, PTL DEF Spec

\* The builders of an image, before and after each kind of step.
LEMMA LockStep ==
    ASSUME TypeInv, TypeInv', OneRunPerImage, OneRunPerImage', BuildStep
    PROVE  [Lock!Next]_(Lock!vars)
<1> DEFINE owner == [id \in Ids |-> Builders(id)]
<1>0. /\ runs \in [Ids -> {"none", "live", "stop"}]
      /\ \A t \in Threads : InRun(t) => act[t].id \in Ids
  BY DEF TypeInv, TypeOK, ActsHaveIds, InRun, RunPcs
<1>1. SameBuilds(Threads) => owner' = owner
  BY DEF SameBuilds, Builders
<1>2. CASE Quiet
  BY <1>1, <1>2 DEF Quiet, Lock!vars
<1>3. ASSUME NEW t \in Threads, NEW id \in Ids, Started(t, id) PROVE Lock!Next
  <2>1. Builders(id)' = {t}
    BY <1>3 DEF Started, SameBuilds, Builders, OneRunPerImage
  <2>2. \A i \in Ids \ {id} : Builders(i)' = Builders(i)
    BY <1>3 DEF Started, SameBuilds, Builders
  <2>3. owner' = [owner EXCEPT ![id] = {t}]
    BY <2>1, <2>2
  <2>4. Lock!Acquire(t, id)
    BY <1>3, <2>3 DEF Started, Lock!Acquire
  <2> QED
    BY <2>4 DEF Lock!Next
<1>4. ASSUME NEW id \in Ids, Told(id) PROVE Lock!Next
  <2>1. Lock!RequestStop(id)
    BY <1>1, <1>4 DEF Told, Lock!RequestStop
  <2> QED
    BY <2>1 DEF Lock!Next
<1>5. ASSUME NEW t \in Threads, Ended(t) PROVE Lock!Next
  <2> PICK id \in Ids : id = act[t].id
    BY <1>0, <1>5 DEF Ended
  <2>1. Builders(id) = {t}
    BY <1>5 DEF Ended, Builders, OneRunPerImage
  <2>2. Builders(id)' = {}
    BY <1>5, <2>1 DEF Ended, SameBuilds, Builders, OneRunPerImage
  <2>3. \A i \in Ids \ {id} : Builders(i)' = Builders(i)
    BY <1>5 DEF Ended, SameBuilds, Builders
  <2>4. owner' = [owner EXCEPT ![id] = {}]
    BY <2>2, <2>3
  <2>5. Lock!Release(t, id)
    BY <1>5, <2>1, <2>4 DEF Ended, Lock!Release
  <2> QED
    BY <2>5 DEF Lock!Next
<1>6. CASE Restarted
  <2>1. owner' = [id \in Ids |-> {}]
    BY <1>6 DEF Restarted, Builders
  <2>2. Lock!Crash
    BY <1>6, <2>1 DEF Restarted, Lock!Crash
  <2> QED
    BY <2>2 DEF Lock!Next
<1> QED
  BY <1>2, <1>3, <1>4, <1>5, <1>6 DEF BuildStep

LEMMA LockInit == Init => Lock!Init
BY DEF Init, Lock!Init, Builders, InRun, Idle, RunPcs

\* process_image, with Delete's request to stop and the loss of every build in a
\* restart, implements the lock of BuildLock: one owner, taken and released once.
THEOREM LockImplemented == Spec => LockSpec
<1>1. Spec => [](TypeInv /\ OneRunPerImage)
  <2>1. TypeInv /\ OneRunPerImage /\ [Next]_vars => (TypeInv /\ OneRunPerImage)'
    BY TypeNext, AllSteps, OneRunStep
  <2> QED
    BY <2>1, TypeInit, OneRunInit, PTL DEF Spec
<1>2. /\ TypeInv /\ OneRunPerImage
      /\ (TypeInv /\ OneRunPerImage)'
      /\ [Next]_vars
      => [Lock!Next]_(Lock!vars)
  BY AllSteps, LockStep
<1> QED
  BY <1>1, <1>2, LockInit, PTL DEF Spec, LockSpec, Lock!Spec

--------------------------------------------------------------------------------
(* What the steps do to the menu.                                               *)

\* Who is missing from the menu is about to be drawn into it, and who is gone and
\* still in it is about to be drawn out of it.
MenuInv ==
    /\ \A id \in menu : Exists(id) \/ \E t \in Threads : act[t].pc = "rmmenu"
    /\ \A id \in Ids : rows[id].status = "ready" =>
           id \in menu \/ \E t \in Threads : act[t].pc = "render" /\ act[t].id = id

\* All but t go on with what they do; t goes on with its image; t is done.
Others(t)      == \A u \in Threads \ {t} : act'[u] = act[u]
Passes(t, pcs) == /\ Others(t)
                  /\ act'[t].pc \in pcs
                  /\ act'[t].id = act[t].id
                  /\ act'[t].upload = act[t].upload
                  /\ act'[t].file = act[t].file
Rests(t)       == Others(t) /\ act'[t] = Idle

\* The same image is in the row, whatever its status.
SameRow(id) == /\ rows'[id].upload = rows[id].upload
               /\ rows'[id].file = rows[id].file
               /\ rows'[id].status = "absent" <=> rows[id].status = "absent"
SameRows    == \A id \in Ids : SameRow(id)

LEMMA GotoPasses ==
    ASSUME TypeInv, NEW t \in Threads, NEW pc, Goto(t, pc)
    PROVE  Passes(t, {pc})
<1>1. act[t] \in Act /\ act \in [Threads -> Act]
  BY DEF TypeInv, TypeOK
<1>2. act'[t] = [act[t] EXCEPT !.pc = pc] /\ Others(t)
  BY <1>1 DEF Goto, Others
<1> QED
  BY <1>1, <1>2 DEF Passes, Act

LEMMA ReturnRests ==
    ASSUME TypeInv, NEW t \in Threads, Return(t)
    PROVE  Rests(t)
BY DEF TypeInv, TypeOK, Return, Rests, Others

\* What kind of thing is in a row: an image, or nothing at all.
LEMMA RowKinds ==
    ASSUME TypeInv, NEW id \in Ids
    PROVE  /\ Exists(id) => rows[id] \in Row
           /\ ~Exists(id) => rows[id] = NoRow
<1>1. rows[id] \in Row \cup {NoRow}
  BY DEF TypeInv, TypeOK
<1>2. \A r \in Row : r.status # "absent"
  BY DEF Row, Status, BUSY, IN_FLIGHT
<1> QED
  BY <1>1, <1>2 DEF Exists, NoRow

LEMMA StatusSet ==
    ASSUME TypeInv, NEW id \in Ids, NEW st \in Status, Exists(id), SetStatus(id, st)
    PROVE  /\ SameRows /\ rows'[id].status = st
           /\ \A i \in Ids \ {id} : rows'[i] = rows[i]
<1>1. rows[id] \in Row /\ rows \in [Ids -> Row \cup {NoRow}]
  BY RowKinds DEF TypeInv, TypeOK
<1>2. rows'[id] = [rows[id] EXCEPT !.status = st] /\ \A i \in Ids \ {id} : rows'[i] = rows[i]
  BY <1>1 DEF SetStatus
<1>3. /\ rows'[id].status = st /\ rows'[id].upload = rows[id].upload
      /\ rows'[id].file = rows[id].file
  BY <1>1, <1>2 DEF Row
<1>4. st # "absent"
  BY DEF Status, BUSY, IN_FLIGHT
<1> QED
  BY <1>2, <1>3, <1>4 DEF SameRows, SameRow, Exists

LEMMA CommitSet ==
    ASSUME TypeInv, NEW t \in Threads, NEW st \in Status, NEW next, act[t].pc # "idle",
           CommitStatus(t, st, next)
    PROVE  /\ SameRows
           /\ \A i \in Ids \ {act[t].id} : rows'[i] = rows[i]
           /\ Passes(t, {next, "except"})
           /\ \/ rows' = rows /\ Passes(t, {"except"})
              \/ rows'[act[t].id].status = st /\ Passes(t, {next})
<1>1. act[t].id \in Ids
  BY DEF TypeInv, ActsHaveIds
<1>2. Passes(t, {next}) => Passes(t, {next, "except"})
  BY DEF Passes
<1>3. Passes(t, {"except"}) => Passes(t, {next, "except"})
  BY DEF Passes
<1>4. CASE Exists(act[t].id)
  BY <1>1, <1>2, <1>4, GotoPasses, StatusSet DEF CommitStatus
<1>5. CASE ~Exists(act[t].id)
  BY <1>1, <1>3, <1>5, GotoPasses DEF CommitStatus, SameRows, SameRow, Exists
<1> QED
  BY <1>4, <1>5

LEMMA MenuAlike ==
    ASSUME MenuInv, menu' = menu,
           \A id \in Ids : Exists(id) => Exists(id)',
           \A t \in Threads : act[t].pc = "rmmenu" => act'[t].pc = "rmmenu",
           \A t \in Threads : act[t].pc = "render"
               => act'[t].pc = "render" /\ act'[t].id = act[t].id,
           \A id \in Ids : rows'[id].status = "ready" =>
               \/ rows[id].status = "ready"
               \/ \E t \in Threads : act'[t].pc = "render" /\ act'[t].id = id,
           menu \subseteq Ids
    PROVE  MenuInv'
BY DEF MenuInv

\* A rendered menu is the menu.
LEMMA MenuDrawn ==
    ASSUME menu' = MenuOf(rows')
    PROVE  MenuInv'
BY DEF MenuInv, MenuOf, Exists

LEMMA MenuMoves ==
    ASSUME TypeInv, MenuInv, NEW t \in Threads, menu' = menu, SameRows, Others(t),
           act[t].pc \notin {"render", "rmmenu"},
           \A id \in Ids : rows'[id].status = "ready" =>
               \/ rows[id].status = "ready"
               \/ act'[t].pc = "render" /\ act'[t].id = id
    PROVE  MenuInv'
<1>1. \A id \in Ids : Exists(id) => Exists(id)'
  BY DEF SameRows, SameRow, Exists
<1>2. \A u \in Threads : act[u].pc \in {"rmmenu", "render"} => act'[u] = act[u]
  BY DEF Others
<1>3. menu \subseteq Ids
  BY DEF TypeInv, TypeOK
<1> QED
  BY <1>1, <1>2, <1>3, MenuAlike

LEMMA MenuAdds ==
    ASSUME TypeInv, MenuInv,
           \/ \E f \in Names : UploadOpen(f)
           \/ \E s \in streams : UploadCommit(s)
           \/ AddNetboot
           \/ \E id \in Ids : Drop(id)
    PROVE  MenuInv'
<1>1. act' = act /\ menu' = menu /\ menu \subseteq Ids
  BY DEF UploadOpen, UploadCommit, AddNetboot, Drop, TypeInv, TypeOK
<1>2. \/ rows' = rows
      \/ \E id \in Ids, r \in [upload : Uploads, file : Names, status : {"pending"}] :
             ~Exists(id) /\ rows' = [rows EXCEPT ![id] = r]
  <2>1. CASE \E s \in streams : UploadCommit(s)
    <3> PICK s \in streams : UploadCommit(s)
      BY <2>1
    <3>1. PICK id \in Ids : /\ IsNewId(id)
                            /\ rows' = [rows EXCEPT ![id] = [upload |-> s.upload, file |-> s.file,
                                                             status |-> "pending"]]
      BY DEF UploadCommit
    <3>2. ~Exists(id)
      BY <3>1 DEF IsNewId, Ids
    <3>3. [upload |-> s.upload, file |-> s.file, status |-> "pending"]
            \in [upload : Uploads, file : Names, status : {"pending"}]
      BY DEF TypeInv, TypeOK
    <3> QED
      BY <3>1, <3>2, <3>3
  <2>2. CASE AddNetboot
    <3>1. PICK id \in Ids : /\ IsNewId(id) /\ born < MaxUploads
                            /\ rows' = [rows EXCEPT ![id] = [upload |-> born + 1, file |-> born + 1,
                                                             status |-> "pending"]]
      BY <2>2 DEF AddNetboot
    <3>2. ~Exists(id)
      BY <3>1 DEF IsNewId, Ids
    <3>3. born + 1 \in Uploads /\ born + 1 \in Names
      BY <3>1, UploadsAssumption DEF TypeInv, TypeOK, Uploads, Names
    <3>4. [upload |-> born + 1, file |-> born + 1, status |-> "pending"]
            \in [upload : Uploads, file : Names, status : {"pending"}]
      BY <3>3
    <3> QED
      BY <3>1, <3>2, <3>4
  <2>3. CASE (\E f \in Names : UploadOpen(f)) \/ \E id \in Ids : Drop(id)
    BY <2>3 DEF UploadOpen, Drop
  <2> QED
    BY <2>1, <2>2, <2>3
<1>3. /\ \A id \in Ids : Exists(id) => Exists(id)'
      /\ \A id \in Ids : rows'[id].status = "ready" => rows[id].status = "ready"
  <2>1. rows \in [Ids -> Row \cup {NoRow}]
    BY DEF TypeInv, TypeOK
  <2> QED
    BY <1>2, <2>1 DEF Exists
<1> QED
  BY <1>1, <1>3, MenuAlike

LEMMA MenuRun ==
    ASSUME TypeInv, MenuInv, NEW t \in Threads, Build(t)
    PROVE  MenuInv'
<1>1. CASE RenderRun(t)
  BY <1>1, MenuDrawn DEF RenderRun, Render
<1>2. CASE \/ Load(t) \/ Cancel(t) \/ Read(t) \/ Extract(t) \/ Unpack(t) \/ Raise(t)
           \/ End(t) \/ Finish(t) \/ Sweep(t)
  <2>1. rows' = rows /\ menu' = menu /\ act[t].pc \notin {"render", "rmmenu"}
    BY <1>2 DEF Load, Cancel, Read, Extract, Unpack, Raise, End, Finish, Sweep
  <2>2. Others(t)
    <3>1. CASE Load(t)
      BY <3>1 DEF Load, Others, TypeInv, TypeOK
    <3>2. CASE ~Load(t)
      <4>1. (\E pc \in Pcs : Goto(t, pc)) \/ Return(t)
        BY <1>2, <3>2 DEF Cancel, Read, Extract, Unpack, Raise, End, Finish, Sweep, CheckStop,
                          Pcs, RunPcs, RemovePcs
      <4> QED
        BY <4>1, GotoPasses, ReturnRests DEF Passes, Rests
    <3> QED
      BY <3>1, <3>2
  <2> QED
    BY <2>1, <2>2, MenuMoves DEF SameRows, SameRow, Exists
<1>3. CASE Claim(t)
  <2>1. act[t].id \in Ids /\ "processing" \in Status /\ act[t].pc = "claim" /\ menu' = menu
    BY <1>3 DEF Claim, TypeInv, ActsHaveIds, Status, BUSY, IN_FLIGHT
  <2>2. Others(t)
    BY <1>3, GotoPasses DEF Claim, CheckStop, Passes
  <2>3. SameRows /\ \A id \in Ids : rows'[id].status = "ready" => rows[id].status = "ready"
    BY <1>3, <2>1, StatusSet DEF Claim, SameRows, SameRow, Exists
  <2> QED
    BY <2>1, <2>2, <2>3, MenuMoves
<1>4. CASE CommitReady(t) \/ Fail(t)
  <2>1. PICK st \in {"ready", "error"}, next \in {"end", "render"} :
             CommitStatus(t, st, next) /\ (st = "ready" => next = "render")
    BY <1>4 DEF CommitReady, Fail
  <2>2. st \in Status /\ act[t].pc \notin {"idle", "render", "rmmenu"} /\ menu' = menu
    BY <1>4, <2>1 DEF CommitReady, Fail, CommitStatus, Status
  <2>3. act[t].id \in Ids
    BY <2>2 DEF TypeInv, ActsHaveIds
  <2>4. /\ SameRows /\ Others(t)
        /\ \A i \in Ids \ {act[t].id} : rows'[i] = rows[i]
        /\ \/ rows' = rows
           \/ rows'[act[t].id].status = st /\ Passes(t, {next})
    BY <2>1, <2>2, CommitSet DEF Passes
  <2>5. \A id \in Ids : rows'[id].status = "ready" =>
             \/ rows[id].status = "ready"
             \/ act'[t].pc = "render" /\ act'[t].id = id
    BY <2>1, <2>4 DEF Passes
  <2> QED
    BY <2>2, <2>4, <2>5, MenuMoves
<1>5. CASE Except(t)
  <2>1. act[t].id \in Ids /\ "error" \in Status /\ act[t].pc = "except" /\ menu' = menu
    BY <1>5 DEF Except, TypeInv, ActsHaveIds, Status
  <2>2. Others(t)
    BY <1>5, GotoPasses DEF Except, Passes
  <2>3. SameRows /\ \A id \in Ids : rows'[id].status = "ready" => rows[id].status = "ready"
    BY <1>5, <2>1, StatusSet DEF Except, SameRows, SameRow, Exists
  <2> QED
    BY <2>1, <2>2, <2>3, MenuMoves
<1> QED
  BY <1>1, <1>2, <1>3, <1>4, <1>5 DEF Build

LEMMA MenuRequest ==
    ASSUME TypeInv, MenuInv, NEW t \in Threads,
           Request(t) \/ \E id \in Ids : Begin(t, id)
    PROVE  MenuInv'
<1>1. CASE \/ \E id \in Ids : RetryLoad(t, id) \/ DeleteLoad(t, id)
           \/ \E id \in Ids : Begin(t, id)
  <2>1. rows' = rows /\ menu' = menu /\ act[t].pc = "idle"
    BY <1>1 DEF RetryLoad, DeleteLoad, Begin
  <2>2. Others(t)
    BY <1>1 DEF RetryLoad, DeleteLoad, Begin, Others, TypeInv, TypeOK
  <2> QED
    BY <2>1, <2>2, MenuMoves DEF SameRows, SameRow, Exists
<1>2. CASE RetryCommit(t) \/ DeleteCheck(t)
  <2>1. act[t].id \in Ids /\ act[t].pc \notin {"idle", "render", "rmmenu"} /\ menu' = menu
    BY <1>2 DEF RetryCommit, DeleteCheck, TypeInv, ActsHaveIds
  <2>2. Others(t)
    BY <1>2, GotoPasses, ReturnRests DEF RetryCommit, DeleteCheck, Passes, Rests
  <2>3. \/ rows' = rows
        \/ \E st \in {"pending", "deleting"} : Exists(act[t].id) /\ SetStatus(act[t].id, st)
    BY <1>2 DEF RetryCommit, DeleteCheck
  <2>4. {"pending", "deleting"} \subseteq Status
    BY DEF Status, BUSY, IN_FLIGHT
  <2>5. SameRows /\ \A id \in Ids : rows'[id].status = "ready" => rows[id].status = "ready"
    <3>1. CASE rows' = rows
      BY <3>1 DEF SameRows, SameRow, Exists
    <3>2. CASE rows' # rows
      BY <2>1, <2>3, <2>4, <3>2, StatusSet
    <3> QED
      BY <3>1, <3>2
  <2> QED
    BY <2>1, <2>2, <2>5, MenuMoves
<1> QED
  BY <1>1, <1>2 DEF Request

LEMMA MenuRemove ==
    ASSUME TypeInv, MenuInv, NEW t \in Threads, Remove(t)
    PROVE  MenuInv'
<1>1. CASE RemoveMenu(t)
  BY <1>1, MenuDrawn DEF RemoveMenu, Render
<1>2. CASE RemoveFiles(t)
  <2>1. Others(t)
    BY <1>2, GotoPasses DEF RemoveFiles, Passes
  <2> QED
    BY <1>2, <2>1, MenuMoves DEF RemoveFiles, SameRows, SameRow, Exists
<1>3. CASE RemoveRow(t)
  <2>1. Passes(t, {"rmmenu"}) /\ act[t].pc = "rmrow" /\ act[t].id \in Ids /\ menu' = menu
    BY <1>3, GotoPasses DEF RemoveRow, TypeInv, ActsHaveIds
  <2>2. \A id \in Ids : rows'[id].status = "ready" => rows[id].status = "ready"
    BY <1>3, <2>1 DEF RemoveRow, NoRow, TypeInv, TypeOK
  <2>3. \A u \in Threads : act[u].pc \in {"rmmenu", "render"} => act'[u] = act[u]
    BY <2>1 DEF Passes, Others
  <2>4. act'[t].pc = "rmmenu"
    BY <2>1 DEF Passes
  <2> QED
    BY <2>1, <2>2, <2>3, <2>4 DEF MenuInv
<1> QED
  BY <1>1, <1>2, <1>3 DEF Remove

LEMMA MenuStep == TypeInv /\ MenuInv /\ [Next]_vars => MenuInv'
<1> SUFFICES ASSUME TypeInv, MenuInv, [Next]_vars PROVE MenuInv'
  OBVIOUS
<1>1. CASE \/ \E f \in Names : UploadOpen(f)
           \/ \E s \in streams : UploadCommit(s)
           \/ AddNetboot
           \/ \E id \in Ids : Drop(id)
  BY <1>1, MenuAdds
<1>2. CASE \E id \in Ids : \E t \in Threads : Begin(t, id)
  BY <1>2, MenuRequest
<1>3. CASE \E t \in Threads : Build(t) \/ Remove(t) \/ Request(t)
  BY <1>3, MenuRun, MenuRemove, MenuRequest
<1>4. CASE Restart
  BY <1>4, MenuDrawn DEF Restart
<1>5. CASE UNCHANGED vars
  BY <1>5 DEF vars, MenuInv, Exists
<1> QED
  BY <1>1, <1>2, <1>3, <1>4, <1>5 DEF Next

\* boot.ipxe offers every image that is ready and nobody works on, and none that is
\* gone, however builds, removals and renders overlap.
THEOREM MenuFollowsImages == Spec => []MenuIsCurrent
<1>1. Init => MenuInv
  BY DEF Init, MenuInv, NoRow
<1>2. TypeInv /\ MenuInv /\ [Next]_vars => (TypeInv /\ MenuInv)'
  BY TypeNext, MenuStep
<1>3. MenuInv => MenuIsCurrent
  BY DEF MenuInv, MenuIsCurrent, NobodyActs
<1> QED
  BY <1>1, <1>2, <1>3, TypeInit, PTL DEF Spec

--------------------------------------------------------------------------------
(* The kinds of step: what they do to the images' rows, the threads and the     *)
(* history.  What they do on disk comes later.                                  *)

RunPart(t) == act[t].pc \in RunPcs \ {"load", "end"}
SameHistory == overtaken' = overtaken /\ raced' = raced

Still     == act' = act /\ SameRows /\ runs' = runs /\ SameHistory
Added(id) == /\ act' = act /\ runs' = runs
             /\ ~Exists(id) /\ Exists(id)' /\ NoteReuse(id)
             /\ \A i \in Ids \ {id} : SameRow(i)
Begun(t, id) == /\ SameRows /\ NoteOvertaking /\ act[t].pc = "idle" /\ runs[id] = "none"
                /\ runs' = [runs EXCEPT ![id] = "live"]
                /\ Others(t) /\ act'[t] = [Idle EXCEPT !.pc = "load", !.id = id]
Asked(t, id) == /\ SameRows /\ NoteOvertaking /\ act[t].pc = "idle" /\ runs' = runs
                /\ Exists(id)
                /\ Others(t)
                /\ \E pc \in {"retry", "delete"} :
                      act'[t] = [pc |-> pc, id |-> id, upload |-> rows[id].upload,
                                 file |-> rows[id].file]
Loaded(t) == /\ SameRows /\ SameHistory /\ runs' = runs /\ Others(t)
             /\ act[t].pc = "load" /\ Exists(act[t].id)
             /\ act'[t] = [act[t] EXCEPT !.pc = "claim", !.upload = rows[act[t].id].upload,
                                         !.file = rows[act[t].id].file]
Went(t)   == /\ SameRows /\ SameHistory /\ runs' = runs
             /\ \/ RunPart(t) /\ Passes(t, RunPcs \ {"load"})
                \/ act[t].pc = "load" /\ Passes(t, {"end"})
Left(t)   == /\ SameRows /\ SameHistory /\ act[t].pc = "end"
             /\ runs' = [runs EXCEPT ![act[t].id] = "none"]
             /\ IF Stopped(t) THEN Passes(t, {"finish"}) ELSE Rests(t)
Finished(t) == /\ SameRows /\ NoteOvertaking /\ runs' = runs /\ act[t].pc = "finish"
               /\ \/ ~Exists(act[t].id) /\ Passes(t, {"sweep"})
                  \/ /\ Exists(act[t].id) /\ rows[act[t].id].file = act[t].file
                     /\ Passes(t, {"rmfiles"})
                  \/ Exists(act[t].id) /\ rows[act[t].id].file # act[t].file /\ Rests(t)
Done(t)   == /\ SameRows /\ SameHistory /\ runs' = runs
             /\ act[t].pc \in {"sweep", "retry", "rmmenu"} /\ Rests(t)
Stop(t)   == /\ SameRows /\ NoteOvertaking
             /\ act[t].pc = "delete" /\ runs[act[t].id] = "live" /\ Rests(t)
             /\ runs' = [runs EXCEPT ![act[t].id] = "stop"]
Removal(t) == /\ SameRows /\ NoteOvertaking /\ runs' = runs
              /\ act[t].pc = "delete" /\ Passes(t, {"rmfiles"})
Wiped(t)  == /\ SameRows /\ SameHistory /\ runs' = runs
             /\ act[t].pc = "rmfiles" /\ Passes(t, {"rmrow"})
Dropped(t) == /\ SameHistory /\ runs' = runs
              /\ act[t].pc = "rmrow" /\ Passes(t, {"rmmenu"})
              /\ rows'[act[t].id].status = "absent"
              /\ \A i \in Ids \ {act[t].id} : SameRow(i)
Rebooted  == /\ act' = [t \in Threads |-> Idle]
             /\ overtaken' = overtaken /\ raced' = (raced \/ overtaken # {})

ThreadStep(t) == \/ \E id \in Ids : Begun(t, id) \/ Asked(t, id)
                 \/ Loaded(t) \/ Went(t) \/ Left(t) \/ Finished(t) \/ Done(t)
                 \/ Stop(t) \/ Removal(t) \/ Wiped(t) \/ Dropped(t)

LEMMA KindOfRun ==
    ASSUME TypeInv, NEW t \in Threads, Build(t)
    PROVE  Loaded(t) \/ Went(t) \/ Left(t) \/ Finished(t) \/ Done(t)
<1>0. act[t] \in Act /\ act \in [Threads -> Act]
  BY DEF TypeInv, TypeOK
<1>1. CASE Load(t)
  <2>1. rows' = rows /\ runs' = runs /\ SameHistory /\ act[t].pc = "load" /\ SameRows
    BY <1>1 DEF Load, SameHistory, history, SameRows, SameRow, Exists
  <2>2. CASE rows[act[t].id].status = "pending"
    <3>1. Others(t) /\ Exists(act[t].id)
      BY <1>0, <1>1, <2>2 DEF Load, Others, Exists
    <3>2. act'[t] = [act[t] EXCEPT !.pc = "claim", !.upload = rows[act[t].id].upload,
                                   !.file = rows[act[t].id].file]
      BY <1>0, <1>1, <2>2 DEF Load
    <3> QED
      BY <2>1, <3>1, <3>2 DEF Loaded
  <2>3. CASE rows[act[t].id].status # "pending"
    <3>1. Goto(t, "end")
      BY <1>1, <2>3 DEF Load, Goto
    <3> QED
      BY <2>1, <3>1, GotoPasses DEF Went
  <2> QED
    BY <2>2, <2>3
<1>2. CASE \/ Claim(t) \/ Cancel(t) \/ Read(t) \/ Extract(t) \/ Unpack(t)
           \/ CommitReady(t) \/ Fail(t) \/ Raise(t) \/ Except(t) \/ RenderRun(t)
  <2>1. RunPart(t) /\ runs' = runs /\ SameHistory
    BY <1>2 DEF Claim, Cancel, Read, Extract, Unpack, CommitReady, Fail, Raise, Except,
                RenderRun, CommitStatus, RunPart, RunPcs, history, SameHistory
  <2>2. act[t].id \in Ids /\ act[t].pc # "idle"
    BY <2>1 DEF RunPart, RunPcs, TypeInv, ActsHaveIds
  <2>3. Passes(t, RunPcs \ {"load"})
    <3>1. \E pc \in RunPcs \ {"load"} : Goto(t, pc)
      BY <1>2 DEF Claim, Cancel, Read, Extract, Unpack, CommitReady, Fail, Raise, Except,
                  RenderRun, CommitStatus, CheckStop, RunPcs
    <3> QED
      BY <3>1, GotoPasses DEF Passes
  <2>4. \/ rows' = rows
        \/ \E st \in {"processing", "ready", "error"} :
              Exists(act[t].id) /\ SetStatus(act[t].id, st)
    BY <1>2 DEF Claim, Cancel, Read, Extract, Unpack, CommitReady, Fail, Raise, Except,
                RenderRun, CommitStatus
  <2>5. {"processing", "ready", "error"} \subseteq Status
    BY DEF Status, BUSY, IN_FLIGHT
  <2>6. SameRows
    BY <2>2, <2>4, <2>5, StatusSet DEF SameRows, SameRow, Exists
  <2> QED
    BY <2>1, <2>3, <2>6 DEF Went
<1>3. CASE End(t)
  BY <1>3, GotoPasses, ReturnRests DEF End, Left, SameRows, SameRow, Exists, history, SameHistory
<1>4. CASE Finish(t)
  BY <1>4, GotoPasses, ReturnRests DEF Finish, Finished, SameRows, SameRow, Exists
<1>5. CASE Sweep(t)
  BY <1>5, ReturnRests DEF Sweep, Done, SameRows, SameRow, Exists, history, SameHistory
<1> QED
  BY <1>1, <1>2, <1>3, <1>4, <1>5 DEF Build

LEMMA KindOfRequest ==
    ASSUME TypeInv, NEW t \in Threads,
           Request(t) \/ Remove(t) \/ \E id \in Ids : Begin(t, id)
    PROVE  ThreadStep(t)
<1>0. act[t] \in Act /\ act \in [Threads -> Act]
  BY DEF TypeInv, TypeOK
<1>1. ASSUME NEW id \in Ids, Begin(t, id) PROVE Begun(t, id)
  BY <1>0, <1>1 DEF Begin, Begun, Others, SameRows, SameRow, Exists
<1>2. ASSUME NEW id \in Ids, RetryLoad(t, id) \/ DeleteLoad(t, id) PROVE Asked(t, id)
  <2>1. PICK pc \in {"retry", "delete"} :
           act' = [act EXCEPT ![t] = [pc |-> pc, id |-> id, upload |-> rows[id].upload,
                                      file |-> rows[id].file]]
    BY <1>2 DEF RetryLoad, DeleteLoad
  <2>2. Others(t) /\ \E p \in {"retry", "delete"} :
           act'[t] = [pc |-> p, id |-> id, upload |-> rows[id].upload, file |-> rows[id].file]
    BY <1>0, <2>1 DEF Others
  <2> QED
    BY <1>2, <2>2 DEF RetryLoad, DeleteLoad, Asked, SameRows, SameRow, Exists
<1>3. CASE RetryCommit(t)
  <2>1. act[t].id \in Ids /\ "pending" \in Status
    BY <1>3 DEF RetryCommit, TypeInv, ActsHaveIds, Status, BUSY, IN_FLIGHT
  <2>2. SameRows
    BY <1>3, <2>1, StatusSet DEF RetryCommit, SameRows, SameRow, Exists
  <2>3. Done(t)
    BY <1>3, <2>2, ReturnRests DEF RetryCommit, Done, history, SameHistory
  <2> QED
    BY <2>3 DEF ThreadStep
<1>4. CASE DeleteCheck(t)
  <2>1. act[t].id \in Ids /\ "deleting" \in Status
    BY <1>4 DEF DeleteCheck, TypeInv, ActsHaveIds, Status, BUSY
  <2>2. SameRows
    BY <1>4, <2>1, StatusSet DEF DeleteCheck, SameRows, SameRow, Exists
  <2>3. Stop(t) \/ Removal(t)
    BY <1>4, <2>2, GotoPasses, ReturnRests DEF DeleteCheck, Stop, Removal
  <2> QED
    BY <2>3 DEF ThreadStep
<1>5. CASE RemoveFiles(t)
  <2>1. Wiped(t)
    BY <1>5, GotoPasses DEF RemoveFiles, Wiped, SameRows, SameRow, Exists, history, SameHistory
  <2> QED
    BY <2>1 DEF ThreadStep
<1>6. CASE RemoveRow(t)
  <2>1. act[t].id \in Ids /\ rows \in [Ids -> Row \cup {NoRow}]
    BY <1>6 DEF RemoveRow, TypeInv, TypeOK, ActsHaveIds
  <2>2. rows'[act[t].id] = NoRow /\ \A i \in Ids \ {act[t].id} : rows'[i] = rows[i]
    BY <1>6, <2>1 DEF RemoveRow
  <2>3. Passes(t, {"rmmenu"})
    BY <1>6, GotoPasses DEF RemoveRow
  <2>4. rows'[act[t].id].status = "absent" /\ \A i \in Ids \ {act[t].id} : SameRow(i)
    BY <2>2 DEF NoRow, SameRow
  <2>5. Dropped(t)
    BY <1>6, <2>3, <2>4 DEF RemoveRow, Dropped, history, SameHistory
  <2> QED
    BY <2>5 DEF ThreadStep
<1>7. CASE RemoveMenu(t)
  <2>1. Done(t)
    BY <1>7, ReturnRests DEF RemoveMenu, Done, SameRows, SameRow, Exists, history, SameHistory
  <2> QED
    BY <2>1 DEF ThreadStep
<1> QED
  BY <1>1, <1>2, <1>3, <1>4, <1>5, <1>6, <1>7 DEF Request, Remove, ThreadStep

LEMMA Kinds ==
    ASSUME TypeInv, [Next]_vars
    PROVE  \/ Still
           \/ \E id \in Ids : Added(id)
           \/ \E t \in Threads : ThreadStep(t)
           \/ Rebooted
<1>1. CASE (\E f \in Names : UploadOpen(f)) \/ (\E id \in Ids : Drop(id)) \/ UNCHANGED vars
  <2>1. Still
    BY <1>1 DEF UploadOpen, Drop, vars, Still, SameRows, SameRow, Exists, history, SameHistory
  <2> QED
    BY <2>1
<1>2. CASE (\E s \in streams : UploadCommit(s)) \/ AddNetboot
  <2>1. PICK id \in Ids :
            /\ IsNewId(id) /\ act' = act /\ runs' = runs /\ NoteReuse(id)
            /\ \E u, f : rows' = [rows EXCEPT ![id] =
                                    [upload |-> u, file |-> f, status |-> "pending"]]
    BY <1>2 DEF UploadCommit, AddNetboot
  <2>2. ~Exists(id)
    BY <2>1 DEF IsNewId, Ids
  <2>3. rows'[id].status = "pending" /\ \A i \in Ids \ {id} : rows'[i] = rows[i]
    BY <2>1 DEF TypeInv, TypeOK
  <2>4. Added(id)
    BY <2>1, <2>2, <2>3 DEF Added, SameRow, Exists
  <2> QED
    BY <2>4
<1>3. CASE \E id \in Ids : \E t \in Threads : Begin(t, id)
  BY <1>3, KindOfRequest
<1>4. CASE \E t \in Threads : Build(t) \/ Remove(t) \/ Request(t)
  BY <1>4, KindOfRun, KindOfRequest DEF ThreadStep
<1>5. CASE Restart
  <2>1. Rebooted
    BY <1>5 DEF Restart, Rebooted
  <2> QED
    BY <2>1
<1> QED
  BY <1>1, <1>2, <1>3, <1>4, <1>5 DEF Next

--------------------------------------------------------------------------------
(* Who works on which image.                                                    *)

\* The threads that hold what they read of a row, and those that hold nothing.
InHand   == Pcs \ {"idle", "load", "end", "finish", "sweep"}
ShapeInv == /\ \A t \in Threads : act[t].pc \in InHand => act[t].file # NoName
            /\ \A t \in Threads : act[t].pc = "idle" => act[t] = Idle

\* A thread that removes an image is alone with its id, unless the history says
\* otherwise; if nothing was raced, the others are builds that were told to stop.
Removing(t)    == act[t].pc \in {"rmfiles", "rmrow"}
ToStop(t)      == InRun(t) /\ Stopped(t)
Together(t, u) == t # u /\ Removing(t) /\ act[u].id = act[t].id
AloneInv == \A t, u \in Threads : Together(t, u) => act[t].id \in overtaken
PeersInv == ~raced => \A t, u \in Threads : Together(t, u) => ToStop(u) \/ act[u].pc = "finish"

\* A thread that holds what it read of a row: the row is still the same image's, or,
\* where nothing was raced, gone and the thread on its way to clear up after it.
Attached(t) == act[t].file # NoName /\ act[t].pc # "rmmenu"
Has(t)      == /\ Exists(act[t].id)
               /\ rows[act[t].id].upload = act[t].upload
               /\ rows[act[t].id].file = act[t].file
Orphan(t)   == ~Exists(act[t].id) /\ (ToStop(t) \/ act[t].pc \in {"finish", "sweep"})
AttachOf(t) == /\ Attached(t) /\ act[t].id \notin overtaken => Has(t)
               /\ ToStop(t) \/ act[t].pc = "finish" => act[t].id \in overtaken \/ Exists(act[t].id)
               /\ act[t].pc = "sweep" => act[t].id \in overtaken
               /\ Attached(t) /\ ~raced => Has(t) \/ Orphan(t)
AttachInv   == \A t \in Threads : AttachOf(t)

RunInv   == TypeInv /\ OneRunPerImage
HandsInv == ShapeInv /\ AloneInv /\ PeersInv /\ AttachInv

LEMMA Noted ==
    ASSUME NoteOvertaking, NEW t \in Threads, NEW u \in Threads, Together(t, u)'
    PROVE  act'[t].id \in overtaken' /\ (~raced' => ToStop(u)')
<1> DEFINE removed == {p \in Threads \X Threads :
                          /\ p[1] # p[2] /\ act'[p[1]].id = act'[p[2]].id
                          /\ act'[p[1]].pc \in {"rmfiles", "rmrow"}}
<1>1. /\ overtaken' = overtaken \cup {act'[p[1]].id : p \in removed}
      /\ raced' = (raced \/ \E p \in removed :
                      ~(act'[p[2]].pc \in RunPcs /\ runs'[act'[p[2]].id] = "stop"))
  BY Zenon DEF NoteOvertaking
<1>2. <<t, u>> \in removed
  BY DEF Together, Removing
<1>3. act'[t].id \in overtaken'
  BY <1>1, <1>2
<1>4. ~raced' => act'[u].pc \in RunPcs /\ runs'[act'[u].id] = "stop"
  BY <1>1, <1>2
<1> QED
  BY <1>3, <1>4 DEF ToStop, InRun, Stopped

LEMMA NoteGrows == NoteOvertaking => overtaken \subseteq overtaken' /\ (raced => raced')
BY DEF NoteOvertaking

\* What all the kinds of step rest on.
LEMMA Rest ==
    ASSUME TypeInv
    PROVE  /\ \A t \in Threads : act[t].pc # "idle" => act[t].id \in Ids
           /\ Idle.id \notin Ids /\ Idle.file = NoName /\ Idle.pc = "idle"
           /\ \A t \in Threads : act[t] \in Act
BY UploadsAssumption DEF TypeInv, TypeOK, ActsHaveIds, Idle, Ids

LEMMA ShapeStep ==
    ASSUME TypeInv, TypeInv', ShapeInv, NEW t \in Threads, ThreadStep(t)
    PROVE  ShapeInv'
<1>1. \A u \in Threads \ {t} : act'[u] = act[u]
  BY DEF ThreadStep, Begun, Asked, Loaded, Went, Left, Finished, Done, Stop, Removal, Wiped,
         Dropped, Passes, Rests, Others
<1>2. act[t] \in Act /\ Idle.pc = "idle"
  BY DEF TypeInv, TypeOK, Idle
<1>3. NoName \notin Names
  BY NamesAssumption DEF Names, NoName, Uploads
<1>4. \A id \in Ids : Exists(id) => rows[id].file # NoName
  BY <1>3, RowKinds DEF Row
<1>5. /\ act'[t].pc \in InHand => act'[t].file # NoName
      /\ act'[t].pc = "idle" => act'[t] = Idle
  <2>1. ASSUME NEW id \in Ids, Begun(t, id) PROVE act'[t].pc = "load"
    BY <2>1 DEF Begun, Idle
  <2>2. ASSUME NEW id \in Ids, Asked(t, id) PROVE act'[t].file # NoName /\ act'[t].pc # "idle"
    BY <1>4, <2>2 DEF Asked
  <2>3. ASSUME Loaded(t) PROVE act'[t].file # NoName /\ act'[t].pc = "claim"
    <3>1. act[t].id \in Ids
      BY <2>3 DEF Loaded, TypeInv, ActsHaveIds
    <3> QED
      BY <1>2, <1>4, <2>3, <3>1 DEF Loaded, Act
  <2>4. ASSUME Went(t) PROVE (act[t].pc \in InHand /\ Passes(t, RunPcs)) \/ act'[t].pc = "end"
    BY <2>4 DEF Went, RunPart, Passes, InHand, Pcs, RunPcs
  <2>5. ASSUME Left(t) PROVE act'[t].pc = "finish" \/ act'[t] = Idle
    BY <2>5 DEF Left, Passes, Rests
  <2>6. ASSUME Finished(t)
        PROVE  \/ act'[t].pc = "sweep" \/ act'[t] = Idle
               \/ act'[t].pc = "rmfiles" /\ act'[t].file # NoName
    <3>1. act[t].id \in Ids
      BY <2>6 DEF Finished, TypeInv, ActsHaveIds
    <3> QED
      BY <1>4, <2>6, <3>1 DEF Finished, Passes, Rests
  <2>7. ASSUME Done(t) \/ Stop(t) PROVE act'[t] = Idle
    BY <2>7 DEF Done, Stop, Rests
  <2>8. ASSUME Removal(t) \/ Wiped(t) \/ Dropped(t)
        PROVE  act[t].pc \in InHand /\ act'[t].file = act[t].file /\ act'[t].pc # "idle"
    BY <2>8 DEF Removal, Wiped, Dropped, Passes, InHand, Pcs, RemovePcs
  <2>9. /\ {"load", "end", "finish", "sweep", "idle"} \cap InHand = {}
        /\ "idle" \notin RunPcs
    BY DEF InHand, RunPcs
  <2> QED
    BY <1>2, <2>1, <2>2, <2>3, <2>4, <2>5, <2>6, <2>7, <2>8, <2>9 DEF ThreadStep, ShapeInv, Passes
<1> QED
  BY <1>1, <1>5 DEF ShapeInv

LEMMA PeersStep ==
    ASSUME RunInv, TypeInv', AloneInv, PeersInv, NEW t \in Threads, ThreadStep(t)
    PROVE  AloneInv' /\ PeersInv'
<1>0. /\ \A u \in Threads : act'[u].pc # "idle" => act'[u].id \in Ids
      /\ \A u \in Threads : act[u].pc # "idle" => act[u].id \in Ids
      /\ Idle.id \notin Ids /\ Idle.pc = "idle"
      /\ runs \in [Ids -> {"none", "live", "stop"}]
  BY UploadsAssumption DEF RunInv, TypeInv, TypeOK, ActsHaveIds, Idle, Ids
<1>1. CASE NoteOvertaking
  BY <1>1, Noted DEF AloneInv, PeersInv
<1>2. CASE ~NoteOvertaking
  <2>1. /\ Loaded(t) \/ Went(t) \/ Left(t) \/ Done(t) \/ Wiped(t) \/ Dropped(t)
        /\ SameHistory
    BY <1>2 DEF ThreadStep, Begun, Asked, Loaded, Went, Left, Finished, Done, Stop, Removal,
                Wiped, Dropped
  <2>2. Others(t)
    BY <2>1 DEF Loaded, Went, Left, Done, Wiped, Dropped, Passes, Rests
  <2> SUFFICES ASSUME NEW v \in Threads, NEW u \in Threads, Together(v, u)'
               PROVE  /\ act'[v].id \in overtaken'
                      /\ ~raced' => ToStop(u)' \/ act'[u].pc = "finish"
    BY DEF AloneInv, PeersInv
  <2>3. v = t => Wiped(t)
    <3>1. Loaded(t) => act'[t].pc = "claim"
      BY DEF Loaded, RunInv, TypeInv, TypeOK, Act
    <3>2. Went(t) \/ Left(t) \/ Done(t) \/ Dropped(t)
             => act'[t].pc \in RunPcs \cup {"end", "finish", "idle", "rmmenu"}
      BY <1>0 DEF Went, Left, Done, Dropped, Passes, Rests
    <3>3. v = t => act'[t].pc \in {"rmfiles", "rmrow"}
      BY DEF Together, Removing
    <3>4. {"rmfiles", "rmrow"} \cap (RunPcs \cup {"end", "finish", "idle", "rmmenu"}) = {}
      BY DEF RunPcs
    <3> QED
      BY <2>1, <3>1, <3>2, <3>3, <3>4
  <2>4. v # t => act'[v] = act[v]
    BY <2>2 DEF Others
  <2>5. act'[v].id = act[v].id /\ Removing(v) /\ act[v].id \in Ids
    BY <1>0, <2>3, <2>4 DEF Wiped, Passes, Together, Removing
  <2>6. u # v /\ act'[u].id = act[v].id
    BY <2>5 DEF Together
  <2>7. act'[u].id = act[u].id
    <3>1. CASE u # t
      BY <2>2, <3>1 DEF Others
    <3>2. CASE u = t
      <4>1. ~Rests(t)
        BY <1>0, <2>5, <2>6, <3>2 DEF Rests
      <4>2. act[t] \in Act
        BY DEF RunInv, TypeInv, TypeOK
      <4> QED
        BY <2>1, <3>2, <4>1, <4>2 DEF Loaded, Went, Left, Done, Wiped, Dropped, Passes, Act
    <3> QED
      BY <3>1, <3>2
  <2>8. Together(v, u)
    BY <2>5, <2>6, <2>7 DEF Together
  <2>9. act[v].id \in overtaken /\ (~raced => ToStop(u) \/ act[u].pc = "finish")
    BY <2>8 DEF AloneInv, PeersInv
  <2>10. ASSUME ~raced PROVE ToStop(u)' \/ act'[u].pc = "finish"
    <3>1. CASE u = t
      <4>1. Loaded(t) \/ Went(t) \/ Left(t)
        BY <2>1, <2>9, <2>10, <3>1 DEF Done, Wiped, Dropped, ToStop, InRun, RunPcs
      <4>2. ToStop(t)
        BY <2>9, <2>10, <3>1, <4>1 DEF Loaded, Went, Left, RunPart, RunPcs
      <4>3. CASE Left(t)
        BY <3>1, <4>2, <4>3 DEF Left, ToStop, Passes
      <4>4. CASE Loaded(t) \/ Went(t)
        <5>1. InRun(t)' /\ runs' = runs
          BY <4>4, <1>0 DEF Loaded, Went, Passes, InRun, RunPcs, RunInv, TypeInv, TypeOK, Act
        <5> QED
          BY <2>7, <3>1, <4>2, <5>1 DEF ToStop, Stopped
      <4> QED
        BY <4>1, <4>3, <4>4
    <3>2. CASE u # t
      <4>1. act'[u] = act[u]
        BY <2>2, <3>2 DEF Others
      <4>2. CASE act[u].pc = "finish"
        BY <4>1, <4>2
      <4>3. CASE ToStop(u)
        <5>1. runs' = runs \/ Left(t)
          BY <2>1 DEF Loaded, Went, Done, Wiped, Dropped
        <5>2. Left(t) => act[t].id # act[u].id
          BY <3>2, <4>3 DEF Left, ToStop, InRun, RunPcs, RunInv, OneRunPerImage
        <5>3. act[u].id \in Ids /\ (Left(t) => act[t].id \in Ids)
          BY <1>0, <4>3 DEF ToStop, InRun, RunPcs, Left
        <5>4. runs'[act[u].id] = runs[act[u].id]
          BY <1>0, <5>1, <5>2, <5>3 DEF Left
        <5> QED
          BY <4>1, <4>3, <5>4 DEF ToStop, InRun, Stopped
      <4> QED
        BY <2>9, <2>10, <4>2, <4>3
    <3> QED
      BY <3>1, <3>2
  <2> QED
    BY <2>1, <2>5, <2>9, <2>10 DEF SameHistory
<1> QED
  BY <1>1, <1>2

\* A thread that goes on, with its row as it was.
LEMMA AttachKept ==
    ASSUME NEW u \in Threads, AttachOf(u), overtaken \subseteq overtaken', raced => raced',
           act'[u].id = act[u].id, act'[u].upload = act[u].upload, act'[u].file = act[u].file,
           SameRow(act[u].id),
           Attached(u)' => Attached(u),
           act'[u].pc = "sweep" => act[u].pc = "sweep",
           ToStop(u)' \/ act'[u].pc = "finish" => ToStop(u) \/ act[u].pc = "finish",
           ToStop(u) \/ act[u].pc \in {"finish", "sweep"}
               => ToStop(u)' \/ act'[u].pc \in {"finish", "sweep"} \/ ~Attached(u)'
    PROVE  AttachOf(u)'
<1>1. /\ Exists(act[u].id)' <=> Exists(act[u].id)
      /\ rows'[act'[u].id].upload = rows[act[u].id].upload
      /\ rows'[act'[u].id].file = rows[act[u].id].file
  BY DEF SameRow, Exists
<1>2. Has(u)' <=> Has(u)
  BY <1>1 DEF Has, Exists
<1>3. Orphan(u) /\ Attached(u)' => Orphan(u)'
  BY <1>1 DEF Orphan, Exists
<1>4. Exists(act[u].id) => Exists(act[u].id)'
  BY DEF SameRow, Exists
<1> QED
  BY <1>2, <1>3, <1>4 DEF AttachOf

LEMMA AttachIdle ==
    ASSUME NEW u \in Threads, act'[u] = Idle
    PROVE  AttachOf(u)'
BY DEF AttachOf, Attached, ToStop, InRun, RunPcs, Idle

LEMMA AttachStill ==
    ASSUME ShapeInv, AttachInv, NEW u \in Threads, act'[u] = act[u],
           overtaken \subseteq overtaken', raced => raced',
           act[u].pc # "idle" => SameRow(act[u].id),
           InRun(u) => (runs'[act[u].id] = "stop" <=> Stopped(u))
    PROVE  AttachOf(u)'
<1>1. CASE act[u].pc = "idle"
  <2>1. act[u] = Idle
    BY <1>1 DEF ShapeInv
  <2> QED
    BY <2>1, AttachIdle
<1>2. CASE act[u].pc # "idle"
  <2>1. ToStop(u)' <=> ToStop(u)
    BY DEF ToStop, InRun, Stopped
  <2>2. Attached(u)' <=> Attached(u)
    BY DEF Attached
  <2> QED
    BY <1>2, <2>1, <2>2, AttachKept DEF AttachInv
<1> QED
  BY <1>1, <1>2

\* The threads other than the one that moves.
LEMMA AttachOthers ==
    ASSUME RunInv, ShapeInv, AttachInv, NEW t \in Threads, NEW u \in Threads \ {t},
           Others(t), overtaken \subseteq overtaken', raced => raced', SameRows,
           \/ runs' = runs
           \/ \E id \in Ids : runs[id] = "none" /\ runs' = [runs EXCEPT ![id] = "live"]
           \/ InRun(t) /\ runs' = [runs EXCEPT ![act[t].id] = "none"]
    PROVE  AttachOf(u)'
<1>1. act'[u] = act[u] /\ runs \in [Ids -> {"none", "live", "stop"}]
  BY DEF Others, RunInv, TypeInv, TypeOK
<1>2. act[u].pc # "idle" => act[u].id \in Ids
  BY DEF RunInv, TypeInv, ActsHaveIds
<1>3. InRun(u) => act[u].pc # "idle" /\ runs[act[u].id] # "none"
  BY DEF InRun, RunPcs, RunInv, OneRunPerImage
<1>4. InRun(u) /\ InRun(t) => act[u].id # act[t].id
  BY DEF RunInv, OneRunPerImage
<1>5. InRun(t) => act[t].id \in Ids
  BY DEF RunInv, TypeInv, ActsHaveIds, InRun, RunPcs
<1>6. InRun(u) => (runs'[act[u].id] = "stop" <=> Stopped(u))
  BY <1>1, <1>2, <1>3, <1>4, <1>5 DEF Stopped
<1> QED
  BY <1>1, <1>2, <1>6, AttachStill DEF SameRows

LEMMA AttachTakes ==
    ASSUME RunInv, TypeInv', ShapeInv, AttachInv, NEW t \in Threads,
           (\E id \in Ids : Begun(t, id) \/ Asked(t, id)) \/ Loaded(t)
    PROVE  AttachInv'
<1>1. overtaken \subseteq overtaken' /\ (raced => raced') /\ Others(t) /\ SameRows
  <2>1. Others(t) /\ SameRows /\ (NoteOvertaking \/ SameHistory)
    BY DEF Begun, Asked, Loaded
  <2> QED
    BY <2>1, NoteGrows DEF SameHistory
<1>2. \A u \in Threads \ {t} : AttachOf(u)'
  BY <1>1, AttachOthers DEF Begun, Asked, Loaded
<1>3. ASSUME NEW id \in Ids, Begun(t, id) PROVE AttachOf(t)'
  <2>1. /\ act'[t].pc = "load" /\ act'[t].id = id /\ act'[t].file = NoName
        /\ runs'[id] = "live"
    BY <1>3 DEF Begun, Idle, RunInv, TypeInv, TypeOK
  <2> QED
    BY <2>1 DEF AttachOf, Attached, ToStop, Stopped
<1>4. ASSUME NEW id \in Ids, Asked(t, id) PROVE AttachOf(t)'
  <2>1. PICK pc \in {"retry", "delete"} :
           act'[t] = [pc |-> pc, id |-> id, upload |-> rows[id].upload, file |-> rows[id].file]
    BY <1>4 DEF Asked
  <2>2. Has(t)'
    BY <1>1, <1>4, <2>1 DEF Asked, Has, SameRows, SameRow, Exists
  <2> QED
    BY <2>1, <2>2 DEF AttachOf, ToStop, InRun, RunPcs
<1>5. ASSUME Loaded(t) PROVE AttachOf(t)'
  <2>1. act[t] \in Act /\ act[t].id \in Ids
    BY <1>5 DEF Loaded, RunInv, TypeInv, TypeOK, ActsHaveIds
  <2>2. /\ act'[t].pc = "claim" /\ act'[t].id = act[t].id
        /\ act'[t].upload = rows[act[t].id].upload /\ act'[t].file = rows[act[t].id].file
    BY <1>5, <2>1 DEF Loaded, Act
  <2>3. Has(t)'
    BY <1>1, <1>5, <2>1, <2>2 DEF Loaded, Has, SameRows, SameRow, Exists
  <2> QED
    BY <2>2, <2>3 DEF AttachOf, Has
<1> QED
  BY <1>2, <1>3, <1>4, <1>5 DEF AttachInv

LEMMA AttachGoes ==
    ASSUME RunInv, ShapeInv, AttachInv, NEW t \in Threads,
           Went(t) \/ Left(t) \/ Finished(t) \/ Done(t) \/ Removal(t) \/ Wiped(t)
    PROVE  AttachInv'
<1>1. overtaken \subseteq overtaken' /\ (raced => raced') /\ SameRows
  BY NoteGrows DEF Went, Left, Finished, Done, Removal, Wiped, SameHistory
<1>2. Others(t)
  BY DEF Went, Left, Finished, Done, Removal, Wiped, Passes, Rests
<1>3. runs' = runs \/ (InRun(t) /\ runs' = [runs EXCEPT ![act[t].id] = "none"])
  BY DEF Went, Left, Finished, Done, Removal, Wiped, InRun, RunPcs
<1>4. \A u \in Threads \ {t} : AttachOf(u)'
  BY <1>1, <1>2, <1>3, AttachOthers
<1>5. act[t].pc # "idle" /\ act[t].id \in Ids
  BY DEF Went, Left, Finished, Done, Removal, Wiped, RunPart, RunPcs, RunInv, TypeInv, ActsHaveIds
<1>6. SameRow(act[t].id) /\ AttachOf(t)
  BY <1>1, <1>5 DEF SameRows, AttachInv
<1>7. AttachOf(t)'
  <2>1. CASE Rests(t)
    BY <2>1, AttachIdle DEF Rests
  <2>2. CASE Went(t)
    <3>1. InRun(t) /\ act[t].pc \in RunPcs \ {"end"} /\ Passes(t, RunPcs) /\ runs' = runs
      BY <2>2 DEF Went, RunPart, RunPcs, InRun, Passes
    <3>2. InRun(t)' /\ (ToStop(t)' <=> ToStop(t)) /\ act[t].pc # "rmmenu"
      BY <3>1 DEF ToStop, InRun, Stopped, Passes, RunPcs
    <3>3. act[t].pc \notin {"finish", "sweep"} /\ act'[t].pc \notin {"finish", "sweep"}
      BY <3>1 DEF Passes, RunPcs
    <3> QED
      BY <1>1, <1>6, <3>1, <3>2, <3>3, AttachKept DEF Passes, Attached
  <2>3. CASE Left(t) /\ ~Rests(t)
    <3>1. Stopped(t) /\ Passes(t, {"finish"}) /\ act[t].pc = "end"
      BY <2>3 DEF Left
    <3>2. ToStop(t)
      BY <3>1 DEF ToStop, InRun, RunPcs
    <3> QED
      BY <1>1, <1>6, <3>1, <3>2, AttachKept DEF Passes, Attached
  <2>4. CASE Finished(t) /\ ~Rests(t)
    <3>1. CASE ~Exists(act[t].id)
      <4>1. Passes(t, {"sweep"}) /\ act[t].pc = "finish"
        BY <2>4, <3>1 DEF Finished
      <4>2. act[t].id \in overtaken
        BY <1>6, <3>1, <4>1 DEF AttachOf
      <4>3. Orphan(t)'
        BY <1>6, <3>1, <4>1 DEF Orphan, Passes, SameRow, Exists
      <4> QED
        BY <1>1, <4>1, <4>2, <4>3 DEF AttachOf, Passes, ToStop, InRun, RunPcs
    <3>2. CASE Exists(act[t].id)
      <4>1. Passes(t, {"rmfiles"}) /\ rows[act[t].id].file = act[t].file /\ act[t].pc = "finish"
        BY <2>4, <3>2 DEF Finished
      <4>2. Attached(t)' => Attached(t)
        BY <4>1 DEF Attached, Passes
      <4>3. ~ToStop(t)'
        BY <4>1 DEF ToStop, InRun, RunPcs, Passes
      <4>4. Attached(t) => (act[t].id \in overtaken /\ raced) \/ Has(t)
        BY <1>6, <3>2 DEF AttachOf, Orphan
      <4>5. Has(t) => Has(t)'
        BY <1>6, <4>1 DEF Has, Passes, SameRow, Exists
      <4> QED
        BY <1>1, <1>6, <3>2, <4>1, <4>2, <4>3, <4>4, <4>5 DEF AttachOf, Orphan, Passes
    <3> QED
      BY <3>1, <3>2
  <2>5. CASE Removal(t) \/ Wiped(t)
    <3>1. /\ Passes(t, {"rmfiles", "rmrow"}) /\ runs' = runs
          /\ act[t].pc \in {"delete", "rmfiles"}
      BY <2>5 DEF Removal, Wiped, Passes
    <3>2. ~ToStop(t)' /\ ~ToStop(t)
      BY <3>1 DEF ToStop, InRun, RunPcs, Passes
    <3> QED
      BY <1>1, <1>6, <3>1, <3>2, AttachKept DEF Passes, Attached
  <2> QED
    BY <2>1, <2>2, <2>3, <2>4, <2>5 DEF Done
<1> QED
  BY <1>4, <1>7 DEF AttachInv

LEMMA AttachStops ==
    ASSUME RunInv, ShapeInv, AttachInv, NEW t \in Threads, Stop(t)
    PROVE  AttachInv'
<1>1. /\ overtaken \subseteq overtaken' /\ (raced => raced') /\ SameRows /\ Rests(t)
      /\ act[t].pc = "delete" /\ runs' = [runs EXCEPT ![act[t].id] = "stop"]
  BY NoteGrows DEF Stop
<1>2. AttachOf(t)'
  BY <1>1, AttachIdle DEF Rests
<1>3. Attached(t) /\ AttachOf(t) /\ act[t].id \in Ids
  BY <1>1 DEF ShapeInv, InHand, Pcs, RemovePcs, Attached, AttachInv, RunInv, TypeInv, ActsHaveIds
<1>4. act[t].id \in overtaken \/ Exists(act[t].id)
  BY <1>3 DEF AttachOf, Has
<1>5. ASSUME NEW u \in Threads \ {t} PROVE AttachOf(u)'
  <2>1. act'[u] = act[u] /\ runs \in [Ids -> {"none", "live", "stop"}]
    BY <1>1 DEF Rests, Others, RunInv, TypeInv, TypeOK
  <2>2. CASE act[u].pc = "idle"
    BY <1>1, <2>1, <2>2, AttachStill DEF InRun, RunPcs
  <2>3. CASE act[u].pc # "idle" /\ act[u].id # act[t].id
    <3>1. act[u].id \in Ids
      BY <2>3 DEF RunInv, TypeInv, ActsHaveIds
    <3> QED
      BY <1>1, <1>3, <2>1, <2>3, <3>1, AttachStill DEF SameRows, Stopped
  <2>4. CASE act[u].pc # "idle" /\ act[u].id = act[t].id
    <3>1. ToStop(u) => ToStop(u)'
      BY <1>1, <1>3, <2>1, <2>4 DEF ToStop, InRun, Stopped
    <3>2. SameRow(act[u].id)
      BY <1>1, <1>3, <2>4 DEF SameRows
    <3>3. (Has(u) => Has(u)') /\ (Orphan(u) => Orphan(u)') /\ (Attached(u)' <=> Attached(u))
      BY <2>1, <3>1, <3>2 DEF Has, Orphan, Attached, Exists, SameRow
    <3>4. act'[u].id \in overtaken' \/ Exists(act[u].id)'
      BY <1>1, <1>4, <2>1, <2>4, <3>2 DEF Exists, SameRow
    <3>5. AttachOf(u)
      BY DEF AttachInv
    <3> QED
      BY <1>1, <2>1, <3>3, <3>4, <3>5 DEF AttachOf
  <2> QED
    BY <2>2, <2>3, <2>4
<1> QED
  BY <1>2, <1>5 DEF AttachInv

LEMMA AttachDrops ==
    ASSUME RunInv, ShapeInv, AloneInv, PeersInv, AttachInv, NEW t \in Threads, Dropped(t)
    PROVE  AttachInv'
<1>1. /\ overtaken' = overtaken /\ raced' = raced /\ runs' = runs /\ Passes(t, {"rmmenu"})
      /\ act[t].pc = "rmrow" /\ rows'[act[t].id].status = "absent"
      /\ \A i \in Ids \ {act[t].id} : SameRow(i)
  BY DEF Dropped, SameHistory
<1>2. AttachOf(t)'
  BY <1>1 DEF AttachOf, Attached, Passes, ToStop, InRun, RunPcs
<1>3. act[t].id \in Ids
  BY <1>1 DEF RunInv, TypeInv, ActsHaveIds
<1>4. ASSUME NEW u \in Threads \ {t} PROVE AttachOf(u)'
  <2>1. act'[u] = act[u]
    BY <1>1 DEF Passes, Others
  <2>2. CASE act[u].id # act[t].id
    <3>1. act[u].pc # "idle" => SameRow(act[u].id)
      BY <1>1, <2>2 DEF RunInv, TypeInv, ActsHaveIds
    <3> QED
      BY <1>1, <2>1, <3>1, AttachStill DEF Stopped
  <2>3. CASE act[u].id = act[t].id
    <3>1. Together(t, u)
      BY <1>1, <2>3 DEF Together, Removing
    <3>2. act[u].id \in overtaken /\ (~raced => ToStop(u) \/ act[u].pc = "finish")
      BY <2>3, <3>1 DEF AloneInv, PeersInv
    <3>3. ~raced' => Orphan(u)'
      BY <1>1, <2>1, <2>3, <3>2 DEF Orphan, Exists, ToStop, InRun, Stopped
    <3> QED
      BY <1>1, <2>1, <3>2, <3>3 DEF AttachOf
  <2> QED
    BY <2>2, <2>3
<1> QED
  BY <1>2, <1>4 DEF AttachInv

LEMMA AttachAdds ==
    ASSUME RunInv, ShapeInv, AttachInv, NEW id \in Ids, Added(id)
    PROVE  AttachInv'
<1>1. act' = act /\ runs' = runs /\ ~Exists(id) /\ Exists(id)' /\ overtaken' = overtaken
        /\ (raced => raced')
  BY DEF Added, NoteReuse
<1>2. ASSUME NEW u \in Threads PROVE AttachOf(u)'
  <2>1. CASE act[u].id # id
    <3>1. act[u].pc # "idle" => SameRow(act[u].id)
      BY <2>1 DEF Added, RunInv, TypeInv, ActsHaveIds
    <3> QED
      BY <1>1, <2>1, <3>1, AttachStill DEF Stopped
  <2>2. CASE act[u].id = id
    <3>1. Attached(u) => raced'
      BY <2>2 DEF Added, NoteReuse, Attached
    <3>2. Attached(u) => act[u].id \in overtaken
      BY <1>1, <2>2 DEF AttachInv, AttachOf, Has
    <3>3. act[u].pc = "sweep" => act[u].id \in overtaken
      BY DEF AttachInv, AttachOf
    <3> QED
      BY <1>1, <2>2, <3>1, <3>2, <3>3 DEF AttachOf, Attached, Exists
  <2> QED
    BY <2>1, <2>2
<1> QED
  BY <1>2 DEF AttachInv

LEMMA HandsStep ==
    ASSUME RunInv, RunInv', HandsInv, [Next]_vars
    PROVE  HandsInv'
<1>0. TypeInv /\ TypeInv' /\ ShapeInv /\ AloneInv /\ PeersInv /\ AttachInv
  BY DEF RunInv, HandsInv
<1>1. CASE Still
  <2>1. act' = act /\ runs' = runs /\ overtaken' = overtaken /\ raced' = raced /\ SameRows
    BY <1>1 DEF Still, SameHistory
  <2>2. ASSUME NEW u \in Threads PROVE AttachOf(u)'
    BY <1>0, <2>1, AttachStill DEF SameRows, Stopped, TypeInv, ActsHaveIds
  <2>3. ShapeInv' /\ AloneInv' /\ PeersInv'
    BY <1>0, <2>1 DEF ShapeInv, AloneInv, PeersInv, Together, Removing, ToStop, InRun, Stopped
  <2> QED
    BY <2>2, <2>3 DEF HandsInv, AttachInv
<1>2. ASSUME NEW id \in Ids, Added(id) PROVE HandsInv'
  <2>1. act' = act /\ runs' = runs /\ overtaken' = overtaken /\ (raced => raced')
    BY <1>2 DEF Added, NoteReuse
  <2>2. ShapeInv' /\ AloneInv' /\ PeersInv'
    BY <1>0, <2>1 DEF ShapeInv, AloneInv, PeersInv, Together, Removing, ToStop, InRun, Stopped
  <2> QED
    BY <1>0, <1>2, <2>2, AttachAdds DEF HandsInv
<1>3. ASSUME NEW t \in Threads, ThreadStep(t) PROVE HandsInv'
  <2>1. AttachInv'
    BY <1>0, <1>3, AttachTakes, AttachGoes, AttachStops, AttachDrops DEF ThreadStep
  <2> QED
    BY <1>0, <1>3, <2>1, ShapeStep, PeersStep DEF HandsInv
<1>4. CASE Rebooted
  <2>1. \A t \in Threads : act'[t] = Idle
    BY <1>4 DEF Rebooted
  <2>2. ShapeInv' /\ AloneInv' /\ PeersInv'
    BY <2>1 DEF ShapeInv, AloneInv, PeersInv, Together, Removing, Idle, InHand
  <2> QED
    BY <2>1, <2>2, AttachIdle DEF HandsInv, AttachInv
<1> QED
  BY <1>0, <1>1, <1>2, <1>3, <1>4, Kinds

LEMMA HandsInit == Init => HandsInv
BY DEF Init, HandsInv, ShapeInv, AloneInv, PeersInv, AttachInv, AttachOf, Together, Removing,
       Attached, ToStop, InRun, RunPcs, InHand, Idle

LEMMA RunStep == RunInv /\ [Next]_vars => RunInv'
BY TypeNext, AllSteps, OneRunStep DEF RunInv

LEMMA HandsAreKnown == Spec => [](RunInv /\ HandsInv)
<1>1. Init => RunInv /\ HandsInv
  BY TypeInit, OneRunInit, HandsInit DEF RunInv
<1>2. RunInv /\ HandsInv /\ [Next]_vars => (RunInv /\ HandsInv)'
  BY RunStep, HandsStep
<1> QED
  BY <1>1, <1>2, PTL DEF Spec

--------------------------------------------------------------------------------
(* Whose name is whose.  A name is chosen by looking at the disk and the table,  *)
(* so a file that is being written must stay on disk, with nobody to remove it,  *)
(* until its row is there.                                                      *)

Known(f) == f \in IsoNames \/ f \in 1..born

RowNames    == \A i, j \in Ids : Exists(i) /\ rows[i].file = rows[j].file => i = j
RowFiles    == \A i \in Ids : Exists(i) =>
                   Known(rows[i].file) /\ iso[rows[i].file] \in {NoUpload, rows[i].upload}
StreamFiles == \A s \in streams : Known(s.file) /\ iso[s.file] = s.upload
StreamNames == /\ \A s \in streams : ~FileInUse(s.file)
               /\ \A r, s \in streams : r.file = s.file => r = s
DiskNames   == \A f \in Names : iso[f] # NoUpload => Known(f)
NamesInv    == overtaken = {} =>
                   RowNames /\ RowFiles /\ StreamFiles /\ StreamNames /\ DiskNames

LEMMA OvertakenGrows == TypeInv /\ [Next]_vars => overtaken \subseteq overtaken'
<1> SUFFICES ASSUME TypeInv, [Next]_vars PROVE overtaken \subseteq overtaken'
  OBVIOUS
<1>1. \/ NoteOvertaking \/ SameHistory \/ overtaken' = overtaken
  BY Kinds DEF Still, Added, NoteReuse, ThreadStep, Rebooted, Begun, Asked, Loaded, Went, Left,
               Finished, Done, Stop, Removal, Wiped, Dropped
<1> QED
  BY <1>1, NoteGrows DEF SameHistory

\* Whom an image's file belongs to does not change, and a file that did change is
\* that of an image.
LEMMA NamesAlike ==
    ASSUME TypeInv, NamesInv, overtaken = {}, SameRows, streams' = streams, born' = born,
           \A f \in Names : \/ iso'[f] = iso[f]
                            \/ \E i \in Ids : /\ Exists(i) /\ rows[i].file = f
                                              /\ iso'[f] \in {NoUpload, rows[i].upload}
    PROVE  NamesInv'
<1>1. RowNames /\ RowFiles /\ StreamFiles /\ StreamNames /\ DiskNames
  BY DEF NamesInv
<1>2. RowNames'
  BY <1>1 DEF RowNames, SameRows, SameRow, Exists
<1>3. \A i \in Ids : Exists(i) => rows[i].file \in Names
  BY RowKinds DEF Row
<1>4. RowFiles'
  <2> SUFFICES ASSUME NEW i \in Ids, Exists(i)
               PROVE  Known(rows[i].file) /\ iso'[rows[i].file] \in {NoUpload, rows[i].upload}
    BY DEF RowFiles, SameRows, SameRow, Exists, Known
  <2>1. CASE iso'[rows[i].file] = iso[rows[i].file]
    BY <1>1, <2>1 DEF RowFiles
  <2>2. CASE iso'[rows[i].file] # iso[rows[i].file]
    <3>1. PICK j \in Ids : /\ Exists(j) /\ rows[j].file = rows[i].file
                           /\ iso'[rows[i].file] \in {NoUpload, rows[j].upload}
      BY <1>3, <2>2
    <3>2. i = j
      BY <1>1, <3>1 DEF RowNames
    <3> QED
      BY <1>1, <3>1, <3>2 DEF RowFiles
  <2> QED
    BY <2>1, <2>2
<1>5. StreamNames'
  BY <1>1 DEF StreamNames, FileInUse, SameRows, SameRow
<1>6. StreamFiles'
  <2> SUFFICES ASSUME NEW s \in streams PROVE Known(s.file) /\ iso'[s.file] = s.upload
    BY DEF StreamFiles, Known
  <2>1. s.file \in Names /\ ~FileInUse(s.file)
    BY <1>1 DEF StreamNames, TypeInv, TypeOK
  <2>2. iso'[s.file] = iso[s.file]
    BY <2>1 DEF FileInUse
  <2> QED
    BY <1>1, <2>2 DEF StreamFiles
<1>7. DiskNames'
  BY <1>1 DEF DiskNames, RowFiles, Known
<1> QED
  BY <1>2, <1>4, <1>5, <1>6, <1>7 DEF NamesInv

\* Some images are gone, with their files; no upload that goes on lost its own.
LEMMA NamesGone ==
    ASSUME TypeInv, TypeInv', NamesInv, overtaken = {}, born' = born, streams' \subseteq streams,
           \A id \in Ids : SameRow(id) \/ rows'[id].status = "absent",
           \A f \in Names : iso'[f] = iso[f] \/ (iso'[f] = NoUpload /\ streams' = {})
    PROVE  NamesInv'
<1>1. RowNames /\ RowFiles /\ StreamFiles /\ StreamNames /\ DiskNames
  BY DEF NamesInv
<1>2. \A i \in Ids : /\ rows'[i].status = "absent" => rows'[i].file = NoName
                     /\ rows'[i].status # "absent" => rows'[i].file \in Names
  <2>1. \A r \in Row : r.status # "absent"
    BY DEF Row, Status, BUSY, IN_FLIGHT
  <2> QED
    BY <2>1 DEF TypeInv, TypeOK, NoRow, Row
<1>3. NoName \notin Names
  BY NamesAssumption DEF Names, NoName, Uploads
<1>4. RowNames'
  BY <1>1, <1>2, <1>3 DEF RowNames, SameRow, Exists
<1>5. RowFiles'
  BY <1>1, <1>2 DEF RowFiles, SameRow, Exists, Known
<1>6. StreamNames' /\ StreamFiles'
  <2>1. \A s \in streams' : s.file \in Names
    BY DEF TypeInv, TypeOK
  <2>2. \A s \in streams' : iso'[s.file] = iso[s.file]
    BY <2>1
  <2>3. \A s \in streams' : \A i \in Ids : rows'[i].file # s.file
    BY <1>1, <1>2, <1>3, <2>1 DEF StreamNames, FileInUse, SameRow
  <2> QED
    BY <1>1, <2>2, <2>3 DEF StreamNames, StreamFiles, FileInUse, Known
<1>7. DiskNames'
  BY <1>1 DEF DiskNames, Known
<1> QED
  BY <1>4, <1>5, <1>6, <1>7 DEF NamesInv

LEMMA NamesOpen ==
    ASSUME TypeInv, NamesInv, NEW f \in Names, UploadOpen(f)
    PROVE  NamesInv'
<1> SUFFICES ASSUME overtaken = {} PROVE NamesInv'
  BY DEF UploadOpen, history, NamesInv
<1>1. RowNames /\ RowFiles /\ StreamFiles /\ StreamNames /\ DiskNames
  BY DEF NamesInv
<1>2. /\ iso[f] = NoUpload /\ ~FileInUse(f) /\ f \in IsoNames \cup {born + 1}
      /\ streams' = streams \cup {[upload |-> born + 1, file |-> f]}
      /\ iso' = [iso EXCEPT ![f] = born + 1] /\ born' = born + 1 /\ rows' = rows
  BY DEF UploadOpen
<1>3. born \in Nat /\ iso \in [Names -> Uploads \cup {NoUpload}]
  BY UploadsAssumption DEF TypeInv, TypeOK
<1>4. \A g : Known(g) => Known(g)'
  BY <1>2, <1>3 DEF Known
<1>5. Known(f)'
  BY <1>2, <1>3 DEF Known
<1>6. \A i \in Ids : rows[i].file # f
  BY <1>2 DEF FileInUse
<1>7. \A s \in streams : s.file # f /\ s.file \in Names
  <2> TAKE s \in streams
  <2>1. s.upload \in Uploads /\ s.file \in Names
    BY DEF TypeInv, TypeOK
  <2>2. s.upload # NoUpload
    BY <2>1, UploadsAssumption DEF Uploads, NoUpload
  <2> QED
    BY <1>1, <1>2, <2>1, <2>2 DEF StreamFiles
<1>8. RowNames' /\ RowFiles'
  <2>1. \A i \in Ids : Exists(i) => rows[i].file \in Names
    BY RowKinds DEF Row
  <2> QED
    BY <1>1, <1>2, <1>3, <1>4, <1>6, <2>1 DEF RowNames, RowFiles, Exists
<1>9. StreamFiles'
  BY <1>1, <1>2, <1>3, <1>4, <1>5, <1>7 DEF StreamFiles
<1>10. StreamNames'
  BY <1>1, <1>2, <1>7 DEF StreamNames, FileInUse
<1>11. DiskNames'
  BY <1>1, <1>2, <1>3, <1>4, <1>5 DEF DiskNames
<1> QED
  BY <1>8, <1>9, <1>10, <1>11 DEF NamesInv

\* A new row, with a name that is nobody else's.
LEMMA NamesNew ==
    ASSUME TypeInv, NamesInv, overtaken = {}, NEW id \in Ids, ~Exists(id),
           NEW u \in Uploads, NEW f \in Names,
           rows' = [rows EXCEPT ![id] = [upload |-> u, file |-> f, status |-> "pending"]],
           iso' = iso, iso[f] \in {NoUpload, u}, Known(f)',
           born' \in Nat, born' >= born,
           streams' \subseteq streams, \A s \in streams' : s.file # f, ~FileInUse(f)
    PROVE  NamesInv'
<1>1. RowNames /\ RowFiles /\ StreamFiles /\ StreamNames /\ DiskNames
  BY DEF NamesInv
<1>2. /\ rows'[id] = [upload |-> u, file |-> f, status |-> "pending"]
      /\ \A i \in Ids \ {id} : rows'[i] = rows[i]
  BY DEF TypeInv, TypeOK
<1>3. \A g : Known(g) => Known(g)'
  BY UploadsAssumption DEF Known, TypeInv, TypeOK
<1>4. \A i \in Ids \ {id} : rows'[i].file # f
  BY <1>2 DEF FileInUse
<1>5. RowNames' /\ RowFiles'
  BY <1>1, <1>2, <1>3, <1>4 DEF RowNames, RowFiles, Exists
<1>6. StreamFiles'
  BY <1>1, <1>3 DEF StreamFiles
<1>7. StreamNames'
  BY <1>1, <1>2 DEF StreamNames, FileInUse
<1>8. DiskNames'
  BY <1>1, <1>3 DEF DiskNames
<1> QED
  BY <1>5, <1>6, <1>7, <1>8 DEF NamesInv

LEMMA NamesAdds ==
    ASSUME TypeInv, TypeInv', NamesInv, AddNetboot \/ \E s \in streams : UploadCommit(s)
    PROVE  NamesInv'
<1> SUFFICES ASSUME overtaken = {} PROVE NamesInv'
  BY DEF AddNetboot, UploadCommit, NoteReuse, NamesInv
<1>1. RowNames /\ RowFiles /\ StreamFiles /\ StreamNames /\ DiskNames
  BY DEF NamesInv
<1>2. CASE \E s \in streams : UploadCommit(s)
  <2> PICK s \in streams : UploadCommit(s)
    BY <1>2
  <2>1. s.upload \in Uploads /\ s.file \in Names
    BY DEF TypeInv, TypeOK
  <2>2. PICK u \in Uploads, f \in Names : u = s.upload /\ f = s.file
    BY <2>1
  <2>3. PICK id \in Ids :
           /\ IsNewId(id)
           /\ rows' = [rows EXCEPT ![id] = [upload |-> u, file |-> f, status |-> "pending"]]
    BY <2>2 DEF UploadCommit
  <2>4. ~Exists(id)
    BY <2>3 DEF IsNewId, Ids
  <2>5. iso' = iso /\ born' = born /\ streams' = streams \ {s} /\ born \in Nat
    BY UploadsAssumption DEF UploadCommit, TypeInv, TypeOK
  <2>6. iso[f] = u /\ Known(f)' /\ ~FileInUse(f)
    BY <1>1, <2>2, <2>5 DEF StreamFiles, StreamNames, Known
  <2>7. streams' \subseteq streams /\ \A r \in streams' : r.file # f
    BY <1>1, <2>2, <2>5 DEF StreamNames
  <2>8. born' \in Nat /\ born' >= born
    BY <2>5
  <2> QED
    BY <2>3, <2>4, <2>5, <2>6, <2>7, <2>8, NamesNew
<1>3. CASE AddNetboot
  <2>1. PICK u : u = born + 1
    OBVIOUS
  <2>2. PICK id \in Ids :
           /\ IsNewId(id) /\ born < MaxUploads
           /\ rows' = [rows EXCEPT ![id] = [upload |-> u, file |-> u, status |-> "pending"]]
    BY <1>3, <2>1 DEF AddNetboot
  <2>3. ~Exists(id)
    BY <2>2 DEF IsNewId, Ids
  <2>4. /\ u \in Uploads /\ u \in Names /\ u \in Nat /\ born' = u /\ born \in Nat
        /\ iso' = iso /\ streams' = streams
    BY <1>3, <2>1, <2>2, UploadsAssumption DEF AddNetboot, TypeInv, TypeOK, Uploads, Names
  <2>5. u \notin IsoNames
    BY <2>4, NamesAssumption
  <2>6. ~Known(u) /\ Known(u)'
    BY <2>1, <2>4, <2>5 DEF Known
  <2>7. ~FileInUse(u) /\ \A s \in streams' : s.file # u
    <3>1. \A i \in Ids : ~Exists(i) => rows[i].file # u
      BY RowKinds, <2>1, <2>4 DEF NoRow, NoName
    <3> QED
      BY <1>1, <2>4, <2>6, <3>1 DEF FileInUse, RowFiles, StreamFiles
  <2>8. iso[u] \in {NoUpload, u}
    BY <1>1, <2>4, <2>6 DEF DiskNames
  <2>9. born' \in Nat /\ born' >= born /\ streams' \subseteq streams
    BY <2>1, <2>4
  <2> QED
    BY <2>2, <2>3, <2>4, <2>6, <2>7, <2>8, <2>9, NamesNew
<1> QED
  BY <1>2, <1>3

\* What a thread holds is in the table, as long as nobody removed it under the thread.
LEMMA Holder ==
    ASSUME RunInv, HandsInv, NEW t \in Threads, act[t].pc \in InHand \ {"rmmenu"},
           act[t].id \notin overtaken
    PROVE  /\ act[t].id \in Ids /\ Has(t) /\ rows[act[t].id] \in Row
           /\ act[t].file \in Names /\ act[t].upload \in Uploads
<1>1. act[t].id \in Ids
  BY DEF InHand, RunInv, TypeInv, ActsHaveIds
<1>2. Has(t)
  BY DEF HandsInv, ShapeInv, AttachInv, AttachOf, Attached
<1>3. rows[act[t].id] \in Row
  BY <1>1, <1>2, RowKinds DEF RunInv, Has
<1> QED
  BY <1>1, <1>2, <1>3 DEF Has, Row

\* Apart from adding an image and from a start of the process, rows change their image
\* only in RemoveRow.
LEMMA RowsStay ==
    ASSUME TypeInv, NEW t \in Threads,
           Build(t) \/ Remove(t) \/ Request(t) \/ \E id \in Ids : Begin(t, id)
    PROVE  SameRows \/ Dropped(t)
<1>1. ThreadStep(t)
  BY KindOfRun, KindOfRequest DEF ThreadStep
<1> QED
  BY <1>1 DEF ThreadStep, Begun, Asked, Loaded, Went, Left, Finished, Done, Stop, Removal, Wiped

LEMMA NamesThreads ==
    ASSUME RunInv, RunInv', HandsInv, NamesInv, overtaken = {}, NEW t \in Threads,
           Build(t) \/ Remove(t) \/ Request(t) \/ \E id \in Ids : Begin(t, id)
    PROVE  NamesInv'
<1>0. TypeInv /\ TypeInv'
  BY DEF RunInv
<1>1. streams' = streams /\ born' = born
  BY DEF Build, Load, Claim, Cancel, Read, Extract, Unpack, CommitReady, Fail, Raise, Except,
         RenderRun, End, Finish, Sweep, CommitStatus, Remove, RemoveFiles, RemoveRow, RemoveMenu,
         Request, RetryLoad, DeleteLoad, RetryCommit, DeleteCheck, Begin
<1>2. CASE Dropped(t) /\ iso' = iso
  <2>1. \A id \in Ids : SameRow(id) \/ rows'[id].status = "absent"
    BY <1>2 DEF Dropped
  <2> QED
    BY <1>0, <1>1, <1>2, <2>1, NamesGone
<1>3. CASE SameRows /\ iso' = iso
  BY <1>0, <1>1, <1>3, NamesAlike
<1>4. CASE Read(t) \/ Unpack(t) \/ RemoveFiles(t)
  <2>1. act[t].pc \in InHand \ {"rmmenu"}
    BY <1>4 DEF Read, Unpack, RemoveFiles, InHand, Pcs, RunPcs, RemovePcs
  <2>2. act[t].id \in Ids /\ Has(t)
    BY <2>1, Holder
  <2>3. \A f \in Names : iso'[f] = iso[f]
                         \/ (f = act[t].file /\ iso'[f] \in {NoUpload, act[t].upload})
    BY <1>0, <1>4 DEF Read, Unpack, RemoveFiles, TypeInv, TypeOK
  <2>4. \A f \in Names : \/ iso'[f] = iso[f]
                         \/ \E i \in Ids : /\ Exists(i) /\ rows[i].file = f
                                           /\ iso'[f] \in {NoUpload, rows[i].upload}
    BY <2>2, <2>3 DEF Has
  <2>5. ~Dropped(t)
    BY <1>4 DEF Read, Unpack, RemoveFiles, Dropped
  <2>6. SameRows
    BY <1>0, <1>4, <2>5, RowsStay DEF Build, Remove
  <2> QED
    BY <1>0, <1>1, <2>4, <2>6, NamesAlike
<1>5. CASE Sweep(t)
  <2>1. act[t].file # NoName => Has(t)
    BY <1>5 DEF Sweep, HandsInv, AttachInv, AttachOf, Attached
  <2>2. act[t].file # NoName => FileInUse(act[t].file)
    BY <1>0, <1>5, <2>1 DEF Sweep, Has, FileInUse, TypeInv, ActsHaveIds
  <2>3. iso' = iso
    BY <1>5, <2>2 DEF Sweep
  <2>4. SameRows
    BY <1>5 DEF Sweep, SameRows, SameRow
  <2> QED
    BY <1>3, <2>3, <2>4
<1>6. iso' = iso \/ Read(t) \/ Unpack(t) \/ RemoveFiles(t) \/ Sweep(t)
  BY DEF Build, Load, Claim, Cancel, Extract, CommitReady, Fail, Raise, Except,
         RenderRun, End, Finish, CommitStatus, Remove, RemoveRow, RemoveMenu,
         Request, RetryLoad, DeleteLoad, RetryCommit, DeleteCheck, Begin
<1> QED
  BY <1>0, <1>2, <1>3, <1>4, <1>5, <1>6, RowsStay

\* After a start of the process: images deleted before it are gone, the others as
\* they were, but for their status.
LEMMA RestartRows ==
    ASSUME TypeInv, Restart
    PROVE  /\ \A id \in Ids : IF rows[id].status = "deleting" THEN rows'[id] = NoRow ELSE SameRow(id)
           /\ \A f \in Names : iso'[f] = iso[f] \/ iso'[f] = NoUpload
           /\ \A f \in Names : iso'[f] # NoUpload
                  => \A id \in Ids : rows[id].file = f => rows[id].status # "deleting"
           /\ \A id \in Ids : derived'[id] \in {derived[id], NoFiles}
           /\ \A id \in Ids : rows[id].status = "deleting" => derived'[id] = NoFiles
           /\ \A id \in Ids : rows'[id].status = "ready" =>
                  /\ rows[id].status = "ready" /\ rows'[id] = rows[id]
                  /\ derived'[id] = derived[id] /\ derived[id] # NoFiles
<1>1. PICK volumes \in {"kept", "destroyed"},
           looksMissing \in SUBSET {id \in MenuOf(rows) : ~derived[id].whole} :
      LET gone == {id \in Ids : rows[id].status = "deleting"}
          kept == [id \in Ids |-> IF volumes = "destroyed" \/ id \in gone THEN NoFiles
                                  ELSE derived[id]]
          table == [id \in Ids |-> ReconciledRow(id, kept, looksMissing)]
      IN /\ rows' = table
         /\ derived' = kept
         /\ iso' = [f \in Names |-> IF \E id \in gone : rows[id].file = f
                                    THEN NoUpload ELSE iso[f]]
  BY DEF Restart
<1>2. PICK kept : kept = derived'
  OBVIOUS
<1>3. \A id \in Ids : rows'[id] = ReconciledRow(id, kept, looksMissing)
  BY <1>1, <1>2
<1>4. \A id \in Ids : kept[id] = IF volumes = "destroyed" \/ rows[id].status = "deleting"
                                 THEN NoFiles ELSE derived[id]
  BY <1>1, <1>2
<1>5. ASSUME NEW id \in Ids
      PROVE  /\ IF rows[id].status = "deleting" THEN rows'[id] = NoRow ELSE SameRow(id)
             /\ rows'[id].status = "ready" =>
                  /\ rows[id].status = "ready" /\ rows'[id] = rows[id] /\ kept[id] # NoFiles
  <2>1. CASE rows[id].status = "deleting"
    <3>1. rows'[id] = NoRow
      BY <1>3, <2>1 DEF ReconciledRow, IN_FLIGHT
    <3>2. NoRow.status = "absent"
      BY DEF NoRow
    <3> QED
      BY <2>1, <3>1, <3>2
  <2>2. CASE rows[id].status \in IN_FLIGHT \/ (rows[id].status = "ready"
                                                /\ (kept[id] = NoFiles \/ id \in looksMissing))
    <3>1. rows'[id] = [rows[id] EXCEPT !.status = "needs_reprocess"]
      BY <1>3, <2>2 DEF ReconciledRow, IN_FLIGHT
    <3>2. rows[id] \in Row
      BY <2>2, RowKinds DEF Exists, IN_FLIGHT
    <3> QED
      BY <2>2, <3>1, <3>2 DEF Row, SameRow, IN_FLIGHT
  <2>3. CASE ~(rows[id].status = "deleting" \/ rows[id].status \in IN_FLIGHT
               \/ (rows[id].status = "ready" /\ (kept[id] = NoFiles \/ id \in looksMissing)))
    <3>1. rows'[id] = rows[id]
      BY <1>3, <2>3 DEF ReconciledRow
    <3> QED
      BY <2>3, <3>1 DEF SameRow
  <2> QED
    BY <2>1, <2>2, <2>3
<1>6. /\ \A f \in Names : iso'[f] = iso[f] \/ iso'[f] = NoUpload
      /\ \A f \in Names : iso'[f] # NoUpload
             => \A id \in Ids : rows[id].file = f => rows[id].status # "deleting"
  BY <1>1
<1> QED
  BY <1>2, <1>4, <1>5, <1>6

LEMMA NamesStep ==
    ASSUME RunInv, RunInv', HandsInv, NamesInv, [Next]_vars
    PROVE  NamesInv'
<1>0. TypeInv /\ TypeInv'
  BY DEF RunInv
<1> SUFFICES ASSUME overtaken = {} PROVE NamesInv'
  BY <1>0, OvertakenGrows DEF NamesInv
<1>1. CASE \E f \in Names : UploadOpen(f)
  BY <1>0, <1>1, NamesOpen
<1>2. CASE AddNetboot \/ \E s \in streams : UploadCommit(s)
  BY <1>0, <1>2, NamesAdds
<1>3. CASE \/ \E id \in Ids : \E t \in Threads : Begin(t, id)
           \/ \E t \in Threads : Build(t) \/ Remove(t) \/ Request(t)
  BY <1>3, NamesThreads
<1>4. CASE (\E id \in Ids : Drop(id)) \/ UNCHANGED vars
  <2>1. UNCHANGED << rows, iso, streams, born >>
    BY <1>4 DEF Drop, vars
  <2> QED
    BY <1>0, <2>1, NamesAlike DEF SameRows, SameRow
<1>5. CASE Restart
  <2>1. \A id \in Ids : SameRow(id) \/ rows'[id].status = "absent"
    BY <1>0, <1>5, RestartRows DEF NoRow
  <2>2. \A f \in Names : iso'[f] = iso[f] \/ iso'[f] = NoUpload
    BY <1>0, <1>5, RestartRows
  <2>3. streams' = {} /\ born' = born
    BY <1>5 DEF Restart
  <2> QED
    BY <1>0, <2>1, <2>2, <2>3, NamesGone
<1> QED
  BY <1>1, <1>2, <1>3, <1>4, <1>5 DEF Next

LEMMA NamesMean == TypeInv /\ NamesInv => NamesAreUnique
<1> SUFFICES ASSUME TypeInv, NamesInv PROVE NamesAreUnique
  OBVIOUS
<1> QED
  BY DEF NamesInv, RowNames, StreamNames, NamesAreUnique

LEMMA NamesInit == Init => NamesInv
BY DEF Init, NamesInv, RowNames, RowFiles, StreamFiles, StreamNames, DiskNames, Exists, NoRow

LEMMA NamesAreKnown == Spec => [](RunInv /\ HandsInv /\ NamesInv)
<1>1. RunInv /\ HandsInv /\ NamesInv /\ [Next]_vars => (RunInv /\ HandsInv /\ NamesInv)'
  BY RunStep, HandsStep, NamesStep
<1>2. Init => RunInv /\ HandsInv /\ NamesInv
  BY TypeInit, OneRunInit, HandsInit, NamesInit DEF RunInv
<1> QED
  BY <1>1, <1>2, PTL DEF Spec

\* No two images, and no image and an upload, share a source file, although the name is
\* chosen gigabytes before the row is committed: for any uploads, removals and restarts
\* that do not take an image away under another thread.
THEOREM NamesStayUnique == Spec => []NamesAreUnique
<1>1. RunInv /\ HandsInv /\ NamesInv => NamesAreUnique
  BY NamesMean DEF RunInv
<1> QED
  BY <1>1, NamesAreKnown, PTL

--------------------------------------------------------------------------------
(* What the steps of a thread do to the folders.                                *)

NoneReady  == \A id \in Ids : rows'[id].status = "ready" => rows[id].status = "ready"
OnlyAt(i)  == \A j \in Ids \ {i} : derived'[j] = derived[j]
Filling    == {"claim", "read", "extract", "unpack", "commit"}

\* The folders are left alone; a build that goes on does so on an image not ready.
Plain(t)   == /\ derived' = derived /\ NoneReady
              /\ act'[t].pc \notin {"unpack", "commit", "rmrow"}
              /\ act'[t].pc \in Filling =>
                     \/ act[t].pc \in Filling /\ act'[t].id = act[t].id
                     \/ rows'[act'[t].id].status # "ready"
              /\ act[t].pc = "rmrow" => rows'[act[t].id].status = "absent"
\* The folders of the thread's image are emptied.
Emptied(t) == /\ act[t].id \in Ids /\ derived'[act[t].id] = NoFiles /\ OnlyAt(act[t].id)
              /\ SameRows /\ NoneReady
              /\ act'[t].pc \notin {"unpack", "commit"}
              /\ \/ /\ act[t].pc = "claim" /\ rows'[act[t].id].status = "processing"
                    /\ Passes(t, {"end", "read"})
                 \/ act[t].pc = "sweep" /\ act'[t].pc = "idle"
                 \/ act[t].pc = "rmfiles" /\ Passes(t, {"rmrow"})
\* They are written, from the source the thread holds.
Filled(t)  == /\ act[t].id \in Ids /\ OnlyAt(act[t].id) /\ rows' = rows /\ Source(t) # NoUpload
              /\ \/ /\ act[t].pc = "extract" /\ Passes(t, {"end", "unpack"})
                    /\ derived'[act[t].id] = [from |-> Source(t), whole |-> FALSE]
                 \/ /\ act[t].pc = "unpack" /\ Passes(t, {"commit"})
                    /\ derived'[act[t].id] = [from |-> Source(t),
                                              whole |-> derived[act[t].id].from = Source(t)]
\* The image is declared ready.
Readied(t) == /\ act[t].id \in Ids /\ act[t].pc = "commit" /\ Passes(t, {"render"})
              /\ derived' = derived /\ SameRows
              /\ \A i \in Ids \ {act[t].id} : rows'[i] = rows[i]

DiskStep(t) == Plain(t) \/ Emptied(t) \/ Filled(t) \/ Readied(t)

LEMMA DiskOfRun ==
    ASSUME TypeInv, NEW t \in Threads, Build(t)
    PROVE  DiskStep(t)
<1>0. /\ act[t].pc # "idle" => act[t].id \in Ids
      /\ act[t] \in Act /\ act \in [Threads -> Act]
      /\ derived \in [Ids -> [from : Uploads \cup {NoUpload}, whole : BOOLEAN]]
  BY DEF TypeInv, TypeOK, ActsHaveIds
<1>1. CASE Load(t)
  <2>1. rows' = rows /\ derived' = derived /\ NoneReady /\ act[t].pc = "load"
    BY <1>1 DEF Load, NoneReady
  <2>2. \/ act'[t].pc = "claim" /\ act'[t].id = act[t].id /\ rows[act[t].id].status = "pending"
        \/ act'[t].pc = "end"
    BY <1>0, <1>1 DEF Load, Act
  <2>3. Plain(t)
    BY <2>1, <2>2 DEF Plain, Filling
  <2> QED
    BY <2>3 DEF DiskStep
<1>2. CASE \/ Cancel(t) \/ Read(t) \/ Raise(t) \/ RenderRun(t) \/ End(t) \/ Finish(t)
  <2>1. rows' = rows /\ derived' = derived /\ NoneReady /\ act[t].pc # "rmrow"
    BY <1>2 DEF Cancel, Read, Raise, RenderRun, End, Finish, NoneReady
  <2>2. \/ \E pc \in {"end", "except", "finish", "sweep", "rmfiles"} : Goto(t, pc)
        \/ Return(t)
        \/ act[t].pc = "read" /\ Goto(t, "extract")
    BY <1>2 DEF Cancel, Read, Raise, RenderRun, End, Finish, CheckStop
  <2>3. \/ act'[t].pc \in {"idle", "end", "except", "finish", "sweep", "rmfiles"}
        \/ act[t].pc = "read" /\ act'[t].pc = "extract" /\ act'[t].id = act[t].id
    BY <2>2, GotoPasses, ReturnRests DEF Passes, Rests, Idle
  <2>4. Plain(t)
    BY <2>1, <2>3 DEF Plain, Filling
  <2> QED
    BY <2>4 DEF DiskStep
<1>3. CASE Claim(t)
  <2>1. act[t].pc = "claim" /\ act[t].id \in Ids /\ "processing" \in Status
    BY <1>0, <1>3 DEF Claim, Status, BUSY, IN_FLIGHT
  <2>2. CASE Exists(act[t].id)
    <3>1. Passes(t, {"end", "read"})
      BY <1>3, <2>2, GotoPasses DEF Claim, CheckStop, Passes
    <3>2. SameRows /\ NoneReady /\ rows'[act[t].id].status = "processing"
      BY <1>3, <2>1, <2>2, StatusSet DEF Claim, NoneReady
    <3>3. derived'[act[t].id] = NoFiles /\ OnlyAt(act[t].id)
      BY <1>0, <1>3, <2>1, <2>2 DEF Claim, OnlyAt
    <3>4. Emptied(t)
      BY <2>1, <3>1, <3>2, <3>3 DEF Emptied, Passes
    <3> QED
      BY <3>4 DEF DiskStep
  <2>3. CASE ~Exists(act[t].id)
    <3>1. act'[t].pc = "except" /\ rows' = rows /\ derived' = derived
      BY <1>3, <2>3, GotoPasses DEF Claim, Passes
    <3>2. Plain(t)
      BY <2>1, <3>1 DEF Plain, NoneReady, Filling
    <3> QED
      BY <3>2 DEF DiskStep
  <2> QED
    BY <2>2, <2>3
<1>4. CASE Extract(t)
  <2>1. /\ act[t].pc = "extract" /\ act[t].id \in Ids /\ rows' = rows /\ Source(t) # NoUpload
        /\ derived' = [derived EXCEPT ![act[t].id] = [from |-> Source(t), whole |-> FALSE]]
    BY <1>0, <1>4 DEF Extract
  <2>2. Passes(t, {"end", "unpack"})
    BY <1>4, GotoPasses DEF Extract, CheckStop, Passes
  <2>3. Filled(t)
    BY <1>0, <2>1, <2>2 DEF Filled, OnlyAt
  <2> QED
    BY <2>3 DEF DiskStep
<1>5. CASE Unpack(t)
  <2>1. /\ act[t].pc = "unpack" /\ act[t].id \in Ids /\ rows' = rows /\ Source(t) # NoUpload
        /\ derived' = [derived EXCEPT ![act[t].id] =
                         [from |-> Source(t), whole |-> derived[act[t].id].from = Source(t)]]
    BY <1>0, <1>5 DEF Unpack
  <2>2. Passes(t, {"commit"})
    BY <1>5, GotoPasses DEF Unpack
  <2>3. Filled(t)
    BY <1>0, <2>1, <2>2 DEF Filled, OnlyAt
  <2> QED
    BY <2>3 DEF DiskStep
<1>6. CASE CommitReady(t) \/ Fail(t)
  <2>1. PICK st \in {"ready", "error"}, next \in {"end", "render"} :
             /\ CommitStatus(t, st, next)
             /\ st = "ready" => act[t].pc = "commit" /\ next = "render"
    BY <1>6 DEF CommitReady, Fail
  <2>2. /\ st \in Status /\ act[t].pc \in {"commit", "read", "extract", "unpack"}
        /\ derived' = derived /\ act[t].id \in Ids
    BY <1>0, <1>6, <2>1 DEF CommitReady, Fail, CommitStatus, Status
  <2>3. /\ SameRows
        /\ \A i \in Ids \ {act[t].id} : rows'[i] = rows[i]
        /\ Passes(t, {next, "except"})
        /\ \/ rows' = rows /\ Passes(t, {"except"})
           \/ rows'[act[t].id].status = st /\ Passes(t, {next})
    BY <2>1, <2>2, CommitSet
  <2>4. CASE rows'[act[t].id].status = "ready" /\ rows' # rows
    <3>1. st = "ready" /\ Passes(t, {"render"}) /\ act[t].pc = "commit"
      BY <2>1, <2>3, <2>4
    <3>2. Readied(t)
      BY <2>2, <2>3, <3>1 DEF Readied
    <3> QED
      BY <3>2 DEF DiskStep
  <2>5. CASE ~(rows'[act[t].id].status = "ready" /\ rows' # rows)
    <3>1. NoneReady
      BY <2>3, <2>5 DEF NoneReady
    <3>2. Plain(t)
      BY <2>2, <2>3, <3>1 DEF Plain, Passes, Filling
    <3> QED
      BY <3>2 DEF DiskStep
  <2> QED
    BY <2>4, <2>5
<1>7. CASE Except(t)
  <2>1. act[t].pc = "except" /\ act[t].id \in Ids /\ "error" \in Status /\ derived' = derived
    BY <1>0, <1>7 DEF Except, Status
  <2>2. Passes(t, {"end", "render"})
    BY <1>7, GotoPasses DEF Except, Passes
  <2>3. NoneReady
    BY <1>7, <2>1, StatusSet DEF Except, NoneReady
  <2>4. Plain(t)
    BY <2>1, <2>2, <2>3 DEF Plain, Passes, Filling
  <2> QED
    BY <2>4 DEF DiskStep
<1>8. CASE Sweep(t)
  <2>1. /\ act[t].pc = "sweep" /\ act[t].id \in Ids /\ rows' = rows
        /\ derived' = [derived EXCEPT ![act[t].id] = NoFiles]
    BY <1>0, <1>8 DEF Sweep
  <2>2. act'[t].pc = "idle"
    BY <1>8, ReturnRests DEF Sweep, Rests, Idle
  <2>3. Emptied(t)
    BY <1>0, <2>1, <2>2 DEF Emptied, OnlyAt, SameRows, SameRow, NoneReady
  <2> QED
    BY <2>3 DEF DiskStep
<1> QED
  BY <1>1, <1>2, <1>3, <1>4, <1>5, <1>6, <1>7, <1>8 DEF Build

LEMMA DiskOfRequest ==
    ASSUME TypeInv, NEW t \in Threads,
           Request(t) \/ Remove(t) \/ \E id \in Ids : Begin(t, id)
    PROVE  DiskStep(t)
<1>0. /\ act[t].pc # "idle" => act[t].id \in Ids
      /\ act[t] \in Act /\ act \in [Threads -> Act]
      /\ derived \in [Ids -> [from : Uploads \cup {NoUpload}, whole : BOOLEAN]]
  BY DEF TypeInv, TypeOK, ActsHaveIds
<1>1. CASE \/ \E id \in Ids : RetryLoad(t, id) \/ DeleteLoad(t, id)
           \/ \E id \in Ids : Begin(t, id)
  <2>1. rows' = rows /\ derived' = derived /\ act[t].pc = "idle"
    BY <1>1 DEF RetryLoad, DeleteLoad, Begin
  <2>2. act'[t].pc \in {"retry", "delete", "load"}
    <3>1. ASSUME NEW id \in Ids, RetryLoad(t, id) PROVE act'[t].pc = "retry"
      BY <1>0, <3>1 DEF RetryLoad
    <3>2. ASSUME NEW id \in Ids, DeleteLoad(t, id) PROVE act'[t].pc = "delete"
      BY <1>0, <3>2 DEF DeleteLoad
    <3>3. ASSUME NEW id \in Ids, Begin(t, id) PROVE act'[t].pc = "load"
      BY <1>0, <3>3 DEF Begin, Idle
    <3> QED
      BY <1>1, <3>1, <3>2, <3>3
  <2>3. Plain(t)
    BY <2>1, <2>2 DEF Plain, Filling, NoneReady
  <2> QED
    BY <2>3 DEF DiskStep
<1>2. CASE RetryCommit(t) \/ DeleteCheck(t)
  <2>1. act[t].id \in Ids /\ act[t].pc \in {"retry", "delete"} /\ derived' = derived
    BY <1>0, <1>2 DEF RetryCommit, DeleteCheck
  <2>2. act'[t].pc \in {"idle", "rmfiles"}
    BY <1>2, GotoPasses, ReturnRests DEF RetryCommit, DeleteCheck, Passes, Rests, Idle
  <2>3. \/ rows' = rows
        \/ \E st \in {"pending", "deleting"} : Exists(act[t].id) /\ SetStatus(act[t].id, st)
    BY <1>2 DEF RetryCommit, DeleteCheck
  <2>4. {"pending", "deleting"} \subseteq Status
    BY DEF Status, BUSY, IN_FLIGHT
  <2>5. NoneReady
    BY <2>1, <2>3, <2>4, StatusSet DEF NoneReady
  <2>6. Plain(t)
    BY <2>1, <2>2, <2>5 DEF Plain, Filling
  <2> QED
    BY <2>6 DEF DiskStep
<1>3. CASE RemoveFiles(t)
  <2>1. /\ act[t].pc = "rmfiles" /\ act[t].id \in Ids /\ rows' = rows
        /\ derived' = [derived EXCEPT ![act[t].id] = NoFiles]
    BY <1>0, <1>3 DEF RemoveFiles
  <2>2. Passes(t, {"rmrow"})
    BY <1>3, GotoPasses DEF RemoveFiles
  <2>3. derived'[act[t].id] = NoFiles /\ OnlyAt(act[t].id) /\ SameRows /\ NoneReady
    BY <1>0, <2>1 DEF OnlyAt, SameRows, SameRow, NoneReady
  <2>4. Emptied(t)
    BY <2>1, <2>2, <2>3 DEF Emptied, Passes
  <2> QED
    BY <2>4 DEF DiskStep
<1>4. CASE RemoveRow(t)
  <2>1. act[t].id \in Ids /\ act[t].pc = "rmrow" /\ rows \in [Ids -> Row \cup {NoRow}]
    BY <1>0, <1>4 DEF RemoveRow, TypeInv, TypeOK
  <2>2. /\ rows'[act[t].id].status = "absent" /\ derived' = derived
        /\ \A i \in Ids \ {act[t].id} : rows'[i] = rows[i]
    BY <1>4, <2>1 DEF RemoveRow, NoRow
  <2>3. act'[t].pc = "rmmenu"
    BY <1>4, GotoPasses DEF RemoveRow, Passes
  <2>4. Plain(t)
    BY <2>1, <2>2, <2>3 DEF Plain, Filling, NoneReady
  <2> QED
    BY <2>4 DEF DiskStep
<1>5. CASE RemoveMenu(t)
  <2>1. rows' = rows /\ derived' = derived /\ act[t].pc = "rmmenu" /\ act'[t].pc = "idle"
    BY <1>5, ReturnRests DEF RemoveMenu, Rests, Idle
  <2>2. Plain(t)
    BY <2>1 DEF Plain, Filling, NoneReady
  <2> QED
    BY <2>2 DEF DiskStep
<1> QED
  BY <1>1, <1>2, <1>3, <1>4, <1>5 DEF Request, Remove

\* What a build reads is what its image was uploaded as.
LEMMA SourceIsOwn ==
    ASSUME RunInv, HandsInv, NamesInv, NEW t \in Threads,
           act[t].pc \in {"extract", "unpack"}, Undisturbed(act[t].id), Source(t) # NoUpload
    PROVE  Exists(act[t].id) /\ Source(t) = rows[act[t].id].upload
<1>1. Has(t) /\ act[t].id \in Ids
  BY Holder DEF Undisturbed, InHand, Pcs, RunPcs
<1>2. CASE Uploaded(t)
  <2>1. overtaken = {}
    BY <1>1, <1>2 DEF Undisturbed, Uploaded, Has
  <2> QED
    BY <1>1, <1>2, <2>1 DEF NamesInv, RowFiles, Has, Source
<1>3. CASE ~Uploaded(t)
  BY <1>1, <1>3 DEF Has, Source
<1> QED
  BY <1>2, <1>3

\* The other threads on an image whose folders a thread changes.
LEMMA DiskPeers ==
    ASSUME RunInv, HandsInv, NEW t \in Threads, NEW u \in Threads \ {t},
           act[u].id = act[t].id, act[t].id \notin overtaken
    PROVE  /\ act[u].pc \in Filling => act[t].pc \notin Filling \cup {"sweep", "rmfiles", "rmrow"}
           /\ act[u].pc = "rmrow" => FALSE
BY DEF RunInv, OneRunPerImage, HandsInv, AloneInv, AttachInv, AttachOf, Together, Removing,
       Filling, InRun, RunPcs

LEMMA UndisturbedBefore ==
    ASSUME NEW id \in Ids, SameRow(id), overtaken \subseteq overtaken', Undisturbed(id)'
    PROVE  Undisturbed(id)
BY DEF SameRow, Undisturbed

--------------------------------------------------------------------------------
(* The folders of an image hold its own files, and once its build is over, all. *)

FolderOf(id) == /\ Exists(id) /\ Undisturbed(id) =>
                       derived[id].from \in {NoUpload, rows[id].upload}
                /\ ~Exists(id) /\ id \notin overtaken => derived[id] = NoFiles
\* A row is removed only once the folders are.
Cleared(t)   == act[t].pc = "rmrow" /\ act[t].id \notin overtaken => derived[act[t].id] = NoFiles
FoldersInv   == (\A id \in Ids : FolderOf(id)) /\ \A t \in Threads : Cleared(t)

LEMMA FolderAlike ==
    ASSUME NEW id \in Ids, FolderOf(id), SameRow(id), overtaken \subseteq overtaken',
           derived'[id] = derived[id]
    PROVE  FolderOf(id)'
<1>1. Undisturbed(id)' => Undisturbed(id)
  BY UndisturbedBefore
<1> QED
  BY <1>1 DEF FolderOf, SameRow, Exists

LEMMA FolderEmpty ==
    ASSUME NEW id \in Ids, derived'[id] = NoFiles
    PROVE  FolderOf(id)'
BY DEF FolderOf, NoFiles

\* A step of a thread: in the table, in the folders, in what is removed under whom.
ActStep(t) == Build(t) \/ Remove(t) \/ Request(t) \/ \E id \in Ids : Begin(t, id)

LEMMA ActKinds ==
    ASSUME TypeInv, NEW t \in Threads, ActStep(t)
    PROVE  DiskStep(t) /\ ThreadStep(t) /\ Others(t) /\ (SameRows \/ Dropped(t))
<1>1. DiskStep(t) /\ ThreadStep(t) /\ (SameRows \/ Dropped(t))
  BY KindOfRun, KindOfRequest, DiskOfRun, DiskOfRequest, RowsStay DEF ActStep, ThreadStep
<1>2. Others(t)
  BY <1>1 DEF ThreadStep, Begun, Asked, Loaded, Went, Left, Finished, Done, Stop, Removal, Wiped,
              Dropped, Passes, Rests
<1> QED
  BY <1>1, <1>2

LEMMA FoldersThread ==
    ASSUME RunInv, HandsInv, NamesInv, FoldersInv, NEW t \in Threads, ActStep(t),
           overtaken \subseteq overtaken'
    PROVE  FoldersInv'
<1>1. DiskStep(t) /\ Others(t) /\ (SameRows \/ Dropped(t))
  BY ActKinds DEF RunInv
<1>2. ASSUME NEW id \in Ids PROVE FolderOf(id)'
  <2>0. FolderOf(id)
    BY DEF FoldersInv
  <2>1. CASE SameRow(id) /\ derived'[id] = derived[id]
    BY <2>0, <2>1, FolderAlike
  <2>2. CASE derived'[id] = NoFiles
    BY <2>2, FolderEmpty
  <2>3. CASE Filled(t) /\ act[t].id = id
    <3>1. /\ act[t].pc \in {"extract", "unpack"} /\ derived'[id].from = Source(t)
          /\ Source(t) # NoUpload /\ SameRow(id) /\ rows'[id] = rows[id]
      BY <2>3 DEF Filled, SameRow
    <3>2. Undisturbed(id)' => Exists(id) /\ derived'[id].from = rows'[id].upload
      BY <2>3, <3>1, UndisturbedBefore, SourceIsOwn
    <3>3. id \notin overtaken' => Exists(id)
      BY <2>3, <3>1, Holder DEF Has, InHand, Pcs, RunPcs
    <3> QED
      BY <3>1, <3>2, <3>3 DEF FolderOf, Exists
  <2>4. CASE Dropped(t) /\ act[t].id = id /\ derived'[id] = derived[id]
    <3>1. act[t].pc = "rmrow" /\ rows'[id].status = "absent"
      BY <2>4 DEF Dropped
    <3>2. id \notin overtaken' => derived[id] = NoFiles
      BY <2>4, <3>1 DEF FoldersInv, Cleared
    <3> QED
      BY <2>4, <3>1, <3>2 DEF FolderOf, Exists
  <2>5. CASE Dropped(t) /\ act[t].id # id
    <3>1. SameRow(id)
      BY <2>5 DEF Dropped
    <3>2. Plain(t)
      BY <1>1, <2>5 DEF Dropped, DiskStep, Emptied, Filled, Readied
    <3> QED
      BY <2>1, <3>1, <3>2 DEF Plain
  <2>6. CASE Dropped(t) /\ act[t].id = id
    <3>1. Plain(t)
      BY <1>1, <2>6 DEF Dropped, DiskStep, Emptied, Filled, Readied
    <3> QED
      BY <2>4, <2>6, <3>1 DEF Plain
  <2>7. CASE SameRows
    BY <1>1, <2>1, <2>2, <2>3, <2>7 DEF DiskStep, Plain, Emptied, Filled, Readied, OnlyAt, SameRows
  <2> QED
    BY <1>1, <2>5, <2>6, <2>7
<1>3. ASSUME NEW u \in Threads, act'[u].pc = "rmrow", act'[u].id \notin overtaken'
      PROVE  derived'[act'[u].id] = NoFiles
  <2>1. CASE u = t
    BY <1>1, <1>3, <2>1 DEF DiskStep, Plain, Emptied, Filled, Readied, Passes
  <2>2. CASE u # t
    <3>1. /\ act'[u] = act[u] /\ act[u].pc = "rmrow" /\ act[u].id \notin overtaken
          /\ derived[act[u].id] = NoFiles /\ act[u].id \in Ids
      BY <1>1, <1>3, <2>2 DEF Others, FoldersInv, Cleared, RunInv, TypeInv, ActsHaveIds
    <3>2. act[t].id # act[u].id
      BY <2>2, <3>1, DiskPeers
    <3> QED
      BY <1>1, <3>1, <3>2 DEF DiskStep, Plain, Emptied, Filled, Readied, OnlyAt
  <2> QED
    BY <2>1, <2>2
<1> QED
  BY <1>2, <1>3 DEF FoldersInv, Cleared

\* A new image: the row was empty, and so are the folders.
LEMMA AddRows ==
    ASSUME TypeInv, AddNetboot \/ \E s \in streams : UploadCommit(s)
    PROVE  \E id \in Ids : /\ ~Exists(id) /\ rows'[id].status = "pending"
                           /\ \A i \in Ids \ {id} : rows'[i] = rows[i]
                           /\ derived' = derived /\ act' = act /\ overtaken' = overtaken
<1>1. PICK id \in Ids :
          /\ IsNewId(id) /\ derived' = derived /\ act' = act /\ NoteReuse(id)
          /\ \E u, f : rows' = [rows EXCEPT ![id] =
                                  [upload |-> u, file |-> f, status |-> "pending"]]
  BY DEF UploadCommit, AddNetboot
<1>2. ~Exists(id)
  BY <1>1 DEF IsNewId, Ids
<1>3. rows'[id].status = "pending" /\ \A i \in Ids \ {id} : rows'[i] = rows[i]
  BY <1>1 DEF TypeInv, TypeOK
<1> QED
  BY <1>1, <1>2, <1>3 DEF NoteReuse

LEMMA FoldersStep ==
    ASSUME RunInv, HandsInv, NamesInv, FoldersInv, [Next]_vars
    PROVE  FoldersInv'
<1>0. TypeInv /\ overtaken \subseteq overtaken'
  BY OvertakenGrows DEF RunInv
<1>1. CASE AddNetboot \/ \E s \in streams : UploadCommit(s)
  <2>1. PICK id \in Ids : /\ ~Exists(id) /\ rows'[id].status = "pending"
                          /\ \A i \in Ids \ {id} : rows'[i] = rows[i]
                          /\ derived' = derived /\ act' = act /\ overtaken' = overtaken
    BY <1>0, <1>1, AddRows
  <2>2. ASSUME NEW i \in Ids \ {id} PROVE FolderOf(i)'
    BY <1>0, <2>1, <2>2, FolderAlike DEF FoldersInv, SameRow
  <2>3. FolderOf(id)'
    BY <2>1 DEF FoldersInv, FolderOf, Undisturbed, NoFiles, Exists
  <2>4. \A t \in Threads : Cleared(t)'
    BY <2>1 DEF FoldersInv, Cleared
  <2> QED
    BY <2>2, <2>3, <2>4 DEF FoldersInv
<1>2. CASE \E t \in Threads : ActStep(t)
  BY <1>0, <1>2, FoldersThread
<1>3. CASE (\E f \in Names : UploadOpen(f)) \/ (\E id \in Ids : Drop(id)) \/ UNCHANGED vars
  <2>1. UNCHANGED << rows, derived, act, overtaken >>
    BY <1>3 DEF UploadOpen, Drop, vars, history
  <2> QED
    BY <2>1 DEF FoldersInv, FolderOf, Cleared, Undisturbed, Exists
<1>4. CASE Restart
  <2>1. ASSUME NEW id \in Ids PROVE FolderOf(id)'
    <3>1. CASE derived'[id] = NoFiles
      BY <3>1, FolderEmpty
    <3>2. CASE derived'[id] # NoFiles
      <4>1. SameRow(id) /\ derived'[id] = derived[id]
        BY <1>0, <1>4, <3>2, RestartRows
      <4> QED
        BY <1>0, <4>1, FolderAlike DEF FoldersInv
    <3> QED
      BY <3>1, <3>2
  <2>2. \A t \in Threads : act'[t] = Idle
    BY <1>4 DEF Restart
  <2> QED
    BY <2>1, <2>2 DEF FoldersInv, Cleared, Idle
<1> QED
  BY <1>1, <1>2, <1>3, <1>4 DEF Next, ActStep

LEMMA FoldersInit == Init => FoldersInv
BY DEF Init, FoldersInv, FolderOf, Cleared, Idle, NoFiles

\* An image whose id was another's finds nothing of that one in its folders, however
\* the removal of the old one, its build and the new upload overlap.
THEOREM FoldersStayItsOwn == Spec => []FoldersAreItsOwn
<1>1. RunInv /\ HandsInv /\ NamesInv /\ FoldersInv /\ [Next]_vars => FoldersInv'
  BY FoldersStep
<1>2. FoldersInv => FoldersAreItsOwn
  BY DEF FoldersInv, FolderOf, FoldersAreItsOwn
<1> QED
  BY <1>1, <1>2, FoldersInit, NamesAreKnown, PTL DEF Spec

Made(id)      == derived[id] = [from |-> rows[id].upload, whole |-> TRUE]
BeingGone(id) == \E t \in Threads : act[t].pc = "rmrow" /\ act[t].id = id
ReadyOf(id)   == rows[id].status = "ready" /\ Undisturbed(id) => Made(id) \/ BeingGone(id)
\* What a build has written by the time it gets there, on an image that is not ready.
WorkOf(t, id) == act[t].id = id =>
    /\ act[t].pc \in Filling /\ id \notin overtaken => rows[id].status # "ready"
    /\ act[t].pc = "unpack" /\ Undisturbed(id) => derived[id].from = rows[id].upload
    /\ act[t].pc = "commit" /\ Undisturbed(id) => Made(id)
ReadyInv      == \A id \in Ids : ReadyOf(id) /\ \A t \in Threads : WorkOf(t, id)

LEMMA ReadyImage ==
    ASSUME RunInv, HandsInv, ReadyInv, NEW t \in Threads, ActStep(t),
           overtaken \subseteq overtaken', NEW id \in Ids
    PROVE  ReadyOf(id)'
<1>0. DiskStep(t) /\ Others(t) /\ (SameRows \/ Dropped(t)) /\ ReadyOf(id) /\ WorkOf(t, id)
  BY ActKinds DEF RunInv, ReadyInv
<1> SUFFICES ASSUME rows'[id].status = "ready", Undisturbed(id)'
             PROVE  Made(id)' \/ BeingGone(id)'
  BY DEF ReadyOf
<1>1. SameRow(id)
  BY <1>0 DEF Dropped, SameRows
<1>2. Undisturbed(id) /\ id \notin overtaken
  BY <1>1, UndisturbedBefore DEF Undisturbed
<1>3. CASE Readied(t) /\ act[t].id = id
  <2>1. Made(id)
    BY <1>0, <1>2, <1>3 DEF WorkOf, Readied
  <2> QED
    BY <1>1, <1>3, <2>1 DEF Readied, Made, SameRow
<1>4. CASE ~(Readied(t) /\ act[t].id = id)
  <2>1. rows[id].status = "ready"
    BY <1>0, <1>4 DEF DiskStep, Plain, Emptied, Filled, Readied, NoneReady
  <2>2. CASE BeingGone(id)
    <3>1. PICK u \in Threads : act[u].pc = "rmrow" /\ act[u].id = id
      BY <2>2 DEF BeingGone
    <3>2. u # t
      BY <1>0, <3>1 DEF DiskStep, Plain, Emptied, Filled, Readied
    <3> QED
      BY <1>0, <3>1, <3>2 DEF Others, BeingGone
  <2>3. CASE Made(id)
    <3>1. CASE derived'[id] = derived[id]
      BY <1>1, <2>3, <3>1 DEF Made, SameRow
    <3>2. CASE derived'[id] # derived[id]
      <4>1. act[t].id = id /\ (Emptied(t) \/ Filled(t))
        BY <1>0, <3>2 DEF DiskStep, Plain, Emptied, Filled, Readied, OnlyAt
      <4>2. ~Filled(t)
        BY <1>0, <1>2, <2>1, <4>1 DEF WorkOf, Filled, Filling
      <4>3. act[t].pc # "sweep"
        BY <1>2, <4>1 DEF HandsInv, AttachInv, AttachOf
      <4>4. act[t].pc = "rmfiles" /\ Passes(t, {"rmrow"})
        BY <4>1, <4>2, <4>3 DEF Emptied
      <4> QED
        BY <4>1, <4>4 DEF Passes, BeingGone
    <3> QED
      BY <3>1, <3>2
  <2> QED
    BY <1>0, <1>2, <2>1, <2>2, <2>3 DEF ReadyOf
<1> QED
  BY <1>3, <1>4

LEMMA ReadyWork ==
    ASSUME RunInv, HandsInv, NamesInv, ReadyInv, NEW t \in Threads, ActStep(t),
           overtaken \subseteq overtaken', NEW id \in Ids, NEW u \in Threads
    PROVE  WorkOf(u, id)'
<1>0. /\ DiskStep(t) /\ Others(t) /\ (SameRows \/ Dropped(t))
      /\ WorkOf(t, id) /\ WorkOf(u, id)
  BY ActKinds DEF RunInv, ReadyInv
<1> SUFFICES ASSUME act'[u].id = id, act'[u].pc \in Filling, id \notin overtaken'
             PROVE  WorkOf(u, id)'
  BY DEF WorkOf, Undisturbed, Filling
<1>1. id \notin overtaken
  OBVIOUS
<1>2. CASE u # t
  <2>1. act'[u] = act[u] /\ act[u].id = id
    BY <1>0, <1>2 DEF Others
  <2>2. act[t].id = id => act[t].pc \notin Filling \cup {"sweep", "rmfiles", "rmrow"}
    BY <1>1, <1>2, <2>1, DiskPeers
  <2>3. SameRow(id)
    BY <1>0, <2>2 DEF Dropped, SameRows
  <2>4. derived'[id] = derived[id]
    BY <1>0, <2>2 DEF DiskStep, Plain, Emptied, Filled, Readied, OnlyAt, Filling
  <2>5. rows'[id].status = "ready" => rows[id].status = "ready"
    BY <1>0, <2>2 DEF DiskStep, Plain, Emptied, Filled, Readied, NoneReady, Filling
  <2>6. Undisturbed(id)' => Undisturbed(id)
    BY <2>3, UndisturbedBefore
  <2> QED
    BY <1>0, <1>1, <2>1, <2>3, <2>4, <2>5, <2>6 DEF WorkOf, Made, SameRow
<1>3. CASE u = t
  <2>1. CASE Plain(t)
    <3>1. rows'[id].status # "ready"
      BY <1>0, <1>1, <1>3, <2>1 DEF Plain, WorkOf, NoneReady
    <3> QED
      BY <1>3, <2>1, <3>1 DEF Plain, WorkOf
  <2>2. CASE Emptied(t)
    BY <1>3, <2>2 DEF Emptied, WorkOf, Passes, Filling
  <2>3. CASE Readied(t)
    BY <1>3, <2>3 DEF Readied, Passes, Filling
  <2>4. CASE Filled(t)
    <3>1. act[t].id = id /\ act[t].pc \in {"extract", "unpack"} /\ rows' = rows
      BY <1>3, <2>4 DEF Filled, Passes
    <3>2. rows'[id].status # "ready"
      BY <1>0, <1>1, <3>1 DEF WorkOf, Filling
    <3>3. Undisturbed(id)' => Undisturbed(id) /\ Source(t) = rows[id].upload
      BY <2>4, <3>1, UndisturbedBefore, SourceIsOwn DEF SameRow, Filled
    <3>4. act'[u].pc = "unpack" /\ Undisturbed(id)' => derived'[id].from = rows'[id].upload
      BY <1>3, <2>4, <3>1, <3>3 DEF Filled, Passes
    <3>5. act'[u].pc = "commit" /\ Undisturbed(id)' => Made(id)'
      BY <1>0, <1>3, <2>4, <3>1, <3>3 DEF Filled, Passes, WorkOf, Made
    <3> QED
      BY <3>2, <3>4, <3>5 DEF WorkOf
  <2> QED
    BY <1>0, <2>1, <2>2, <2>3, <2>4 DEF DiskStep
<1> QED
  BY <1>2, <1>3

LEMMA ReadyStep ==
    ASSUME RunInv, HandsInv, NamesInv, FoldersInv, ReadyInv, [Next]_vars
    PROVE  ReadyInv'
<1>0. TypeInv /\ overtaken \subseteq overtaken'
  BY OvertakenGrows DEF RunInv
<1>1. CASE AddNetboot \/ \E s \in streams : UploadCommit(s)
  <2>1. PICK n \in Ids : /\ ~Exists(n) /\ rows'[n].status = "pending"
                         /\ \A i \in Ids \ {n} : rows'[i] = rows[i]
                         /\ derived' = derived /\ act' = act /\ overtaken' = overtaken
    BY <1>0, <1>1, AddRows
  <2>2. ASSUME NEW id \in Ids \ {n}, NEW t \in Threads PROVE ReadyOf(id)' /\ WorkOf(t, id)'
    <3>1. ReadyOf(id) /\ WorkOf(t, id) /\ rows'[id] = rows[id]
      BY <2>1, <2>2 DEF ReadyInv
    <3> QED
      BY <2>1, <3>1 DEF ReadyOf, WorkOf, Made, BeingGone, Undisturbed
  <2>3. ReadyOf(n)'
    BY <2>1 DEF ReadyOf
  <2>4. ASSUME NEW t \in Threads PROVE WorkOf(t, n)'
    <3>1. act[t].id = n /\ act[t].pc \in Filling => n \in overtaken
      BY <2>1, Holder DEF Filling, InHand, Pcs, RunPcs, Has
    <3> QED
      BY <2>1, <3>1 DEF WorkOf, Undisturbed, Filling
  <2>5. \A id \in Ids \ {n} : ReadyOf(id)'
    <3> TAKE id \in Ids \ {n}
    <3>1. ReadyOf(id) /\ rows'[id] = rows[id]
      BY <2>1 DEF ReadyInv
    <3> QED
      BY <2>1, <3>1 DEF ReadyOf, Made, BeingGone, Undisturbed
  <2> QED
    BY <2>2, <2>3, <2>4, <2>5 DEF ReadyInv
<1>2. CASE \E t \in Threads : ActStep(t)
  BY <1>0, <1>2, ReadyImage, ReadyWork DEF ReadyInv
<1>3. CASE (\E f \in Names : UploadOpen(f)) \/ (\E id \in Ids : Drop(id)) \/ UNCHANGED vars
  <2>1. UNCHANGED << rows, derived, act, overtaken >>
    BY <1>3 DEF UploadOpen, Drop, vars, history
  <2> QED
    BY <2>1 DEF ReadyInv, ReadyOf, WorkOf, Made, BeingGone, Undisturbed
<1>4. CASE Restart
  <2>1. (\A t \in Threads : act'[t] = Idle) /\ overtaken' = overtaken
    BY <1>4 DEF Restart
  <2>2. ASSUME NEW id \in Ids, rows'[id].status = "ready", Undisturbed(id)' PROVE Made(id)'
    <3>1. /\ rows[id].status = "ready" /\ rows'[id] = rows[id]
          /\ derived'[id] = derived[id] /\ derived[id] # NoFiles
      BY <1>0, <1>4, <2>2, RestartRows
    <3>2. Undisturbed(id) /\ id \notin overtaken
      BY <2>1, <2>2, <3>1 DEF Undisturbed
    <3>3. ~BeingGone(id)
      BY <3>1, <3>2 DEF BeingGone, FoldersInv, Cleared
    <3>4. Made(id)
      BY <3>1, <3>2, <3>3 DEF ReadyInv, ReadyOf
    <3> QED
      BY <3>1, <3>4 DEF Made
  <2> QED
    BY <2>1, <2>2 DEF ReadyInv, ReadyOf, WorkOf, Idle, Filling
<1> QED
  BY <1>1, <1>2, <1>3, <1>4 DEF Next, ActStep

LEMMA ReadyInit == Init => ReadyInv
BY DEF Init, ReadyInv, ReadyOf, WorkOf, Idle, NoRow, Filling

\* An image that says "ready" has all its files, made from its own upload: no other
\* build, removal, Reprocess or restart leaves it with less.
THEOREM ReadyMeansBuilt == Spec => []ReadyIsBuilt
<1>1. /\ Init => FoldersInv /\ ReadyInv
      /\ RunInv /\ HandsInv /\ NamesInv /\ FoldersInv /\ ReadyInv /\ [Next]_vars
            => FoldersInv' /\ ReadyInv'
  BY FoldersInit, FoldersStep, ReadyInit, ReadyStep
<1>2. ReadyInv => ReadyIsBuilt
  BY DEF ReadyInv, ReadyOf, Made, BeingGone, ReadyIsBuilt
<1> QED
  BY <1>1, <1>2, NamesAreKnown, PTL DEF Spec

--------------------------------------------------------------------------------
(* Which image an upload became.  Unlike names and ids, uploads are not reused:  *)
(* this holds whatever was raced.                                               *)

\* A name nobody chose is the upload's own.
OwnName(u, f) == f \in IsoNames \/ f = u

RowUploads    == /\ \A i \in Ids : Exists(i) => /\ rows[i].upload \in 1..born
                                               /\ OwnName(rows[i].upload, rows[i].file)
                 /\ \A i, j \in Ids : Exists(i) /\ rows[i].upload = rows[j].upload => i = j
StreamUploads == /\ \A s \in streams : /\ s.upload \in 1..born /\ OwnName(s.upload, s.file)
                                       /\ \A i \in Ids : rows[i].upload # s.upload
                 /\ \A r, s \in streams : r.upload = s.upload => r = s
HandUpload(t) == act[t].file # NoName =>
                     /\ act[t].upload \in 1..born /\ OwnName(act[t].upload, act[t].file)
                     /\ \A s \in streams : s.upload # act[t].upload
                     /\ \A i \in Ids : rows[i].upload = act[t].upload => i = act[t].id
UploadsInv    == RowUploads /\ StreamUploads /\ \A t \in Threads : HandUpload(t)

\* Rows that are there hold what they did, or are gone.
RowsOnlyGo    == \A i \in Ids : SameRow(i) \/ rows'[i] = NoRow

LEMMA UploadsAlike ==
    ASSUME TypeInv, UploadsInv, RowsOnlyGo, streams' \subseteq streams, born' = born,
           \A t \in Threads :
               \/ act'[t].file = NoName
               \/ /\ act'[t].file = act[t].file /\ act'[t].upload = act[t].upload
                  /\ act'[t].id = act[t].id
               \/ /\ act'[t].id \in Ids /\ Exists(act'[t].id)
                  /\ act'[t].upload = rows[act'[t].id].upload
                  /\ act'[t].file = rows[act'[t].id].file
    PROVE  UploadsInv'
<1>1. /\ \A i \in Ids : rows'[i].upload \in {rows[i].upload, NoUpload}
      /\ \A i \in Ids : rows'[i].status # "absent" =>
             Exists(i) /\ rows'[i].upload = rows[i].upload /\ rows'[i].file = rows[i].file
  BY DEF RowsOnlyGo, SameRow, NoRow, Exists
<1>2. NoUpload \notin 1..born
  BY UploadsAssumption DEF NoUpload, TypeInv, TypeOK
<1>3. RowUploads'
  BY <1>1, <1>2 DEF UploadsInv, RowUploads, OwnName, Exists
<1>4. StreamUploads'
  BY <1>1, <1>2 DEF UploadsInv, StreamUploads, OwnName
<1>5. ASSUME NEW t \in Threads PROVE HandUpload(t)'
  <2>1. CASE act'[t].file = NoName
    BY <2>1 DEF HandUpload
  <2>2. CASE /\ act'[t].file = act[t].file /\ act'[t].upload = act[t].upload
             /\ act'[t].id = act[t].id
    BY <1>1, <1>2, <2>2 DEF UploadsInv, HandUpload, OwnName
  <2>3. CASE /\ act'[t].id \in Ids /\ Exists(act'[t].id)
             /\ act'[t].upload = rows[act'[t].id].upload
             /\ act'[t].file = rows[act'[t].id].file
    BY <1>1, <1>2, <2>3 DEF UploadsInv, HandUpload, OwnName, RowUploads, StreamUploads
  <2> QED
    BY <2>1, <2>2, <2>3
<1> QED
  BY <1>3, <1>4, <1>5 DEF UploadsInv

LEMMA RowsGoneAre ==
    ASSUME TypeInv', NEW i \in Ids, rows'[i].status = "absent"
    PROVE  rows'[i] = NoRow
<1>1. \A r \in Row : r.status # "absent"
  BY DEF Row, Status, BUSY, IN_FLIGHT
<1> QED
  BY <1>1 DEF TypeInv, TypeOK

LEMMA UploadsThread ==
    ASSUME TypeInv, TypeInv', UploadsInv, NEW t \in Threads, ActStep(t)
    PROVE  UploadsInv'
<1>1. ThreadStep(t) /\ Others(t) /\ (SameRows \/ Dropped(t))
  BY ActKinds
<1>2. streams' = streams /\ born' = born
  BY DEF ActStep, Build, Load, Claim, Cancel, Read, Extract, Unpack, CommitReady, Fail, Raise,
         Except, RenderRun, End, Finish, Sweep, CommitStatus, Remove, RemoveFiles, RemoveRow,
         RemoveMenu, Request, RetryLoad, DeleteLoad, RetryCommit, DeleteCheck, Begin
<1>3. RowsOnlyGo
  BY <1>1, RowsGoneAre DEF SameRows, Dropped, RowsOnlyGo
<1>4. \/ act'[t].file = NoName
      \/ /\ act'[t].file = act[t].file /\ act'[t].upload = act[t].upload
         /\ act'[t].id = act[t].id
      \/ /\ act'[t].id \in Ids /\ Exists(act'[t].id)
         /\ act'[t].upload = rows[act'[t].id].upload
         /\ act'[t].file = rows[act'[t].id].file
  <2>0. Idle.file = NoName /\ act[t] \in Act /\ (act[t].pc # "idle" => act[t].id \in Ids)
    BY Rest
  <2>1. ASSUME NEW id \in Ids, Begun(t, id) PROVE act'[t].file = NoName
    BY <2>1 DEF Begun, Idle
  <2>2. ASSUME NEW id \in Ids, Asked(t, id)
        PROVE  /\ act'[t].id = id /\ Exists(id) /\ act'[t].upload = rows[id].upload
               /\ act'[t].file = rows[id].file
    BY <2>2 DEF Asked
  <2>3. ASSUME Loaded(t)
        PROVE  /\ act'[t].id \in Ids /\ Exists(act'[t].id)
               /\ act'[t].upload = rows[act'[t].id].upload
               /\ act'[t].file = rows[act'[t].id].file
    BY <2>0, <2>3 DEF Loaded, Act
  <2> QED
    BY <1>1, <2>0, <2>1, <2>2, <2>3 DEF ThreadStep, Went, Left, Finished, Done, Stop, Removal,
                                        Wiped, Dropped, Passes, Rests
<1>5. \A u \in Threads \ {t} : act'[u] = act[u]
  BY <1>1 DEF Others
<1> QED
  BY <1>2, <1>3, <1>4, <1>5, UploadsAlike

LEMMA UploadsNew ==
    ASSUME TypeInv, UploadsInv, NEW id \in Ids, NEW u \in 1..born', NEW f, OwnName(u, f),
           rows' = [rows EXCEPT ![id] = [upload |-> u, file |-> f, status |-> "pending"]],
           act' = act, born' \in Nat, born' >= born, streams' \subseteq streams,
           \A s \in streams' : s.upload # u,
           \A i \in Ids : rows[i].upload # u,
           \A t \in Threads : act[t].file # NoName => act[t].upload # u
    PROVE  UploadsInv'
<1>1. /\ rows'[id] = [upload |-> u, file |-> f, status |-> "pending"]
      /\ \A i \in Ids \ {id} : rows'[i] = rows[i]
  BY DEF TypeInv, TypeOK
<1>2. \A n \in 1..born : n \in 1..born'
  BY UploadsAssumption DEF TypeInv, TypeOK
<1>3. RowUploads'
  BY <1>1, <1>2 DEF UploadsInv, RowUploads, OwnName, Exists
<1>4. StreamUploads'
  BY <1>1, <1>2 DEF UploadsInv, StreamUploads, OwnName
<1>5. \A t \in Threads : HandUpload(t)'
  BY <1>1, <1>2 DEF UploadsInv, HandUpload, OwnName
<1> QED
  BY <1>3, <1>4, <1>5 DEF UploadsInv

LEMMA UploadsAdds ==
    ASSUME TypeInv, TypeInv', UploadsInv,
           AddNetboot \/ \E s \in streams : UploadCommit(s)
    PROVE  UploadsInv'
<1>0. born \in Nat /\ MaxUploads \in Nat /\ NoUpload \notin 1..born
  BY UploadsAssumption DEF TypeInv, TypeOK, NoUpload
<1>1. CASE \E s \in streams : UploadCommit(s)
  <2> PICK s \in streams : UploadCommit(s)
    BY <1>1
  <2>1. PICK id \in Ids :
           rows' = [rows EXCEPT ![id] = [upload |-> s.upload, file |-> s.file,
                                         status |-> "pending"]]
    BY DEF UploadCommit
  <2>2. act' = act /\ born' = born /\ streams' = streams \ {s}
    BY DEF UploadCommit
  <2>3. PICK u, f : u = s.upload /\ f = s.file
    OBVIOUS
  <2>4. u \in 1..born' /\ OwnName(u, f) /\ \A i \in Ids : rows[i].upload # u
    BY <2>2, <2>3 DEF UploadsInv, StreamUploads
  <2>5. /\ \A r \in streams' : r.upload # u
        /\ \A t \in Threads : act[t].file # NoName => act[t].upload # u
    BY <2>2, <2>3 DEF UploadsInv, StreamUploads, HandUpload
  <2>6. rows' = [rows EXCEPT ![id] = [upload |-> u, file |-> f, status |-> "pending"]]
    BY <2>1, <2>3
  <2>7. act' = act /\ born' \in Nat /\ born' >= born /\ streams' \subseteq streams
    BY <1>0, <2>2
  <2> QED
    BY <2>4, <2>5, <2>6, <2>7, UploadsNew
<1>2. CASE AddNetboot
  <2>1. PICK u : u = born + 1
    OBVIOUS
  <2>2. PICK id \in Ids :
           rows' = [rows EXCEPT ![id] = [upload |-> u, file |-> u, status |-> "pending"]]
    BY <1>2, <2>1 DEF AddNetboot
  <2>3. act' = act /\ born' = u /\ streams' = streams
    BY <1>2, <2>1 DEF AddNetboot
  <2>4. u \notin 1..born /\ u \in 1..born' /\ u # NoUpload /\ born' \in Nat /\ born' >= born
    BY <1>0, <2>1, <2>3 DEF NoUpload
  <2>5. \A i \in Ids : rows[i].upload # u
    BY <2>4, RowKinds DEF UploadsInv, RowUploads, NoRow
  <2>6. /\ \A s \in streams' : s.upload # u
        /\ \A t \in Threads : act[t].file # NoName => act[t].upload # u
    BY <2>3, <2>4 DEF UploadsInv, StreamUploads, HandUpload
  <2> QED
    BY <2>2, <2>3, <2>4, <2>5, <2>6, UploadsNew DEF OwnName
<1> QED
  BY <1>1, <1>2

LEMMA UploadsOpen ==
    ASSUME TypeInv, UploadsInv, NEW f \in Names, UploadOpen(f)
    PROVE  UploadsInv'
<1>1. PICK u : u = born + 1
  OBVIOUS
<1>2. /\ f \in IsoNames \cup {u} /\ born' = u /\ rows' = rows /\ act' = act
      /\ streams' = streams \cup {[upload |-> u, file |-> f]}
  BY <1>1 DEF UploadOpen
<1>3. /\ u \notin 1..born /\ u \in 1..born' /\ u # NoUpload
      /\ \A n \in 1..born : n \in 1..born'
  BY <1>1, <1>2, UploadsAssumption DEF TypeInv, TypeOK, NoUpload
<1>4. RowUploads'
  BY <1>2, <1>3 DEF UploadsInv, RowUploads, OwnName, Exists
<1>5. \A i \in Ids : rows[i].upload # u
  BY <1>3, RowKinds DEF UploadsInv, RowUploads, NoRow
<1>6. StreamUploads'
  BY <1>2, <1>3, <1>5 DEF UploadsInv, StreamUploads, OwnName
<1>7. \A t \in Threads : HandUpload(t)'
  BY <1>2, <1>3 DEF UploadsInv, HandUpload, OwnName
<1> QED
  BY <1>4, <1>6, <1>7 DEF UploadsInv

LEMMA UploadsStep ==
    ASSUME TypeInv, TypeInv', UploadsInv, [Next]_vars
    PROVE  UploadsInv'
<1>1. CASE \E f \in Names : UploadOpen(f)
  BY <1>1, UploadsOpen
<1>2. CASE AddNetboot \/ \E s \in streams : UploadCommit(s)
  BY <1>2, UploadsAdds
<1>3. CASE \E t \in Threads : ActStep(t)
  BY <1>3, UploadsThread
<1>4. CASE (\E id \in Ids : Drop(id)) \/ UNCHANGED vars
  <2>1. UNCHANGED << rows, streams, born, act >>
    BY <1>4 DEF Drop, vars
  <2> QED
    BY <2>1, UploadsAlike DEF RowsOnlyGo, SameRow
<1>5. CASE Restart
  <2>1. RowsOnlyGo
    BY <1>5, RestartRows DEF RowsOnlyGo
  <2>2. streams' = {} /\ born' = born /\ \A t \in Threads : act'[t].file = NoName
    BY <1>5 DEF Restart, Idle
  <2> QED
    BY <2>1, <2>2, UploadsAlike
<1> QED
  BY <1>1, <1>2, <1>3, <1>4, <1>5 DEF Next, ActStep

LEMMA UploadsInit == Init => UploadsInv
BY DEF Init, UploadsInv, RowUploads, StreamUploads, HandUpload, Exists, NoRow, Idle

--------------------------------------------------------------------------------
(* Whose the files on disk are.                                                 *)

\* An image whose row no thread is about to remove; a build, or what is left of one,
\* that will clear up after itself if its image is gone when it is over.
Stays(id)  == Exists(id) /\ ~BeingGone(id)
Working(t) == act[t].file # NoName /\ act[t].pc \in RunPcs \cup {"finish", "sweep"}

Owned(f) == \/ f \in leaked
            \/ \E s \in streams : s.file = f
            \/ \E id \in Ids : Stays(id) /\ rows[id].file = f
            \/ \E t \in Threads : Working(t) /\ act[t].file = f
Kept(id) == Stays(id) \/ \E t \in Threads : Working(t) /\ act[t].id = id
\* The ISO of an image that is being removed is gone, and not back.
IsoGone(t) == act[t].pc = "rmrow" /\ act[t].file \in IsoNames => iso[act[t].file] = NoUpload

OwnInv == ~raced => /\ \A f \in Names : iso[f] # NoUpload => Owned(f)
                    /\ \A id \in Ids : derived[id] # NoFiles => Kept(id)
                    /\ \A t \in Threads : IsoGone(t)

\* What a step of a thread does to the source files.
LEMMA SourceFiles ==
    ASSUME TypeInv, ShapeInv, NEW t \in Threads, ActStep(t)
    PROVE  /\ \A f \in Names :
                 \/ iso'[f] \in {iso[f], NoUpload}
                 \/ /\ act[t].pc = "read" /\ act[t].file = f /\ f \notin IsoNames
                    /\ Passes(t, RunPcs)
           /\ act[t].pc = "rmfiles" => /\ iso'[act[t].file] = NoUpload
                                       /\ derived'[act[t].id] = NoFiles
           /\ act[t].pc = "sweep" =>
                  /\ act[t].file = NoName \/ FileInUse(act[t].file)
                     \/ iso'[act[t].file] = NoUpload
                  /\ derived'[act[t].id] = NoFiles
           /\ leaked' = leaked /\ streams' = streams
<1>0. /\ iso \in [Names -> Uploads \cup {NoUpload}] /\ act[t] \in Act
      /\ NoName \notin Names
      /\ act[t].pc # "idle" => act[t].id \in Ids
      /\ derived \in [Ids -> [from : Uploads \cup {NoUpload}, whole : BOOLEAN]]
  BY NamesAssumption DEF TypeInv, TypeOK, ActsHaveIds, Names, NoName, Uploads
<1>1. leaked' = leaked /\ streams' = streams
  BY DEF ActStep, Build, Load, Claim, Cancel, Read, Extract, Unpack, CommitReady, Fail, Raise,
         Except, RenderRun, End, Finish, Sweep, CommitStatus, Remove, RemoveFiles, RemoveRow,
         RemoveMenu, Request, RetryLoad, DeleteLoad, RetryCommit, DeleteCheck, Begin, history
<1>2. CASE Read(t)
  <2>1. act[t].pc = "read" /\ Passes(t, RunPcs)
    BY <1>2, GotoPasses DEF Read, CheckStop, RunPcs, Passes
  <2>2. act[t].file # NoName /\ act[t].file \in Names
    BY <1>0, <2>1 DEF ShapeInv, InHand, Pcs, RunPcs, Act
  <2>3. iso' = iso \/ (act[t].file \notin IsoNames
                        /\ iso' = [iso EXCEPT ![act[t].file] = act[t].upload])
    BY <1>2 DEF Read, Uploaded
  <2> QED
    BY <1>0, <1>1, <2>1, <2>2, <2>3
<1>3. CASE Unpack(t)
  BY <1>0, <1>1, <1>3 DEF Unpack
<1>4. CASE RemoveFiles(t)
  <2>1. act[t].pc = "rmfiles" /\ act[t].file \in Names /\ act[t].id \in Ids
    BY <1>0, <1>4 DEF RemoveFiles, ShapeInv, InHand, Pcs, RemovePcs, Act
  <2> QED
    BY <1>0, <1>1, <1>4, <2>1 DEF RemoveFiles
<1>5. CASE Sweep(t)
  <2>1. act[t].pc = "sweep" /\ act[t].id \in Ids
    BY <1>0, <1>5 DEF Sweep
  <2>2. derived'[act[t].id] = NoFiles
    BY <1>0, <1>5, <2>1 DEF Sweep
  <2>3. \A f \in Names : iso'[f] \in {iso[f], NoUpload}
    BY <1>0, <1>5 DEF Sweep
  <2>4. act[t].file = NoName \/ FileInUse(act[t].file) \/ iso'[act[t].file] = NoUpload
    BY <1>0, <1>5 DEF Sweep, Act
  <2> QED
    BY <1>1, <2>1, <2>2, <2>3, <2>4
<1>6. CASE ~(Read(t) \/ Unpack(t) \/ RemoveFiles(t) \/ Sweep(t))
  <2>1. iso' = iso /\ act[t].pc \notin {"rmfiles", "sweep"}
    BY <1>6 DEF ActStep, Build, Load, Claim, Cancel, Extract, CommitReady, Fail, Raise, Except,
                RenderRun, End, Finish, CommitStatus, Remove, RemoveRow, RemoveMenu, Request,
                RetryLoad, DeleteLoad, RetryCommit, DeleteCheck, Begin
  <2> QED
    BY <1>1, <2>1
<1> QED
  BY <1>2, <1>3, <1>4, <1>5, <1>6

\* Who is being removed by the time a thread's step is over.
LEMMA GoneAfter ==
    ASSUME TypeInv, NEW t \in Threads, ThreadStep(t), Others(t), NEW id \in Ids
    PROVE  BeingGone(id)' => BeingGone(id) \/ (act[t].pc = "rmfiles" /\ act[t].id = id)
<1>1. act'[t].pc = "rmrow" => act[t].pc = "rmfiles" /\ act'[t].id = act[t].id
  <2>1. \A i \in Ids : Begun(t, i) \/ Asked(t, i) => act'[t].pc # "rmrow"
    <3>1. ASSUME NEW i \in Ids, Begun(t, i) PROVE act'[t].pc = "load"
      BY <3>1 DEF Begun, Idle
    <3>2. ASSUME NEW i \in Ids, Asked(t, i) PROVE act'[t].pc \in {"retry", "delete"}
      BY <3>2 DEF Asked
    <3> QED
      BY <3>1, <3>2
  <2>2. Loaded(t) => act'[t].pc # "rmrow"
    BY Rest DEF Loaded, Act
  <2> QED
    BY <2>1, <2>2 DEF ThreadStep, Went, Left, Finished, Done, Stop, Removal, Wiped, Dropped,
                      Passes, Rests, Idle, RunPcs
<1> QED
  BY <1>1 DEF BeingGone, Others

\* An image that stays goes on staying, unless the thread has just emptied its folders.
LEMMA StaysOn ==
    ASSUME TypeInv, NEW t \in Threads, ActStep(t), NEW id \in Ids, Stays(id)
    PROVE  \/ Stays(id)' /\ rows'[id].file = rows[id].file
           \/ act[t].pc = "rmfiles" /\ act[t].id = id
<1>1. ThreadStep(t) /\ Others(t) /\ (SameRows \/ Dropped(t))
  BY ActKinds
<1>2. BeingGone(id)' => act[t].pc = "rmfiles" /\ act[t].id = id
  BY <1>1, GoneAfter DEF Stays
<1>3. SameRow(id)
  <2>1. Dropped(t) => act[t].id # id
    BY DEF Dropped, Stays, BeingGone
  <2> QED
    BY <1>1, <2>1 DEF SameRows, Dropped
<1> QED
  BY <1>2, <1>3 DEF Stays, SameRow, Exists

\* What a thread at work leaves when it is done, or no longer at work: an image that
\* stays.  A thread that sweeps leaves nothing.
LEMMA WorkerMoves ==
    ASSUME RunInv, HandsInv, HandsInv', ~raced, ~raced', NEW t \in Threads, ActStep(t),
           Working(t), act[t].pc # "sweep"
    PROVE  \/ Working(t)' /\ act'[t].id = act[t].id /\ act'[t].file = act[t].file
           \/ \E id \in Ids : id = act[t].id /\ Stays(id)' /\ rows'[id].file = act[t].file
<1>0. /\ ThreadStep(t) /\ Others(t) /\ TypeInv
      /\ act[t].id \in Ids /\ act[t].pc \in RunPcs \cup {"finish"} /\ act[t].file # NoName
      /\ act[t] \in Act
  BY ActKinds DEF RunInv, TypeInv, TypeOK, ActsHaveIds, Working, RunPcs
<1>1. Has(t) \/ Orphan(t)
  BY <1>0 DEF HandsInv, AttachInv, AttachOf, Attached, RunPcs
<1>2. PICK id \in Ids : id = act[t].id
  BY <1>0
<1>3. CASE Loaded(t)
  <2>1. Has(t)
    BY <1>1, <1>3 DEF Loaded, Orphan
  <2>2. act'[t].pc = "claim" /\ act'[t].id = act[t].id /\ act'[t].file = act[t].file
    BY <1>0, <1>3, <2>1 DEF Loaded, Has, Act
  <2> QED
    BY <1>0, <2>2 DEF Working, RunPcs
<1>4. CASE Went(t)
  BY <1>0, <1>4 DEF Went, Passes, Working, RunPcs
<1>5. CASE Left(t)
  <2>1. CASE Stopped(t)
    BY <1>0, <1>5, <2>1 DEF Left, Passes, Working
  <2>2. CASE ~Stopped(t)
    <3>1. Has(t) /\ act[t].pc = "end"
      BY <1>1, <1>5, <2>2 DEF Left, Orphan, ToStop
    <3>2. ~BeingGone(id)
      BY <1>2, <2>2, <3>1 DEF BeingGone, HandsInv, PeersInv, Together, Removing, ToStop
    <3>3. Stays(id)' /\ rows'[id].file = act[t].file
      BY <1>0, <1>2, <3>1, <3>2, StaysOn DEF Stays, Has
    <3> QED
      BY <1>2, <3>3
  <2> QED
    BY <2>1, <2>2
<1>6. CASE Finished(t)
  <2>1. CASE ~Exists(act[t].id)
    BY <1>0, <1>6, <2>1 DEF Finished, Passes, Working
  <2>2. CASE Exists(act[t].id)
    <3>1. rows[id].file = act[t].file /\ Exists(id)
      BY <1>1, <1>2, <2>2 DEF Has, Orphan
    <3>2. Passes(t, {"rmfiles"}) /\ SameRow(id)
      BY <1>2, <1>6, <2>2, <3>1 DEF Finished, SameRows
    <3>3. \A u \in Threads : act'[u].pc = "rmrow" => act'[u].id # id
      <4> SUFFICES ASSUME NEW u \in Threads, act'[u].pc = "rmrow", act'[u].id = id
                   PROVE  FALSE
        OBVIOUS
      <4>1. Together(u, t)'
        BY <1>2, <3>2 DEF Together, Removing, Passes
      <4>2. ToStop(t)' \/ act'[t].pc = "finish"
        BY <4>1 DEF HandsInv, PeersInv
      <4> QED
        BY <3>2, <4>2 DEF Passes, ToStop, InRun, RunPcs
    <3>4. Stays(id)' /\ rows'[id].file = act[t].file
      BY <3>1, <3>2, <3>3 DEF Stays, BeingGone, SameRow, Exists
    <3> QED
      BY <1>2, <3>4
  <2> QED
    BY <2>1, <2>2
<1>7. Loaded(t) \/ Went(t) \/ Left(t) \/ Finished(t)
  BY <1>0 DEF ThreadStep, Begun, Asked, Done, Stop, Removal, Wiped, Dropped, RunPcs
<1> QED
  BY <1>3, <1>4, <1>5, <1>6, <1>7

\* The other threads at work go on being so.
LEMMA OthersWork ==
    ASSUME NEW t \in Threads, NEW u \in Threads \ {t}, Others(t), Working(u)
    PROVE  Working(u)' /\ act'[u] = act[u]
BY DEF Others, Working

LEMMA KeptOn ==
    ASSUME RunInv, HandsInv, HandsInv', ~raced, ~raced', NEW t \in Threads, ActStep(t),
           NEW id \in Ids, Kept(id), derived'[id] # NoFiles
    PROVE  Kept(id)'
<1>0. TypeInv /\ ShapeInv /\ Others(t)
  BY ActKinds DEF RunInv, HandsInv
<1>1. act[t].pc \in {"rmfiles", "sweep"} => act[t].id # id
  BY <1>0, SourceFiles
<1>2. CASE Stays(id)
  BY <1>0, <1>1, <1>2, StaysOn DEF Kept
<1>3. CASE ~Stays(id)
  <2>1. PICK u \in Threads : Working(u) /\ act[u].id = id
    BY <1>3 DEF Kept
  <2>2. CASE u # t
    BY <1>0, <2>1, <2>2, OthersWork DEF Kept
  <2>3. CASE u = t
    BY <1>1, <2>1, <2>3, WorkerMoves DEF Kept
  <2> QED
    BY <2>2, <2>3
<1> QED
  BY <1>2, <1>3

\* A thread that has no image any more to clear up after finds its file's name in
\* use only if the image that uses it stays, or has no file.
LEMMA SweepSpares ==
    ASSUME RunInv, HandsInv, UploadsInv, ~raced, NEW t \in Threads, act[t].pc = "sweep",
           act[t].file # NoName, \A u \in Threads : IsoGone(u),
           FileInUse(act[t].file), iso[act[t].file] # NoUpload
    PROVE  \E id \in Ids : Stays(id) /\ rows[id].file = act[t].file
<1>1. PICK id \in Ids : rows[id].file = act[t].file /\ Exists(id)
  <2>1. PICK id \in Ids : rows[id].file = act[t].file
    BY DEF FileInUse
  <2> QED
    BY <2>1, RowKinds DEF RunInv, NoRow
<1>2. ASSUME NEW u \in Threads, act[u].pc = "rmrow", act[u].id = id PROVE FALSE
  <2>1. Has(u)
    BY <1>1, <1>2 DEF HandsInv, ShapeInv, InHand, Pcs, RemovePcs, AttachInv, AttachOf, Attached,
                      Orphan, ToStop, InRun, RunPcs
  <2>2. act[u].file = act[t].file
    BY <1>1, <1>2, <2>1 DEF Has
  <2>3. act[t].file \notin IsoNames
    BY <1>2, <2>2 DEF IsoGone
  <2>4. act[t].file = act[t].upload /\ rows[id].upload = act[t].file
    BY <1>1, <2>3 DEF UploadsInv, HandUpload, RowUploads, OwnName
  <2>5. id = act[t].id
    BY <2>4 DEF UploadsInv, HandUpload
  <2>6. Together(u, t)
    BY <1>2, <2>5 DEF Together, Removing
  <2> QED
    BY <2>6 DEF HandsInv, PeersInv, ToStop, InRun, RunPcs
<1> QED
  BY <1>1, <1>2 DEF Stays, BeingGone

LEMMA OwnedOn ==
    ASSUME RunInv, HandsInv, HandsInv', UploadsInv, ~raced, ~raced', NEW t \in Threads,
           ActStep(t), \A u \in Threads : IsoGone(u),
           NEW f \in Names, iso'[f] # NoUpload, iso[f] # NoUpload => Owned(f)
    PROVE  Owned(f)'
<1>0. TypeInv /\ ShapeInv /\ Others(t) /\ leaked' = leaked /\ streams' = streams
  BY ActKinds, SourceFiles DEF RunInv, HandsInv
<1>1. CASE act[t].pc = "read" /\ act[t].file = f /\ Passes(t, RunPcs)
  <2>1. f # NoName
    BY NamesAssumption DEF Names, NoName, Uploads
  <2> QED
    BY <1>1, <2>1 DEF Owned, Working, Passes
<1>2. CASE ~(act[t].pc = "read" /\ act[t].file = f /\ Passes(t, RunPcs))
  <2>1. iso'[f] = iso[f] /\ Owned(f)
    BY <1>0, <1>2, SourceFiles
  <2>2. act[t].pc = "rmfiles" => act[t].file # f
    BY <1>0, SourceFiles
  <2>3. CASE f \in leaked \/ \E s \in streams : s.file = f
    BY <1>0, <2>3 DEF Owned
  <2>4. ASSUME NEW id \in Ids, Stays(id), rows[id].file = f PROVE Owned(f)'
    <3>1. CASE ~(act[t].pc = "rmfiles" /\ act[t].id = id)
      BY <1>0, <2>4, <3>1, StaysOn DEF Owned
    <3>2. CASE act[t].pc = "rmfiles" /\ act[t].id = id
      <4>1. Has(t)
        BY <2>4, <3>2 DEF HandsInv, ShapeInv, InHand, Pcs, RemovePcs, AttachInv, AttachOf,
                          Attached, Orphan, ToStop, InRun, RunPcs
      <4> QED
        BY <2>2, <2>4, <3>2, <4>1 DEF Has
    <3> QED
      BY <3>1, <3>2
  <2>5. ASSUME NEW u \in Threads, Working(u), act[u].file = f PROVE Owned(f)'
    <3>1. CASE u # t
      BY <1>0, <2>5, <3>1, OthersWork DEF Owned
    <3>2. CASE u = t /\ act[t].pc # "sweep"
      BY <2>5, <3>2, WorkerMoves DEF Owned
    <3>3. CASE u = t /\ act[t].pc = "sweep"
      <4>1. act[t].file # NoName /\ FileInUse(act[t].file) /\ iso[act[t].file] # NoUpload
        BY <1>0, <2>1, <2>5, <3>3, SourceFiles DEF Working
      <4>2. \E id \in Ids : Stays(id) /\ rows[id].file = f
        BY <2>5, <3>3, <4>1, SweepSpares
      <4> QED
        BY <2>4, <4>2
    <3> QED
      BY <3>1, <3>2, <3>3
  <2> QED
    BY <2>1, <2>3, <2>4, <2>5 DEF Owned
<1> QED
  BY <1>1, <1>2

LEMMA RacedGrows == [Next]_vars => (raced => raced')
<1> SUFFICES ASSUME [Next]_vars, raced PROVE raced'
  OBVIOUS
<1>1. NoteOvertaking => raced'
  BY DEF NoteOvertaking
<1>2. \A id : NoteReuse(id) => raced'
  BY DEF NoteReuse
<1>3. CASE Restart
  BY <1>3 DEF Restart
<1>4. CASE UNCHANGED vars
  BY <1>4 DEF vars
<1>5. CASE (\E f \in Names : UploadOpen(f)) \/ \E id \in Ids : Drop(id)
  BY <1>5 DEF UploadOpen, Drop, history
<1>6. CASE AddNetboot \/ \E s \in streams : UploadCommit(s)
  BY <1>2, <1>6 DEF AddNetboot, UploadCommit
<1>7. ASSUME NEW t \in Threads, ActStep(t) PROVE raced'
  <2>1. NoteOvertaking \/ UNCHANGED history
    BY <1>7 DEF ActStep, Build, Load, Claim, Cancel, Read, Extract, Unpack, CommitReady, Fail,
                Raise, Except, RenderRun, End, Finish, Sweep, CommitStatus, Remove, RemoveFiles,
                RemoveRow, RemoveMenu, Request, RetryLoad, DeleteLoad, RetryCommit, DeleteCheck,
                Begin
  <2> QED
    BY <1>1, <2>1 DEF history
<1> QED
  BY <1>3, <1>4, <1>5, <1>6, <1>7 DEF Next, ActStep

LEMMA OwnThread ==
    ASSUME RunInv, HandsInv, HandsInv', UploadsInv, OwnInv, NEW t \in Threads, ActStep(t),
           raced => raced'
    PROVE  OwnInv'
<1> SUFFICES ASSUME ~raced, ~raced' PROVE OwnInv'
  BY DEF OwnInv
<1>0. /\ TypeInv /\ ShapeInv /\ Others(t) /\ DiskStep(t)
      /\ \A u \in Threads : IsoGone(u)
      /\ \A f \in Names : iso[f] # NoUpload => Owned(f)
      /\ \A id \in Ids : derived[id] # NoFiles => Kept(id)
  BY ActKinds DEF RunInv, HandsInv, OwnInv
<1>1. \A f \in Names : iso'[f] # NoUpload => Owned(f)'
  BY <1>0, OwnedOn
<1>2. ASSUME NEW id \in Ids, derived'[id] # NoFiles PROVE Kept(id)'
  <2>1. CASE derived[id] # NoFiles
    BY <1>0, <1>2, <2>1, KeptOn
  <2>2. CASE derived[id] = NoFiles
    <3>1. Filled(t) /\ act[t].id = id
      BY <1>0, <1>2, <2>2 DEF DiskStep, Plain, Emptied, Filled, Readied, OnlyAt
    <3>2. act[t].file # NoName /\ Passes(t, RunPcs)
      BY <1>0, <3>1 DEF Filled, ShapeInv, InHand, Pcs, RunPcs, Passes
    <3> QED
      BY <3>1, <3>2 DEF Kept, Working, Passes
  <2> QED
    BY <2>1, <2>2
<1>3. ASSUME NEW u \in Threads PROVE IsoGone(u)'
  <2>1. CASE u = t
    <3>1. act'[t].pc = "rmrow" => act[t].pc = "rmfiles" /\ Passes(t, {"rmrow"})
      BY <1>0 DEF DiskStep, Plain, Emptied, Filled, Readied, Passes
    <3> QED
      BY <1>0, <2>1, <3>1, SourceFiles DEF IsoGone, Passes
  <2>2. CASE u # t
    <3>1. act'[u] = act[u] /\ IsoGone(u)
      BY <1>0, <2>2 DEF Others
    <3>2. \A f \in IsoNames : iso'[f] \in {iso[f], NoUpload}
      BY <1>0, SourceFiles DEF Names
    <3> QED
      BY <3>1, <3>2 DEF IsoGone
  <2> QED
    BY <2>1, <2>2
<1> QED
  BY <1>1, <1>2, <1>3 DEF OwnInv

LEMMA OwnAdds ==
    ASSUME RunInv, HandsInv, OwnInv, raced => raced',
           AddNetboot \/ \E s \in streams : UploadCommit(s)
    PROVE  OwnInv'
<1> SUFFICES ASSUME ~raced, ~raced' PROVE OwnInv'
  BY DEF OwnInv
<1>1. PICK id \in Ids :
          /\ IsNewId(id) /\ derived' = derived /\ iso' = iso /\ act' = act /\ NoteReuse(id)
          /\ \E u, f : /\ rows' = [rows EXCEPT ![id] =
                                     [upload |-> u, file |-> f, status |-> "pending"]]
                       /\ \A s \in streams : s \in streams' \/ s.file = f
  BY DEF UploadCommit, AddNetboot
<1>2. ~Exists(id)
  BY <1>1 DEF IsNewId, Ids
<1>3. PICK f : /\ rows'[id].file = f /\ rows'[id].status = "pending"
               /\ \A s \in streams : s \in streams' \/ s.file = f
  BY <1>1 DEF RunInv, TypeInv, TypeOK
<1>4. \A i \in Ids \ {id} : rows'[i] = rows[i]
  BY <1>1 DEF RunInv, TypeInv, TypeOK
<1>5. ~BeingGone(id)
  <2> SUFFICES ASSUME NEW t \in Threads, act[t].pc = "rmrow", act[t].id = id PROVE FALSE
    BY DEF BeingGone
  <2>1. act[t].file # NoName
    BY DEF HandsInv, ShapeInv, InHand, Pcs, RemovePcs
  <2> QED
    BY <1>1, <2>1 DEF NoteReuse
<1>6. Stays(id)' /\ leaked' = leaked
  BY <1>1, <1>3, <1>5 DEF Stays, Exists, BeingGone, NoteReuse
<1>7. \A i \in Ids : Stays(i) => Stays(i)' /\ rows'[i].file = rows[i].file
  BY <1>1, <1>2, <1>4 DEF Stays, Exists, BeingGone
<1>8. \A t \in Threads : Working(t) => Working(t)'
  BY <1>1 DEF Working
<1>9. \A g \in Names : Owned(g) => Owned(g)'
  BY <1>1, <1>3, <1>6, <1>7, <1>8 DEF Owned
<1>10. \A i \in Ids : Kept(i) => Kept(i)'
  BY <1>1, <1>7, <1>8 DEF Kept
<1>11. \A t \in Threads : IsoGone(t) => IsoGone(t)'
  BY <1>1 DEF IsoGone
<1> QED
  BY <1>1, <1>9, <1>10, <1>11 DEF OwnInv

LEMMA OwnOpen ==
    ASSUME RunInv, HandsInv, OwnInv, NEW f \in Names, UploadOpen(f)
    PROVE  OwnInv'
<1>1. PICK u : u = born + 1
  OBVIOUS
<1>2. /\ ~FileInUse(f) /\ iso' = [iso EXCEPT ![f] = u] /\ raced' = raced /\ leaked' = leaked
      /\ streams' = streams \cup {[upload |-> u, file |-> f]}
      /\ rows' = rows /\ act' = act /\ derived' = derived
  BY <1>1 DEF UploadOpen, history
<1> SUFFICES ASSUME ~raced PROVE OwnInv'
  BY <1>2 DEF OwnInv
<1>3. \A g \in Names : g # f => iso'[g] = iso[g]
  BY <1>2 DEF RunInv, TypeInv, TypeOK
<1>4. \A g \in Names : Owned(g) => Owned(g)'
  BY <1>2 DEF Owned, Stays, BeingGone, Exists, Working
<1>5. Owned(f)'
  <2>1. PICK s : s = [upload |-> u, file |-> f]
    OBVIOUS
  <2>2. s \in streams' /\ s.file = f
    BY <1>2, <2>1
  <2> QED
    BY <2>2 DEF Owned
<1>6. \A id \in Ids : Kept(id) => Kept(id)'
  BY <1>2 DEF Kept, Stays, BeingGone, Exists, Working
<1>7. ASSUME NEW t \in Threads PROVE IsoGone(t)'
  <2>1. act[t].pc = "rmrow" => act[t].file # f
    <3>1. act[t].pc = "rmrow" => Has(t) /\ act[t].id \in Ids
      BY Rest DEF RunInv, HandsInv, ShapeInv, InHand, Pcs, RemovePcs, AttachInv, AttachOf,
                  Attached, Orphan, ToStop, InRun, RunPcs
    <3> QED
      BY <1>2, <3>1 DEF Has, FileInUse
  <2> QED
    BY <1>2, <1>3, <2>1 DEF OwnInv, IsoGone, Names
<1> QED
  BY <1>2, <1>3, <1>4, <1>5, <1>6, <1>7 DEF OwnInv

LEMMA OwnRestart ==
    ASSUME RunInv, HandsInv, OwnInv, Restart
    PROVE  OwnInv'
<1> SUFFICES ASSUME ~raced' PROVE OwnInv'
  BY DEF OwnInv
<1>0. /\ TypeInv /\ ~raced /\ overtaken = {} /\ \A t \in Threads : act'[t] = Idle
      /\ leaked' = leaked \cup {s.file : s \in streams}
  BY DEF RunInv, Restart
<1>1. \A id \in Ids : ~BeingGone(id)'
  BY <1>0 DEF BeingGone, Idle
<1>2. ASSUME NEW t \in Threads, Working(t)
      PROVE  \E id \in Ids : id = act[t].id /\ Exists(id) /\ rows[id].file = act[t].file
  BY <1>0, <1>2, Rest DEF Working, HandsInv, AttachInv, AttachOf, Attached, Has, RunPcs
<1>3. ASSUME NEW id \in Ids, Exists(id), rows[id].status # "deleting"
      PROVE  Stays(id)' /\ rows'[id].file = rows[id].file
  <2>1. SameRow(id)
    BY <1>0, <1>3, RestartRows
  <2> QED
    BY <1>1, <1>3, <2>1 DEF Stays, SameRow, Exists
<1>4. ASSUME NEW f \in Names, iso'[f] # NoUpload PROVE Owned(f)'
  <2>1. iso[f] # NoUpload /\ \A id \in Ids : rows[id].file = f => rows[id].status # "deleting"
    BY <1>0, <1>4, RestartRows
  <2>2. Owned(f)
    BY <1>0, <2>1 DEF OwnInv
  <2>3. ASSUME NEW id \in Ids, Exists(id), rows[id].file = f PROVE Owned(f)'
    BY <1>3, <2>1, <2>3 DEF Owned
  <2>4. CASE f \in leaked \/ \E s \in streams : s.file = f
    BY <1>0, <2>4 DEF Owned
  <2> QED
    BY <1>2, <2>2, <2>3, <2>4 DEF Owned, Stays
<1>5. ASSUME NEW id \in Ids, derived'[id] # NoFiles PROVE Kept(id)'
  <2>1. derived[id] # NoFiles /\ rows[id].status # "deleting"
    BY <1>0, <1>5, RestartRows
  <2>2. Kept(id)
    BY <1>0, <2>1 DEF OwnInv
  <2>3. Exists(id)
    BY <1>2, <2>2 DEF Kept, Stays
  <2> QED
    BY <1>3, <2>1, <2>3 DEF Kept
<1>6. \A t \in Threads : IsoGone(t)'
  BY <1>0 DEF IsoGone, Idle
<1> QED
  BY <1>4, <1>5, <1>6 DEF OwnInv

LEMMA OwnStep ==
    ASSUME RunInv, HandsInv, HandsInv', UploadsInv, OwnInv, [Next]_vars
    PROVE  OwnInv'
<1>0. raced => raced'
  BY RacedGrows
<1>1. CASE \E f \in Names : UploadOpen(f)
  BY <1>1, OwnOpen
<1>2. CASE AddNetboot \/ \E s \in streams : UploadCommit(s)
  BY <1>0, <1>2, OwnAdds
<1>3. CASE \E t \in Threads : ActStep(t)
  BY <1>0, <1>3, OwnThread
<1>4. CASE (\E id \in Ids : Drop(id)) \/ UNCHANGED vars
  <2>1. UNCHANGED << rows, iso, derived, streams, act, raced, leaked >>
    BY <1>4 DEF Drop, vars, history
  <2> QED
    BY <2>1 DEF OwnInv, Owned, Kept, IsoGone, Stays, BeingGone, Exists, Working
<1>5. CASE Restart
  BY <1>5, OwnRestart
<1> QED
  BY <1>1, <1>2, <1>3, <1>4, <1>5 DEF Next, ActStep

LEMMA OwnInit == Init => OwnInv
BY DEF Init, OwnInv, IsoGone, Idle, NoFiles

\* Deleting an image leaves nothing behind, in any order of builds, Deletes, uploads
\* and restarts: not even what a build that hung writes after a second Delete took
\* its image away, once it is over.
THEOREM FilesStayOwned == Spec => []FilesAreOwned
<1>1. RunInv /\ HandsInv /\ [Next]_vars => RunInv' /\ HandsInv'
  BY RunStep, HandsStep
<1>2. RunInv /\ HandsInv /\ UploadsInv /\ OwnInv /\ [Next]_vars => UploadsInv' /\ OwnInv'
  BY <1>1, UploadsStep, OwnStep DEF RunInv
<1>3. TypeInv /\ ShapeInv /\ OwnInv => FilesAreOwned
  <2> SUFFICES ASSUME TypeInv, ShapeInv, OwnInv, ~raced
               PROVE  /\ \A f \in Names : iso[f] # NoUpload =>
                             \/ FileInUse(f) \/ f \in leaked
                             \/ \E s \in streams : s.file = f
                             \/ \E t \in Threads : act[t].pc # "idle" /\ act[t].file = f
                      /\ \A id \in Ids : derived[id] # NoFiles => Exists(id) \/ ~NobodyActs(id)
    BY DEF FilesAreOwned
  <2>1. \A t \in Threads : Working(t) => act[t].pc # "idle"
    BY DEF Working, RunPcs
  <2> QED
    BY <2>1 DEF OwnInv, Owned, Kept, Stays, FileInUse, NobodyActs
<1>4. RunInv /\ HandsInv /\ OwnInv => FilesAreOwned
  BY <1>3 DEF RunInv, HandsInv
<1>5. Init => UploadsInv /\ OwnInv
  BY UploadsInit, OwnInit
<1> QED
  BY <1>2, <1>4, <1>5, HandsAreKnown, PTL DEF Spec
================================================================================
