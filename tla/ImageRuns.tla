------------------------------- MODULE ImageRuns -------------------------------
(***************************************************************************)
(* The life of an image: services/images.py and the image routes.          *)
(*                                                                         *)
(* An image is a database row, a source file in IMAGE_DIR (an uploaded ISO *)
(* or a downloaded archive), the boot files derived from it, kept in       *)
(* folders named after the row's id, and an entry of boot.ipxe.  A queued  *)
(* background task (process_image) builds the derived files; Reprocess     *)
(* queues it again; Delete removes everything, or tells a running build to *)
(* stop and leaves the removal to it.  Requests and builds run in the same *)
(* thread pool, so each thread below does one or the other, one step at a  *)
(* time; the only lock is the one around the table of running builds.      *)
(*                                                                         *)
(* A step is what the code does between two points where another thread    *)
(* can act and be noticed: a database commit, a change on disk, the locked *)
(* sections.  SQLAlchemy addresses a row by its id alone, and SQLite gives *)
(* a new row the highest id in use plus one, so an id can come back.       *)
(***************************************************************************)
EXTENDS Naturals, FiniteSets

CONSTANTS
    Threads,      \* the thread pool: background tasks and synchronous routes
    IsoNames,     \* file names an uploaded ISO can be given
    MaxUploads,   \* bound: images added in a behaviour
    MaxQueued,    \* bound: Reprocess is not offered above this many queued tasks
    MayRestart    \* whether the web process may stop and start again

ASSUME UploadsAssumption == MaxUploads \in Nat
ASSUME BoundsAssumption  == MaxQueued \in Nat /\ MayRestart \in BOOLEAN

\* An upload's number stands for its bytes.  A catalog image's archive gets a
\* random name (new_archive_name), so the number stands for that name too.
Uploads == 1..MaxUploads
NoUpload == 0
Ids     == 1..MaxUploads
NoName  == 0
Names   == IsoNames \cup Uploads

ASSUME NamesAssumption == IsoNames \cap Nat = {}

VARIABLES
    rows,       \* the images table, by id
    iso,        \* IMAGE_DIR: whose bytes each source file holds
    derived,    \* bootroot/os/<id>, nfsroot/<id>, smbroot/<id>
    menu,       \* the ids boot.ipxe offers
    runs,       \* _runs, and the stop flag each entry carries
    queued,     \* background tasks not started yet, by image id
    act,        \* what each thread is doing
    streams,    \* uploads still being written to IMAGE_DIR
    born,       \* how many images were added so far
    overtaken,  \* history: ids whose image was removed under another thread
    raced,      \* history: one of these had not been told to stop, or was cut short
    leaked      \* history: source files whose upload a restart cut short

vars == << rows, iso, derived, menu, runs, queued, act, streams, born,
           overtaken, raced, leaked >>
history == << overtaken, raced, leaked >>

IN_FLIGHT == {"pending", "processing"}
BUSY      == IN_FLIGHT \cup {"deleting"}
Status    == BUSY \cup {"ready", "error", "needs_reprocess"}

Row     == [upload : Uploads, file : Names, status : Status]
NoRow   == [upload |-> NoUpload, file |-> NoName, status |-> "absent"]
NoFiles == [from |-> NoUpload, whole |-> FALSE]

RunPcs    == {"load", "claim", "read", "extract", "unpack", "commit",
              "render", "except", "end"}
RemovePcs == {"rmfiles", "rmrow", "rmmenu"}
Pcs       == {"idle", "retry", "delete", "finish", "sweep"} \cup RunPcs \cup RemovePcs

Idle == [pc |-> "idle", id |-> 0, upload |-> NoUpload, file |-> NoName]
Act  == [pc : Pcs, id : Ids \cup {0}, upload : Uploads \cup {NoUpload},
         file : Names \cup {NoName}]

Exists(id)    == rows[id].status # "absent"
FileInUse(f)  == \E id \in Ids : rows[id].file = f
Stopped(t)    == runs[act[t].id] = "stop"
Uploaded(t)   == act[t].file \in IsoNames
Source(t)     == IF Uploaded(t) THEN iso[act[t].file] ELSE act[t].upload

\* SQLite: INTEGER PRIMARY KEY without AUTOINCREMENT.
IsNewId(id) == /\ \A i \in Ids : i >= id => ~Exists(i)
               /\ id = 1 \/ \E i \in Ids : i = id - 1 /\ Exists(i)

Goto(t, pc)       == act' = [act EXCEPT ![t].pc = pc]
CheckStop(t, pc)  == Goto(t, IF Stopped(t) THEN "end" ELSE pc)
Return(t)         == act' = [act EXCEPT ![t] = Idle]
SetStatus(id, st) == rows' = [rows EXCEPT ![id].status = st]
MenuOf(table)     == {id \in Ids : table[id].status = "ready"}
Render            == menu' = MenuOf(rows)

\* History: a thread removes an image on which another thread is acting.
NoteOvertaking ==
    LET removed == {p \in Threads \X Threads :
                       /\ p[1] # p[2] /\ act'[p[1]].id = act'[p[2]].id
                       /\ act'[p[1]].pc \in {"rmfiles", "rmrow"}}
        told(t)  == act'[t].pc \in RunPcs /\ runs'[act'[t].id] = "stop"
    IN /\ overtaken' = overtaken \cup {act'[p[1]].id : p \in removed}
       /\ raced' = (raced \/ \E p \in removed : ~told(p[2]))

\* History: an image gets the id of one that a thread is still at work on.
NoteReuse(id) ==
    /\ raced' = (raced \/ \E t \in Threads : /\ act[t].id = id /\ act[t].file # NoName
                                            /\ act[t].pc # "rmmenu")
    /\ UNCHANGED << overtaken, leaked >>

Init == /\ rows = [id \in Ids |-> NoRow]
        /\ iso = [f \in Names |-> NoUpload]
        /\ derived = [id \in Ids |-> NoFiles]
        /\ menu = {}
        /\ runs = [id \in Ids |-> "none"]
        /\ queued = [id \in Ids |-> 0]
        /\ act = [t \in Threads |-> Idle]
        /\ streams = {}
        /\ born = 0
        /\ overtaken = {}
        /\ raced = FALSE
        /\ leaked = {}

--------------------------------------------------------------------------------
(* Adding an image.  These routes run on the event loop.                        *)

\* Faulty variant: only the disk is asked whether a name is free.
UploadOpenAnyName(f) ==
    LET u == born + 1
    IN /\ born < MaxUploads
       /\ f \in IsoNames \cup {u}
       /\ iso[f] = NoUpload
       /\ born' = u
       /\ iso' = [iso EXCEPT ![f] = u]
       /\ streams' = streams \cup {[upload |-> u, file |-> f]}
       /\ UNCHANGED << rows, derived, menu, runs, queued, act, history >>

\* upload(), and add_netboot() with an uploaded archive, up to the first chunk:
\* the name is free on disk and in the table, and the file is created.
UploadOpen(f) ==
    LET u == born + 1
    IN /\ born < MaxUploads
       /\ f \in IsoNames \cup {u}
       /\ iso[f] = NoUpload /\ ~FileInUse(f)
       /\ born' = u
       /\ iso' = [iso EXCEPT ![f] = u]
       /\ streams' = streams \cup {[upload |-> u, file |-> f]}
       /\ UNCHANGED << rows, derived, menu, runs, queued, act, history >>

\* The file is complete: the row is committed and its task queued.
UploadCommit(s) ==
    \E id \in Ids :
       /\ IsNewId(id)
       /\ rows' = [rows EXCEPT ![id] = [upload |-> s.upload, file |-> s.file,
                                        status |-> "pending"]]
       /\ queued' = [queued EXCEPT ![id] = @ + 1]
       /\ streams' = streams \ {s}
       /\ UNCHANGED << iso, derived, menu, runs, act, born >>
       /\ NoteReuse(id)

\* add_netboot() from a mirror or a URL: nothing on disk until the build.
AddNetboot ==
    LET u == born + 1
    IN \E id \in Ids :
       /\ born < MaxUploads
       /\ IsNewId(id)
       /\ born' = u
       /\ rows' = [rows EXCEPT ![id] = [upload |-> u, file |-> u, status |-> "pending"]]
       /\ queued' = [queued EXCEPT ![id] = @ + 1]
       /\ UNCHANGED << iso, derived, menu, runs, act, streams >>
       /\ NoteReuse(id)

--------------------------------------------------------------------------------
(* process_image                                                                *)

\* Faulty variant: a task starts without looking at the runs under way.
BeginUnchecked(t, id) ==
    /\ queued[id] > 0 /\ act[t].pc = "idle"
    /\ runs' = [runs EXCEPT ![id] = "live"]
    /\ queued' = [queued EXCEPT ![id] = @ - 1]
    /\ act' = [act EXCEPT ![t] = [Idle EXCEPT !.pc = "load", !.id = id]]
    /\ UNCHANGED << rows, iso, derived, menu, streams, born, leaked >>
    /\ NoteOvertaking

\* A task starts: its id is registered with a fresh stop flag.
Begin(t, id) ==
    /\ queued[id] > 0 /\ act[t].pc = "idle"
    /\ runs[id] = "none"
    /\ runs' = [runs EXCEPT ![id] = "live"]
    /\ queued' = [queued EXCEPT ![id] = @ - 1]
    /\ act' = [act EXCEPT ![t] = [Idle EXCEPT !.pc = "load", !.id = id]]
    /\ UNCHANGED << rows, iso, derived, menu, streams, born, leaked >>
    /\ NoteOvertaking

\* A task whose image has a run registered already returns at once.
Drop(id) ==
    /\ queued[id] > 0 /\ runs[id] # "none"
    /\ queued' = [queued EXCEPT ![id] = @ - 1]
    /\ UNCHANGED << rows, iso, derived, menu, runs, act, streams, born, history >>

\* The row is read; only a queued image is built.
Load(t) ==
    LET r == rows[act[t].id]
    IN /\ act[t].pc = "load"
       /\ act' = [act EXCEPT ![t] =
                    IF r.status = "pending"
                    THEN [@ EXCEPT !.pc = "claim", !.upload = r.upload, !.file = r.file]
                    ELSE [@ EXCEPT !.pc = "end"]]
       /\ UNCHANGED << rows, iso, derived, menu, runs, queued, streams, born, history >>

\* A commit that sets the row's status by id; StaleDataError if the row is gone.
CommitStatus(t, st, next) ==
    /\ IF Exists(act[t].id)
       THEN SetStatus(act[t].id, st) /\ Goto(t, next)
       ELSE UNCHANGED rows /\ Goto(t, "except")
    /\ UNCHANGED << iso, derived, menu, runs, queued, streams, born, history >>

\* "processing" is committed, then what an earlier run left is wiped
\* (_clean_derived_data): a deletion, which commutes with what others can do.
Claim(t) ==
    /\ act[t].pc = "claim"
    /\ IF Exists(act[t].id)
       THEN /\ SetStatus(act[t].id, "processing")
            /\ derived' = [derived EXCEPT ![act[t].id] = NoFiles]
            /\ CheckStop(t, "read")
       ELSE UNCHANGED << rows, derived >> /\ Goto(t, "except")
    /\ UNCHANGED << iso, menu, runs, queued, streams, born, history >>

\* check_stop() raises Cancelled and only the cleanup follows: the stop came
\* during a download, or between the end of a step and the check that ends it.
Cancel(t) ==
    /\ act[t].pc \in {"read", "extract", "unpack"} /\ Stopped(t)
    /\ Goto(t, "end")
    /\ UNCHANGED << rows, iso, derived, menu, runs, queued, streams, born, history >>

\* An ISO is listed; an archive is downloaded unless it is there (or the entry
\* names its kernel and initrd separately, and no archive is kept).  A Delete
\* that comes while the step goes on is noticed when it is over.
Read(t) ==
    /\ act[t].pc = "read"
    /\ IF Uploaded(t)
       THEN Source(t) # NoUpload /\ UNCHANGED iso
       ELSE \/ iso' = [iso EXCEPT ![act[t].file] = act[t].upload]
            \/ UNCHANGED iso
    /\ CheckStop(t, "extract")
    /\ UNCHANGED << rows, derived, menu, runs, queued, streams, born, history >>

\* The kernel and initrd are written to bootroot/os/<id>.  Only some families
\* look at the stop flag before they go on.
Extract(t) ==
    /\ act[t].pc = "extract" /\ Source(t) # NoUpload
    /\ derived' = [derived EXCEPT ![act[t].id] = [from |-> Source(t), whole |-> FALSE]]
    /\ CheckStop(t, "unpack") \/ Goto(t, "unpack")
    /\ UNCHANGED << rows, iso, menu, runs, queued, streams, born, history >>

\* The rest: the unpacked tree, the root filesystem, a patched boot.wim.  A live
\* image's ISO is deleted.
Unpack(t) ==
    /\ act[t].pc = "unpack" /\ Source(t) # NoUpload
    /\ derived' = [derived EXCEPT ![act[t].id] =
                     [from |-> Source(t), whole |-> @.from = Source(t)]]
    /\ \/ UNCHANGED iso
       \/ ~Uploaded(t) /\ iso' = [iso EXCEPT ![act[t].file] = NoUpload]
    /\ Goto(t, "commit")
    /\ UNCHANGED << rows, menu, runs, queued, streams, born, history >>

CommitReady(t) == act[t].pc = "commit" /\ CommitStatus(t, "ready", "render")

\* A step that fails in a way the code turns into a message.  Listing an ISO,
\* finding its kernel and extracting a Linux image return without ipxe.render;
\* Windows, XCP-NG and catalog images are rendered after the error.
Fail(t) ==
    /\ act[t].pc \in {"read", "extract", "unpack"}
    /\ \E next \in {"end", "render"} :
          /\ next = "end" => Uploaded(t)
          /\ next = "render" => ~(Uploaded(t) /\ act[t].pc = "read")
          /\ CommitStatus(t, "error", next)

\* Any other exception: a full disk, a truncated archive, a missing tool.
Raise(t) ==
    /\ act[t].pc \in {"read", "extract", "unpack"}
    /\ Goto(t, "except")
    /\ UNCHANGED << rows, iso, derived, menu, runs, queued, streams, born, history >>

\* Faulty variant: an unexpected exception is only logged.
ExceptLogged(t) ==
    /\ act[t].pc = "except"
    /\ Goto(t, "end")
    /\ UNCHANGED << rows, iso, derived, menu, runs, queued, streams, born, history >>

\* except Exception: the row is read afresh unless the run was told to stop.
Except(t) ==
    /\ act[t].pc = "except"
    /\ IF Stopped(t) \/ ~Exists(act[t].id)
       THEN UNCHANGED rows /\ Goto(t, "end")
       ELSE SetStatus(act[t].id, "error") /\ Goto(t, "render")
    /\ UNCHANGED << iso, derived, menu, runs, queued, streams, born, history >>

\* Faulty variant: a build that ends does not regenerate the menu.
RenderRunSkipped(t) ==
    /\ act[t].pc = "render"
    /\ Goto(t, "end")
    /\ UNCHANGED << rows, iso, derived, menu, runs, queued, streams, born, history >>

RenderRun(t) ==
    /\ act[t].pc = "render"
    /\ Render
    /\ Goto(t, "end")
    /\ UNCHANGED << rows, iso, derived, runs, queued, streams, born, history >>

\* Faulty variant: the stop flag is not looked at once the run is over.
EndForgetsDelete(t) ==
    /\ act[t].pc = "end"
    /\ runs' = [runs EXCEPT ![act[t].id] = "none"]
    /\ Return(t)
    /\ UNCHANGED << rows, iso, derived, menu, queued, streams, born, history >>

\* Faulty variant: the entry stays, as when the pop is left out of the finally.
EndKeepsEntry(t) ==
    /\ act[t].pc = "end"
    /\ IF Stopped(t) THEN Goto(t, "finish") ELSE Return(t)
    /\ UNCHANGED << rows, iso, derived, menu, runs, queued, streams, born, history >>

\* finally: the entry is popped and the stop flag read under the lock.
End(t) ==
    /\ act[t].pc = "end"
    /\ runs' = [runs EXCEPT ![act[t].id] = "none"]
    /\ IF Stopped(t) THEN Goto(t, "finish") ELSE Return(t)
    /\ UNCHANGED << rows, iso, derived, menu, queued, streams, born, history >>

\* _finish_delete: the row is read afresh; one that is gone leaves only what the
\* run wrote, one with another file name belongs to a later image.
Finish(t) ==
    LET r == rows[act[t].id]
    IN /\ act[t].pc = "finish"
       /\ IF ~Exists(act[t].id) THEN Goto(t, "sweep")
          ELSE IF r.file = act[t].file THEN Goto(t, "rmfiles")
          ELSE Return(t)
       /\ UNCHANGED << rows, iso, derived, menu, runs, queued, streams, born,
                       leaked >>
       /\ NoteOvertaking

\* Faulty variant: only the folders are cleared, not a downloaded archive.
SweepFoldersOnly(t) ==
    /\ act[t].pc = "sweep"
    /\ derived' = [derived EXCEPT ![act[t].id] = NoFiles]
    /\ Return(t)
    /\ UNCHANGED << rows, iso, menu, runs, queued, streams, born, history >>

\* The image is gone: what the run wrote since is removed.
Sweep(t) ==
    /\ act[t].pc = "sweep"
    /\ derived' = [derived EXCEPT ![act[t].id] = NoFiles]
    /\ iso' = IF act[t].file # NoName /\ ~FileInUse(act[t].file)
              THEN [iso EXCEPT ![act[t].file] = NoUpload] ELSE iso
    /\ Return(t)
    /\ UNCHANGED << rows, menu, runs, queued, streams, born, history >>

--------------------------------------------------------------------------------
(* Requests                                                                     *)

\* retry(), and each image bulk(action=reprocess) takes: the status is read ...
RetryLoad(t, id) ==
    /\ act[t].pc = "idle" /\ queued[id] < MaxQueued
    /\ Exists(id) /\ rows[id].status \notin BUSY
    /\ act' = [act EXCEPT ![t] = [pc |-> "retry", id |-> id, upload |-> rows[id].upload,
                                  file |-> rows[id].file]]
    /\ UNCHANGED << rows, iso, derived, menu, runs, queued, streams, born,
                    leaked >>
    /\ NoteOvertaking

\* ... and "pending" committed, by id, with the task queued.
RetryCommit(t) ==
    LET id == act[t].id
    IN /\ act[t].pc = "retry"
       /\ IF Exists(id)
          THEN SetStatus(id, "pending") /\ queued' = [queued EXCEPT ![id] = @ + 1]
          ELSE UNCHANGED << rows, queued >>
       /\ Return(t)
       /\ UNCHANGED << iso, derived, menu, runs, streams, born, history >>

\* delete(), and each image bulk(action=delete) takes.
DeleteLoad(t, id) ==
    /\ act[t].pc = "idle" /\ Exists(id)
    /\ act' = [act EXCEPT ![t] = [pc |-> "delete", id |-> id, upload |-> rows[id].upload,
                                  file |-> rows[id].file]]
    /\ UNCHANGED << rows, iso, derived, menu, runs, queued, streams, born, leaked >>
    /\ NoteOvertaking

\* delete_image under the lock: the first Delete of a running image stops it and
\* marks the row; any other Delete removes the image here, outside the lock.
DeleteCheck(t) ==
    LET id == act[t].id
    IN /\ act[t].pc = "delete"
       /\ IF runs[id] = "live"
          THEN /\ runs' = [runs EXCEPT ![id] = "stop"]
               /\ IF Exists(id) THEN SetStatus(id, "deleting") ELSE UNCHANGED rows
               /\ Return(t)
          ELSE UNCHANGED << rows, runs >> /\ Goto(t, "rmfiles")
       /\ UNCHANGED << iso, derived, menu, queued, streams, born, leaked >>
       /\ NoteOvertaking

\* Faulty variants: only the ISO is removed; only the derived files are.
RemoveIsoOnly(t) ==
    /\ act[t].pc = "rmfiles"
    /\ iso' = [iso EXCEPT ![act[t].file] = NoUpload]
    /\ Goto(t, "rmrow")
    /\ UNCHANGED << rows, derived, menu, runs, queued, streams, born, history >>

RemoveDerivedOnly(t) ==
    /\ act[t].pc = "rmfiles"
    /\ derived' = [derived EXCEPT ![act[t].id] = NoFiles]
    /\ Goto(t, "rmrow")
    /\ UNCHANGED << rows, iso, menu, runs, queued, streams, born, history >>

\* _remove_image: files, row, menu.
RemoveFiles(t) ==
    /\ act[t].pc = "rmfiles"
    /\ iso' = [iso EXCEPT ![act[t].file] = NoUpload]
    /\ derived' = [derived EXCEPT ![act[t].id] = NoFiles]
    /\ Goto(t, "rmrow")
    /\ UNCHANGED << rows, menu, runs, queued, streams, born, history >>

RemoveRow(t) ==
    LET id == act[t].id
    IN /\ act[t].pc = "rmrow"
       /\ rows' = [rows EXCEPT ![id] = NoRow]
       /\ Goto(t, "rmmenu")
       /\ UNCHANGED << iso, derived, menu, runs, queued, streams, born, history >>

RemoveMenu(t) ==
    /\ act[t].pc = "rmmenu"
    /\ Render
    /\ Return(t)
    /\ UNCHANGED << rows, iso, derived, runs, queued, streams, born, history >>

--------------------------------------------------------------------------------
(* The web process stops at any moment and starts again: memory is lost, then   *)
(* bootstrap.run() reconciles the rows with the disk and renders the menu.      *)

\* Faulty variants: the disk is not looked at; a status nothing else knows.
ReconciledRowUnchecked(id, kept, looksMissing) ==
    CASE rows[id].status = "deleting" -> NoRow
      [] rows[id].status \in IN_FLIGHT -> [rows[id] EXCEPT !.status = "needs_reprocess"]
      [] OTHER -> rows[id]

ReconciledRowUnknown(id, kept, looksMissing) ==
    CASE rows[id].status = "deleting" -> NoRow
      [] rows[id].status \in IN_FLIGHT -> [rows[id] EXCEPT !.status = "interrupted"]
      [] OTHER -> rows[id]

\* "docker compose down -v" may have destroyed the volumes of derived files too;
\* a partly written image may or may not lack a file reconcile_statuses looks for.
ReconciledRow(id, kept, looksMissing) ==
    CASE rows[id].status = "deleting" -> NoRow
      [] rows[id].status \in IN_FLIGHT -> [rows[id] EXCEPT !.status = "needs_reprocess"]
      [] rows[id].status = "ready" /\ (kept[id] = NoFiles \/ id \in looksMissing)
            -> [rows[id] EXCEPT !.status = "needs_reprocess"]
      [] OTHER -> rows[id]

Restart ==
    \E volumes \in {"kept", "destroyed"},
       looksMissing \in SUBSET {id \in MenuOf(rows) : ~derived[id].whole} :
       LET gone == {id \in Ids : rows[id].status = "deleting"}
           kept == [id \in Ids |-> IF volumes = "destroyed" \/ id \in gone THEN NoFiles
                                   ELSE derived[id]]
           table == [id \in Ids |-> ReconciledRow(id, kept, looksMissing)]
       IN /\ MayRestart
          /\ rows' = table
          /\ derived' = kept
          /\ iso' = [f \in Names |-> IF \E id \in gone : rows[id].file = f
                                     THEN NoUpload ELSE iso[f]]
          /\ menu' = MenuOf(table)
          /\ runs' = [id \in Ids |-> "none"]
          /\ queued' = [id \in Ids |-> 0]
          /\ act' = [t \in Threads |-> Idle]
          /\ streams' = {}
          /\ leaked' = leaked \cup {s.file : s \in streams}
          /\ raced' = (raced \/ overtaken # {})
          /\ UNCHANGED << born, overtaken >>

--------------------------------------------------------------------------------
Build(t) == \/ Load(t) \/ Claim(t) \/ Cancel(t) \/ Read(t) \/ Extract(t)
            \/ Unpack(t) \/ CommitReady(t) \/ Fail(t) \/ Raise(t) \/ Except(t)
            \/ RenderRun(t) \/ End(t) \/ Finish(t) \/ Sweep(t)

Remove(t) == RemoveFiles(t) \/ RemoveRow(t) \/ RemoveMenu(t)

Request(t) == \/ \E id \in Ids : RetryLoad(t, id) \/ DeleteLoad(t, id)
              \/ RetryCommit(t) \/ DeleteCheck(t)

Next == \/ \E f \in Names : UploadOpen(f)
        \/ \E s \in streams : UploadCommit(s)
        \/ AddNetboot
        \/ \E id \in Ids : Drop(id) \/ \E t \in Threads : Begin(t, id)
        \/ \E t \in Threads : Build(t) \/ Remove(t) \/ Request(t)
        \/ Restart

Spec == Init /\ [][Next]_vars

\* A thread that has started something goes on with it: every external command
\* ends and every download has a timeout.  Nothing else is fair.
Fairness == \A t \in Threads : WF_vars(Build(t) \/ Remove(t))
FairSpec == Spec /\ Fairness
--------------------------------------------------------------------------------
(* Properties                                                                   *)

\* The variables hold rows, files, entries and threads of the right kinds.
TypeOK == /\ rows \in [Ids -> Row \cup {NoRow}]
          /\ iso \in [Names -> Uploads \cup {NoUpload}]
          /\ derived \in [Ids -> [from : Uploads \cup {NoUpload}, whole : BOOLEAN]]
          /\ menu \subseteq Ids
          /\ runs \in [Ids -> {"none", "live", "stop"}]
          /\ queued \in [Ids -> Nat]
          /\ act \in [Threads -> Act]
          /\ streams \subseteq [upload : Uploads, file : Names]
          /\ born \in 0..MaxUploads
          /\ overtaken \subseteq Ids
          /\ raced \in BOOLEAN
          /\ leaked \subseteq Names

InRun(t)       == act[t].pc \in RunPcs
Builders(id)   == {t \in Threads : InRun(t) /\ act[t].id = id}
NobodyActs(id) == \A t \in Threads : act[t].id # id

\* process_image: no two threads build one image, whose folders they would wipe
\* for each other, and a thread that builds one is the one registered.
OneRunPerImage ==
    /\ \A t \in Threads : InRun(t) => runs[act[t].id] # "none"
    /\ \A t, u \in Threads : InRun(t) /\ InRun(u) /\ act[t].id = act[u].id => t = u

\* process_image implements the abstract lock, stop requests included.
Lock == INSTANCE BuildLock WITH phase <- runs, owner <- [id \in Ids |-> Builders(id)]
LockSpec == Lock!Spec

\* No removal under another thread can have touched the image: not that of an
\* image with its id, and, if its file is an ISO, none at all, since an ISO's name
\* may then pass to a second upload while a first one is written.
Undisturbed(id) == id \notin overtaken /\ (rows[id].file \in IsoNames => overtaken = {})

\* An image that says "ready" has all its files, built from its own upload,
\* through Reprocess, restarts and lost volumes, until its removal reaches the
\* row.  It can fail only once an image was removed under another thread.
ReadyIsBuilt ==
    \A id \in Ids :
        rows[id].status = "ready" /\ Undisturbed(id) =>
            \/ derived[id] = [from |-> rows[id].upload, whole |-> TRUE]
            \/ \E t \in Threads : act[t].pc = "rmrow" /\ act[t].id = id

\* The id SQLite gives to a new image may have been another's; its folders hold
\* nothing of that one.
FoldersAreItsOwn ==
    \A id \in Ids :
        Exists(id) /\ Undisturbed(id) => derived[id].from \in {NoUpload, rows[id].upload}

\* Every file on disk belongs to an image, to an upload or to a thread that is
\* still at work, the uploads a restart cut short apart (nothing removes those):
\* _remove_image and _finish_delete leave nothing, not even of a build that hangs
\* and whose image a second Delete removed under it.  That build must have been
\* told to stop, get to its end, and find its id not given to another image.
FilesAreOwned ==
    ~raced =>
        /\ \A f \in Names : iso[f] # NoUpload =>
               \/ FileInUse(f) \/ f \in leaked
               \/ \E s \in streams : s.file = f
               \/ \E t \in Threads : act[t].pc # "idle" /\ act[t].file = f
        /\ \A id \in Ids : derived[id] # NoFiles => Exists(id) \/ ~NobodyActs(id)

\* _unused_filename: no two images, and no image and an upload, share a source
\* file, though the name is chosen long before the row is committed.
NamesAreUnique ==
    overtaken = {} =>
        /\ \A i, j \in Ids : Exists(i) /\ rows[i].file = rows[j].file => i = j
        /\ \A s \in streams : ~FileInUse(s.file)

\* boot.ipxe offers no image that was removed, and every ready image once the
\* threads at work on it are done.
MenuIsCurrent ==
    /\ \A id \in menu : Exists(id) \/ \E t \in Threads : act[t].pc = "rmmenu"
    /\ \A id \in Ids : rows[id].status = "ready" /\ NobodyActs(id) => id \in menu

\* The comment on IN_FLIGHT: such an image's run is queued or under way.
InFlightIsAttended ==
    \A id \in Ids : rows[id].status \in IN_FLIGHT => queued[id] > 0 \/ ~NobodyActs(id)

\* The comment on DELETING: the run stops at its next step and removes the image.
DeletingIsAttended ==
    \A id \in Ids : rows[id].status = "deleting" => ~NobodyActs(id)

\* _finish_delete removes the image that was deleted while its run was going.
FinishRemovesItsImage ==
    [][\A t \in Threads : act[t].pc = "finish" /\ act'[t].pc = "rmfiles"
          => rows[act[t].id].upload = act[t].upload]_vars

\* A build told to stop after it read its row removes its image when it is over,
\* whatever it commits in between.
StoppedRunRemoves ==
    \A u \in Uploads :
        (\E t \in Threads : InRun(t) /\ Stopped(t) /\ act[t].upload = u)
            ~> \A id \in Ids : rows[id].upload # u

\* No failure leaves an image on "processing", where Reprocess skips it.
BuildEnds ==
    \A id \in Ids : rows[id].status = "processing"
        ~> rows[id].status # "processing" \/ id \in overtaken
================================================================================
