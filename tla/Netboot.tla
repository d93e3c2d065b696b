-------------------------------- MODULE Netboot ---------------------------------
(***************************************************************************)
(* A catalog image: add_netboot, the run that fetches its boot files       *)
(* (images._process_netboot, netboot.fetch_boot_files), Reprocess, Delete  *)
(* and restarts, while admins save, import and delete the custom entries   *)
(* it is built from.                                                       *)
(*                                                                         *)
(* An Edition is one content of an entry: it names a kernel and an initrd  *)
(* to fetch, or (Editions in Archived) an archive that holds both.  The    *)
(* life of the image's row is in ImageRuns; here it has one row.           *)
(***************************************************************************)
EXTENDS Download, FiniteSets, SequencesExt

CONSTANTS Ids, Editions, Archived, None, MaxCustom,
          UrlOf,     \* UrlOf[e][n]: where edition e finds file n
          Kernels,   \* the <<url, version>> that are Linux kernels
          ImageId,   \* the entry the image is made from
          LiveIso,   \* the edition of a built-in live desktop
          Requests, MaxRequests, MaxRestarts

ASSUME EditionsAssumption == /\ Archived \subseteq Editions /\ LiveIso \in Archived
                             /\ Editions # {LiveIso}
                             /\ ImageId \in Ids /\ None \notin Editions
                             /\ Names = {"vmlinuz", "initrd", "archive"}
                             /\ UrlOf \in [Editions -> [Names -> Urls]]

ASSUME BoundsAssumption == /\ IsFiniteSet(Ids) /\ MaxCustom \in Nat \ {0}
                           /\ MaxRequests \in Nat /\ MaxRestarts \in Nat

VARIABLES table,    \* the catalog_entries rows: Ids -> Editions or None
          req,      \* the catalog requests in progress
          image,    \* the image's row
          run,      \* its run's locals
          made, restarts   \* bounds: requests so far, restarts so far

catalogVars == << table, req >>
runVars     == << image, run >>
netbootVars == << downloadVars, catalogVars, runVars, made, restarts >>

BootFiles == << "vmlinuz", "initrd" >>
Idle      == [pc |-> "idle", seen |-> FALSE, todo |-> << >>]
IdleRun   == [pc |-> "idle", edition |-> None, todo |-> << >>, stop |-> FALSE]
NoImage   == [status |-> "none", live |-> FALSE, source |-> None, args |-> None]
Custom    == {id \in Ids : table[id] # None}

Statuses == {"none", "pending", "processing", "ready", "error", "deleting", "needs_reprocess"}
Jobs     == [id: Ids, edition: Editions, fresh: BOOLEAN]   \* fresh: of a new entry

RequestStates == [pc: {"idle", "store", "write", "delete"}, seen: BOOLEAN, todo: Seq(Jobs)]
ImageRows     == [status: Statuses, live: BOOLEAN, source: Editions \cup {None},
                  args: Editions \cup {None}]
RunStates     == [pc: {"idle", "lookup", "fetch", "extract", "end"}, stop: BOOLEAN,
                  edition: Editions \cup {None}, todo: Seq(Names)]

NetbootTypeOK == /\ DownloadTypeOK
                 /\ table \in [Ids -> Editions \cup {None}]
                 /\ req \in [Requests -> RequestStates]
                 /\ image \in ImageRows /\ run \in RunStates
                 /\ made \in 0..MaxRequests /\ restarts \in 0..MaxRestarts

\* A row as add_netboot inserts it: an archive's address is settled now, a kernel's
\* and initrd's when the run looks the entry up.
Queued(e) == [status |-> "pending", live |-> e = LiveIso, args |-> None,
              source |-> IF e \in Archived THEN e ELSE None]

\* What validate_entry lets an entry hold.  Bound: only the image's entry has more
\* than one content.
Contents(id) == IF id = ImageId THEN Editions \ {LiveIso}
                ELSE {CHOOSE e \in Editions \ {LiveIso} : TRUE}

\* The entry exists, and the image may have been added before.
NetbootInit ==
        /\ DownloadInit
        /\ \E e \in Contents(ImageId) :
               /\ table = [id \in Ids |-> IF id = ImageId THEN e ELSE None]
               /\ image \in {NoImage, Queued(e), Queued(LiveIso)}
        /\ req = [r \in Requests |-> Idle]
        /\ run = IdleRun
        /\ made = 0 /\ restarts = 0
--------------------------------------------------------------------------------
(* The catalog routes.  save_entry and import_entries run on the event loop and *)
(* do not give it up between their checks and their last commit; delete_entry   *)
(* is a plain function on a thread and may commit between any two of their      *)
(* statements.                                                                  *)

\* Slots are interchangeable: a request takes one that is free.
Ask(r) == /\ req[r].pc = "idle" /\ made < MaxRequests
          /\ r = CHOOSE q \in Requests : req[q].pc = "idle"
          /\ made' = made + 1
          /\ UNCHANGED << downloadVars, runVars, restarts >>

\* Bound: next to an image, only the entry it is made from is worked on; the others
\* neither read nor write anything its run does.
Concerned == IF image = NoImage THEN Ids ELSE {ImageId}

Threaded   == TRUE   \* faulty variant: the routes run on threads
LoopIsFree == \A r \in Requests : req[r].pc \notin {"store", "write"}

Stores(r, jobs) == /\ req' = [req EXCEPT ![r] = [Idle EXCEPT !.pc = "store", !.todo = jobs]]
                   /\ UNCHANGED table

\* free_entry_id: the id asked for, or one derived from it that is not taken.
AnyId(base)  == {base}   \* faulty variant: the id asked for
FreeId(base) == IF base \notin Custom THEN {base} ELSE Ids \ Custom

SaveNew(r) == /\ Ask(r) /\ LoopIsFree
              /\ Cardinality(Custom) < MaxCustom
              /\ \E base \in Concerned : \E id \in FreeId(base) \cap Concerned : \E e \in Contents(id) :
                     Stores(r, << [id |-> id, edition |-> e, fresh |-> TRUE] >>)

\* A form that edits an entry, which must still be there.
SaveEdited(r) == /\ Ask(r) /\ LoopIsFree
                 /\ \E id \in Custom \cap Concerned : \E e \in Contents(id) :
                        Stores(r, << [id |-> id, edition |-> e, fresh |-> FALSE] >>)

\* parse_import: the entries of a file, each valid and each id once.
Parsed(ids) == {f \in [ids -> Editions] : \A id \in ids : f[id] \in Contents(id)}

\* Entries of the file that replace one are not counted twice.
Import(r) == /\ Ask(r) /\ LoopIsFree
             /\ \E ids \in (SUBSET Concerned) \ {{}} : \E new \in Parsed(ids) :
                    LET list == SetToSeq(ids)
                    IN /\ Cardinality(Custom \cup ids) <= MaxCustom
                       /\ Stores(r, [i \in DOMAIN list |->
                                     [id |-> list[i], edition |-> new[list[i]], fresh |-> FALSE]])

\* store_entry: the row is looked up, then inserted or updated.  An update of a row
\* deleted in between raises, and the rest of an import is lost.
StoreReads(r) ==
    /\ req[r].pc = "store"
    /\ req' = [req EXCEPT ![r].pc = "write", ![r].seen = Head(req[r].todo).id \in Custom]
    /\ UNCHANGED << downloadVars, runVars, table, made, restarts >>

StoreCommits(r) ==
    LET job  == Head(req[r].todo)
        lost == req[r].seen /\ job.id \notin Custom
    IN /\ req[r].pc = "write"
       /\ table' = IF lost THEN table ELSE [table EXCEPT ![job.id] = job.edition]
       /\ req' = [req EXCEPT ![r] = IF lost \/ Len(req[r].todo) = 1 THEN Idle
                                    ELSE [Idle EXCEPT !.pc = "store", !.todo = Tail(req[r].todo)]]
       /\ UNCHANGED << downloadVars, runVars, made, restarts >>

DeleteReads(r) ==
    /\ Ask(r)
    /\ \E id \in Custom \cap Concerned :
           req' = [req EXCEPT ![r] = [Idle EXCEPT !.pc = "delete",
                       !.todo = << [id |-> id, edition |-> LiveIso, fresh |-> FALSE] >>]]
    /\ UNCHANGED table

DeleteCommits(r) == /\ req[r].pc = "delete"
                    /\ table' = [table EXCEPT ![Head(req[r].todo).id] = None]
                    /\ req' = [req EXCEPT ![r] = Idle]
                    /\ UNCHANGED << downloadVars, runVars, made, restarts >>
--------------------------------------------------------------------------------
(* The image and its run. *)

OnImage == /\ made < MaxRequests /\ made' = made + 1
           /\ UNCHANGED << catalogVars, restarts >>

Add(live) == /\ OnImage
             /\ image.status = "none" /\ run.pc = "idle"
             /\ live \/ ImageId \in Custom
             /\ image' = Queued(IF live THEN LiveIso ELSE table[ImageId])
             /\ UNCHANGED << downloadVars, run >>

Reprocess == /\ OnImage
             /\ image.status \in {"ready", "error", "needs_reprocess"} /\ run.pc = "idle"
             /\ image' = [image EXCEPT !.status = "pending"]
             /\ UNCHANGED << downloadVars, run >>

Without(names) == [n \in Names |-> IF n \in names THEN Absent ELSE disk[n]]

\* delete_image stops a run under way, or removes the row and its files.
DeleteImage == /\ OnImage
               /\ image.status \notin {"none", "deleting"}
               /\ IF run.pc = "idle"
                  THEN /\ image' = NoImage /\ disk' = Without(Names)
                       /\ UNCHANGED << run, mirror, part, call >>
                  ELSE /\ image' = [image EXCEPT !.status = "deleting"]
                       /\ run' = [run EXCEPT !.stop = TRUE]
                       /\ UNCHANGED downloadVars

RunOnly == UNCHANGED << catalogVars, made, restarts >>

\* process_image up to _process_netboot: what an earlier run made is wiped.
Begin == /\ image.status = "pending" /\ run.pc = "idle"
         /\ image' = [image EXCEPT !.status = "processing"]
         /\ run' = [IdleRun EXCEPT !.pc = "lookup"]
         /\ disk' = Without({"vmlinuz", "initrd"})
         /\ UNCHANGED << mirror, part, call >>

Entry == IF image.live THEN LiveIso ELSE table[ImageId]

Fails == run' = [run EXCEPT !.pc = "end", !.todo = << >>, !.edition = None]

Lookup == /\ run.pc = "lookup"
          /\ IF Entry = None THEN Fails
             ELSE LET fetched == IF Entry \notin Archived THEN BootFiles
                                 ELSE IF image.source # None /\ ~disk["archive"].there
                                      THEN << "archive" >> ELSE << >>
                  IN run' = [run EXCEPT !.pc = IF fetched = << >> THEN "extract" ELSE "fetch",
                                        !.edition = Entry, !.todo = fetched]
          /\ UNCHANGED << image, downloadVars >>

\* An archive comes from the address settled by Add.
NextUrl == LET from == IF Head(run.todo) = "archive" THEN image.source ELSE run.edition
           IN UrlOf[from][Head(run.todo)]

Download == /\ run.pc = "fetch" /\ run.todo # << >>
            /\ Fetch(NextUrl, Head(run.todo))
            /\ UNCHANGED runVars

\* st_size and _is_kernel, which looks at the first bytes.
Accepted(n) == /\ disk[n].bytes # << >>
               /\ n = "vmlinuz" => << disk[n].url, disk[n].bytes[1].version >> \in Kernels

Fetched == /\ run.pc = "fetch" /\ call.pc = "done"
           /\ IF call.name # "archive" /\ ~Accepted(call.name) THEN Fails
              ELSE run' = [run EXCEPT !.todo = Tail(@),
                               !.pc = IF Len(run.todo) > 1 THEN "fetch"
                                      ELSE IF call.name = "archive" THEN "extract" ELSE "end"]
           /\ call' = NoCall
           /\ UNCHANGED << image, mirror, disk, part >>

NotFetched == /\ run.pc = "fetch" /\ call.pc \in {"failed", "cancelled"}
              /\ Fails
              /\ call' = NoCall
              /\ UNCHANGED << image, mirror, disk, part >>

\* extract_boot_files copies the kernel and the initrd out of the archive; so does
\* _extract_live_files, whose ISO is then dropped.
FromArchive == [n \in Names |-> disk["archive"]]
FromLiveIso == [FromArchive EXCEPT !["archive"] = Absent]

\* A member may be missing, or the archive damaged or gone.
Extract == /\ run.pc = "extract"
           /\ \/ /\ Fails
                 /\ UNCHANGED disk
              \/ /\ disk["archive"].there /\ ~run.stop
                 /\ run' = [run EXCEPT !.pc = "end"]
                 /\ disk' = IF image.live THEN FromLiveIso ELSE FromArchive
           /\ UNCHANGED << image, mirror, part, call >>

\* The kernel command line is made from the entry the run looked up.
ArgsLookedUpAgain == Entry   \* faulty variant
Args == run.edition

End == /\ run.pc = "end"
       /\ run' = IdleRun
       /\ IF run.stop
          THEN image' = NoImage /\ disk' = Without(Names)
          ELSE /\ image' = [image EXCEPT !.status = IF run.edition = None THEN "error" ELSE "ready",
                                         !.args = IF run.edition = None THEN @ ELSE Args]
               /\ UNCHANGED disk
       /\ UNCHANGED << mirror, part, call >>

\* Bound: one publication, while a run is under way.
MayPublish == mirror = [u \in Urls |-> 1] /\ run.pc # "idle"

RunStep == \/ (Begin \/ Lookup \/ Download \/ Fetched \/ NotFetched \/ Extract \/ End) /\ RunOnly
           \/ DownloadStep(run.stop) /\ RunOnly /\ UNCHANGED runVars

\* The container stops while something is under way: requests and the run are
\* lost, .part files stay, and bootstrap reconciles the row.
Restart == /\ restarts < MaxRestarts /\ restarts' = restarts + 1
           /\ run.pc # "idle" \/ \E r \in Requests : req[r].pc # "idle"
           /\ req' = [r \in Requests |-> Idle]
           /\ run' = IdleRun
           /\ call' = NoCall
           /\ IF image.status = "deleting"
              THEN image' = NoImage /\ disk' = Without(Names)
              ELSE /\ image' = [image EXCEPT !.status =
                                    IF @ \in {"pending", "processing"} THEN "needs_reprocess" ELSE @]
                   /\ UNCHANGED disk
           /\ UNCHANGED << mirror, part, table, made >>

NetbootNext ==
        \/ \E r \in Requests : \/ SaveNew(r) \/ SaveEdited(r) \/ Import(r) \/ DeleteReads(r)
                               \/ StoreReads(r) \/ StoreCommits(r) \/ DeleteCommits(r)
        \/ Add(FALSE) \/ Add(TRUE) \/ Reprocess \/ DeleteImage
        \/ RunStep \/ Restart
        \/ \E u \in Urls : MayPublish /\ Publish(u) /\ RunOnly /\ UNCHANGED runVars

--------------------------------------------------------------------------------
(* Properties. *)

\* A ready image boots: its kernel is a kernel, neither boot file is empty, and the
\* files and the kernel command line are of one edition of its entry, whatever was
\* saved, deleted, retried or restarted meanwhile (_process_netboot looks the entry
\* up once; fetch_boot_files starts from a wiped folder).
ReadyBoots ==
    image.status = "ready" =>
        /\ image.args # None
        /\ \A n \in {"vmlinuz", "initrd"} :
            /\ disk[n].there
            /\ image.args \notin Archived =>
                   /\ disk[n].url = UrlOf[image.args][n]
                   /\ Accepted(n)

\* MAX_CUSTOM_ENTRIES is never exceeded, although saves and imports count first and
\* store one entry after another while other admins add and delete.
CapHolds == Cardinality(Custom) <= MaxCustom

\* A new entry is stored under an id of its own: between free_entry_id and its commit
\* no other request takes it, so nobody's entry is replaced by adding one.
NewIsNew == \A r \in Requests : req[r].pc \in {"store", "write"} /\ Head(req[r].todo).fresh
                => Head(req[r].todo).id \notin Custom

\* Whatever the mirror does (stalls, drops, answers without end), a run comes to its
\* end: the attempts and the size cap bound every download.
RunEnds == run.pc # "idle" ~> run.pc = "idle"
================================================================================
