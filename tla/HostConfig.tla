------------------------------- MODULE HostConfig -------------------------------
(***************************************************************************)
(* The server settings and what is generated from them: routers/settings.py*)
(* and setup.py, services/bootstrap.py, dnsmasq.py, the menu of ipxe.py,   *)
(* services/restore.py, which replaces the database file, and the watcher  *)
(* in dnsmasq/entrypoint.sh.                                               *)
(*                                                                         *)
(* Saving runs on the event loop and holds it from the form to the         *)
(* response; so does startup.  Applying a restore and drawing the menu     *)
(* after a build run in pool threads beside it.  An upload of a backup     *)
(* holds the loop only between two pieces of the file.                     *)
(***************************************************************************)
EXTENDS Integers, FiniteSets

CONSTANTS
    Here,         \* addresses and interfaces this host has
    Foreign,      \* one it does not have
    Unset,        \* no value
    Modes,        \* what the rest of the settings may say
    HostVisible,  \* is the host's /proc mounted into the container
    Requests,     \* requests that can be in flight at once
    Startup,      \* the start of the web process, as another such slot
    Nothing,      \* no file
    MaxRequests,  \* bound: requests in a behaviour
    MaxRestarts   \* bound: crashes of the web process

ASSUME ValuesAssumption   == /\ Here # {} /\ Modes # {}
                             /\ Foreign \notin Here /\ Unset \notin Here /\ Unset # Foreign
ASSUME HostLimits         == MaxRequests \in Nat /\ MaxRestarts \in Nat
ASSUME SlotsAssumption    == Startup \notin Requests /\ HostVisible \in BOOLEAN

VARIABLES
    disk,      \* the file at DB_PATH
    held,      \* the replaced file this process still has open, if any
    staged,    \* restore-staged.db
    pre,       \* pxe.db.pre-restore
    conf,      \* dnsmasq.conf and the second it was written in
    fresh,     \* is it still that second
    dns,       \* the dnsmasq container
    menu,      \* the address in boot.ipxe
    grub,      \* the address in the XCP-NG boot loaders
    req,       \* requests in flight
    previews,  \* the files whose preview was shown, hence the tokens given out
    made,      \* how many requests were made
    restarts,  \* how many crashes there were
    swaps,     \* history: what the last restore replaced, and what was asked for
    mingled,   \* history: an upload, a cancel or another apply crossed an apply
    crossed,   \* history: menus were written that had been drawn at the same time
    missed     \* history: dnsmasq.conf changed again in the second dnsmasq started

dbVars   == << disk, held, staged, pre, previews, swaps, mingled >>
confVars == << conf, fresh, missed >>
hostVars == << disk, held, staged, pre, conf, fresh, dns, menu, grub, req, previews,
               made, restarts, swaps, mingled, crossed, missed >>

Hosts == Here \cup {Foreign, Unset}

\* A database: the value of HOST_KEYS, the other settings, whose backup it is (0:
\* this host's own) and whether it is whole and has what inspect_backup asks for.
Db    == [host : Hosts, mode : Modes, from : Nat, ok : BOOLEAN]
Files == Db \cup {Nothing}

ASSUME NothingAssumption == Nothing \notin Hosts /\ Nothing \notin Db

\* A file inspect_backup turns down: still incomplete, corrupt, or not Beacon's.
Unusable(n) == [host |-> Unset, mode |-> CHOOSE m \in Modes : TRUE, from |-> n,
                ok |-> FALSE]

\* What build_config makes of a database, or a file that is being written.
Text(d)  == [host |-> d.host, mode |-> d.mode]
Torn     == [host |-> Unset, mode |-> "torn"]
Texts    == [host : Hosts, mode : Modes] \cup {Torn}

Keys  == {"host", "mode"}
Slots == Requests \cup {Startup}
Ops   == {"none", "save", "upload", "apply", "render", "start", "stopped"}
Steps == {"idle", "keys", "conf", "write", "menu", "draw", "grub", "bake",
          "transfer", "preview", "token", "inspect", "rewrite", "copy", "replace"}

\* new: what is saved or uploaded; token: the file that was previewed; keep: the
\* host value a restore keeps; ino: the file an upload writes to.
Request == [op : Ops, pc : Steps, todo : SUBSET Keys, new : Files, token : Files,
            keep : Hosts \cup {Nothing}, ino : {"none", "staged", "disk", "gone"},
            drawn : Hosts, late : BOOLEAN, n : Nat]
Idle    == [op |-> "none", pc |-> "idle", todo |-> {}, new |-> Nothing,
            token |-> Nothing, keep |-> Nothing, ino |-> "none", drawn |-> Unset,
            late |-> FALSE, n |-> 0]

Active(r)  == req[r].pc # "idle"
Serving    == req[Startup].op = "none"
\* The event loop is free: no save is running.
LoopFree   == Serving /\ \A r \in Requests : req[r].op # "save"
Applying   == {r \in Requests : req[r].pc \in {"inspect", "rewrite", "copy", "replace"}}

\* A connection of the pool was opened before or after the file was replaced.
Readable   == {disk} \cup (IF held = Nothing THEN {} ELSE {held})

Open(r, q) == /\ ~Active(r) /\ made < MaxRequests
              /\ made' = made + 1
              /\ req' = [req EXCEPT ![r] = [q EXCEPT !.n = made + 1]]

Goto(r, pc)   == req' = [req EXCEPT ![r].pc = pc]
Close(r)      == req' = [req EXCEPT ![r] = Idle]

HostInit ==
    /\ disk = [host |-> CHOOSE h \in Here : TRUE, mode |-> CHOOSE m \in Modes : TRUE,
               from |-> 0, ok |-> TRUE]
    /\ held = Nothing
    /\ pre = [disk EXCEPT !.from = MaxRequests + 2]   \* from an earlier restore
    \* a backup may have been uploaded and looked at before
    /\ staged \in {Nothing} \cup
                 [host : Hosts, mode : Modes, from : {MaxRequests + 1}, ok : {TRUE}]
    /\ previews = {staged} \ {Nothing}
    /\ conf = [text |-> Text(disk), stamp |-> 1]
    /\ fresh = FALSE
    /\ dns = [text |-> Text(disk), last |-> 1, up |-> TRUE]
    /\ menu = disk.host /\ grub = disk.host
    /\ req = [r \in Slots |-> Idle]
    /\ made = 0 /\ restarts = 0
    /\ swaps = [old |-> Nothing, token |-> Nothing]
    /\ mingled = FALSE /\ crossed = FALSE /\ missed = FALSE

--------------------------------------------------------------------------------
(* Saving the settings, in Server settings or the first-run wizard.             *)

Save(r) == /\ LoopFree
           /\ \E h \in Here, m \in Modes :
                 Open(r, [Idle EXCEPT !.op = "save", !.pc = "keys", !.todo = Keys,
                            !.new = [host |-> h, mode |-> m, from |-> 0, ok |-> TRUE]])
           /\ UNCHANGED << dbVars, confVars, dns, menu, grub, restarts, crossed >>

\* set_setting commits each key by itself, in the order of a Python set.
SaveKey(r, k) ==
    LET Put(d) == IF k = "host" THEN [d EXCEPT !.host = req[r].new.host]
                                ELSE [d EXCEPT !.mode = req[r].new.mode]
    IN /\ req[r].pc = "keys" /\ k \in req[r].todo
       /\ \/ disk' = Put(disk) /\ UNCHANGED held
          \/ held # Nothing /\ held' = Put(held) /\ UNCHANGED disk
       /\ req' = [req EXCEPT ![r].todo = @ \ {k},
                             ![r].pc = IF req[r].todo = {k} THEN "conf" ELSE @]
       /\ UNCHANGED << staged, pre, previews, swaps, mingled, confVars, dns, menu,
                       grub, made, restarts, crossed >>

--------------------------------------------------------------------------------
(* Generated files: dnsmasq.render, ipxe.render, rebuild_xcpng_grub_all.        *)

\* The modification time has whole seconds.
Written(text) ==
    /\ conf' = [text |-> text, stamp |-> IF fresh THEN conf.stamp ELSE conf.stamp + 1]
    /\ fresh' = TRUE
    /\ missed' = (missed \/ conf'.stamp = dns.last)

Second == /\ fresh /\ fresh' = FALSE
          /\ UNCHANGED << dbVars, conf, missed, dns, menu, grub, req, made, restarts,
                          crossed >>

\* The file is left alone if it already says so.
Current(d) == conf.text = Text(d)

\* Faulty variant: saving forgets the menu.
NoMenuOnSave(op) == IF op = "save" THEN "grub" ELSE "menu"

\* Both startup and saving go on with the menu.
AfterConf(op) == "menu"

\* dnsmasq.render: the file is truncated, then written.
RenderConf(r) ==
    /\ req[r].pc = "conf"
    /\ \E d \in Readable :
          IF Current(d) THEN Goto(r, AfterConf(req[r].op)) /\ UNCHANGED confVars
          ELSE /\ Written(Torn)
               /\ req' = [req EXCEPT ![r].pc = "write", ![r].new = d]
    /\ UNCHANGED << dbVars, dns, menu, grub, made, restarts, crossed >>

WriteConf(r) == /\ req[r].pc = "write"
                /\ Written(Text(req[r].new))
                /\ Goto(r, AfterConf(req[r].op))
                /\ UNCHANGED << dbVars, dns, menu, grub, made, restarts, crossed >>

\* ipxe.render after a build or a change of the menu, in a pool thread.
DrawMenu(r) == /\ Serving
               /\ Open(r, [Idle EXCEPT !.op = "render", !.pc = "menu"])
               /\ UNCHANGED << dbVars, confVars, dns, menu, grub, restarts, crossed >>

RenderMenu(r) == /\ req[r].pc = "menu"
                 /\ \E d \in Readable :
                       req' = [req EXCEPT ![r].pc = "draw", ![r].drawn = d.host]
                 /\ UNCHANGED << dbVars, confVars, dns, menu, grub, made, restarts,
                                 crossed >>

WriteMenu(r) ==
    /\ req[r].pc = "draw"
    /\ menu' = req[r].drawn
    /\ crossed' = (crossed \/ \E x \in Slots \ {r} : req[x].pc = "draw")
    /\ IF req[r].op = "save" THEN Goto(r, "grub") ELSE Close(r)
    /\ UNCHANGED << dbVars, confVars, dns, grub, made, restarts >>

RebuildGrub(r) == /\ req[r].pc = "grub"
                  /\ \E d \in Readable : grub' = d.host
                  /\ Goto(r, "bake")
                  /\ UNCHANGED << dbVars, confVars, dns, menu, made, restarts, crossed >>

\* rebuild_windows_setup_all: what it does to the boot images is Drivers' matter.
SaveEnds(r) == /\ req[r].pc = "bake" /\ Close(r)
               /\ UNCHANGED << dbVars, confVars, dns, menu, grub, made, restarts,
                               crossed >>

--------------------------------------------------------------------------------
(* Restoring a backup.                                                          *)

\* Whoever disturbs the staged file while an apply works on it.
Mingles == mingled' = (mingled \/ Applying # {})

\* restore_preview opens the one staged file anew, also over another upload's.
UploadOpen(r) ==
    /\ LoopFree
    /\ \E d \in {Unusable(made + 1)} \cup
               [host : Hosts, mode : Modes, from : {made + 1}, ok : {TRUE}] :
          Open(r, [Idle EXCEPT !.op = "upload", !.pc = "transfer", !.ino = "staged",
                     !.new = d])
    /\ staged' = Unusable(made + 1)
    /\ Mingles
    /\ UNCHANGED << disk, held, pre, previews, swaps, confVars, dns, menu, grub,
                    restarts, crossed >>

\* The last piece.  It goes to the file that was opened, wherever that is by now;
\* two uploads into one file may leave something that is neither.
UploadWrite(r) ==
    LET q     == req[r]
        alone == \A x \in Requests \ {r} : req[x].ino # q.ino
        Lands == IF alone THEN {q.new} ELSE {q.new, Unusable(q.n)}
    IN /\ q.pc = "transfer" /\ LoopFree
       /\ \E d \in Lands :
             /\ staged' = IF q.ino = "staged" THEN d ELSE staged
             /\ disk'   = IF q.ino = "disk" THEN d ELSE disk
       /\ Mingles
       /\ Goto(r, "preview")
       /\ UNCHANGED << held, pre, previews, swaps, confVars, dns, menu, grub, made,
                       restarts, crossed >>

\* An upload that is still being written when the staged file goes away keeps
\* writing to it.
Lose(rest, to) == [x \in Slots |-> IF rest[x].ino = "staged"
                                   THEN [rest[x] EXCEPT !.ino = to] ELSE rest[x]]

\* build_preview and token_for: what is staged now is shown, and its digest given.
Preview(r) ==
    /\ req[r].pc = "preview" /\ LoopFree
    /\ IF staged # Nothing /\ staged.ok
       THEN /\ previews' = previews \cup {staged}
            /\ Close(r)
            /\ UNCHANGED << staged, mingled >>
       ELSE /\ staged' = Nothing
            /\ Mingles
            /\ req' = Lose([req EXCEPT ![r] = Idle], "gone")
            /\ UNCHANGED previews
    /\ UNCHANGED << disk, held, pre, swaps, confVars, dns, menu, grub, made, restarts,
                    crossed >>

Cancel == /\ Serving /\ staged # Nothing /\ made < MaxRequests
          /\ made' = made + 1
          /\ staged' = Nothing
          /\ Mingles
          /\ req' = Lose(req, "gone")
          /\ UNCHANGED << disk, held, pre, previews, swaps, confVars, dns, menu, grub,
                          restarts, crossed >>

Apply(r, token) ==
    /\ Serving
    /\ Open(r, [Idle EXCEPT !.op = "apply", !.pc = "token", !.token = token])
    /\ UNCHANGED << dbVars, confVars, dns, menu, grub, restarts, crossed >>

\* Faulty variant: any staged file will do.
AnyStaged(token) == staged # Nothing

\* The staged file has the digest that was given out.
Matches(token) == staged = token

\* restore_apply up to apply(): a file that does not match is dropped.
CheckToken(r) ==
    /\ req[r].pc = "token"
    /\ IF Matches(req[r].token)
       THEN /\ Goto(r, "inspect")
            /\ mingled' = (mingled \/ Applying # {} \/
                           \E x \in Requests : req[x].ino = "staged" /\ req[x].pc = "transfer")
            /\ UNCHANGED staged
       ELSE /\ staged' = Nothing
            /\ Mingles
            /\ req' = Lose([req EXCEPT ![r] = Idle], "gone")
    /\ UNCHANGED << disk, held, pre, previews, swaps, confVars, dns, menu, grub, made,
                    restarts, crossed >>

\* Faulty variant: a value that cannot be verified is only kept out if it is empty.
TrustedValue(now, incoming) == IF incoming = Unset THEN now ELSE Nothing

\* _host_decision: the value to keep, or Nothing if the backup's is restored.
HostDecision(now, incoming) ==
    IF incoming = now THEN Nothing
    ELSE IF incoming = Unset THEN now
    ELSE IF ~HostVisible \/ incoming \in Here THEN Nothing ELSE now

\* build_preview once more, against the database as it stands now.
Inspect(r) ==
    /\ req[r].pc = "inspect"
    /\ IF staged # Nothing /\ staged.ok
       THEN /\ \E d \in Readable :
                  req' = [req EXCEPT ![r].pc = "rewrite",
                                     ![r].keep = HostDecision(d.host, staged.host)]
            /\ UNCHANGED << staged, mingled >>
       ELSE /\ staged' = Nothing
            /\ mingled' = (mingled \/ Cardinality(Applying) > 1)
            /\ req' = Lose([req EXCEPT ![r] = Idle], "gone")
    /\ UNCHANGED << disk, held, pre, previews, swaps, confVars, dns, menu, grub, made,
                    restarts, crossed >>

\* Faulty variant: the override is written whether or not there is one.
AlwaysOverridden(d, keep) == [d EXCEPT !.host = keep]

\* The host value that is kept goes into the staged file.
Overridden(d, keep) == IF keep = Nothing THEN d ELSE [d EXCEPT !.host = keep]

\* _rewrite_staged.  A file that is gone is created, empty, and then lacks the table.
RewriteStaged(r) ==
    /\ req[r].pc = "rewrite"
    /\ IF staged # Nothing /\ staged.ok
       THEN /\ staged' = Overridden(staged, req[r].keep)
            /\ Goto(r, "copy")
       ELSE /\ staged' = IF staged # Nothing THEN staged ELSE Unusable(req[r].n)
            /\ Close(r)
    /\ UNCHANGED << disk, held, pre, previews, swaps, mingled, confVars, dns, menu,
                    grub, made, restarts, crossed >>

\* Faulty variant: a safety copy that exists is not overwritten.
FirstCopy(old) == old

\* Faulty variant: the copy is made too late, of what has been put in place.
LateCopy(old) == IF staged = Nothing THEN old ELSE staged

\* The safety copy of what is being replaced, over the previous one.
SafetyCopy(old) == disk

CopyLive(r) == /\ req[r].pc = "copy"
               /\ pre' = SafetyCopy(pre)
               /\ Goto(r, "replace")
               /\ UNCHANGED << disk, held, staged, previews, swaps, mingled, confVars,
                               dns, menu, grub, made, restarts, crossed >>

\* os.replace.  The connections of the pool keep the file that was replaced.
Replace(r) ==
    /\ req[r].pc = "replace"
    /\ IF staged = Nothing
       THEN Close(r) /\ UNCHANGED << disk, held, staged, swaps >>
       ELSE /\ disk' = staged
            /\ staged' = Nothing
            /\ held' \in (IF held = Nothing THEN {disk} ELSE {disk, held})
            /\ swaps' = [old |-> disk, token |-> req[r].token]
            /\ req' = Lose([req EXCEPT ![r] = Idle], "disk")
    /\ UNCHANGED << pre, previews, mingled, confVars, dns, menu, grub, made, restarts,
                    crossed >>

--------------------------------------------------------------------------------
(* Starting again, and the dnsmasq container.                                   *)

\* Faulty variant: startup draws the menu only.
StartsWithMenu == "menu"

\* Startup generates both files.
StartsWith == "conf"

\* The web process stops: by a crash, or because the daemon answers restart_self.
Restart ==
    /\ \/ held # Nothing /\ UNCHANGED restarts
       \/ restarts < MaxRestarts /\ restarts' = restarts + 1
    /\ req' = [r \in Slots |-> IF r = Startup
                               THEN [Idle EXCEPT !.op = "start", !.pc = StartsWith]
                               ELSE Idle]
    /\ held' = Nothing
    \* bootstrap.run needs a database that opens, and seeds what is missing.
    /\ disk.ok
    /\ disk' \in {[disk EXCEPT !.host = h] :
                     h \in IF disk.host = Unset THEN Here ELSE {disk.host}}
    /\ UNCHANGED << staged, pre, previews, swaps, mingled, confVars, dns, menu, grub,
                    made, crossed >>

\* The watcher compares the modification time, then starts dnsmasq, which reads the
\* file.
Poll == /\ dns.up /\ dns.last # conf.stamp
        /\ dns' = [dns EXCEPT !.last = conf.stamp, !.up = FALSE]
        /\ UNCHANGED << dbVars, confVars, menu, grub, req, made, restarts, crossed >>

\* Faulty variant: dnsmasq is sent SIGHUP, on which it keeps its main configuration.
Reloaded == dns.text

\* dnsmasq reads its main configuration when it starts.
ReadAtStart == conf.text

StartDnsmasq == /\ ~dns.up
                /\ dns' = [dns EXCEPT !.text = ReadAtStart, !.up = TRUE]
                /\ UNCHANGED << dbVars, confVars, menu, grub, req, made, restarts,
                                crossed >>

\* dnsmasq ends by itself on an interface it does not find; Docker starts the
\* container again.
DnsmasqExits == /\ dns.up /\ dns.text.host = Foreign
                /\ dns' = [dns EXCEPT !.last = conf.stamp, !.up = FALSE]
                /\ UNCHANGED << dbVars, confVars, menu, grub, req, made, restarts,
                                crossed >>

Saving(r)    == (\E k \in Keys : SaveKey(r, k)) \/ RebuildGrub(r)
Rendering(r) == RenderConf(r) \/ WriteConf(r) \/ RenderMenu(r) \/ WriteMenu(r)
Restoring(r) == \/ UploadWrite(r) \/ Preview(r)
                \/ CheckToken(r) \/ Inspect(r) \/ RewriteStaged(r)
                \/ CopyLive(r) \/ Replace(r)
Watching     == Poll \/ StartDnsmasq \/ DnsmasqExits

HostNext == \/ \E r \in Requests : \/ Save(r) \/ DrawMenu(r) \/ UploadOpen(r)
                                   \/ \E token \in previews : Apply(r, token)
                                   \/ Saving(r) \/ Restoring(r)
            \/ \E r \in Slots : Rendering(r)
            \/ Cancel
            \/ Restart
            \/ Watching
            \/ Second

HostSpec == /\ HostInit /\ [][HostNext \/ \E r \in Requests : SaveEnds(r)]_hostVars
            /\ WF_hostVars(Watching)

--------------------------------------------------------------------------------
(* Properties.                                                                  *)

HostTypeOK ==
    /\ disk \in Db /\ pre \in Db /\ {held, staged} \subseteq Files
    /\ conf \in [text : Texts, stamp : Nat] /\ fresh \in BOOLEAN
    /\ dns \in [text : Texts, last : Nat, up : BOOLEAN]
    /\ menu \in Hosts /\ grub \in Hosts
    /\ req \in [Slots -> Request]
    /\ previews \subseteq Db
    /\ made \in 0..MaxRequests /\ restarts \in 0..MaxRestarts
    /\ swaps \in [old : Files, token : Files]
    /\ {mingled, crossed, missed} \subseteq BOOLEAN

\* What is applied is what the admin saw in the preview, host values aside (the token
\* of restore_apply), unless something disturbed the staged file during the apply.
PreviewedIsApplied ==
    disk.from # 0 /\ ~mingled => /\ disk.ok
                                 /\ \E p \in previews : p = swaps.token /\ p.from = disk.from

\* A restore never puts a value of another machine into use (_host_decision and
\* _rewrite_staged): neither the database nor the configuration nor dnsmasq has one.
ForeignHostKeptOut ==
    HostVisible /\ ~mingled =>
                /\ disk.host # Foreign
                /\ Foreign \notin {conf.text.host, dns.text.host, menu, grub}

\* A restore can be undone: the safety copy is the database the last one replaced, or,
\* once the next has begun, the one that it is about to replace.  Excepted are applies
\* and uploads that cross an apply.
SafetyCopyUndoes ==
    swaps.old # Nothing /\ ~mingled => pre.from \in {swaps.old.from, disk.from}

\* Restoring implements what Restores promises: whatever uploads, cancels, saves and
\* crashes go on beside it, the database is replaced at once, by a previewed file, with
\* a copy of what it was in place, and the host value is one this machine can have.
R == INSTANCE Restores WITH live <- disk, safe <- pre, shown <- previews,
                            disturbed <- mingled,
                            Own <- IF HostVisible THEN Hosts \ {Foreign} ELSE Hosts
RestoreSpec == R!Spec

Quiet == /\ \A r \in Slots : ~Active(r)
         /\ held = Nothing

\* With no request under way and no restart pending, what dnsmasq is to read and the
\* menu say what the database says, whatever crashes and restores there were.  Menus
\* that were drawn at the same time are excepted.
ConfFollowsSettings == Quiet => conf.text = Text(disk)
MenuFollowsSettings == Quiet /\ ~crossed => menu = disk.host

\* dnsmasq always gets to run with the file as it is, unless the file changed again
\* within the second whose time stamp the watcher had already taken.
LatestConfIsRun == []<>(dns.text = conf.text \/ missed)
================================================================================
