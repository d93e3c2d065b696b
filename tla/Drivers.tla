--------------------------------- MODULE Drivers ---------------------------------
(***************************************************************************)
(* Driver packs and the boot images they are baked into: routers/drivers.py*)
(* and services/drivers.py, and of services/images.py the patching of a    *)
(* Windows image's boot.wim, which also carries the server's address.      *)
(*                                                                         *)
(* Fetching and deleting run in pool threads; an upload runs on the event  *)
(* loop and lets others in while it waits for data, but not while it       *)
(* re-bakes.  Nothing locks a pack's folder or the boot.wim.               *)
(***************************************************************************)
EXTENDS FiniteSets

CONSTANTS
    Packs,       \* names of driver packs
    BootPacks,   \* those baked into boot.wim; the others are on the SMB share
    Addresses,   \* server addresses
    Jobs         \* requests and builds that can be under way at once

VARIABLES
    folder,      \* what is in each pack's folder
    wim,         \* the address and the packs in the boot.wim of a Windows image
    ready,       \* is the image ready
    job,         \* what is under way
    mixed,       \* history: packs two jobs worked on at once, or a crash cut off
    lapped       \* history: something changed while a boot.wim was being made

driverVars == << folder, wim, ready, job, mixed, lapped >>

Contents == {"none", "part", "whole"}
Wim      == [address : Addresses, packs : [BootPacks -> Contents]]
Job      == [op : {"none", "upload", "fetch", "delete", "save", "build"},
             pc : {"idle", "download", "install", "bake", "baking", "unpack", "commit"},
             pack : Packs, hit : BOOLEAN, made : Wim, skip : BOOLEAN]
Ended    == [op |-> "none", pc |-> "idle", pack |-> CHOOSE p \in Packs : TRUE,
             hit |-> FALSE, skip |-> FALSE,
             made |-> [address |-> CHOOSE a \in Addresses : TRUE,
                       packs |-> [p \in BootPacks |-> "none"]]]

Free(j)     == job[j].pc = "idle"
Others(j)   == {x \in Jobs \ {j} : ~Free(x)}
\* An upload that re-bakes does not give the event loop back.
HoldsLoop   == {j \in Jobs : job[j].op = "upload" /\ job[j].pc \in {"bake", "baking"}}
Baked       == [p \in BootPacks |-> folder[p]]

DriversInit(address) ==
    /\ \E c \in {"none", "whole"} : folder = [p \in Packs |-> c]
    /\ wim = [address |-> address, packs |-> Baked]
    /\ ready = TRUE
    /\ job = [j \in Jobs |-> Ended]
    /\ mixed = {} /\ lapped = FALSE

\* What each change of a folder has to do with the others' work.
Touches(j, p) ==
    /\ mixed' = IF \E x \in Others(j) : job[x].pack = p /\ job[x].pc \in {"download", "install"}
                THEN mixed \cup {p} ELSE mixed
    /\ lapped' = (lapped \/ (p \in BootPacks /\ \E x \in Others(j) :
                                job[x].pc \in {"baking", "unpack", "commit"}))

\* Removing a folder takes the files of whoever is installing into it.
Hit(jobs, p) == [x \in Jobs |-> IF jobs[x].pc = "install" /\ jobs[x].pack = p
                                THEN [jobs[x] EXCEPT !.hit = TRUE] ELSE jobs[x]]

--------------------------------------------------------------------------------
\* upload: the folder is made at once, and filled while the data comes in.
UploadPack(j, p) ==
    /\ Free(j) /\ HoldsLoop = {}
    /\ folder[p] = "none"
    /\ folder' = [folder EXCEPT ![p] = "part"]
    /\ job' = [job EXCEPT ![j] = [Ended EXCEPT !.op = "upload", !.pc = "install", !.pack = p]]
    /\ Touches(j, p)
    /\ UNCHANGED << wim, ready >>

\* fetch_pack: looks for the folder, then downloads, verifies and unpacks elsewhere.
Fetch(j, p) ==
    /\ Free(j)
    /\ folder[p] = "none"
    /\ job' = [job EXCEPT ![j] = [Ended EXCEPT !.op = "fetch", !.pc = "download", !.pack = p]]
    /\ UNCHANGED << folder, wim, ready, mixed, lapped >>

\* A failed download, a wrong digest, a damaged archive, no .inf: nothing was staged.
FetchFails(j) ==
    /\ job[j].pc = "download"
    /\ job' = [job EXCEPT ![j] = Ended]
    /\ UNCHANGED << folder, wim, ready, mixed, lapped >>

InstallBegins(j) ==
    /\ job[j].pc = "download"
    /\ folder' = [folder EXCEPT ![job[j].pack] = "part"]
    /\ job' = [job EXCEPT ![j].pc = "install"]
    /\ Touches(j, job[j].pack)
    /\ UNCHANGED << wim, ready >>

Installing(p) == {j \in Jobs : job[j].pc = "install" /\ job[j].pack = p}

\* Faulty variant: a boot pack is not baked in.
ServedOnly(p) == TRUE

\* Packs on the share are live at once.
Served(p) == p \notin BootPacks

\* All files are there, unless somebody else is at it, or removed some of them.
InstallEnds(j) ==
    LET p == job[j].pack
    IN /\ job[j].pc = "install"
       /\ job[j].op = "upload" => HoldsLoop = {}
       /\ folder' \in {[folder EXCEPT ![p] = c] :
                         c \in IF Installing(p) # {j} THEN {"part"}
                               ELSE IF job[j].hit THEN {"part", "whole"} ELSE {"whole"}}
       /\ job' = IF Served(p) THEN [job EXCEPT ![j] = Ended]
                 ELSE [job EXCEPT ![j].pc = "bake"]
       /\ Touches(j, p)
       /\ UNCHANGED << wim, ready >>

\* Faulty variant: what was written before the error stays.
LeftBehind == "part"

\* The folder is removed as a whole.
AfterFailure == "none"

InstallFails(j) ==
    LET p == job[j].pack
    IN /\ job[j].pc = "install"
       /\ job[j].op = "upload" => HoldsLoop = {}
       /\ folder' = [folder EXCEPT ![p] = AfterFailure]
       /\ job' = Hit([job EXCEPT ![j] = Ended], p)
       /\ Touches(j, p)
       /\ UNCHANGED << wim, ready >>

DeletePack(j, p) ==
    /\ Free(j)
    /\ folder' = [folder EXCEPT ![p] = "none"]
    /\ job' = IF Served(p) THEN Hit(job, p)
              ELSE Hit([job EXCEPT ![j] = [Ended EXCEPT !.op = "delete", !.pc = "bake",
                                              !.pack = p]], p)
    /\ Touches(j, p)
    /\ UNCHANGED << wim, ready >>

--------------------------------------------------------------------------------
\* Saving the settings ends with the same re-bake as a change of the packs.
Rebake(j) == /\ Free(j)
             /\ job' = [job EXCEPT ![j] = [Ended EXCEPT !.op = "save", !.pc = "bake"]]
             /\ UNCHANGED << folder, wim, ready, mixed, lapped >>

\* rebuild_windows_setup_all reads the address and lists the ready images.
BakeStarts(j, address) ==
    /\ job[j].pc = "bake"
    /\ job' = [job EXCEPT ![j].pc = "baking", ![j].skip = ~ready,
                          ![j].made = [address |-> address, packs |-> Baked]]
    /\ lapped' = (lapped \/ Others(j) # {})
    /\ UNCHANGED << folder, wim, ready, mixed >>

\* _patch_boot_wim: the packs are read again on the way, and wimupdate gives up on a
\* file another wimupdate is writing.
BakeEnds(j) ==
    LET new  == {job[j].made, [job[j].made EXCEPT !.packs = Baked]}
        busy == \E x \in Others(j) : job[x].pc \in {"baking", "unpack"}
    IN /\ job[j].pc = "baking"
       /\ wim' \in (IF job[j].skip THEN {wim} ELSE IF busy THEN new \cup {wim} ELSE new)
       /\ job' = [job EXCEPT ![j] = Ended]
       /\ lapped' = (lapped \/ Others(j) # {})
       /\ UNCHANGED << folder, ready, mixed >>

\* Reprocess of the image: _process_windows reads the address before the long unpacking.
Build(j, address) ==
    /\ Free(j) /\ \A x \in Jobs : job[x].op # "build"
    /\ ready' = FALSE
    /\ job' = [job EXCEPT ![j] = [Ended EXCEPT !.op = "build", !.pc = "unpack",
                                     !.made.address = address]]
    /\ lapped' = (lapped \/ Others(j) # {})
    /\ UNCHANGED << folder, wim, mixed >>

BuildPatches(j) ==
    /\ job[j].pc = "unpack"
    /\ wim' = [address |-> job[j].made.address, packs |-> Baked]
    /\ job' = [job EXCEPT ![j].pc = "commit"]
    /\ lapped' = (lapped \/ Others(j) # {})
    /\ UNCHANGED << folder, ready, mixed >>

BuildCommits(j) ==
    /\ job[j].pc = "commit"
    /\ ready' = TRUE
    /\ job' = [job EXCEPT ![j] = Ended]
    /\ lapped' = (lapped \/ Others(j) # {})
    /\ UNCHANGED << folder, wim, mixed >>

\* The web process stops.  A build that was cut off leaves the image unready; a
\* folder or a re-bake is not looked at again.
Stop(saving) ==
    /\ job' = [j \in Jobs |-> Ended]
    /\ mixed' = mixed \cup {job[j].pack : j \in {x \in Jobs : job[x].pc = "install"}}
    /\ lapped' = (lapped \/ saving \/ \E j \in Jobs : ~Free(j))
    /\ UNCHANGED << folder, wim, ready >>

\* A pack is there as a whole or not at all, while nobody is at work on it, because a
\* failed upload or fetch removes what it wrote (WinPE loads whatever is there).
\* Packs two requests worked on at once are excepted, and so is a crash.
NoHalfPacks == \A p \in Packs \ mixed : folder[p] = "part" => Installing(p) # {}

DriversTypeOK ==
    /\ folder \in [Packs -> Contents]
    /\ wim \in Wim /\ ready \in BOOLEAN
    /\ job \in [Jobs -> Job]
    /\ mixed \subseteq Packs /\ lapped \in BOOLEAN
================================================================================
