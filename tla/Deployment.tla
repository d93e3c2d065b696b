------------------------------- MODULE Deployment -------------------------------
(***************************************************************************)
(* The server settings and the driver packs together: they share the       *)
(* process, its event loop and the boot.wim of the Windows images, into    *)
(* which both the address and the boot packs are baked.                    *)
(***************************************************************************)
EXTENDS HostConfig

CONSTANTS Packs, BootPacks

ASSUME PacksAssumption == BootPacks \subseteq Packs /\ Packs # {}

VARIABLES folder, wim, ready, job, mixed, lapped

D == INSTANCE Drivers WITH Addresses <- Hosts, Jobs <- Requests

packVars == << folder, wim, ready, job, mixed, lapped >>
vars     == << hostVars, packVars >>

Init == /\ HostInit
        /\ D!DriversInit(disk.host)

\* A request of one component needs a slot that the other does not use.
Slot(r)   == ~Active(r) /\ D!Free(r)
HostOnly  == UNCHANGED packVars
PacksOnly == UNCHANGED hostVars
Ask       == made < MaxRequests /\ made' = made + 1
Asked     == /\ Ask
             /\ UNCHANGED << dbVars, confVars, dns, menu, grub, req, restarts, crossed >>

\* The routes of both components; those on the event loop need it to be free.
HostRequest(r) == /\ Slot(r)
                  /\ \/ D!HoldsLoop = {} /\ (Save(r) \/ UploadOpen(r))
                     \/ DrawMenu(r)
                     \/ \E token \in previews : Apply(r, token)
                  /\ HostOnly

PackRequest(r) == /\ Slot(r) /\ Serving
                  /\ \/ \E p \in Packs : \/ LoopFree /\ D!UploadPack(r, p)
                                         \/ D!Fetch(r, p) \/ D!DeletePack(r, p)
                     \/ \E d \in Readable : D!Build(r, d.host)
                  /\ Asked

HostStep(r) == /\ \/ D!HoldsLoop = {} /\ (UploadWrite(r) \/ Preview(r))
                  \/ CheckToken(r) \/ Inspect(r) \/ RewriteStaged(r)
                  \/ CopyLive(r) \/ Replace(r)
                  \/ Saving(r) \/ Rendering(r)
               /\ HostOnly

PackStep(r) == /\ \/ D!FetchFails(r) \/ D!InstallBegins(r)
                  \/ (job[r].op = "upload" => LoopFree) /\ (D!InstallEnds(r) \/ D!InstallFails(r))
                  \/ \E d \in Readable : D!BakeStarts(r, d.host)
                  \/ job[r].op # "save" /\ D!BakeEnds(r)
                  \/ D!BuildPatches(r) \/ D!BuildCommits(r)
               /\ PacksOnly

\* The re-bake a save ends with.
SaveBakes(r)   == req[r].pc = "bake" /\ D!Rebake(r) /\ PacksOnly
SaveIsBaked(r) == job[r].op = "save" /\ D!BakeEnds(r) /\ SaveEnds(r)

\* A crash matters while something is under way.
Crash == /\ \/ held # Nothing
            \/ \E r \in Requests : Active(r) \/ ~D!Free(r)
         /\ Restart /\ D!Stop(\E r \in Requests : req[r].op = "save")

Next == \/ \E r \in Requests : \/ HostRequest(r) \/ PackRequest(r)
                               \/ HostStep(r) \/ PackStep(r)
                               \/ SaveBakes(r) \/ SaveIsBaked(r)
        \/ Rendering(Startup) /\ HostOnly
        \/ (Cancel \/ Watching \/ Second) /\ HostOnly
        \/ Crash

Spec == Init /\ [][Next]_vars /\ WF_vars(Watching /\ HostOnly)

TypeOK      == HostTypeOK /\ D!DriversTypeOK
NoHalfPacks == D!NoHalfPacks

\* A ready Windows image carries the present address and the present boot packs, once
\* nothing is under way (settings_save and the driver routes re-bake before they
\* answer).  Excepted: changes during a re-bake or a build, a crash before one, and a
\* restored database, after which nothing is re-baked.
BakedIsCurrent ==
    Quiet /\ (\A r \in Requests : D!Free(r)) /\ ready /\ ~lapped /\ mixed = {} /\ disk.from = 0
        => wim = [address |-> disk.host, packs |-> D!Baked]
================================================================================
