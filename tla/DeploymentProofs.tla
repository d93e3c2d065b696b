---------------------------- MODULE DeploymentProofs ----------------------------
(* Theorems about Deployment, for any packs, hosts and number of requests: the  *)
(* types, the folders of driver packs, the invariants of the settings carried   *)
(* over from HostConfigProofs, and what is baked into the boot images.          *)
EXTENDS Deployment, HostConfigProofs

\* Files were taken from an installation only where another job was at work.
HitsAreKnown == \A j \in Requests : job[j].hit => job[j].pack \in mixed

FoldersOK == D!NoHalfPacks /\ HitsAreKnown
PacksInv  == D!DriversTypeOK /\ FoldersOK
--------------------------------------------------------------------------------
(* What the steps put together. *)

LEMMA EndedJob == /\ D!Ended \in D!Job /\ ~D!Ended.hit /\ D!Ended.pc = "idle"
                  /\ D!Ended.pack \in Packs
  <1>1. (CHOOSE p \in Packs : TRUE) \in Packs
    BY PacksAssumption
  <1>2. (CHOOSE a \in Hosts : TRUE) \in Hosts
    BY KnownValues
  <1> QED
    BY <1>1, <1>2 DEF D!Ended, D!Job, D!Wim, D!Contents

LEMMA BakedIsTyped == ASSUME D!DriversTypeOK PROVE D!Baked \in [BootPacks -> D!Contents]
  BY PacksAssumption DEF D!DriversTypeOK, D!Baked

LEMMA ContentsOf == {"none", "part", "whole"} \subseteq D!Contents
  BY DEF D!Contents

\* A job that does not install goes on with something else than an installation.
LEMMA OneJob ==
    ASSUME PacksInv, NEW j \in Requests, NEW q \in D!Job,
           job' = [job EXCEPT ![j] = q], folder' = folder, mixed' = mixed,
           job[j].pc # "install", q.pc # "install",
           q.hit => job[j].hit /\ q.pack = job[j].pack
    PROVE  job' \in [Requests -> D!Job] /\ FoldersOK'
  <1>1. job \in [Requests -> D!Job]
    BY DEF PacksInv, D!DriversTypeOK
  <1>2. job' \in [Requests -> D!Job] /\ job'[j] = q
    BY <1>1
  <1>3. \A x \in Requests \ {j} : job'[x] = job[x]
    BY <1>1
  <1>4. HitsAreKnown'
    BY <1>2, <1>3 DEF PacksInv, FoldersOK, HitsAreKnown
  <1>5. \A p \in Packs : D!Installing(p)' = D!Installing(p)
    BY <1>2, <1>3 DEF D!Installing
  <1>6. D!NoHalfPacks'
    BY <1>5 DEF PacksInv, FoldersOK, D!NoHalfPacks
  <1> QED
    BY <1>2, <1>4, <1>6 DEF FoldersOK

LEMMA HitJobs ==
    ASSUME NEW jobs \in [Requests -> D!Job], NEW p \in Packs, job' = D!Hit(jobs, p)
    PROVE  /\ job' \in [Requests -> D!Job]
           /\ \A x \in Requests :
                 /\ job'[x].pc = jobs[x].pc /\ job'[x].pack = jobs[x].pack
                 /\ (jobs[x].pc = "install" /\ jobs[x].pack = p) \/ job'[x] = jobs[x]
  <1>1. ASSUME NEW x \in Requests
        PROVE  /\ job'[x] \in D!Job
               /\ job'[x].pc = jobs[x].pc /\ job'[x].pack = jobs[x].pack
               /\ (jobs[x].pc = "install" /\ jobs[x].pack = p) \/ job'[x] = jobs[x]
    <2>1. jobs[x] \in D!Job
      OBVIOUS
    <2>2. CASE jobs[x].pc = "install" /\ jobs[x].pack = p
      <3>1. job'[x] = [jobs[x] EXCEPT !.hit = TRUE]
        BY <2>2 DEF D!Hit
      <3> QED
        BY <2>1, <2>2, <3>1 DEF D!Job
    <2>3. CASE ~(jobs[x].pc = "install" /\ jobs[x].pack = p)
      <3>1. job'[x] = jobs[x]
        BY <2>3 DEF D!Hit
      <3> QED
        BY <2>1, <3>1
    <2> QED
      BY <2>2, <2>3
  <1>2. job' = [x \in Requests |-> job'[x]]
    BY DEF D!Hit
  <1> QED
    BY <1>1, <1>2

\* Other jobs at work on the pack are written down.
LEMMA Touched ==
    ASSUME D!DriversTypeOK, NEW j \in Requests, NEW p \in Packs, D!Touches(j, p)
    PROVE  /\ mixed \subseteq mixed' /\ mixed' \subseteq Packs /\ lapped' \in BOOLEAN
           /\ \A x \in Requests \ {j} : job[x].pc = "install" /\ job[x].pack = p
                                            => p \in mixed'
  <1>1. lapped' \in BOOLEAN
    BY DEF D!Touches
  <1>2. mixed \subseteq mixed' /\ mixed' \subseteq Packs
    BY DEF D!Touches, D!DriversTypeOK
  <1>3. ASSUME NEW x \in Requests \ {j}, job[x].pc = "install", job[x].pack = p
        PROVE  p \in mixed'
    <2>1. x \in D!Others(j)
      BY <1>3 DEF D!Others, D!Free
    <2> QED
      BY <1>3, <2>1 DEF D!Touches
  <1> QED
    BY <1>1, <1>2, <1>3

\* A job that leaves nothing installed and ends, or goes on to a re-bake.
LEMMA FolderGoes ==
    ASSUME PacksInv, NEW j \in Requests, NEW p \in Packs, NEW q \in D!Job,
           q.pc # "install", q.hit => job[j].hit /\ q.pack = job[j].pack,
           job[j].pc = "install" => job[j].pack = p,
           folder' = [folder EXCEPT ![p] = "none"],
           job' = D!Hit([job EXCEPT ![j] = q], p), D!Touches(j, p)
    PROVE  /\ folder' \in [Packs -> D!Contents] /\ job' \in [Requests -> D!Job]
           /\ mixed' \subseteq Packs /\ lapped' \in BOOLEAN /\ FoldersOK'
  <1> DEFINE jobs == [job EXCEPT ![j] = q]
  <1>1. job \in [Requests -> D!Job] /\ folder \in [Packs -> D!Contents] /\ D!DriversTypeOK
    BY DEF PacksInv, D!DriversTypeOK
  <1>2. jobs \in [Requests -> D!Job] /\ jobs[j] = q /\ \A x \in Requests \ {j} : jobs[x] = job[x]
    BY <1>1
  <1>3. job' = D!Hit(jobs, p)
    OBVIOUS
  <1> HIDE DEF jobs
  <1>4. /\ job' \in [Requests -> D!Job]
        /\ \A x \in Requests :
              /\ job'[x].pc = jobs[x].pc /\ job'[x].pack = jobs[x].pack
              /\ (jobs[x].pc = "install" /\ jobs[x].pack = p) \/ job'[x] = jobs[x]
    BY <1>2, <1>3, HitJobs
  <1>5. /\ mixed \subseteq mixed' /\ mixed' \subseteq Packs /\ lapped' \in BOOLEAN
        /\ \A x \in Requests \ {j} : job[x].pc = "install" /\ job[x].pack = p => p \in mixed'
    BY <1>1, Touched
  <1>6. folder' \in [Packs -> D!Contents]
    BY <1>1, ContentsOf
  <1>7. ASSUME NEW x \in Requests, job'[x].hit PROVE job'[x].pack \in mixed'
    <2>1. CASE x = j
      <3>1. job'[j] = q
        BY <1>2, <1>4
      <3>2. job[j].hit /\ q.pack = job[j].pack
        BY <1>7, <2>1, <3>1
      <3> QED
        BY <1>5, <2>1, <3>1, <3>2 DEF PacksInv, FoldersOK, HitsAreKnown
    <2>2. CASE x # j /\ job'[x] = job[x]
      <3>1. job[x].hit /\ job'[x].pack = job[x].pack
        BY <1>7, <2>2
      <3>2. job[x].pack \in mixed
        BY <3>1 DEF PacksInv, FoldersOK, HitsAreKnown
      <3> QED
        BY <1>5, <3>1, <3>2
    <2>3. CASE x # j /\ jobs[x].pc = "install" /\ jobs[x].pack = p
      <3>1. jobs[x] = job[x] /\ x \in Requests \ {j}
        BY <1>2, <2>3
      <3>2. job[x].pc = "install" /\ job[x].pack = p /\ job'[x].pack = p
        BY <1>4, <2>3, <3>1
      <3>3. p \in mixed'
        BY <1>5, <3>1, <3>2
      <3> QED
        BY <3>2, <3>3
    <2>4. x = j \/ (x # j /\ job'[x] = job[x])
          \/ (x # j /\ jobs[x].pc = "install" /\ jobs[x].pack = p)
      <3>1. CASE x = j
        BY <3>1
      <3>2. CASE x # j
        <4>1. jobs[x] = job[x]
          BY <1>2, <3>2
        <4> QED
          BY <1>4, <3>2, <4>1
      <3> QED
        BY <3>1, <3>2
    <2> QED
      BY <2>1, <2>2, <2>3, <2>4
  <1>8. ASSUME NEW o \in Packs \ mixed', folder'[o] = "part" PROVE D!Installing(o)' # {}
    <2>1. o # p /\ o \notin mixed /\ folder[o] = "part"
      BY <1>1, <1>5, <1>8
    <2>2. PICK x \in Requests : job[x].pc = "install" /\ job[x].pack = o
      BY <2>1 DEF PacksInv, FoldersOK, D!NoHalfPacks, D!Installing
    <2>3. x # j
      BY <2>1, <2>2
    <2>4. job'[x].pc = "install" /\ job'[x].pack = o
      BY <1>2, <1>4, <2>2, <2>3
    <2> QED
      BY <2>4 DEF D!Installing
  <1>9. FoldersOK'
    BY <1>7, <1>8 DEF FoldersOK, HitsAreKnown, D!NoHalfPacks
  <1> QED
    BY <1>4, <1>5, <1>6, <1>9

\* A job begins to fill a folder.
LEMMA FolderBegins ==
    ASSUME PacksInv, NEW j \in Requests, NEW p \in Packs, NEW q \in D!Job,
           q.pc = "install", q.pack = p, q.hit => job[j].hit /\ job[j].pack = p,
           job[j].pc # "install",
           folder' = [folder EXCEPT ![p] = "part"], job' = [job EXCEPT ![j] = q],
           D!Touches(j, p)
    PROVE  /\ folder' \in [Packs -> D!Contents] /\ job' \in [Requests -> D!Job]
           /\ mixed' \subseteq Packs /\ lapped' \in BOOLEAN /\ FoldersOK'
  <1>1. job \in [Requests -> D!Job] /\ folder \in [Packs -> D!Contents] /\ D!DriversTypeOK
    BY DEF PacksInv, D!DriversTypeOK
  <1>2. /\ job' \in [Requests -> D!Job] /\ job'[j] = q
        /\ \A x \in Requests \ {j} : job'[x] = job[x]
    BY <1>1
  <1>3. mixed \subseteq mixed' /\ mixed' \subseteq Packs /\ lapped' \in BOOLEAN
    BY <1>1, Touched
  <1>4. folder' \in [Packs -> D!Contents]
    BY <1>1, ContentsOf
  <1>5. HitsAreKnown'
    BY <1>2, <1>3 DEF PacksInv, FoldersOK, HitsAreKnown
  <1>6. ASSUME NEW o \in Packs \ mixed', folder'[o] = "part" PROVE D!Installing(o)' # {}
    <2>1. CASE o = p
      BY <1>2, <2>1 DEF D!Installing
    <2>2. CASE o # p
      <3>1. PICK x \in Requests : job[x].pc = "install" /\ job[x].pack = o
        BY <1>1, <1>3, <1>6, <2>2 DEF PacksInv, FoldersOK, D!NoHalfPacks, D!Installing
      <3>2. job'[x].pc = "install" /\ job'[x].pack = o
        BY <1>2, <3>1
      <3> QED
        BY <3>2 DEF D!Installing
    <2> QED
      BY <2>1, <2>2
  <1>7. FoldersOK'
    BY <1>5, <1>6 DEF FoldersOK, D!NoHalfPacks
  <1> QED
    BY <1>2, <1>3, <1>4, <1>7
--------------------------------------------------------------------------------
(* The jobs that install and remove.                                            *)

LEMMA UploadPackIsSound ==
    ASSUME PacksInv, NEW j \in Requests, NEW p \in Packs, D!UploadPack(j, p)
    PROVE  PacksInv'
  <1> DEFINE q == [D!Ended EXCEPT !.op = "upload", !.pc = "install", !.pack = p]
  <1>1. q \in D!Job /\ q.pc = "install" /\ q.pack = p /\ q.hit = D!Ended.hit
    BY EndedJob DEF D!Job
  <1>2. /\ folder' = [folder EXCEPT ![p] = "part"] /\ job' = [job EXCEPT ![j] = q]
        /\ D!Touches(j, p) /\ UNCHANGED << wim, ready >> /\ job[j].pc # "install"
    BY DEF D!UploadPack, D!Free
  <1> HIDE DEF q
  <1>3. /\ folder' \in [Packs -> D!Contents] /\ job' \in [Requests -> D!Job]
        /\ mixed' \subseteq Packs /\ lapped' \in BOOLEAN /\ FoldersOK'
    BY <1>1, <1>2, EndedJob, FolderBegins
  <1> QED
    BY <1>2, <1>3 DEF PacksInv, D!DriversTypeOK

LEMMA InstallBeginsIsSound ==
    ASSUME PacksInv, NEW j \in Requests, D!InstallBegins(j) PROVE PacksInv'
  <1> DEFINE p == job[j].pack
             q == [job[j] EXCEPT !.pc = "install"]
  <1>1. job[j] \in D!Job /\ p \in Packs
    BY DEF PacksInv, D!DriversTypeOK, D!Job
  <1>2. q \in D!Job /\ q.pc = "install" /\ q.pack = p /\ q.hit = job[j].hit
    BY <1>1 DEF D!Job
  <1>3. /\ folder' = [folder EXCEPT ![p] = "part"] /\ job' = [job EXCEPT ![j] = q]
        /\ D!Touches(j, p) /\ UNCHANGED << wim, ready >> /\ job[j].pc # "install"
    BY DEF D!InstallBegins, PacksInv, D!DriversTypeOK
  <1>4. q.hit => job[j].hit /\ job[j].pack = p
    BY <1>2
  <1> HIDE DEF p, q
  <1>5. /\ folder' \in [Packs -> D!Contents] /\ job' \in [Requests -> D!Job]
        /\ mixed' \subseteq Packs /\ lapped' \in BOOLEAN /\ FoldersOK'
    BY <1>1, <1>2, <1>3, <1>4, FolderBegins
  <1> QED
    BY <1>3, <1>5 DEF PacksInv, D!DriversTypeOK

LEMMA InstallFailsIsSound ==
    ASSUME PacksInv, NEW j \in Requests, D!InstallFails(j) PROVE PacksInv'
  <1> DEFINE p == job[j].pack
  <1>1. p \in Packs
    BY DEF PacksInv, D!DriversTypeOK, D!Job
  <1>2. /\ folder' = [folder EXCEPT ![p] = "none"]
        /\ job' = D!Hit([job EXCEPT ![j] = D!Ended], p)
        /\ D!Touches(j, p) /\ UNCHANGED << wim, ready >>
    BY DEF D!InstallFails, D!AfterFailure
  <1>3. job[j].pc = "install" => job[j].pack = p
    OBVIOUS
  <1>4. /\ D!Ended \in D!Job /\ D!Ended.pc # "install"
        /\ D!Ended.hit => job[j].hit /\ D!Ended.pack = job[j].pack
    BY EndedJob
  <1> HIDE DEF p
  <1>5. /\ folder' \in [Packs -> D!Contents] /\ job' \in [Requests -> D!Job]
        /\ mixed' \subseteq Packs /\ lapped' \in BOOLEAN /\ FoldersOK'
    BY <1>1, <1>2, <1>3, <1>4, FolderGoes
  <1> QED
    BY <1>2, <1>5 DEF PacksInv, D!DriversTypeOK

LEMMA DeletePackIsSound ==
    ASSUME PacksInv, NEW j \in Requests, NEW p \in Packs, D!DeletePack(j, p)
    PROVE  PacksInv'
  <1> DEFINE old  == job[j]
             bake == [D!Ended EXCEPT !.op = "delete", !.pc = "bake", !.pack = p]
  <1>1. job \in [Requests -> D!Job] /\ old \in D!Job /\ old.pc = "idle"
    BY DEF PacksInv, D!DriversTypeOK, D!DeletePack, D!Free
  <1>2. bake \in D!Job /\ bake.pc = "bake" /\ bake.hit = D!Ended.hit
    BY EndedJob DEF D!Job
  <1>3. folder' = [folder EXCEPT ![p] = "none"] /\ D!Touches(j, p) /\ UNCHANGED << wim, ready >>
    BY DEF D!DeletePack
  <1>4. CASE ~D!Served(p)
    <2>1. job' = D!Hit([job EXCEPT ![j] = bake], p)
      BY <1>4 DEF D!DeletePack
    <2> HIDE DEF bake
    <2>2. /\ folder' \in [Packs -> D!Contents] /\ job' \in [Requests -> D!Job]
          /\ mixed' \subseteq Packs /\ lapped' \in BOOLEAN /\ FoldersOK'
      BY <1>1, <1>2, <1>3, <2>1, EndedJob, FolderGoes
    <2> QED
      BY <1>3, <2>2 DEF PacksInv, D!DriversTypeOK
  <1>5. CASE D!Served(p)
    <2>1. job' = D!Hit(job, p)
      BY <1>5 DEF D!DeletePack
    <2>2. job = [job EXCEPT ![j] = old]
      BY <1>1
    <2>3. old.pc # "install" /\ (old.hit => job[j].hit /\ old.pack = job[j].pack)
      BY <1>1
    <2> HIDE DEF old
    <2>4. /\ folder' \in [Packs -> D!Contents] /\ job' \in [Requests -> D!Job]
          /\ mixed' \subseteq Packs /\ lapped' \in BOOLEAN /\ FoldersOK'
      BY <1>1, <1>3, <2>1, <2>2, <2>3, FolderGoes
    <2> QED
      BY <1>3, <2>4 DEF PacksInv, D!DriversTypeOK
  <1> QED
    BY <1>4, <1>5

LEMMA InstallEndsIsSound ==
    ASSUME PacksInv, NEW j \in Requests, D!InstallEnds(j) PROVE PacksInv'
  <1> DEFINE p == job[j].pack
             q == IF D!Served(p) THEN D!Ended ELSE [job[j] EXCEPT !.pc = "bake"]
  <1>1. /\ job \in [Requests -> D!Job] /\ folder \in [Packs -> D!Contents]
        /\ D!DriversTypeOK /\ p \in Packs /\ job[j].pc = "install"
    BY DEF PacksInv, D!DriversTypeOK, D!Job, D!InstallEnds
  <1>2. q \in D!Job /\ q.pc # "install" /\ (q.hit => job[j].hit /\ q.pack = p)
    <2>1. CASE D!Served(p)
      BY <2>1, EndedJob
    <2>2. CASE ~D!Served(p)
      <3>1. job[j] \in D!Job
        BY <1>1
      <3> QED
        BY <2>2, <3>1 DEF D!Job
    <2> QED
      BY <2>1, <2>2
  <1>3. /\ job' = [job EXCEPT ![j] = q] /\ D!Touches(j, p) /\ UNCHANGED << wim, ready >>
    BY <1>1 DEF D!InstallEnds
  <1>4. PICK c \in {"part", "whole"} :
            /\ folder' = [folder EXCEPT ![p] = c]
            /\ c = "part" => D!Installing(p) # {j} \/ job[j].hit
    BY DEF D!InstallEnds
  <1> HIDE DEF p, q
  <1>5. /\ job' \in [Requests -> D!Job] /\ job'[j] = q
        /\ \A x \in Requests \ {j} : job'[x] = job[x]
    BY <1>1, <1>2, <1>3
  <1>6. mixed \subseteq mixed' /\ mixed' \subseteq Packs /\ lapped' \in BOOLEAN
    BY <1>1, <1>3, Touched
  <1>7. folder' \in [Packs -> D!Contents]
    BY <1>1, <1>4, ContentsOf
  <1>8. HitsAreKnown'
    BY <1>2, <1>5, <1>6 DEF PacksInv, FoldersOK, HitsAreKnown, p
  <1>9. ASSUME NEW o \in Packs \ mixed', folder'[o] = "part" PROVE D!Installing(o)' # {}
    <2>1. CASE o = p
      <3>1. p \notin mixed /\ c = "part"
        BY <1>1, <1>4, <1>6, <1>9, <2>1
      <3>2. ~job[j].hit
        BY <3>1 DEF PacksInv, FoldersOK, HitsAreKnown, p
      <3>3. j \in D!Installing(p) /\ D!Installing(p) # {j}
        BY <1>1, <1>4, <3>1, <3>2 DEF D!Installing, p
      <3>4. PICK x \in D!Installing(p) : x # j
        BY <3>3
      <3>5. x \in D!Installing(o)'
        BY <1>5, <2>1, <3>4 DEF D!Installing
      <3> QED
        BY <3>5
    <2>2. CASE o # p
      <3>1. PICK x \in Requests : job[x].pc = "install" /\ job[x].pack = o
        BY <1>1, <1>4, <1>6, <1>9, <2>2 DEF PacksInv, FoldersOK, D!NoHalfPacks, D!Installing
      <3>2. x # j
        BY <2>2, <3>1 DEF p
      <3>3. x \in D!Installing(o)'
        BY <1>5, <3>1, <3>2 DEF D!Installing
      <3> QED
        BY <3>3
    <2> QED
      BY <2>1, <2>2
  <1>10. FoldersOK'
    BY <1>8, <1>9 DEF FoldersOK, D!NoHalfPacks
  <1> QED
    BY <1>3, <1>5, <1>6, <1>7, <1>10 DEF PacksInv, D!DriversTypeOK
--------------------------------------------------------------------------------
(* The jobs that change no folder.                                              *)

LEMMA FetchIsSound ==
    ASSUME PacksInv, NEW j \in Requests, NEW p \in Packs, D!Fetch(j, p) PROVE PacksInv'
  <1> DEFINE q == [D!Ended EXCEPT !.op = "fetch", !.pc = "download", !.pack = p]
  <1>1. q \in D!Job /\ q.pc = "download" /\ q.hit = D!Ended.hit
    BY EndedJob DEF D!Job
  <1>2. job' = [job EXCEPT ![j] = q] /\ job[j].pc # "install"
        /\ UNCHANGED << folder, wim, ready, mixed, lapped >>
    BY DEF D!Fetch, D!Free
  <1> HIDE DEF q
  <1>3. job' \in [Requests -> D!Job] /\ FoldersOK'
    BY <1>1, <1>2, EndedJob, OneJob
  <1> QED
    BY <1>2, <1>3 DEF PacksInv, D!DriversTypeOK

LEMMA FetchFailsIsSound ==
    ASSUME PacksInv, NEW j \in Requests, D!FetchFails(j) PROVE PacksInv'
  <1>1. job' = [job EXCEPT ![j] = D!Ended] /\ job[j].pc # "install"
        /\ UNCHANGED << folder, wim, ready, mixed, lapped >>
    BY DEF D!FetchFails
  <1>2. job' \in [Requests -> D!Job] /\ FoldersOK'
    BY <1>1, EndedJob, OneJob
  <1> QED
    BY <1>1, <1>2 DEF PacksInv, D!DriversTypeOK

LEMMA RebakeIsSound ==
    ASSUME PacksInv, NEW j \in Requests, D!Rebake(j) PROVE PacksInv'
  <1> DEFINE q == [D!Ended EXCEPT !.op = "save", !.pc = "bake"]
  <1>1. q \in D!Job /\ q.pc = "bake" /\ q.hit = D!Ended.hit
    BY EndedJob DEF D!Job
  <1>2. job' = [job EXCEPT ![j] = q] /\ job[j].pc # "install"
        /\ UNCHANGED << folder, wim, ready, mixed, lapped >>
    BY DEF D!Rebake, D!Free
  <1> HIDE DEF q
  <1>3. job' \in [Requests -> D!Job] /\ FoldersOK'
    BY <1>1, <1>2, EndedJob, OneJob
  <1> QED
    BY <1>2, <1>3 DEF PacksInv, D!DriversTypeOK

LEMMA BakeStartsIsSound ==
    ASSUME PacksInv, NEW j \in Requests, NEW a \in Hosts, D!BakeStarts(j, a)
    PROVE  PacksInv'
  <1> DEFINE m == [address |-> a, packs |-> D!Baked]
             q == [job[j] EXCEPT !.pc = "baking", !.skip = ~ready, !.made = m]
  <1>1. job[j] \in D!Job /\ ready \in BOOLEAN /\ job \in [Requests -> D!Job]
    BY DEF PacksInv, D!DriversTypeOK
  <1>2. m \in D!Wim
    BY BakedIsTyped DEF PacksInv, D!Wim
  <1>3. job' = [job EXCEPT ![j] = q] /\ job[j].pc # "install"
        /\ lapped' = (lapped \/ D!Others(j) # {}) /\ UNCHANGED << folder, wim, ready, mixed >>
    BY <1>1 DEF D!BakeStarts
  <1> HIDE DEF m
  <1>4. q \in D!Job /\ q.pc = "baking" /\ q.hit = job[j].hit /\ q.pack = job[j].pack
    BY <1>1, <1>2 DEF D!Job
  <1>5. q.hit => job[j].hit /\ q.pack = job[j].pack
    BY <1>4
  <1> HIDE DEF q
  <1>6. job' \in [Requests -> D!Job] /\ FoldersOK'
    BY <1>3, <1>4, <1>5, OneJob
  <1> QED
    BY <1>3, <1>6 DEF PacksInv, D!DriversTypeOK

LEMMA BakeEndsIsSound ==
    ASSUME PacksInv, NEW j \in Requests, D!BakeEnds(j) PROVE PacksInv'
  <1>1. job' = [job EXCEPT ![j] = D!Ended] /\ job[j].pc # "install"
        /\ lapped' = (lapped \/ D!Others(j) # {}) /\ UNCHANGED << folder, ready, mixed >>
    BY DEF D!BakeEnds
  <1>2. job' \in [Requests -> D!Job] /\ FoldersOK'
    BY <1>1, EndedJob, OneJob
  <1>3. wim' \in {wim, job[j].made, [job[j].made EXCEPT !.packs = D!Baked]}
    BY DEF D!BakeEnds
  <1>4. job[j].made \in D!Wim /\ wim \in D!Wim
    BY DEF PacksInv, D!DriversTypeOK, D!Job
  <1>5. [job[j].made EXCEPT !.packs = D!Baked] \in D!Wim
    BY <1>4, BakedIsTyped DEF PacksInv, D!Wim
  <1> QED
    BY <1>1, <1>2, <1>3, <1>4, <1>5 DEF PacksInv, D!DriversTypeOK

LEMMA BuildIsSound ==
    ASSUME PacksInv, NEW j \in Requests, NEW a \in Hosts, D!Build(j, a) PROVE PacksInv'
  <1> DEFINE q == [D!Ended EXCEPT !.op = "build", !.pc = "unpack", !.made.address = a]
  <1>1. D!Ended.made \in D!Wim
    BY EndedJob DEF D!Job
  <1>2. [D!Ended.made EXCEPT !.address = a] \in D!Wim
    BY <1>1 DEF D!Wim
  <1>3. q \in D!Job /\ q.pc = "unpack" /\ q.hit = D!Ended.hit
    BY <1>2, EndedJob DEF D!Job
  <1>4. job' = [job EXCEPT ![j] = q] /\ job[j].pc # "install" /\ ready' = FALSE
        /\ lapped' = (lapped \/ D!Others(j) # {}) /\ UNCHANGED << folder, wim, mixed >>
    BY DEF D!Build, D!Free
  <1> HIDE DEF q
  <1>5. job' \in [Requests -> D!Job] /\ FoldersOK'
    BY <1>3, <1>4, EndedJob, OneJob
  <1> QED
    BY <1>4, <1>5 DEF PacksInv, D!DriversTypeOK

LEMMA BuildPatchesIsSound ==
    ASSUME PacksInv, NEW j \in Requests, D!BuildPatches(j) PROVE PacksInv'
  <1> DEFINE q == [job[j] EXCEPT !.pc = "commit"]
  <1>1. job[j] \in D!Job /\ job \in [Requests -> D!Job]
    BY DEF PacksInv, D!DriversTypeOK
  <1>2. q \in D!Job /\ q.pc = "commit" /\ q.hit = job[j].hit /\ q.pack = job[j].pack
    BY <1>1 DEF D!Job
  <1>3. q.hit => job[j].hit /\ q.pack = job[j].pack
    BY <1>2
  <1>4. job' = [job EXCEPT ![j] = q] /\ job[j].pc # "install"
        /\ wim' = [address |-> job[j].made.address, packs |-> D!Baked]
        /\ lapped' = (lapped \/ D!Others(j) # {}) /\ UNCHANGED << folder, ready, mixed >>
    BY <1>1 DEF D!BuildPatches
  <1> HIDE DEF q
  <1>5. job' \in [Requests -> D!Job] /\ FoldersOK'
    BY <1>2, <1>3, <1>4, OneJob
  <1>6. wim' \in D!Wim
    BY <1>1, <1>4, BakedIsTyped DEF PacksInv, D!Wim, D!Job
  <1> QED
    BY <1>4, <1>5, <1>6 DEF PacksInv, D!DriversTypeOK

LEMMA BuildCommitsIsSound ==
    ASSUME PacksInv, NEW j \in Requests, D!BuildCommits(j) PROVE PacksInv'
  <1>1. job' = [job EXCEPT ![j] = D!Ended] /\ job[j].pc # "install" /\ ready' = TRUE
        /\ lapped' = (lapped \/ D!Others(j) # {}) /\ UNCHANGED << folder, wim, mixed >>
    BY DEF D!BuildCommits
  <1>2. job' \in [Requests -> D!Job] /\ FoldersOK'
    BY <1>1, EndedJob, OneJob
  <1> QED
    BY <1>1, <1>2 DEF PacksInv, D!DriversTypeOK

LEMMA StopIsSound ==
    ASSUME PacksInv, NEW saving \in BOOLEAN, D!Stop(saving) PROVE PacksInv'
  <1>1. /\ job' = [j \in Requests |-> D!Ended] /\ UNCHANGED << folder, wim, ready >>
        /\ mixed' = mixed \cup {job[j].pack : j \in {x \in Requests : job[x].pc = "install"}}
        /\ lapped' \in BOOLEAN
    BY DEF D!Stop
  <1>2. job' \in [Requests -> D!Job] /\ \A j \in Requests : ~job'[j].hit
    BY <1>1, EndedJob
  <1>3. \A j \in Requests : job[j].pack \in Packs
    BY DEF PacksInv, D!DriversTypeOK, D!Job
  <1>4. mixed' \subseteq Packs
    BY <1>1, <1>3 DEF PacksInv, D!DriversTypeOK
  <1>5. ASSUME NEW o \in Packs \ mixed', folder'[o] = "part" PROVE FALSE
    <2>1. o \notin mixed /\ folder[o] = "part"
      BY <1>1, <1>5
    <2>2. PICK x \in Requests : job[x].pc = "install" /\ job[x].pack = o
      BY <2>1 DEF PacksInv, FoldersOK, D!NoHalfPacks, D!Installing
    <2> QED
      BY <1>1, <1>5, <2>2
  <1>6. FoldersOK'
    BY <1>2, <1>5 DEF FoldersOK, HitsAreKnown, D!NoHalfPacks
  <1> QED
    BY <1>1, <1>2, <1>4, <1>6 DEF PacksInv, D!DriversTypeOK
--------------------------------------------------------------------------------
(* Both components together. *)

LEMMA PacksStay == PacksInv /\ UNCHANGED packVars => PacksInv'
  BY DEF packVars, PacksInv, FoldersOK, HitsAreKnown, D!DriversTypeOK, D!NoHalfPacks,
         D!Installing

LEMMA AddressesAreHosts == ASSUME HostInv PROVE \A d \in Readable : d.host \in Hosts
  BY ReadableIsDb DEF HostInv, Db

LEMMA AskedIsTyped == HostInv /\ Asked => HostInv'
  <1> SUFFICES ASSUME HostInv, Asked PROVE HostInv'
      OBVIOUS
  <1>1. made' \in 0..MaxRequests
    BY HostLimits DEF Asked, Ask, HostInv, CountOK
  <1> QED
    BY <1>1 DEF Asked, dbVars, confVars, HostInv, ReqOK, DbOK, ConfOK, ServedOK, CountOK

LEMMA DeploymentBegins == Init => HostInv /\ PacksInv
  <1> SUFFICES ASSUME Init PROVE HostInv /\ PacksInv
      OBVIOUS
  <1>1. HostInv
    BY AtFirst DEF Init
  <1>2. disk.host \in Hosts
    BY <1>1 DEF HostInv, DbOK, Db
  <1>3. /\ folder \in [Packs -> D!Contents] /\ \A p \in Packs : folder[p] # "part"
        /\ wim = [address |-> disk.host, packs |-> D!Baked] /\ ready = TRUE
        /\ job = [j \in Requests |-> D!Ended] /\ mixed = {} /\ lapped = FALSE
    BY DEF Init, D!DriversInit, D!Contents
  <1>4. D!Baked \in [BootPacks -> D!Contents]
    BY <1>3, PacksAssumption DEF D!Baked
  <1>5. wim \in D!Wim
    BY <1>2, <1>3, <1>4 DEF D!Wim
  <1>6. job \in [Requests -> D!Job] /\ \A j \in Requests : ~job[j].hit
    BY <1>3, EndedJob
  <1>7. D!DriversTypeOK
    BY <1>3, <1>5, <1>6 DEF D!DriversTypeOK
  <1>8. FoldersOK
    BY <1>3, <1>6 DEF FoldersOK, HitsAreKnown, D!NoHalfPacks
  <1> QED
    BY <1>1, <1>7, <1>8 DEF PacksInv

LEMMA StepsAreSound == HostInv /\ PacksInv /\ [Next]_vars => HostInv' /\ PacksInv'
  <1> SUFFICES ASSUME HostInv, PacksInv, [Next]_vars PROVE HostInv' /\ PacksInv'
      OBVIOUS
  <1>1. ASSUME NEW r \in Requests, HostRequest(r) PROVE HostInv' /\ PacksInv'
    BY <1>1, SaveIsTyped, UploadOpenIsTyped, DrawMenuIsTyped, ApplyIsTyped, PacksStay
       DEF HostRequest, HostOnly
  <1>2. ASSUME NEW r \in Requests, PackRequest(r) PROVE HostInv' /\ PacksInv'
    BY <1>2, AskedIsTyped, UploadPackIsSound, FetchIsSound, DeletePackIsSound, BuildIsSound,
       AddressesAreHosts DEF PackRequest
  <1>3. ASSUME NEW r \in Requests, HostStep(r) PROVE HostInv' /\ PacksInv'
    BY <1>3, RestoringIsTyped, SavingIsTyped, RenderingIsTyped, PacksStay
       DEF HostStep, HostOnly, Restoring, Slots
  <1>4. ASSUME NEW r \in Requests, PackStep(r) PROVE HostInv' /\ PacksInv'
    BY <1>4, NothingChanges, FetchFailsIsSound, InstallBeginsIsSound, InstallEndsIsSound,
       InstallFailsIsSound, BakeStartsIsSound, BakeEndsIsSound, BuildPatchesIsSound,
       BuildCommitsIsSound, AddressesAreHosts DEF PackStep, PacksOnly
  <1>5. ASSUME NEW r \in Requests, SaveBakes(r) PROVE HostInv' /\ PacksInv'
    BY <1>5, NothingChanges, RebakeIsSound DEF SaveBakes, PacksOnly
  <1>6. ASSUME NEW r \in Requests, SaveIsBaked(r) PROVE HostInv' /\ PacksInv'
    BY <1>6, SaveEndsIsTyped, BakeEndsIsSound DEF SaveIsBaked, Slots
  <1>7. CASE Rendering(Startup) /\ HostOnly
    BY <1>7, RenderingIsTyped, PacksStay DEF HostOnly, Slots
  <1>8. CASE (Cancel \/ Watching \/ Second) /\ HostOnly
    BY <1>8, CancelIsTyped, WatchingIsTyped, SecondIsTyped, PacksStay DEF HostOnly
  <1>9. CASE Crash
    <2>1. HostInv'
      BY <1>9, RestartIsTyped DEF Crash
    <2>2. PacksInv'
      BY <1>9, StopIsSound DEF Crash
    <2> QED
      BY <2>1, <2>2
  <1>10. CASE UNCHANGED vars
    BY <1>10, NothingChanges, PacksStay DEF vars
  <1> QED
    BY <1>1, <1>2, <1>3, <1>4, <1>5, <1>6, <1>7, <1>8, <1>9, <1>10 DEF Next

\* Every variable of the settings and of the driver packs keeps its type, whatever the
\* routes, the watcher, crashes and restores do to the files they share.
THEOREM DeploymentTypeCorrect == Spec => []TypeOK
  <1>1. HostInv /\ PacksInv => TypeOK
    BY InvIsTyped DEF PacksInv, TypeOK
  <1> QED
    BY <1>1, DeploymentBegins, StepsAreSound, PTL DEF Spec

\* A failed upload or fetch leaves nothing of the pack behind (the except branches of
\* routers/drivers.py and services/drivers.py remove the folder): a folder with some of
\* the files is one somebody is still filling, or one that two requests or a crash
\* interfered with.
THEOREM PacksAreWhole == Spec => []NoHalfPacks
  <1>1. HostInv /\ PacksInv => NoHalfPacks
    BY DEF PacksInv, FoldersOK, NoHalfPacks
  <1> QED
    BY <1>1, DeploymentBegins, StepsAreSound, PTL DEF Spec
--------------------------------------------------------------------------------
(* What HostConfig promises holds in the deployment, too.                       *)

\* To the settings, a step of the deployment is one of their own, or none.
LEMMA DeploymentPlaysHost == [Next]_vars => HostMoves \/ Elsewhere
  <1> SUFFICES ASSUME [Next]_vars PROVE HostMoves \/ Elsewhere
      OBVIOUS
  <1>1. ASSUME NEW r \in Requests, HostRequest(r) \/ HostStep(r) \/ SaveIsBaked(r)
        PROVE  HostMoves
    BY <1>1 DEF HostRequest, HostStep, SaveIsBaked, Restoring, HostMoves, HostNext, Slots
  <1>2. ASSUME NEW r \in Requests, PackRequest(r) PROVE Elsewhere
    BY <1>2 DEF PackRequest, Asked, Elsewhere
  <1>3. ASSUME NEW r \in Requests, PackStep(r) \/ SaveBakes(r) PROVE Elsewhere
    BY <1>3 DEF PackStep, SaveBakes, PacksOnly, Elsewhere, hostVars, dbVars, confVars
  <1>4. CASE Rendering(Startup) \/ Cancel \/ Watching \/ Second \/ Crash
    BY <1>4 DEF Crash, HostMoves, HostNext, Slots
  <1>5. CASE UNCHANGED vars
    BY <1>5 DEF vars, Elsewhere, hostVars, dbVars, confVars
  <1> QED
    BY <1>1, <1>2, <1>3, <1>4, <1>5 DEF Next

LEMMA DeploymentIsSafe == Spec => [](HostInv /\ PacksInv /\ SafeInv)
  <1>1. Init => HostInv /\ PacksInv /\ SafeInv
    BY DeploymentBegins, FirstSafe DEF Init
  <1>2. HostInv /\ PacksInv /\ SafeInv /\ [Next]_vars => (HostInv /\ PacksInv /\ SafeInv)'
    BY StepsAreSound, DeploymentPlaysHost, StepsAreSafe, ElsewhereSafe
  <1> QED
    BY <1>1, <1>2, PTL DEF Spec

\* What is put in place of the database is usable, and is what an admin looked at in a
\* preview: its token is checked right before (restore_apply), and no upload, cancel or
\* second apply that got in between is hidden from the history.
THEOREM PreviewIsApplied == Spec => []PreviewedIsApplied
  BY DeploymentIsSafe, SafeMeans, PTL

\* On a host whose interfaces can be verified, no address of another machine gets from a
\* backup into the database, dnsmasq.conf, the menu or the boot loaders: what
\* _host_decision keeps, _rewrite_staged puts into the file before it replaces the
\* database, and all that is generated is read from the old file or the new one.
THEOREM ForeignStaysOut == Spec => []ForeignHostKeptOut
  BY DeploymentIsSafe, SafeMeans, PTL

\* pxe.db.pre-restore is the database the last restore replaced, until the next one
\* copies over it the database that it replaces in turn (restore.apply).
THEOREM RestoreIsUndone == Spec => []SafetyCopyUndoes
  BY DeploymentIsSafe, SafeMeans, PTL

\* dnsmasq.conf says what the database says once no request is under way: a save renders
\* after its last key, startup renders what a crash cut off, and a restore that replaced
\* the database is followed by a restart (restart_self).
THEOREM ConfIsCurrent == Spec => []ConfFollowsSettings
  BY DeploymentIsSafe, SafeMeans, PTL

\* The same of the address in boot.ipxe, unless two threads drew the menu at the same
\* time (ipxe.render takes no lock).
THEOREM MenuAddressIsCurrent == Spec => []MenuFollowsSettings
  BY DeploymentIsSafe, SafeMeans, PTL
--------------------------------------------------------------------------------
(* What the boot.wim of a ready image carries.                                  *)

\* The database is still this host's own, and nothing crossed a re-bake or a build.
Steady == disk.from = 0 /\ ~lapped /\ mixed = {}

\* A re-bake is still to come, which will read what is there by then.
Yet == \E r \in Requests : (req[r].op = "save" /\ D!Free(r)) \/ job[r].pc = "bake"

Filling(p) == \E x \in Requests : job[x].pc = "install" /\ job[x].pack = p
\* What a boot.wim has of a pack that nobody baked in yet.
Shown(p)   == IF Filling(p) THEN "none" ELSE folder[p]
WimOK      == wim.address = disk.host /\ \A p \in BootPacks : wim.packs[p] = Shown(p)

\* A save has no re-bake under way before it comes to that.
SavesFree  == \A j \in Requests : req[j].op = "save" /\ req[j].pc # "bake" => D!Free(j)
FetchesNew == \A j \in Requests : job[j].pc = "download" => folder[job[j].pack] = "none"
BakesPacks == \A j \in Requests : job[j].pc = "baking" => ~job[j].skip /\ job[j].made.packs = D!Baked
BakesHost  == Yet \/ \A j \in Requests : job[j].pc \in {"baking", "unpack"} =>
                                            job[j].made.address = disk.host
ImageReady == ready \/ \E j \in Requests : job[j].pc \in {"unpack", "commit"}
WimSettles == Yet \/ WimOK \/ \E j \in Requests : job[j].pc = "baking"

BakeInv == Steady => /\ SavesFree /\ FetchesNew /\ BakesPacks /\ BakesHost
                     /\ ImageReady /\ WimSettles

\* The settings move on beside the packs.
LEMMA HostKeepsBakes ==
    ASSUME BakeInv, UNCHANGED packVars,
           disk'.from = 0 => disk.from = 0 /\ OwnDbKept,
           \A x \in Requests :
              /\ req[x].op = "save" => req'[x].op = "save"
              /\ req'[x].op = "save" /\ req'[x].pc # "bake" =>
                    (req[x].op = "save" /\ req[x].pc # "bake") \/ D!Free(x)
    PROVE  BakeInv'
  <1> SUFFICES ASSUME Steady'
               PROVE  /\ SavesFree' /\ FetchesNew' /\ BakesPacks' /\ BakesHost'
                      /\ ImageReady' /\ WimSettles'
      BY DEF BakeInv
  <1>1. UNCHANGED << folder, wim, ready, job, mixed, lapped >>
    BY DEF packVars
  <1>2. /\ SavesFree /\ FetchesNew /\ BakesPacks /\ BakesHost /\ ImageReady /\ WimSettles
        /\ OwnDbKept
    BY <1>1 DEF BakeInv, Steady
  <1>3. SavesFree'
    BY <1>1, <1>2 DEF SavesFree, D!Free
  <1>4. FetchesNew' /\ BakesPacks' /\ ImageReady'
    BY <1>1, <1>2 DEF FetchesNew, BakesPacks, ImageReady, D!Baked
  <1>5. Yet => Yet'
    BY <1>1 DEF Yet, D!Free
  <1>6. disk' = disk \/ Yet'
    BY <1>2, <1>3 DEF OwnDbKept, SavesFree, Yet
  <1>7. BakesHost'
    BY <1>1, <1>2, <1>5, <1>6 DEF BakesHost
  <1>8. disk' = disk /\ WimOK => WimOK'
    BY <1>1 DEF WimOK, Shown, Filling
  <1>9. WimSettles'
    BY <1>1, <1>2, <1>5, <1>6, <1>8 DEF WimSettles
  <1> QED
    BY <1>3, <1>4, <1>7, <1>9

JobAlike(q, o) == /\ q.op = o.op /\ q.pc = o.pc /\ q.pack = o.pack /\ q.made = o.made
                  /\ q.skip = o.skip

\* A job works on a folder, and on no boot.wim.
LEMMA FoldersKeepBakes ==
    ASSUME BakeInv, NEW j \in Requests, UNCHANGED << req, disk, wim, ready >>,
           Steady' => Steady,
           \A x \in Requests \ {j} : JobAlike(job'[x], job[x]),
           job[j].pc \in {"idle", "download", "install"},
           job'[j].pc \in {"idle", "download", "install", "bake"},
           job[j].pc = "idle" => req[j].op # "save",
           Steady /\ Steady' =>
              /\ \A x \in Requests : job'[x].pc = "download" => folder'[job'[x].pack] = "none"
              /\ \/ \A x \in Requests : job[x].pc # "baking"
                 \/ \A p \in BootPacks : folder'[p] = folder[p]
              /\ \/ job'[j].pc = "bake"
                 \/ \A p \in BootPacks : Shown(p)' = Shown(p)
    PROVE  BakeInv'
  <1> SUFFICES ASSUME Steady'
               PROVE  /\ SavesFree' /\ FetchesNew' /\ BakesPacks' /\ BakesHost'
                      /\ ImageReady' /\ WimSettles'
      BY DEF BakeInv
  <1>1. Steady
    OBVIOUS
  <1>2. SavesFree /\ FetchesNew /\ BakesPacks /\ BakesHost /\ ImageReady /\ WimSettles
    BY <1>1 DEF BakeInv
  <1>3. SavesFree'
    BY <1>2 DEF SavesFree, D!Free, JobAlike
  <1>4. FetchesNew'
    BY <1>1 DEF FetchesNew
  <1>5. \A x \in Requests : job'[x].pc = "baking" =>
           /\ job[x].pc = "baking" /\ job'[x].skip = job[x].skip /\ job'[x].made = job[x].made
    BY DEF JobAlike
  <1>6. (\E x \in Requests : job[x].pc = "baking") => D!Baked' = D!Baked
    BY <1>1 DEF D!Baked
  <1>7. BakesPacks'
    BY <1>2, <1>5, <1>6 DEF BakesPacks
  <1>8. Yet => Yet'
    <2>1. ASSUME NEW w \in Requests, req[w].op = "save", D!Free(w) PROVE Yet'
      BY <2>1 DEF D!Free, JobAlike, Yet
    <2>2. ASSUME NEW w \in Requests, job[w].pc = "bake" PROVE Yet'
      BY <2>2 DEF JobAlike, Yet
    <2> QED
      BY <2>1, <2>2 DEF Yet
  <1>9. BakesHost'
    BY <1>2, <1>8 DEF BakesHost, JobAlike
  <1>10. ImageReady'
    BY <1>2 DEF ImageReady, JobAlike
  <1>11. WimSettles'
    <2>1. CASE job'[j].pc = "bake"
      BY <2>1 DEF WimSettles, Yet
    <2>2. CASE \A p \in BootPacks : Shown(p)' = Shown(p)
      <3>1. WimOK => WimOK'
        BY <2>2 DEF WimOK
      <3>2. (\E x \in Requests : job[x].pc = "baking") => \E x \in Requests : job'[x].pc = "baking"
        BY DEF JobAlike
      <3> QED
        BY <1>2, <1>8, <3>1, <3>2 DEF WimSettles
    <2> QED
      BY <1>1, <2>1, <2>2
  <1> QED
    BY <1>3, <1>4, <1>7, <1>9, <1>10, <1>11

\* A change of a folder that crossed nothing.
LEMMA TouchedAlone ==
    ASSUME NEW j \in Requests, NEW p \in Packs, D!Touches(j, p), PacksInv
    PROVE  /\ mixed \subseteq mixed' /\ (lapped => lapped')
           /\ mixed' = {} => \A x \in Requests \ {j} :
                 ~(job[x].pc \in {"download", "install"} /\ job[x].pack = p)
           /\ ~lapped' /\ p \in BootPacks => \A x \in Requests \ {j} : job[x].pc # "baking"
  BY DEF D!Touches, D!Others, D!Free

LEMMA SteadyBefore ==
    ASSUME disk' = disk, mixed \subseteq mixed', lapped => lapped'
    PROVE  Steady' => Steady
  BY DEF Steady

\* A job changes one folder.
LEMMA FolderKeepsBakes ==
    ASSUME PacksInv, BakeInv, NEW j \in Requests, NEW p \in Packs, D!Touches(j, p),
           UNCHANGED << req, disk, wim, ready >>,
           \A x \in Requests \ {j} : JobAlike(job'[x], job[x]),
           \A q \in Packs \ {p} : folder'[q] = folder[q],
           job[j].pc \in {"idle", "download", "install"},
           job'[j].pc \in {"idle", "install", "bake"},
           job[j].pc = "install" => job[j].pack = p,
           job'[j].pc = "install" => job'[j].pack = p,
           job[j].pc = "idle" => req[j].op # "save",
           Steady /\ p \in BootPacks => job'[j].pc = "bake" \/ Shown(p)' = Shown(p)
    PROVE  BakeInv'
  <1>1. job \in [Requests -> D!Job] /\ BootPacks \subseteq Packs
    BY PacksAssumption DEF PacksInv, D!DriversTypeOK
  <1>2. Steady' => Steady
    BY TouchedAlone, SteadyBefore
  <1>3. ASSUME Steady, Steady'
        PROVE  /\ \A x \in Requests : job'[x].pc = "download" => folder'[job'[x].pack] = "none"
               /\ \/ \A x \in Requests : job[x].pc # "baking"
                  \/ \A q \in BootPacks : folder'[q] = folder[q]
               /\ \/ job'[j].pc = "bake"
                  \/ \A q \in BootPacks : Shown(q)' = Shown(q)
    <2>1. \A x \in Requests \ {j} : ~(job[x].pc \in {"download", "install"} /\ job[x].pack = p)
      BY <1>3, TouchedAlone DEF Steady
    <2>2. FetchesNew
      BY <1>3 DEF BakeInv
    <2>3. \A x \in Requests : job'[x].pc = "download" => folder'[job'[x].pack] = "none"
      BY <1>1, <2>1, <2>2 DEF FetchesNew, D!Job, JobAlike
    <2>4. p \in BootPacks => \A x \in Requests : job[x].pc # "baking"
      BY <1>3, TouchedAlone DEF Steady
    <2>5. \A q \in Packs \ {p} : Filling(q)' <=> Filling(q)
      BY DEF Filling, JobAlike
    <2>6. \A q \in Packs \ {p} : Shown(q)' = Shown(q)
      BY <2>5 DEF Shown
    <2> QED
      BY <1>1, <1>3, <2>3, <2>4, <2>6
  <1> QED
    BY <1>2, <1>3, FoldersKeepBakes

LEMMA UploadPackKeepsBakes ==
    ASSUME PacksInv, BakeInv, NEW j \in Requests, NEW p \in Packs, D!UploadPack(j, p),
           req[j].op # "save", UNCHANGED << req, disk >>
    PROVE  BakeInv'
  <1>1. /\ job' = [job EXCEPT ![j] = [D!Ended EXCEPT !.op = "upload", !.pc = "install",
                                                     !.pack = p]]
        /\ folder' = [folder EXCEPT ![p] = "part"] /\ folder[p] = "none"
        /\ job[j].pc = "idle" /\ D!Touches(j, p) /\ UNCHANGED << wim, ready >>
    BY DEF D!UploadPack, D!Free
  <1>2. job \in [Requests -> D!Job] /\ folder \in [Packs -> D!Contents]
    BY DEF PacksInv, D!DriversTypeOK
  <1>3. /\ job'[j].pc = "install" /\ job'[j].pack = p
        /\ \A x \in Requests \ {j} : JobAlike(job'[x], job[x])
    BY <1>1, <1>2 DEF D!Ended, JobAlike
  <1>4. \A q \in Packs \ {p} : folder'[q] = folder[q]
    BY <1>1, <1>2
  <1>5. Shown(p)' = Shown(p)
    BY <1>1, <1>3 DEF Shown, Filling
  <1> QED
    BY <1>1, <1>3, <1>4, <1>5, FolderKeepsBakes

LEMMA FetchKeepsBakes ==
    ASSUME PacksInv, BakeInv, NEW j \in Requests, NEW p \in Packs, D!Fetch(j, p),
           req[j].op # "save", UNCHANGED << req, disk >>
    PROVE  BakeInv'
  <1>1. /\ job' = [job EXCEPT ![j] = [D!Ended EXCEPT !.op = "fetch", !.pc = "download",
                                                     !.pack = p]]
        /\ folder[p] = "none" /\ job[j].pc = "idle"
        /\ UNCHANGED << folder, wim, ready, mixed, lapped >>
    BY DEF D!Fetch, D!Free
  <1>2. job \in [Requests -> D!Job]
    BY DEF PacksInv, D!DriversTypeOK
  <1>3. /\ job'[j].pc = "download" /\ job'[j].pack = p
        /\ \A x \in Requests \ {j} : job'[x] = job[x]
    BY <1>1, <1>2 DEF D!Ended
  <1>4. Steady' => Steady
    BY <1>1 DEF Steady
  <1>5. Steady => \A x \in Requests : job'[x].pc = "download" => folder'[job'[x].pack] = "none"
    BY <1>1, <1>3 DEF BakeInv, FetchesNew
  <1>6. \A q \in BootPacks : Shown(q)' = Shown(q)
    BY <1>1, <1>3 DEF Shown, Filling
  <1>7. \A x \in Requests \ {j} : JobAlike(job'[x], job[x])
    BY <1>3 DEF JobAlike
  <1> QED
    BY <1>1, <1>3, <1>4, <1>5, <1>6, <1>7, FoldersKeepBakes

LEMMA FetchFailsKeepsBakes ==
    ASSUME PacksInv, BakeInv, NEW j \in Requests, D!FetchFails(j), UNCHANGED << req, disk >>
    PROVE  BakeInv'
  <1>1. /\ job' = [job EXCEPT ![j] = D!Ended] /\ job[j].pc = "download"
        /\ UNCHANGED << folder, wim, ready, mixed, lapped >>
    BY DEF D!FetchFails
  <1>2. job \in [Requests -> D!Job]
    BY DEF PacksInv, D!DriversTypeOK
  <1>3. job'[j].pc = "idle" /\ \A x \in Requests \ {j} : job'[x] = job[x]
    BY <1>1, <1>2, EndedJob
  <1>4. Steady' => Steady
    BY <1>1 DEF Steady
  <1>5. Steady => \A x \in Requests : job'[x].pc = "download" => folder'[job'[x].pack] = "none"
    BY <1>1, <1>3 DEF BakeInv, FetchesNew
  <1>6. \A q \in BootPacks : Shown(q)' = Shown(q)
    BY <1>1, <1>3 DEF Shown, Filling
  <1>7. \A x \in Requests \ {j} : JobAlike(job'[x], job[x])
    BY <1>3 DEF JobAlike
  <1> QED
    BY <1>1, <1>3, <1>4, <1>5, <1>6, <1>7, FoldersKeepBakes

LEMMA InstallBeginsKeepsBakes ==
    ASSUME PacksInv, BakeInv, NEW j \in Requests, D!InstallBegins(j), UNCHANGED << req, disk >>
    PROVE  BakeInv'
  <1>1. job \in [Requests -> D!Job] /\ folder \in [Packs -> D!Contents] /\ job[j] \in D!Job
    BY DEF PacksInv, D!DriversTypeOK
  <1>2. PICK p \in Packs : p = job[j].pack
    BY <1>1 DEF D!Job
  <1>3. /\ job' = [job EXCEPT ![j].pc = "install"] /\ folder' = [folder EXCEPT ![p] = "part"]
        /\ job[j].pc = "download" /\ D!Touches(j, p) /\ UNCHANGED << wim, ready >>
    BY <1>2 DEF D!InstallBegins
  <1>4. /\ job'[j].pc = "install" /\ job'[j].pack = p
        /\ \A x \in Requests \ {j} : JobAlike(job'[x], job[x])
    BY <1>1, <1>2, <1>3 DEF D!Job, JobAlike
  <1>5. \A q \in Packs \ {p} : folder'[q] = folder[q]
    BY <1>1, <1>3
  <1>6. Steady => Shown(p)' = Shown(p)
    <2>1. Steady => folder[p] = "none"
      BY <1>2, <1>3 DEF BakeInv, FetchesNew
    <2> QED
      BY <1>4, <2>1 DEF Shown, Filling
  <1> QED
    BY <1>3, <1>4, <1>5, <1>6, FolderKeepsBakes

\* Others lose their files, and go on.
LEMMA HitIsAlike ==
    ASSUME NEW jobs \in [Requests -> D!Job], NEW p \in Packs, job' = D!Hit(jobs, p)
    PROVE  \A x \in Requests : JobAlike(job'[x], jobs[x])
  <1> SUFFICES ASSUME NEW x \in Requests PROVE JobAlike(job'[x], jobs[x])
      OBVIOUS
  <1>1. jobs[x] \in D!Job
    OBVIOUS
  <1>2. job'[x] \in {jobs[x], [jobs[x] EXCEPT !.hit = TRUE]}
    BY DEF D!Hit
  <1> QED
    BY <1>1, <1>2 DEF JobAlike, D!Job

LEMMA InstallEndsKeepsBakes ==
    ASSUME PacksInv, BakeInv, NEW j \in Requests, D!InstallEnds(j), UNCHANGED << req, disk >>
    PROVE  BakeInv'
  <1>1. job \in [Requests -> D!Job] /\ folder \in [Packs -> D!Contents] /\ job[j] \in D!Job
    BY DEF PacksInv, D!DriversTypeOK
  <1>2. PICK p \in Packs : p = job[j].pack
    BY <1>1 DEF D!Job
  <1>3. /\ job[j].pc = "install" /\ D!Touches(j, p) /\ UNCHANGED << wim, ready >>
        /\ job' = IF D!Served(p) THEN [job EXCEPT ![j] = D!Ended]
                  ELSE [job EXCEPT ![j].pc = "bake"]
    BY <1>2 DEF D!InstallEnds
  <1>4. PICK c : folder' = [folder EXCEPT ![p] = c]
    BY <1>2 DEF D!InstallEnds
  <1>5. \A q \in Packs \ {p} : folder'[q] = folder[q]
    BY <1>1, <1>4
  <1>6. /\ job'[j].pc = IF D!Served(p) THEN "idle" ELSE "bake"
        /\ \A x \in Requests \ {j} : JobAlike(job'[x], job[x])
    BY <1>1, <1>3, EndedJob DEF D!Job, JobAlike
  <1>7. p \in BootPacks => job'[j].pc = "bake"
    BY <1>6 DEF D!Served
  <1> QED
    BY <1>2, <1>3, <1>5, <1>6, <1>7, FolderKeepsBakes

LEMMA InstallFailsKeepsBakes ==
    ASSUME PacksInv, BakeInv, NEW j \in Requests, D!InstallFails(j), UNCHANGED << req, disk >>
    PROVE  BakeInv'
  <1>1. job \in [Requests -> D!Job] /\ folder \in [Packs -> D!Contents] /\ job[j] \in D!Job
    BY DEF PacksInv, D!DriversTypeOK
  <1>2. PICK p \in Packs : p = job[j].pack
    BY <1>1 DEF D!Job
  <1>3. /\ job[j].pc = "install" /\ D!Touches(j, p) /\ UNCHANGED << wim, ready >>
        /\ folder' = [folder EXCEPT ![p] = "none"]
        /\ job' = D!Hit([job EXCEPT ![j] = D!Ended], p)
    BY <1>2 DEF D!InstallFails, D!AfterFailure
  <1>4. folder'[p] = "none" /\ \A q \in Packs \ {p} : folder'[q] = folder[q]
    BY <1>1, <1>3
  <1>5. job'[j].pc = "idle" /\ \A x \in Requests \ {j} : JobAlike(job'[x], job[x])
    <2> DEFINE jobs == [job EXCEPT ![j] = D!Ended]
    <2>1. /\ jobs \in [Requests -> D!Job] /\ jobs[j].pc = "idle"
          /\ \A x \in Requests \ {j} : jobs[x] = job[x]
      BY <1>1, EndedJob
    <2>2. job' = D!Hit(jobs, p)
      BY <1>3
    <2> HIDE DEF jobs
    <2> QED
      BY <2>1, <2>2, HitIsAlike DEF JobAlike
  <1>6. Shown(p)' = Shown(p)
    BY <1>2, <1>3, <1>4 DEF Shown, Filling
  <1> QED
    BY <1>2, <1>3, <1>4, <1>5, <1>6, FolderKeepsBakes

LEMMA DeletePackKeepsBakes ==
    ASSUME PacksInv, BakeInv, NEW j \in Requests, NEW p \in Packs, D!DeletePack(j, p),
           req[j].op # "save", UNCHANGED << req, disk >>
    PROVE  BakeInv'
  <1>1. /\ job[j].pc = "idle" /\ D!Touches(j, p) /\ UNCHANGED << wim, ready >>
        /\ folder' = [folder EXCEPT ![p] = "none"]
    BY DEF D!DeletePack, D!Free
  <1>2. job \in [Requests -> D!Job] /\ folder \in [Packs -> D!Contents]
    BY DEF PacksInv, D!DriversTypeOK
  <1>3. \A q \in Packs \ {p} : folder'[q] = folder[q]
    BY <1>1, <1>2
  <1>4. CASE D!Served(p)
    <2>1. job' = D!Hit(job, p)
      BY <1>4 DEF D!DeletePack
    <2>2. \A x \in Requests : JobAlike(job'[x], job[x])
      BY <1>2, <2>1, HitIsAlike
    <2>3. p \notin BootPacks /\ job'[j].pc = "idle"
      BY <1>1, <1>4, <2>2 DEF D!Served, JobAlike
    <2> QED
      BY <1>1, <1>3, <2>2, <2>3, FolderKeepsBakes
  <1>5. CASE ~D!Served(p)
    <2> DEFINE bake == [D!Ended EXCEPT !.op = "delete", !.pc = "bake", !.pack = p]
               jobs == [job EXCEPT ![j] = bake]
    <2>1. bake \in D!Job /\ bake.pc = "bake"
      BY EndedJob DEF D!Job
    <2>2. job' = D!Hit(jobs, p)
      BY <1>5 DEF D!DeletePack
    <2> HIDE DEF bake
    <2>3. /\ jobs \in [Requests -> D!Job] /\ jobs[j].pc = "bake"
          /\ \A x \in Requests \ {j} : jobs[x] = job[x]
      BY <1>2, <2>1
    <2> HIDE DEF jobs
    <2>4. job'[j].pc = "bake" /\ \A x \in Requests \ {j} : JobAlike(job'[x], job[x])
      BY <2>2, <2>3, HitIsAlike DEF JobAlike
    <2> QED
      BY <1>1, <1>3, <2>4, FolderKeepsBakes
  <1> QED
    BY <1>4, <1>5

LEMMA OthersIdle ==
    ASSUME NEW j \in Requests, D!Others(j) = {}
    PROVE  \A x \in Requests \ {j} : job[x].pc = "idle"
  BY DEF D!Others, D!Free

\* A re-bake or a build that nothing crosses is the only job there is.
LEMMA AloneAtWork ==
    ASSUME NEW j \in Requests, UNCHANGED << disk, mixed >>,
           lapped' = (lapped \/ D!Others(j) # {}), Steady'
    PROVE  Steady /\ \A x \in Requests \ {j} : job[x].pc = "idle"
  BY OthersIdle DEF Steady

LEMMA RebakeKeepsBakes ==
    ASSUME PacksInv, BakeInv, NEW j \in Requests, D!Rebake(j), req[j].pc = "bake",
           UNCHANGED << req, disk >>
    PROVE  BakeInv'
  <1> SUFFICES ASSUME Steady'
               PROVE  /\ SavesFree' /\ FetchesNew' /\ BakesPacks' /\ BakesHost'
                      /\ ImageReady' /\ WimSettles'
      BY DEF BakeInv
  <1>1. /\ job' = [job EXCEPT ![j] = [D!Ended EXCEPT !.op = "save", !.pc = "bake"]]
        /\ job[j].pc = "idle" /\ UNCHANGED << folder, wim, ready, mixed, lapped >>
    BY DEF D!Rebake, D!Free
  <1>2. job \in [Requests -> D!Job]
    BY DEF PacksInv, D!DriversTypeOK
  <1>3. job'[j].pc = "bake" /\ \A x \in Requests \ {j} : job'[x] = job[x]
    BY <1>1, <1>2 DEF D!Ended
  <1>4. SavesFree /\ FetchesNew /\ BakesPacks /\ ImageReady
    BY <1>1 DEF BakeInv, Steady
  <1>5. Yet'
    BY <1>3 DEF Yet
  <1>6. SavesFree' /\ FetchesNew' /\ ImageReady'
    BY <1>1, <1>3, <1>4 DEF SavesFree, FetchesNew, ImageReady, D!Free
  <1>7. BakesPacks'
    BY <1>1, <1>3, <1>4 DEF BakesPacks, D!Baked
  <1> QED
    BY <1>5, <1>6, <1>7 DEF BakesHost, WimSettles

LEMMA BakeStartsKeepsBakes ==
    ASSUME PacksInv, BakeInv, OriginsInv, NEW j \in Requests, NEW d \in Readable,
           D!BakeStarts(j, d.host), UNCHANGED << req, disk >>
    PROVE  BakeInv'
  <1> SUFFICES ASSUME Steady'
               PROVE  /\ SavesFree' /\ FetchesNew' /\ BakesPacks' /\ BakesHost'
                      /\ ImageReady' /\ WimSettles'
      BY DEF BakeInv
  <1>1. /\ job' = [job EXCEPT ![j].pc = "baking", ![j].skip = ~ready,
                              ![j].made = [address |-> d.host, packs |-> D!Baked]]
        /\ job[j].pc = "bake" /\ UNCHANGED << folder, wim, ready, mixed >>
        /\ lapped' = (lapped \/ D!Others(j) # {})
    BY DEF D!BakeStarts
  <1>2. job \in [Requests -> D!Job] /\ job[j] \in D!Job
    BY DEF PacksInv, D!DriversTypeOK
  <1>3. /\ job'[j].pc = "baking" /\ job'[j].skip = ~ready
        /\ job'[j].made.address = d.host /\ job'[j].made.packs = D!Baked
        /\ \A x \in Requests \ {j} : job'[x] = job[x]
    BY <1>1, <1>2 DEF D!Job
  <1>4. Steady /\ \A x \in Requests \ {j} : job[x].pc = "idle"
    BY <1>1, AloneAtWork
  <1>5. SavesFree /\ ImageReady
    BY <1>4 DEF BakeInv
  <1>6. d.host = disk.host
    BY <1>4 DEF Steady, OriginsInv, Readable
  <1>7. ready
    BY <1>1, <1>4, <1>5 DEF ImageReady
  <1>8. SavesFree' /\ FetchesNew'
    BY <1>1, <1>3, <1>4, <1>5 DEF SavesFree, FetchesNew, D!Free
  <1>9. BakesPacks'
    BY <1>1, <1>3, <1>4, <1>7 DEF BakesPacks, D!Baked
  <1>10. BakesHost'
    BY <1>3, <1>4, <1>6 DEF BakesHost
  <1> QED
    BY <1>1, <1>3, <1>7, <1>8, <1>9, <1>10 DEF ImageReady, WimSettles

LEMMA BakeEndsKeepsBakes ==
    ASSUME PacksInv, BakeInv, NEW j \in Requests, D!BakeEnds(j), disk' = disk,
           req'[j] = req[j] \/ req'[j].op # "save",
           \A x \in Requests \ {j} : req'[x] = req[x]
    PROVE  BakeInv'
  <1> SUFFICES ASSUME Steady'
               PROVE  /\ SavesFree' /\ FetchesNew' /\ BakesPacks' /\ BakesHost'
                      /\ ImageReady' /\ WimSettles'
      BY DEF BakeInv
  <1>1. /\ job' = [job EXCEPT ![j] = D!Ended] /\ job[j].pc = "baking"
        /\ UNCHANGED << folder, ready, mixed >>
        /\ lapped' = (lapped \/ D!Others(j) # {})
    BY DEF D!BakeEnds
  <1>2. job \in [Requests -> D!Job] /\ job[j] \in D!Job
    BY DEF PacksInv, D!DriversTypeOK
  <1>3. Steady /\ \A x \in Requests \ {j} : job[x].pc = "idle"
    BY <1>1, AloneAtWork
  <1>4. \A x \in Requests : job'[x].pc = "idle"
    BY <1>1, <1>2, <1>3, EndedJob
  <1>5. /\ ~job[j].skip /\ job[j].made.packs = D!Baked
        /\ Yet \/ job[j].made.address = disk.host
        /\ ready
    BY <1>1, <1>3 DEF BakeInv, BakesPacks, BakesHost, ImageReady
  <1>6. wim' \in {job[j].made, [job[j].made EXCEPT !.packs = D!Baked]}
    <2>1. ~\E x \in D!Others(j) : job[x].pc \in {"baking", "unpack"}
      BY <1>3 DEF D!Others
    <2> QED
      BY <1>5, <2>1 DEF D!BakeEnds
  <1>7. wim'.packs = D!Baked /\ wim'.address = job[j].made.address
    BY <1>2, <1>5, <1>6 DEF D!Job, D!Wim
  <1>8. Yet => Yet'
    <2>1. ASSUME NEW w \in Requests, (req[w].op = "save" /\ D!Free(w)) \/ job[w].pc = "bake"
          PROVE  Yet'
      <3>1. w # j /\ req[w].op = "save"
        BY <1>1, <1>3, <2>1 DEF D!Free
      <3> QED
        BY <1>4, <3>1 DEF Yet, D!Free
    <2> QED
      BY <2>1 DEF Yet
  <1>9. \A p \in BootPacks : wim'.packs[p] = Shown(p)'
    BY <1>1, <1>4, <1>7 DEF Shown, Filling, D!Baked
  <1>10. WimSettles'
    BY <1>5, <1>7, <1>8, <1>9 DEF WimSettles, WimOK
  <1>11. SavesFree' /\ FetchesNew' /\ BakesPacks' /\ BakesHost'
    BY <1>4 DEF SavesFree, FetchesNew, BakesPacks, BakesHost, D!Free
  <1> QED
    BY <1>1, <1>5, <1>10, <1>11 DEF ImageReady

LEMMA BuildKeepsBakes ==
    ASSUME PacksInv, BakeInv, OriginsInv, NEW j \in Requests, NEW d \in Readable,
           D!Build(j, d.host), req[j].op # "save", UNCHANGED << req, disk >>
    PROVE  BakeInv'
  <1> SUFFICES ASSUME Steady'
               PROVE  /\ SavesFree' /\ FetchesNew' /\ BakesPacks' /\ BakesHost'
                      /\ ImageReady' /\ WimSettles'
      BY DEF BakeInv
  <1>1. /\ job' = [job EXCEPT ![j] = [D!Ended EXCEPT !.op = "build", !.pc = "unpack",
                                                     !.made.address = d.host]]
        /\ job[j].pc = "idle" /\ UNCHANGED << folder, wim, mixed >>
        /\ lapped' = (lapped \/ D!Others(j) # {})
    BY DEF D!Build, D!Free
  <1>2. job \in [Requests -> D!Job]
    BY DEF PacksInv, D!DriversTypeOK
  <1>3. /\ job'[j].pc = "unpack" /\ job'[j].made.address = d.host
        /\ \A x \in Requests \ {j} : job'[x] = job[x]
    BY <1>1, <1>2 DEF D!Ended
  <1>4. Steady /\ \A x \in Requests : job[x].pc = "idle"
    BY <1>1, AloneAtWork
  <1>5. SavesFree /\ WimSettles
    BY <1>4 DEF BakeInv
  <1>6. d.host = disk.host
    BY <1>4 DEF Steady, OriginsInv, Readable
  <1>7. \A x \in Requests : job'[x].pc = IF x = j THEN "unpack" ELSE "idle"
    BY <1>3, <1>4
  <1>8. SavesFree' /\ FetchesNew' /\ BakesPacks' /\ ImageReady'
    BY <1>5, <1>7 DEF SavesFree, FetchesNew, BakesPacks, ImageReady, D!Free
  <1>9. BakesHost'
    BY <1>3, <1>6, <1>7 DEF BakesHost
  <1>10. Yet => Yet'
    BY <1>4, <1>7 DEF Yet, D!Free
  <1>11. WimOK => WimOK'
    BY <1>1, <1>4, <1>7 DEF WimOK, Shown, Filling
  <1> QED
    BY <1>4, <1>5, <1>8, <1>9, <1>10, <1>11 DEF WimSettles

LEMMA BuildPatchesKeepsBakes ==
    ASSUME PacksInv, BakeInv, NEW j \in Requests, D!BuildPatches(j), UNCHANGED << req, disk >>
    PROVE  BakeInv'
  <1> SUFFICES ASSUME Steady'
               PROVE  /\ SavesFree' /\ FetchesNew' /\ BakesPacks' /\ BakesHost'
                      /\ ImageReady' /\ WimSettles'
      BY DEF BakeInv
  <1>1. /\ job' = [job EXCEPT ![j].pc = "commit"] /\ job[j].pc = "unpack"
        /\ wim' = [address |-> job[j].made.address, packs |-> D!Baked]
        /\ UNCHANGED << folder, ready, mixed >>
        /\ lapped' = (lapped \/ D!Others(j) # {})
    BY DEF D!BuildPatches
  <1>2. job \in [Requests -> D!Job] /\ job[j] \in D!Job
    BY DEF PacksInv, D!DriversTypeOK
  <1>3. job'[j].pc = "commit" /\ \A x \in Requests \ {j} : job'[x] = job[x]
    BY <1>1, <1>2 DEF D!Job
  <1>4. Steady /\ \A x \in Requests \ {j} : job[x].pc = "idle"
    BY <1>1, AloneAtWork
  <1>5. SavesFree /\ BakesHost
    BY <1>4 DEF BakeInv
  <1>6. \A x \in Requests : job'[x].pc = IF x = j THEN "commit" ELSE "idle"
    BY <1>3, <1>4
  <1>7. SavesFree' /\ FetchesNew' /\ BakesPacks' /\ BakesHost' /\ ImageReady'
    BY <1>1, <1>5, <1>6 DEF SavesFree, FetchesNew, BakesPacks, BakesHost, ImageReady, D!Free
  <1>8. Yet => Yet'
    BY <1>1, <1>4, <1>6 DEF Yet, D!Free
  <1>9. Yet \/ wim'.address = disk.host
    BY <1>1, <1>5 DEF BakesHost
  <1>10. \A p \in BootPacks : wim'.packs[p] = Shown(p)'
    BY <1>1, <1>6 DEF Shown, Filling, D!Baked
  <1> QED
    BY <1>7, <1>8, <1>9, <1>10 DEF WimSettles, WimOK

LEMMA BuildCommitsKeepsBakes ==
    ASSUME PacksInv, BakeInv, NEW j \in Requests, D!BuildCommits(j), UNCHANGED << req, disk >>
    PROVE  BakeInv'
  <1> SUFFICES ASSUME Steady'
               PROVE  /\ SavesFree' /\ FetchesNew' /\ BakesPacks' /\ BakesHost'
                      /\ ImageReady' /\ WimSettles'
      BY DEF BakeInv
  <1>1. /\ job' = [job EXCEPT ![j] = D!Ended] /\ job[j].pc = "commit" /\ ready'
        /\ UNCHANGED << folder, wim, mixed >>
        /\ lapped' = (lapped \/ D!Others(j) # {})
    BY DEF D!BuildCommits
  <1>2. job \in [Requests -> D!Job]
    BY DEF PacksInv, D!DriversTypeOK
  <1>3. Steady /\ \A x \in Requests \ {j} : job[x].pc = "idle"
    BY <1>1, AloneAtWork
  <1>4. WimSettles
    BY <1>3 DEF BakeInv
  <1>5. \A x \in Requests : job'[x].pc = "idle"
    BY <1>1, <1>2, <1>3, EndedJob
  <1>6. SavesFree' /\ FetchesNew' /\ BakesPacks' /\ BakesHost' /\ ImageReady'
    BY <1>1, <1>5 DEF SavesFree, FetchesNew, BakesPacks, BakesHost, ImageReady, D!Free
  <1>7. Yet => Yet'
    BY <1>1, <1>3, <1>5 DEF Yet, D!Free
  <1>8. WimOK => WimOK'
    BY <1>1, <1>3, <1>5 DEF WimOK, Shown, Filling
  <1>9. ~\E x \in Requests : job[x].pc = "baking"
    BY <1>1, <1>3
  <1> QED
    BY <1>4, <1>6, <1>7, <1>8, <1>9 DEF WimSettles

LEMMA CrashKeepsBakes ==
    ASSUME HostInv, PacksInv, OriginsInv, BakeInv, Crash PROVE BakeInv'
  <1> SUFFICES ASSUME Steady'
               PROVE  /\ SavesFree' /\ FetchesNew' /\ BakesPacks' /\ BakesHost'
                      /\ ImageReady' /\ WimSettles'
      BY DEF BakeInv
  <1>1. /\ job' = [x \in Requests |-> D!Ended] /\ UNCHANGED << folder, wim, ready >>
        /\ mixed \subseteq mixed'
        /\ lapped' = (lapped \/ (\E r \in Requests : req[r].op = "save")
                             \/ \E x \in Requests : ~D!Free(x))
    BY DEF Crash, D!Stop
  <1>2. /\ disk'.from = disk.from /\ (disk.from = 0 => disk' = disk)
        /\ \A x \in Requests : req'[x] = Idle
    BY RestartHasOrigin DEF Crash
  <1>3. Steady /\ disk' = disk /\ \A x \in Requests : job[x].pc = "idle" /\ req[x].op # "save"
    BY <1>1, <1>2 DEF Steady, D!Free
  <1>4. ImageReady /\ WimSettles
    BY <1>3 DEF BakeInv
  <1>5. \A x \in Requests : job'[x].pc = "idle"
    BY <1>1, EndedJob
  <1>6. SavesFree' /\ FetchesNew' /\ BakesPacks' /\ BakesHost'
    BY <1>5 DEF SavesFree, FetchesNew, BakesPacks, BakesHost, D!Free
  <1>7. ImageReady'
    BY <1>1, <1>3, <1>4 DEF ImageReady
  <1>8. WimOK
    BY <1>3, <1>4 DEF WimSettles, Yet
  <1>9. WimOK'
    BY <1>1, <1>3, <1>5, <1>8 DEF WimOK, Shown, Filling
  <1> QED
    BY <1>6, <1>7, <1>9 DEF WimSettles

LEMMA IdleSavesNothing ==
    ASSUME LoopInv, NEW r \in Requests, req[r].pc = "idle" PROVE req[r].op # "save"
  BY DEF LoopInv, OpFits

LEMMA HostStepKeepsBakes ==
    ASSUME HostInv, LoopInv, SettledInv, OriginsInv, BakeInv, UNCHANGED packVars,
           \/ \E r \in Requests : Restoring(r) \/ Saving(r)
           \/ \E r \in Slots : Rendering(r)
           \/ Cancel \/ Watching \/ Second
    PROVE  OriginsInv' /\ BakeInv'
  <1>1. /\ OriginsInv' /\ (disk'.from = 0 => disk.from = 0 /\ OwnDbKept)
        /\ \A x \in Requests : SaveGoesOn(req'[x], req[x])
    <2>1. ASSUME NEW r \in Requests, Restoring(r)
          PROVE  /\ OriginsInv' /\ (disk'.from = 0 => disk.from = 0 /\ OwnDbKept)
                 /\ \A x \in Requests : SaveGoesOn(req'[x], req[x])
      BY <2>1, RestoringHasOrigin DEF OwnDbKept
    <2>2. ASSUME NEW r \in Requests, Saving(r)
          PROVE  /\ OriginsInv' /\ (disk'.from = 0 => disk.from = 0 /\ OwnDbKept)
                 /\ \A x \in Requests : SaveGoesOn(req'[x], req[x])
      BY <2>2, SavingHasOrigin
    <2>3. ASSUME NEW r \in Slots, Rendering(r)
          PROVE  /\ OriginsInv' /\ (disk'.from = 0 => disk.from = 0 /\ OwnDbKept)
                 /\ \A x \in Requests : SaveGoesOn(req'[x], req[x])
      BY <2>3, RenderingHasOrigin DEF OwnDbKept
    <2>4. CASE Cancel \/ Watching \/ Second
      BY <2>4, OthersHaveOrigin DEF OwnDbKept
    <2> QED
      BY <2>1, <2>2, <2>3, <2>4
  <1> QED
    BY <1>1, HostKeepsBakes DEF SaveGoesOn

LEMMA HostRequestKeepsBakes ==
    ASSUME HostInv, LoopInv, OriginsInv, BakeInv, NEW r \in Requests, HostRequest(r)
    PROVE  OriginsInv' /\ BakeInv'
  <1>1. /\ OriginsInv' /\ disk' = disk /\ req[r].pc = "idle"
        /\ \A x \in Requests \ {r} : req'[x] = req[x]
    BY RequestsHaveOrigin DEF HostRequest
  <1>2. D!Free(r) /\ UNCHANGED packVars /\ req[r].op # "save"
    BY <1>1, IdleSavesNothing DEF HostRequest, Slot, HostOnly
  <1> QED
    BY <1>1, <1>2, HostKeepsBakes DEF OwnDbKept

LEMMA PackRequestKeepsBakes ==
    ASSUME HostInv, PacksInv, LoopInv, OriginsInv, BakeInv, NEW r \in Requests, PackRequest(r)
    PROVE  OriginsInv' /\ BakeInv'
  <1>1. UNCHANGED << disk, held, staged, req >>
    BY DEF PackRequest, Asked, dbVars
  <1>2. req[r].op # "save"
    BY IdleSavesNothing DEF PackRequest, Slot, Active
  <1>3. OriginsInv'
    BY <1>1, OriginsStay DEF OriginAlike
  <1> QED
    BY <1>1, <1>2, <1>3, UploadPackKeepsBakes, FetchKeepsBakes, DeletePackKeepsBakes,
       BuildKeepsBakes DEF PackRequest

LEMMA PackStepKeepsBakes ==
    ASSUME HostInv, PacksInv, OriginsInv, BakeInv, NEW r \in Requests,
           PackStep(r) \/ SaveBakes(r)
    PROVE  OriginsInv' /\ BakeInv'
  <1>1. UNCHANGED << disk, held, staged, req >>
    BY DEF PackStep, SaveBakes, PacksOnly, hostVars
  <1>2. OriginsInv'
    BY <1>1, OriginsStay DEF OriginAlike
  <1>3. CASE PackStep(r)
    BY <1>1, <1>2, <1>3, FetchFailsKeepsBakes, InstallBeginsKeepsBakes,
       InstallEndsKeepsBakes, InstallFailsKeepsBakes, BakeStartsKeepsBakes,
       BakeEndsKeepsBakes, BuildPatchesKeepsBakes, BuildCommitsKeepsBakes DEF PackStep
  <1>4. CASE SaveBakes(r)
    BY <1>1, <1>2, <1>4, RebakeKeepsBakes DEF SaveBakes
  <1> QED
    BY <1>3, <1>4

LEMMA StepsKeepBakes ==
    ASSUME HostInv, PacksInv, SafeInv, OriginsInv, BakeInv, [Next]_vars
    PROVE  OriginsInv' /\ BakeInv'
  <1>1. LoopInv /\ SettledInv
    BY DEF SafeInv
  <1>2. ASSUME NEW r \in Requests, HostRequest(r) \/ PackRequest(r) \/ PackStep(r)
                                   \/ SaveBakes(r)
        PROVE  OriginsInv' /\ BakeInv'
    BY <1>1, <1>2, HostRequestKeepsBakes, PackRequestKeepsBakes, PackStepKeepsBakes
  <1>3. ASSUME NEW r \in Requests, HostStep(r) PROVE OriginsInv' /\ BakeInv'
    BY <1>1, <1>3, HostStepKeepsBakes DEF HostStep, HostOnly, Restoring, Slots
  <1>4. ASSUME NEW r \in Requests, SaveIsBaked(r) PROVE OriginsInv' /\ BakeInv'
    <2>1. /\ OriginsInv' /\ disk' = disk /\ req'[r].op = "none"
          /\ \A x \in Requests \ {r} : req'[x] = req[x]
      BY <1>4, SaveEndsHasOrigin DEF SaveIsBaked
    <2> QED
      BY <1>4, <2>1, BakeEndsKeepsBakes DEF SaveIsBaked
  <1>5. CASE (Rendering(Startup) \/ Cancel \/ Watching \/ Second) /\ HostOnly
    BY <1>1, <1>5, HostStepKeepsBakes DEF HostOnly, Slots
  <1>6. CASE Crash
    BY <1>6, CrashKeepsBakes, RestartHasOrigin DEF Crash
  <1>7. CASE UNCHANGED vars
    <2>1. UNCHANGED << disk, held, staged, req, packVars >>
      BY <1>7 DEF vars, hostVars
    <2>2. OriginsInv'
      BY <2>1, OriginsStay DEF OriginAlike
    <2> QED
      BY <2>1, <2>2, HostKeepsBakes DEF OwnDbKept
  <1> QED
    BY <1>2, <1>3, <1>4, <1>5, <1>6, <1>7 DEF Next

LEMMA FirstBakes == Init => OriginsInv /\ BakeInv
  <1> SUFFICES ASSUME Init PROVE OriginsInv /\ BakeInv
      OBVIOUS
  <1>1. OriginsInv
    BY FirstOrigin DEF Init
  <1>2. /\ wim = [address |-> disk.host, packs |-> D!Baked] /\ ready = TRUE
        /\ job = [j \in Requests |-> D!Ended]
    BY DEF Init, D!DriversInit
  <1>3. \A x \in Requests : job[x].pc = "idle"
    BY <1>2, EndedJob
  <1>4. WimOK
    BY <1>2, <1>3 DEF WimOK, Shown, Filling, D!Baked
  <1> QED
    BY <1>1, <1>2, <1>3, <1>4
       DEF BakeInv, SavesFree, FetchesNew, BakesPacks, BakesHost, ImageReady, WimSettles,
           D!Free

LEMMA BakesMean ==
    ASSUME PacksInv, LoopInv, BakeInv PROVE BakedIsCurrent
  <1> SUFFICES ASSUME Quiet, \A r \in Requests : D!Free(r), ready, Steady
               PROVE  wim = [address |-> disk.host, packs |-> D!Baked]
      BY DEF BakedIsCurrent, Steady
  <1>1. \A r \in Requests : req[r].op # "save" /\ job[r].pc = "idle"
    BY IdleSavesNothing DEF Quiet, Active, Slots, D!Free
  <1>2. WimOK
    BY <1>1 DEF BakeInv, WimSettles, Yet
  <1>3. \A p \in BootPacks : wim.packs[p] = folder[p]
    BY <1>1, <1>2 DEF WimOK, Shown, Filling
  <1>4. wim \in D!Wim
    BY DEF PacksInv, D!DriversTypeOK
  <1>5. wim.packs = D!Baked
    BY <1>3, <1>4 DEF D!Wim, D!Baked
  <1> QED
    BY <1>2, <1>4, <1>5 DEF WimOK, D!Wim

\* The boot.wim of a ready Windows image carries the present address and the present
\* boot packs once nothing is under way: settings_save and the driver routes re-bake
\* before they answer, and a build reads both anew.  Between a change and its re-bake
\* there always is one still to come (Yet).
THEOREM BakesAreCurrent == Spec => []BakedIsCurrent
  <1>1. Init => OriginsInv /\ BakeInv
    BY FirstBakes
  <1>2. HostInv /\ PacksInv /\ SafeInv /\ OriginsInv /\ BakeInv /\ [Next]_vars
        => (OriginsInv /\ BakeInv)'
    BY StepsKeepBakes
  <1>3. PacksInv /\ SafeInv /\ BakeInv => BakedIsCurrent
    BY BakesMean DEF SafeInv
  <1> QED
    BY <1>1, <1>2, <1>3, DeploymentIsSafe, PTL DEF Spec
--------------------------------------------------------------------------------
(* What a restore promises.                                                     *)

\* Restoring implements Restores: the database is replaced in one step, by a file whose
\* preview was shown and whose token was checked (restore_apply), with a host value this
\* machine can have (_host_decision), while pxe.db.pre-restore is a copy of what goes
\* (apply).  Saves, uploads, cancels, other applies and restarts may come in between: they
\* leave the file alone, change a setting, or are on record as a disturbance.
THEOREM RestoreImplemented == Spec => RestoreSpec
  <1>1. Init => R!Init
    BY FirstPlays DEF Init
  <1>2. Init => OriginsInv /\ BakeInv
    BY FirstBakes
  <1>3. HostInv /\ PacksInv /\ SafeInv /\ OriginsInv /\ BakeInv /\ [Next]_vars
        => (OriginsInv /\ BakeInv)'
    BY StepsKeepBakes
  <1>4. HostInv /\ SafeInv /\ OriginsInv /\ [Next]_vars => [R!Next]_(R!vars)
    BY DeploymentPlaysHost, HostPlaysRestore DEF PlaysRestore
  <1> QED
    BY <1>1, <1>2, <1>3, <1>4, DeploymentIsSafe, PTL DEF Spec, RestoreSpec, R!Spec
================================================================================
