---------------------------- MODULE UpdatesProofs ----------------------------
(* Theorems about Updates, for every set of builds, threads and channels. *)
EXTENDS Updates, TLAPS

LEMMA Values ==
    /\ Tag \in Channels /\ 0 \in Builds \cup {0}
    /\ \A c \in Channels : BuildsOf[c] \subseteq Builds
  <1>1. \A c \in Channels : BuildsOf[c] \in {Releases, Betas, Mains}
    BY DEF BuildsOf, Channels
  <1> QED
    BY <1>1, HostAssumption DEF Builds

LEMMA Idle ==
    /\ NoUpdater \in Updaters /\ IdleJob \in JobStates
    /\ IdleCheck \in CheckStates /\ IdlePoll \in PollStates
  <1>1. NoUpdater \in Updaters
    BY Values DEF NoUpdater, Updaters
  <1>2. IdleJob \in JobStates
    BY Values DEF IdleJob, JobStates
  <1>3. IdleCheck \in CheckStates
    BY Values DEF IdleCheck, CheckStates
  <1>4. IdlePoll \in PollStates
    BY Values DEF IdlePoll, PollStates
  <1> QED
    BY <1>1, <1>2, <1>3, <1>4

LEMMA InitTypeOK == Init => TypeOK
  <1> SUFFICES ASSUME Init PROVE TypeOK
      OBVIOUS
  <1>1. Installed \in Builds \cup {0} /\ 0 \in Builds \cup {0} /\ Tag \in Channels
    BY HostAssumption
  <1>2. pulled \in [Channels -> Builds \cup {0}]
    BY <1>1 DEF Init
  <1>3. attempt \in Attempts /\ offer \in Offers
    BY <1>1 DEF Init, Attempts, Offers
  <1> QED
    BY <1>1, <1>2, <1>3, Idle DEF Init, TypeOK

LEMMA TargetIsChannel == TypeOK => TargetChannel \in Channels
  BY Values DEF TypeOK, TargetChannel, TargetFor, Channels

(* Updates of one field of a record. *)
LEMMA JobUpdates ==
    ASSUME TypeOK, NEW t \in Jobs,
           NEW pc \in {"idle", "start", "stamp", "pull", "spawn", "wait", "unset"}
    PROVE  [job[t] EXCEPT !.pc = pc] \in JobStates
  BY DEF TypeOK, JobStates

LEMMA AttemptUpdates ==
    ASSUME TypeOK
    PROVE  /\ \A b \in BOOLEAN : [attempt EXCEPT !.on = b] \in Attempts
           /\ \A r \in {"none", "success", "failed"} :
                 /\ [attempt EXCEPT !.result = r] \in Attempts
                 /\ \A b \in BOOLEAN : [attempt EXCEPT !.on = b, !.result = r] \in Attempts
                 /\ \A st \in {"none", "recent", "old"} :
                       [attempt EXCEPT !.started = st, !.result = r] \in Attempts
           /\ \A st \in {"none", "recent", "old"} : [attempt EXCEPT !.started = st] \in Attempts
  BY DEF TypeOK, Attempts

LEMMA OfferUpdates ==
    ASSUME TypeOK
    PROVE  /\ [offer EXCEPT !.available = FALSE] \in Offers
           /\ [offer EXCEPT !.version = 0] \in Offers
           /\ [offer EXCEPT !.available = FALSE, !.version = 0] \in Offers
           /\ \A b \in Builds \cup {0} : [offer EXCEPT !.available = FALSE, !.known = b] \in Offers
  BY Values DEF TypeOK, Offers

(* run_update: the steps of a thread keep the types. *)
LEMMA JobTypeOK == ASSUME TypeOK, NEW t \in Jobs, Apply(t) \/ JobStep(t) PROVE TypeOK'
  <1>1. CASE Apply(t)
    <2>1. Offered \in Builds \cup {0}
      BY DEF Offered, TypeOK, Offers
    <2> HIDE DEF Offered
    <2>2. [IdleJob EXCEPT !.pc = "start", !.shown = Offered] \in JobStates
      BY <2>1, Idle DEF JobStates
    <2> QED
      BY <1>1, <2>2 DEF Apply, TypeOK
  <1>2. CASE Start(t)
    BY <1>2, JobUpdates, AttemptUpdates DEF Start, SetJob, TypeOK
  <1>3. CASE Stamp(t)
    <2>1. [job[t] EXCEPT !.pc = "pull", !.channel = TargetChannel,
                         !.shown = StillOffered(@)] \in JobStates
      <3>1. job[t] \in JobStates /\ job[t].shown \in Builds \cup {0}
        BY DEF TypeOK, JobStates
      <3>2. StillOffered(job[t].shown) \in Builds \cup {0}
        BY <3>1 DEF StillOffered
      <3> HIDE DEF StillOffered
      <3> QED
        BY <3>1, <3>2, TargetIsChannel DEF JobStates
    <2> QED
      BY <1>3, <2>1, AttemptUpdates DEF Stamp, TypeOK
  <1>4. CASE Pull(t)
    <2>1. job[t].channel \in Channels
      BY DEF TypeOK, JobStates
    <2> QED
      BY <1>4, <2>1, JobUpdates DEF Pull, SetJob, TypeOK
  <1>5. CASE PullFails(t)
    <2>1. job[t].channel \in Channels
      BY DEF TypeOK, JobStates
    <2> QED
      BY <1>5, <2>1, JobUpdates, AttemptUpdates DEF PullFails, JobFails, SetJob, TypeOK
  <1>0. Launched(t) \in Updaters
    <2>1. job[t].channel \in Channels
      BY DEF TypeOK, JobStates
    <2> QED
      BY <2>1, Values DEF Launched, Updaters, TypeOK
  <1>6. CASE Spawn(t)
    BY <1>6, <1>0, JobUpdates, Idle DEF Spawn, TypeOK
  <1>7. CASE SpawnFails(t)
    BY <1>7, <1>0, JobUpdates, AttemptUpdates, Idle DEF SpawnFails, JobFails, SetJob, TypeOK
  <1>8. CASE WaitEnds(t)
    BY <1>8, Idle, AttemptUpdates, OfferUpdates DEF WaitEnds, TypeOK
  <1>9. CASE WaitFails(t)
    BY <1>9, JobUpdates, AttemptUpdates DEF WaitFails, JobFails, SetJob, TypeOK
  <1>10. CASE Unset(t)
    BY <1>10, Idle, AttemptUpdates DEF Unset, TypeOK
  <1> QED
    BY <1>1, <1>2, <1>3, <1>4, <1>5, <1>6, <1>7, <1>8, <1>9, <1>10 DEF JobStep

(* check_for_updates. *)
LEMMA CheckTypeOK ==
    ASSUME TypeOK, NEW c \in Checkers, TriggerCheck(c) \/ SetBeta(c) \/ CheckStep(c)
    PROVE  TypeOK'
  <1>0. /\ chk[c] \in CheckStates
        /\ \A pc \in {"begin", "store", "digest"}, b \in Builds \cup {0} :
              /\ [chk[c] EXCEPT !.pc = pc] \in CheckStates
              /\ [chk[c] EXCEPT !.pc = pc, !.found = b] \in CheckStates
    BY DEF TypeOK, CheckStates
  <1>1. CASE TriggerCheck(c)
    BY <1>0, <1>1, Values DEF TriggerCheck, TypeOK
  <1>2. CASE SetBeta(c)
    BY <1>0, <1>2, Values DEF SetBeta, TypeOK
  <1>3. CASE Begin(c)
    <2>1. IncludeBetas \in BOOLEAN
      BY DEF TypeOK, IncludeBetas
    <2>2. \A pc \in {"ask", "digest"} :
             [chk[c] EXCEPT !.pc = pc, !.betas = IncludeBetas] \in CheckStates
      BY <2>1, <1>0 DEF CheckStates
    <2> QED
      BY <1>3, <2>2, OfferUpdates DEF Begin, TypeOK
  <1>4. CASE AskGitHub(c)
    <2>1. Newest(chk[c].betas) \in Builds \cup {0}
      BY DEF Newest, TypeOK, Channels
    <2> QED
      BY <1>4, <1>0, <2>1, Idle DEF AskGitHub, TypeOK
  <1>5. CASE CheckFails(c)
    BY <1>5, Idle DEF CheckFails, TypeOK
  <1>6. CASE Store(c)
    <2>1. Pick(c) \in {"beta", "stable"} /\ TargetFor(chk[c].betas, Pick(c)) \in Channels
      BY Values DEF Pick, TargetFor, Channels
    <2>2. chk[c].found \in Builds \cup {0}
      BY <1>0 DEF CheckStates
    <2>3. \A newer \in BOOLEAN :
             [offer EXCEPT !.available = newer, !.remote = 0,
                           !.version = IF newer THEN chk[c].found ELSE 0,
                           !.for = TargetFor(chk[c].betas, Pick(c))] \in Offers
      BY <2>1, <2>2, Values DEF TypeOK, Offers
    <2>4. target' \in {"beta", "stable"}
      BY <1>6, <2>1 DEF Store, TypeOK
    <2>5. offer' \in Offers
      <3>1. (chk[c].found > running) \in BOOLEAN
        OBVIOUS
      <3>2. CASE Versioned(running)
        BY <1>6, <2>3, <3>1, <3>2 DEF Store
      <3>3. CASE ~Versioned(running)
        BY <1>6, <3>3, OfferUpdates DEF Store
      <3> QED
        BY <3>2, <3>3
    <2>6. chk' \in [Checkers -> CheckStates]
      BY <1>6, <1>0, Idle, Values DEF Store, TypeOK
    <2> QED
      BY <1>6, <2>4, <2>5, <2>6 DEF Store, TypeOK
  <1>7. CASE AskRegistry(c)
    <2>1. [IdleCheck EXCEPT !.pc = "compare", !.found = tags[TargetChannel],
                            !.channel = TargetChannel] \in CheckStates
      BY Idle, TargetIsChannel DEF CheckStates, TypeOK
    <2> QED
      BY <1>7, <2>1 DEF AskRegistry, TypeOK
  <1>8. CASE Compare(c)
    <2>1. chk[c].found \in Builds \cup {0} /\ chk[c].channel \in Channels
      BY <1>0 DEF CheckStates
    <2>2. \A current \in BOOLEAN :
             [offer EXCEPT !.available = ~current, !.remote = chk[c].found,
                           !.known = IF current THEN chk[c].found ELSE @,
                           !.for = chk[c].channel] \in Offers
      BY <2>1 DEF TypeOK, Offers
    <2>3. offer' \in Offers
      BY <1>8, <2>2 DEF Compare
    <2> QED
      BY <1>8, <2>3, Idle DEF Compare, TypeOK
  <1> QED
    BY <1>1, <1>2, <1>3, <1>4, <1>5, <1>6, <1>7, <1>8 DEF CheckStep

(* A start of the web container, with finish_pending_update. *)
LEMMA BootTypeOK ==
    ASSUME TypeOK, NEW b \in Builds \cup {0}, Boot(b), pulled' = pulled, updater' \in Updaters
    PROVE  TypeOK'
  <1>1. attempt' \in Attempts /\ offer' \in Offers
    BY AttemptUpdates, OfferUpdates DEF TypeOK, Boot, FinishPendingUpdate
  <1> QED
    BY <1>1, Idle DEF TypeOK, Boot

(* beacon_updater, the host, time and the registry. *)
LEMMA HostTypeOK == ASSUME TypeOK, HostStep PROVE TypeOK'
  <1>0. /\ updater.channel \in Channels
        /\ \A st \in {"done", "ok", "bad"} :
              [updater EXCEPT !.state = st, !.channel = Tag, !.over = 0] \in Updaters
    BY Values DEF TypeOK, Updaters
  <1>1. CASE Recreate
    <2>1. pulled[updater.channel] \in Builds \cup {0}
      BY <1>0 DEF TypeOK
    <2> QED
      BY <1>0, <1>1, <2>1, BootTypeOK DEF Recreate
  <1>2. CASE RecreateOthers
    BY <1>0, <1>2 DEF RecreateOthers, TypeOK
  <1>3. CASE UpdaterExits
    BY <1>0, <1>3 DEF UpdaterExits, TypeOK
  <1>4. CASE Restart
    BY <1>4, BootTypeOK DEF Restart, TypeOK
  <1>5. CASE HostPull
    BY <1>5, Values DEF HostPull, TypeOK
  <1>6. CASE HostUp
    BY <1>6, BootTypeOK, Values DEF HostUp, TypeOK
  <1> QED
    BY <1>1, <1>2, <1>3, <1>4, <1>5, <1>6 DEF HostStep

(* The status request. *)
LEMMA StatusTypeOK == ASSUME TypeOK, StatusStep PROVE TypeOK'
  <1>0. \A pc \in {"reaped", "refresh"} : [poll EXCEPT !.pc = pc] \in PollStates
    BY DEF TypeOK, PollStates
  <1>1. CASE Reap
    BY <1>0, <1>1, AttemptUpdates DEF Reap, TypeOK
  <1>2. CASE ReapTells
    BY <1>0, <1>2, AttemptUpdates DEF ReapTells, TypeOK
  <1>3. CASE Refresh
    <2>1. [pc |-> "compare", remote |-> offer.remote] \in PollStates
      BY DEF TypeOK, Offers, PollStates
    <2> QED
      BY <1>3, <2>1, Idle, OfferUpdates DEF Refresh, TypeOK
  <1>4. CASE \E d \in DeployedDigests : Retract(d)
    <2>1. poll.remote \in Builds \cup {0}
      BY DEF TypeOK, PollStates
    <2> QED
      BY <1>4, <2>1, Idle, OfferUpdates DEF Retract, TypeOK
  <1> QED
    BY <1>1, <1>2, <1>3, <1>4 DEF StatusStep

LEMMA NextTypeOK == TypeOK /\ [Next]_vars => TypeOK'
  <1> SUFFICES ASSUME TypeOK, [Next]_vars PROVE TypeOK'
      OBVIOUS
  <1>1. CASE \E t \in Jobs : Apply(t) \/ JobStep(t)
    BY <1>1, JobTypeOK
  <1>2. CASE \E c \in Checkers : TriggerCheck(c) \/ SetBeta(c) \/ CheckStep(c)
    BY <1>2, CheckTypeOK
  <1>3. CASE StatusStep
    BY <1>3, StatusTypeOK
  <1>4. CASE HostStep
    BY <1>4, HostTypeOK
  <1>5. CASE DismissResult
    BY <1>5, AttemptUpdates DEF DismissResult, TypeOK
  <1>6. CASE Age
    <2>1. attempt' \in Attempts
      <3>1. attempt.started \in {"none", "recent", "old"}
        BY DEF TypeOK, Attempts
      <3> QED
        BY <1>6, <3>1, AttemptUpdates DEF Age
    <2>2. \A t \in Jobs : [job[t] EXCEPT !.late = (job[t].pc = "wait")] \in JobStates
      BY DEF TypeOK, JobStates
    <2> QED
      BY <1>6, <2>1, <2>2 DEF Age, TypeOK
  <1>7. CASE Publish
    BY <1>7, Values DEF Publish, TypeOK
  <1>8. CASE UNCHANGED vars
    BY <1>8 DEF vars, TypeOK
  <1> QED
    BY <1>1, <1>2, <1>3, <1>4, <1>5, <1>6, <1>7, <1>8 DEF Next

\* Every variable keeps its type: in particular a result is always one that
\* current_result shows, and a channel always one the registry has.
THEOREM UpdatesTypeCorrect == Spec => []TypeOK
  <1> QED
    BY InitTypeOK, NextTypeOK, PTL DEF Spec

-----------------------------------------------------------------------------
(* A flag without a time beside it. *)

NoTime == attempt.on /\ attempt.started = "none"

(* A step of a thread: it sets the flag where it goes on to set the time. *)
LEMMA JobStall ==
    ASSUME TypeOK, StallCanBeSeen, NEW t \in Jobs, Apply(t) \/ JobStep(t)
    PROVE  StallCanBeSeen'
  <1> SUFFICES ASSUME NoTime' PROVE \E u \in Jobs : job'[u].pc = "stamp"
      BY DEF StallCanBeSeen, NoTime
  <1> USE DEF TypeOK, Attempts, NoTime
  <1>1. CASE Start(t)
    BY <1>1 DEF Start, SetJob, JobStates
  <1>2. CASE Stamp(t)
    BY <1>2 DEF Stamp
  <1>3. CASE ~Start(t) /\ ~Stamp(t)
    <2>1. NoTime /\ job[t].pc # "stamp"
      BY <1>3 DEF Apply, JobStep, Start, Stamp, Pull, PullFails, Spawn, SpawnFails, WaitEnds,
                  WaitFails, Unset, JobFails
    <2>2. PICK u \in Jobs : job[u].pc = "stamp"
      BY <2>1 DEF StallCanBeSeen
    <2>3. job'[u] = job[u]
      BY <1>3, <2>1, <2>2 DEF Apply, JobStep, Start, Stamp, Pull, PullFails, Spawn, SpawnFails,
                              WaitEnds, WaitFails, Unset, JobFails, SetJob
    <2> QED
      BY <2>2, <2>3
  <1> QED
    BY <1>1, <1>2, <1>3

(* A start of the web container leaves no flag. *)
LEMMA BootStall == ASSUME TypeOK, NEW b, Boot(b) PROVE ~NoTime'
  BY DEF TypeOK, Attempts, Boot, FinishPendingUpdate, NoTime

LEMMA NextStall == TypeOK /\ StallCanBeSeen /\ [Next]_vars => StallCanBeSeen'
  <1> SUFFICES ASSUME TypeOK, StallCanBeSeen, [Next]_vars PROVE StallCanBeSeen'
      OBVIOUS
  <1>1. CASE \E t \in Jobs : Apply(t) \/ JobStep(t)
    BY <1>1, JobStall
  <1>2. CASE attempt' = attempt /\ job' = job
    BY <1>2 DEF StallCanBeSeen
  <1>3. CASE \E c \in Checkers : TriggerCheck(c) \/ SetBeta(c) \/ CheckStep(c)
    BY <1>2, <1>3 DEF TriggerCheck, SetBeta, CheckStep, Begin, AskGitHub, CheckFails, Store,
                      AskRegistry, Compare
  <1>4. CASE StatusStep
    BY <1>2, <1>4 DEF StatusStep, Reap, ReapTells, Refresh, Retract, StallCanBeSeen, TypeOK,
                      Attempts
  <1>5. CASE HostStep
    <2>1. CASE Recreate \/ Restart \/ HostUp
      BY <2>1, BootStall DEF Recreate, Restart, HostUp, StallCanBeSeen, NoTime
    <2>2. CASE RecreateOthers \/ UpdaterExits \/ HostPull
      BY <1>2, <2>2 DEF RecreateOthers, UpdaterExits, HostPull
    <2> QED
      BY <1>5, <2>1, <2>2 DEF HostStep
  <1>6. CASE DismissResult
    BY <1>6 DEF DismissResult, StallCanBeSeen, TypeOK, Attempts
  <1>7. CASE Age
    <2>1. \A t \in Jobs : job'[t].pc = job[t].pc
      BY <1>7 DEF Age, TypeOK, JobStates
    <2> QED
      BY <1>7, <2>1 DEF Age, StallCanBeSeen, TypeOK, Attempts
  <1>8. CASE Publish \/ UNCHANGED vars
    BY <1>2, <1>8 DEF Publish, vars
  <1> QED
    BY <1>1, <1>3, <1>4, <1>5, <1>6, <1>7, <1>8 DEF Next

\* reap_stalled_update can see every update that stalls, whatever the number of
\* threads that apply one, and wherever a restart cuts them short.
THEOREM StallsAreSeen == Spec => []StallCanBeSeen
  <1>1. Init => StallCanBeSeen
    BY DEF Init, StallCanBeSeen
  <1>2. TypeOK /\ StallCanBeSeen /\ [Next]_vars => StallCanBeSeen'
    BY NextStall
  <1> QED
    BY <1>1, <1>2, UpdatesTypeCorrect, PTL DEF Spec

-----------------------------------------------------------------------------
(* An update that replaces what a newer version was offered for.  Between the      *)
(* check that offers it and the recreation lie other checks, a turn of the switch, *)
(* publications and pulls on the host: the version has to be followed through all  *)
(* that remembers it.                                                              *)

Pulling == {"pull", "spawn", "wait", "unset"}

\* A channel holds builds of its kind, and never an older one than before.
BuildsInv == \A c \in Channels : /\ tags[c] \in BuildsOf[c] \cup {0}
                                 /\ pulled[c] \in BuildsOf[c] \cup {0}
                                 /\ pulled[c] <= tags[c]

\* Nothing is recreated without an image.
ImagesInv == /\ \A t \in Jobs : job[t].pc = "spawn" => pulled[job[t].channel] # 0
             /\ updater.state = "running" => pulled[updater.channel] # 0

\* Only a host set up with :latest gets an image without a version.
LatestInv == Tag # "latest" => /\ \A t \in Jobs : job[t].channel # "latest"
                               /\ updater.channel # "latest"

\* What a check has found is on the channel of its kind; digests are compared only
\* where there is no version to compare.
ChecksInv == \A c \in Checkers :
    /\ chk[c].pc \in {"ask", "store"} => chk[c].betas \/ Tag = "stable"
    /\ chk[c].pc = "store" => /\ chk[c].found # 0 /\ chk[c].found <= tags[Pick(c)]
                              /\ chk[c].betas \/ Pick(c) = "stable"
    /\ chk[c].pc \in {"digest", "compare"} => Tag = "latest" \/ ~Versioned(running)

\* A version offered is forgotten where digests are compared.
ForgottenInv == ~Versioned(running) =>
    /\ Tag # "latest" => offer.version = 0
    /\ \A c \in Checkers : chk[c].pc \in {"digest", "compare"} => offer.version = 0

\* The version offered is on the channel an update would move to.
OfferInv == offer.version # 0 => offer.version <= tags[IF Tag = "stable" THEN offer.for ELSE target]

\* An update keeps its promise at every step: in what it replaces, the channel it
\* pulls and the image it has pulled.
ShownInv == \A t \in Jobs : job[t].shown # 0 =>
    /\ Versioned(running) /\ running < job[t].shown
    /\ job[t].pc \in Pulling /\ job[t].channel # "latest" => job[t].shown <= tags[job[t].channel]
    /\ job[t].pc = "spawn" /\ job[t].channel # "latest" => job[t].shown <= pulled[job[t].channel]

OverInv == updater.state = "running" /\ updater.over # 0 /\ updater.channel # "latest"
               => updater.over < pulled[updater.channel]

MovedInv == /\ BuildsInv /\ ImagesInv /\ LatestInv /\ ChecksInv /\ ForgottenInv
            /\ OfferInv /\ ShownInv /\ OverInv

LEMMA Numbers ==
    ASSUME TypeOK
    PROVE  /\ tags \in [Channels -> Nat] /\ pulled \in [Channels -> Nat]
           /\ running \in Nat /\ offer.version \in Nat /\ updater.over \in Nat
           /\ updater.channel \in Channels /\ target \in Channels /\ offer.for \in Channels
           /\ \A t \in Jobs : job[t].shown \in Nat /\ job[t].channel \in Channels
           /\ \A c \in Checkers : chk[c].found \in Nat /\ Pick(c) \in Channels
           /\ Tag \in Channels /\ "stable" \in Channels /\ "beta" \in Channels
  <1>1. Builds \cup {0} \subseteq Nat
    BY BuildsAssumption
  <1>2. tags \in [Channels -> Nat] /\ pulled \in [Channels -> Nat]
    BY <1>1 DEF TypeOK
  <1>3. running \in Nat /\ offer.version \in Nat /\ updater.over \in Nat
    BY <1>1 DEF TypeOK, Offers, Updaters
  <1>4. \A t \in Jobs : job[t].shown \in Nat /\ job[t].channel \in Channels
    BY <1>1 DEF TypeOK, JobStates
  <1>5. \A c \in Checkers : chk[c].found \in Nat
    BY <1>1 DEF TypeOK, CheckStates
  <1>6. updater.channel \in Channels /\ offer.for \in Channels
    BY DEF TypeOK, Updaters, Offers
  <1>7. target \in Channels /\ \A c \in Checkers : Pick(c) \in Channels
    BY DEF TypeOK, Channels, Pick
  <1> QED
    BY <1>2, <1>3, <1>4, <1>5, <1>6, <1>7, HostAssumption DEF Channels

LEMMA NumbersAfter ==
    ASSUME TypeOK'
    PROVE  /\ tags' \in [Channels -> Nat] /\ pulled' \in [Channels -> Nat]
           /\ \A c \in Checkers : chk'[c].found \in Nat
  <1>1. Builds \cup {0} \subseteq Nat
    BY BuildsAssumption
  <1>2. tags' \in [Channels -> Nat] /\ pulled' \in [Channels -> Nat]
    BY <1>1 DEF TypeOK
  <1>3. \A c \in Checkers : chk'[c].found \in Nat
    BY <1>1 DEF TypeOK, CheckStates
  <1> QED
    BY <1>2, <1>3

LEMMA Kinds ==
    /\ BuildsOf["stable"] = Releases /\ BuildsOf["beta"] = Betas /\ BuildsOf["latest"] = Mains
    /\ 0 \notin Builds /\ ~Versioned(0)
    /\ \A b \in Mains : ~Versioned(b)
    /\ \A b \in Betas : b \notin Releases
    /\ \A c \in Channels : c # "latest" => \A b \in BuildsOf[c] : Versioned(b)
  <1>1. /\ BuildsOf["stable"] = Releases /\ BuildsOf["beta"] = Betas
        /\ BuildsOf["latest"] = Mains
    BY DEF BuildsOf
  <1>2. 0 \notin Builds
    BY BuildsAssumption
  <1> QED
    BY <1>1, <1>2, BuildsAssumption DEF Builds, Versioned, Channels

(* What a step does to all of this. *)

\* The web container starts: with what it ran, or with an image there is.
Boots == \E b : /\ Boot(b) /\ UNCHANGED << tags, pulled >>
                /\ \/ updater' = updater
                   \/ updater'.state # "running" /\ updater'.channel = Tag
                /\ \/ b = running
                   \/ b = pulled[Tag] /\ b # 0
                   \/ b = pulled[updater.channel] /\ updater.state = "running"

SameOffer == offer'.version = offer.version /\ offer'.for = offer.for

\* Nobody's promise is touched; a version offered may be withdrawn.
Elsewhere == /\ UNCHANGED << target, running, chk >>
             /\ offer'.version \in {offer.version, 0} /\ offer'.for = offer.for
             /\ \A t \in Jobs : /\ job'[t].pc = job[t].pc /\ job'[t].channel = job[t].channel
                                /\ job'[t].shown = job[t].shown
             /\ \/ updater' = updater
                \/ updater'.state # "running" /\ updater'.channel = Tag

LEMMA HostKinds == ASSUME TypeOK, HostStep PROVE Boots \/ Elsewhere
  <1>1. CASE Recreate
    <2>1. updater'.state # "running" /\ updater'.channel = Tag
      BY <1>1 DEF Recreate, TypeOK, Updaters
    <2> QED
      BY <1>1, <2>1 DEF Recreate, Boot, Boots
  <1>2. CASE Restart
    BY <1>2 DEF Restart, Boot, Boots
  <1>3. CASE HostUp
    BY <1>3 DEF HostUp, Boot, Boots
  <1>4. CASE RecreateOthers \/ UpdaterExits
    <2>1. updater'.state # "running" /\ updater'.channel = Tag
      BY <1>4 DEF RecreateOthers, UpdaterExits, TypeOK, Updaters
    <2> QED
      BY <1>4, <2>1 DEF RecreateOthers, UpdaterExits, Elsewhere
  <1>5. CASE HostPull
    BY <1>5 DEF HostPull, Elsewhere
  <1> QED
    BY <1>1, <1>2, <1>3, <1>4, <1>5 DEF HostStep

LEMMA OtherKinds ==
    ASSUME TypeOK, StatusStep \/ DismissResult \/ Age \/ Publish \/ UNCHANGED vars
    PROVE  Elsewhere
  <1>1. CASE StatusStep
    <2>1. UNCHANGED << target, running, chk, job, updater >>
      BY <1>1 DEF StatusStep, Reap, ReapTells, Refresh, Retract
    <2>2. offer'.version \in {offer.version, 0} /\ offer'.for = offer.for
      BY <1>1 DEF StatusStep, Reap, ReapTells, Refresh, Retract, TypeOK, Offers
    <2> QED
      BY <2>1, <2>2 DEF Elsewhere
  <1>2. CASE Age
    <2>1. \A t \in Jobs : /\ job'[t].pc = job[t].pc /\ job'[t].channel = job[t].channel
                          /\ job'[t].shown = job[t].shown
      BY <1>2 DEF Age, TypeOK, JobStates
    <2> QED
      BY <1>2, <2>1 DEF Age, Elsewhere
  <1>3. CASE DismissResult \/ Publish \/ UNCHANGED vars
    BY <1>3 DEF DismissResult, Publish, vars, Elsewhere
  <1> QED
    BY <1>1, <1>2, <1>3

\* An update from the page: the thread alone, and beacon_updater once it has pulled.
LEMMA JobKinds ==
    ASSUME TypeOK, NEW t \in Jobs, Apply(t) \/ JobStep(t)
    PROVE  /\ UNCHANGED << target, running, chk >> /\ SameOffer
           /\ \A u \in Jobs : u # t => job'[u] = job[u]
           /\ \/ updater' \in {updater, NoUpdater}
              \/ job[t].pc = "spawn" /\ updater' = Launched(t) /\ pulled' = pulled
           /\ \/ job'[t].pc = "start" /\ job'[t].channel = Tag /\ job'[t].shown = Offered
              \/ /\ job[t].pc = "stamp" /\ job'[t].pc = "pull" /\ job'[t].channel = TargetChannel
                 /\ job'[t].shown = StillOffered(job[t].shown) /\ tags' = tags
              \/ /\ job'[t].channel = job[t].channel /\ job'[t].shown = job[t].shown
                 /\ \/ job'[t].pc = "stamp"
                    \/ /\ job[t].pc = "pull" /\ job'[t].pc = "spawn" /\ tags' = tags
                       /\ tags[job[t].channel] # 0
                       /\ pulled'[job[t].channel] = tags[job[t].channel]
                    \/ job[t].pc \in Pulling /\ job'[t].pc \in {"wait", "unset"}
              \/ job'[t] = IdleJob
  <1> DEFINE alone == \A u \in Jobs : u # t => job'[u] = job[u]
             rest  == UNCHANGED << target, running, chk >> /\ SameOffer
             keeps == job'[t].channel = job[t].channel /\ job'[t].shown = job[t].shown
  <1>0. ASSUME NEW pc, SetJob(t, pc)
        PROVE  alone /\ keeps /\ job'[t].pc = pc
    BY <1>0 DEF SetJob, TypeOK, JobStates
  <1>1. CASE Apply(t)
    <2>1. job' = [job EXCEPT ![t] = [IdleJob EXCEPT !.pc = "start", !.shown = Offered]]
      BY <1>1 DEF Apply
    <2> HIDE DEF Offered
    <2>2. alone /\ job'[t].pc = "start" /\ job'[t].channel = Tag /\ job'[t].shown = Offered
      BY <2>1 DEF IdleJob, TypeOK
    <2>3. rest /\ updater' = updater
      BY <1>1 DEF Apply, SameOffer
    <2> QED
      BY <2>2, <2>3
  <1>2. CASE Start(t)
    BY <1>0, <1>2 DEF Start, SameOffer
  <1>3. CASE Stamp(t)
    <2>1. /\ job[t].pc = "stamp" /\ rest /\ updater' = updater /\ tags' = tags
          /\ job' = [job EXCEPT ![t] = [job[t] EXCEPT !.pc = "pull", !.channel = TargetChannel,
                                           !.shown = StillOffered(job[t].shown)]]
      BY <1>3 DEF Stamp, SameOffer, TypeOK
    <2> HIDE DEF StillOffered, TargetChannel
    <2>2. /\ alone /\ job'[t].pc = "pull" /\ job'[t].channel = TargetChannel
          /\ job'[t].shown = StillOffered(job[t].shown)
      BY <2>1 DEF TypeOK, JobStates
    <2> QED
      BY <2>1, <2>2
  <1>4. CASE Pull(t)
    <2>1. alone /\ keeps /\ job'[t].pc = "spawn"
      BY <1>0, <1>4 DEF Pull
    <2>2. /\ rest /\ updater' = updater /\ tags' = tags
          /\ job[t].pc = "pull" /\ tags[job[t].channel] # 0
          /\ pulled'[job[t].channel] = tags[job[t].channel]
      BY <1>4, Numbers DEF Pull, SameOffer
    <2> QED
      BY <2>1, <2>2
  <1>5. CASE PullFails(t)
    <2>1. alone /\ keeps /\ job'[t].pc = "unset"
      BY <1>0, <1>5 DEF PullFails, JobFails
    <2> QED
      BY <1>5, <2>1 DEF PullFails, JobFails, SameOffer, Pulling
  <1>6. CASE Spawn(t)
    <2>1. /\ rest /\ job[t].pc = "spawn" /\ updater' = Launched(t) /\ pulled' = pulled
          /\ \/ job' = [job EXCEPT ![t] = [job[t] EXCEPT !.pc = "wait"]]
             \/ job' = [job EXCEPT ![t] = IdleJob]
      BY <1>6 DEF Spawn, SameOffer, TypeOK
    <2>2. alone /\ ((keeps /\ job'[t].pc = "wait") \/ job'[t] = IdleJob)
      BY <2>1 DEF TypeOK, JobStates
    <2> QED
      BY <2>1, <2>2 DEF Pulling
  <1>7. CASE SpawnFails(t)
    <2>1. alone /\ keeps /\ job'[t].pc = "unset"
      BY <1>0, <1>7 DEF SpawnFails, JobFails
    <2> QED
      BY <1>7, <2>1 DEF SpawnFails, JobFails, SameOffer, Pulling
  <1>8. CASE WaitEnds(t) \/ Unset(t)
    <2>1. rest /\ updater' \in {updater, NoUpdater} /\ job' = [job EXCEPT ![t] = IdleJob]
      BY <1>8 DEF WaitEnds, Unset, SameOffer, TypeOK, Offers
    <2>2. alone /\ job'[t] = IdleJob
      BY <2>1 DEF TypeOK
    <2> QED
      BY <2>1, <2>2
  <1>9. CASE WaitFails(t)
    <2>1. alone /\ keeps /\ job'[t].pc = "unset"
      BY <1>0, <1>9 DEF WaitFails, JobFails
    <2> QED
      BY <1>9, <2>1 DEF WaitFails, JobFails, SameOffer, Pulling
  <1> QED
    BY <1>1, <1>2, <1>3, <1>4, <1>5, <1>6, <1>7, <1>8, <1>9 DEF JobStep

\* A check.
LEMMA CheckKinds ==
    ASSUME TypeOK, NEW c \in Checkers, TriggerCheck(c) \/ SetBeta(c) \/ CheckStep(c)
    PROVE  /\ UNCHANGED << running, job, updater, tags, pulled >>
           /\ \A d \in Checkers : d # c => chk'[d] = chk[d]
           /\ \/ chk'[c].pc \in {"idle", "begin"} /\ UNCHANGED << offer, target >>
              \/ /\ chk'[c].pc = "ask" /\ UNCHANGED << offer, target >>
                 /\ chk'[c].betas \/ Tag = "stable"
              \/ /\ chk'[c].pc = "digest" /\ target' = target
                 /\ offer'.version = 0 /\ (Tag = "latest" \/ ~Versioned(running))
              \/ /\ chk[c].pc = "ask" /\ chk'[c].pc = "store" /\ UNCHANGED << offer, target >>
                 /\ chk'[c].betas = chk[c].betas
                 /\ chk'[c].found = Newest(chk[c].betas) /\ chk'[c].found # 0
              \/ /\ chk[c].pc = "store" /\ chk'[c].pc = "idle" /\ Versioned(running)
                 /\ target' = IF chk[c].betas THEN Pick(c) ELSE target
                 /\ offer'.version \in {0, chk[c].found}
                 /\ offer'.for = TargetFor(chk[c].betas, Pick(c))
              \/ /\ chk'[c].pc = "digest" /\ ~Versioned(running) /\ offer'.version = 0
              \/ /\ chk[c].pc = "digest" /\ chk'[c].pc = "compare" /\ UNCHANGED << offer, target >>
              \/ /\ chk[c].pc = "compare" /\ chk'[c].pc = "idle" /\ target' = target
                 /\ offer'.version = offer.version
  <1> DEFINE alone == \A d \in Checkers : d # c => chk'[d] = chk[d]
             rest  == UNCHANGED << running, job, updater, tags, pulled >>
             still == UNCHANGED << offer, target >>
  <1>1. CASE TriggerCheck(c) \/ SetBeta(c)
    <2>1. rest /\ still /\ chk' = [chk EXCEPT ![c].pc = "begin"]
      BY <1>1 DEF TriggerCheck, SetBeta
    <2>2. alone /\ chk'[c].pc = "begin"
      BY <2>1 DEF TypeOK, CheckStates
    <2> QED
      BY <2>1, <2>2
  <1>2. CASE Begin(c)
    <2> DEFINE versions == IncludeBetas \/ (Versioned(running) /\ Tag = "stable")
    <2>1. CASE versions
      <3>1. rest /\ still /\ chk' = [chk EXCEPT ![c].pc = "ask", ![c].betas = IncludeBetas]
        BY <1>2, <2>1 DEF Begin
      <3>2. alone /\ chk'[c].pc = "ask" /\ chk'[c].betas = IncludeBetas
        BY <3>1 DEF TypeOK, CheckStates
      <3> QED
        BY <2>1, <3>1, <3>2
    <2>2. CASE ~versions
      <3>1. /\ rest /\ target' = target /\ offer' = [offer EXCEPT !.version = 0]
            /\ chk' = [chk EXCEPT ![c].pc = "digest", ![c].betas = IncludeBetas]
        BY <1>2, <2>2 DEF Begin
      <3>2. alone /\ chk'[c].pc = "digest" /\ offer'.version = 0
        BY <3>1 DEF TypeOK, CheckStates, Offers
      <3>3. Tag = "latest" \/ ~Versioned(running)
        BY <2>2, HostAssumption DEF IncludeBetas, Channels
      <3> QED
        BY <3>1, <3>2, <3>3
    <2> QED
      BY <2>1, <2>2
  <1>3. CASE AskGitHub(c)
    <2> DEFINE newest == Newest(chk[c].betas)
    <2>1. /\ rest /\ still /\ chk[c].pc = "ask"
          /\ \/ chk' = [chk EXCEPT ![c] = IdleCheck]
             \/ /\ newest # 0
                /\ chk' = [chk EXCEPT ![c] = [chk[c] EXCEPT !.pc = "store", !.found = newest]]
      BY <1>3 DEF AskGitHub, TypeOK
    <2> HIDE DEF newest
    <2>2. CASE chk' = [chk EXCEPT ![c] = IdleCheck]
      <3>1. alone /\ chk'[c].pc = "idle"
        BY <2>2 DEF TypeOK, IdleCheck
      <3> QED
        BY <2>1, <3>1
    <2>3. CASE /\ newest # 0
               /\ chk' = [chk EXCEPT ![c] = [chk[c] EXCEPT !.pc = "store", !.found = newest]]
      <3>1. alone /\ chk'[c].pc = "store" /\ chk'[c].found = newest /\ chk'[c].betas = chk[c].betas
        BY <2>3 DEF TypeOK, CheckStates
      <3> QED
        BY <2>1, <2>3, <3>1 DEF newest
    <2> QED
      BY <2>1, <2>2, <2>3
  <1>4. CASE CheckFails(c)
    <2>1. rest /\ still /\ chk' = [chk EXCEPT ![c] = IdleCheck]
      BY <1>4 DEF CheckFails
    <2>2. alone /\ chk'[c].pc = "idle"
      BY <2>1 DEF TypeOK, IdleCheck
    <2> QED
      BY <2>1, <2>2
  <1>5. CASE Store(c)
    <2>1. /\ rest /\ chk[c].pc = "store"
          /\ target' = IF chk[c].betas THEN Pick(c) ELSE target
      BY <1>5 DEF Store
    <2>2. CASE Versioned(running)
      <3> DEFINE newer == chk[c].found > running
                 best  == IF newer THEN chk[c].found ELSE 0
                 for   == TargetFor(chk[c].betas, Pick(c))
      <3>1. /\ offer' = [offer EXCEPT !.available = newer, !.remote = 0, !.version = best, !.for = for]
            /\ chk' = [chk EXCEPT ![c] = IdleCheck]
        BY <1>5, <2>2 DEF Store
      <3>2. best \in {0, chk[c].found}
        OBVIOUS
      <3> HIDE DEF newer, best, for
      <3>3. alone /\ chk'[c].pc = "idle" /\ offer'.version = best /\ offer'.for = for
        BY <3>1 DEF TypeOK, IdleCheck, Offers
      <3> QED
        BY <2>1, <2>2, <3>2, <3>3 DEF for
    <2>3. CASE ~Versioned(running)
      <3>1. /\ offer' = [offer EXCEPT !.version = 0] /\ chk' = [chk EXCEPT ![c].pc = "digest"]
        BY <1>5, <2>3 DEF Store
      <3>2. alone /\ chk'[c].pc = "digest" /\ offer'.version = 0
        BY <3>1 DEF TypeOK, CheckStates, Offers
      <3> QED
        BY <2>1, <2>3, <3>2
    <2> QED
      BY <2>2, <2>3
  <1>6. CASE AskRegistry(c)
    <2>1. /\ rest /\ still /\ chk[c].pc = "digest" /\ chk' = [chk EXCEPT ![c] = [IdleCheck EXCEPT !.pc = "compare",
                              !.found = tags[TargetChannel], !.channel = TargetChannel]]
      BY <1>6 DEF AskRegistry
    <2>2. alone /\ chk'[c].pc = "compare"
      BY <2>1 DEF TypeOK, IdleCheck
    <2> QED
      BY <2>1, <2>2
  <1>7. CASE Compare(c)
    <2>1. /\ rest /\ target' = target /\ chk[c].pc = "compare" /\ chk' = [chk EXCEPT ![c] = IdleCheck]
      BY <1>7 DEF Compare
    <2>2. offer'.version = offer.version
      BY <1>7 DEF Compare, TypeOK, Offers
    <2>3. alone /\ chk'[c].pc = "idle"
      BY <2>1 DEF TypeOK, IdleCheck
    <2> QED
      BY <2>1, <2>2, <2>3
  <1> QED
    BY <1>1, <1>2, <1>3, <1>4, <1>5, <1>6, <1>7 DEF CheckStep

\* What a start of the web container leaves.
LEMMA BootKind ==
    ASSUME TypeOK, NEW b, Boot(b)
    PROVE  /\ running' = b /\ target' = target /\ SameOffer
           /\ \A t \in Jobs : job'[t] = IdleJob
           /\ \A c \in Checkers : chk'[c] = IdleCheck
  <1>1. SameOffer
    BY DEF Boot, FinishPendingUpdate, SameOffer, TypeOK, Offers
  <1> QED
    BY <1>1 DEF Boot

-----------------------------------------------------------------------------
(* Each part of the invariant. *)

\* The registry and the images only go up.
LEMMA Rises ==
    ASSUME TypeOK, TypeOK', BuildsInv, [Next]_vars
    PROVE  /\ BuildsInv'
           /\ \A c \in Channels : /\ tags[c] <= tags'[c] /\ pulled[c] <= pulled'[c]
                                  /\ pulled[c] # 0 => pulled'[c] # 0
  <1>0. tags \in [Channels -> Nat] /\ pulled \in [Channels -> Nat]
    BY Numbers
  <1>1. CASE UNCHANGED << tags, pulled >>
    BY <1>0, <1>1 DEF BuildsInv
  <1>2. CASE tags' = tags /\ \E c \in Channels : /\ tags[c] # 0
                                                 /\ pulled' = [pulled EXCEPT ![c] = tags[c]]
    BY <1>0, <1>2 DEF BuildsInv
  <1>3. CASE pulled' = pulled /\ \E c \in Channels, b \in Builds :
                 b \in BuildsOf[c] /\ b > tags[c] /\ tags' = [tags EXCEPT ![c] = b]
    <2>1. PICK c \in Channels, b \in Builds :
              b \in BuildsOf[c] /\ b > tags[c] /\ tags' = [tags EXCEPT ![c] = b]
      BY <1>3
    <2>2. b \in Nat
      BY BuildsAssumption
    <2>3. /\ tags'[c] = b /\ tags[c] <= b
          /\ \A d \in Channels : d # c => tags'[d] = tags[d]
      BY <1>0, <2>1, <2>2
    <2> QED
      BY <1>0, <1>3, <2>1, <2>2, <2>3 DEF BuildsInv
  <1>4. ASSUME NEW t \in Jobs, Apply(t) \/ JobStep(t)
        PROVE  \/ UNCHANGED << tags, pulled >>
               \/ tags' = tags /\ \E c \in Channels : /\ tags[c] # 0
                                                      /\ pulled' = [pulled EXCEPT ![c] = tags[c]]
    <2>1. job[t].channel \in Channels
      BY Numbers
    <2>2. CASE Pull(t)
      BY <2>1, <2>2 DEF Pull
    <2>3. CASE PullFails(t)
      BY <2>1, <2>3 DEF PullFails, JobFails
    <2>4. CASE Apply(t) \/ Start(t) \/ Stamp(t) \/ Spawn(t) \/ SpawnFails(t) \/ WaitEnds(t)
               \/ WaitFails(t) \/ Unset(t)
      BY <2>4 DEF Apply, Start, Stamp, Spawn, SpawnFails, JobFails, WaitEnds, WaitFails, Unset
    <2> QED
      BY <1>4, <2>2, <2>3, <2>4 DEF JobStep
  <1>5. ASSUME NEW c \in Checkers, TriggerCheck(c) \/ SetBeta(c) \/ CheckStep(c)
        PROVE  UNCHANGED << tags, pulled >>
    BY <1>5, CheckKinds
  <1>6. ASSUME HostStep
        PROVE  \/ UNCHANGED << tags, pulled >>
               \/ tags' = tags /\ \E c \in Channels : /\ tags[c] # 0
                                                      /\ pulled' = [pulled EXCEPT ![c] = tags[c]]
    BY <1>6, HostAssumption
       DEF HostStep, Recreate, RecreateOthers, UpdaterExits, Restart, HostPull, HostUp, Boot
  <1>7. ASSUME StatusStep \/ DismissResult \/ Age \/ UNCHANGED vars
        PROVE  UNCHANGED << tags, pulled >>
    BY <1>7 DEF StatusStep, Reap, ReapTells, Refresh, Retract, DismissResult, Age, vars
  <1>8. ASSUME Publish
        PROVE  pulled' = pulled /\ \E c \in Channels, b \in Builds :
                   b \in BuildsOf[c] /\ b > tags[c] /\ tags' = [tags EXCEPT ![c] = b]
    BY <1>8 DEF Publish
  <1> QED
    BY <1>1, <1>2, <1>3, <1>4, <1>5, <1>6, <1>7, <1>8 DEF Next

\* Booted, of an update, of a check, or neither.
LEMMA StepKinds ==
    ASSUME TypeOK, [Next]_vars
    PROVE  \/ Boots \/ Elsewhere
           \/ \E t \in Jobs : Apply(t) \/ JobStep(t)
           \/ \E c \in Checkers : TriggerCheck(c) \/ SetBeta(c) \/ CheckStep(c)
  BY HostKinds, OtherKinds DEF Next

LEMMA ImagesStay == ASSUME TypeOK, TypeOK', MovedInv, [Next]_vars PROVE ImagesInv'
  <1>1. \A c \in Channels : pulled[c] # 0 => pulled'[c] # 0
    BY Rises DEF MovedInv
  <1>2. updater.channel \in Channels /\ \A t \in Jobs : job[t].channel \in Channels
    BY Numbers
  <1>3. ImagesInv
    BY DEF MovedInv
  <1>4. CASE Boots
    <2>1. \A t \in Jobs : job'[t] = IdleJob
      BY <1>4, BootKind DEF Boots
    <2> QED
      BY <1>1, <1>2, <1>3, <1>4, <2>1 DEF Boots, ImagesInv, IdleJob
  <1>5. CASE Elsewhere
    BY <1>1, <1>2, <1>3, <1>5 DEF Elsewhere, ImagesInv
  <1>6. ASSUME NEW t \in Jobs, Apply(t) \/ JobStep(t) PROVE ImagesInv'
    <2>1. updater'.state = "running" => pulled'[updater'.channel] # 0
      <3>1. CASE updater' \in {updater, NoUpdater}
        BY <1>1, <1>2, <1>3, <3>1 DEF ImagesInv, NoUpdater
      <3>2. CASE job[t].pc = "spawn" /\ updater' = Launched(t) /\ pulled' = pulled
        BY <1>3, <3>2 DEF ImagesInv, Launched
      <3> QED
        BY <1>6, <3>1, <3>2, JobKinds
    <2>2. ASSUME NEW u \in Jobs, job'[u].pc = "spawn" PROVE pulled'[job'[u].channel] # 0
      <3>1. CASE u # t
        BY <1>1, <1>2, <1>3, <1>6, <2>2, <3>1, JobKinds DEF ImagesInv
      <3>2. CASE u = t
        BY <1>6, <2>2, <3>2, JobKinds DEF IdleJob
      <3> QED
        BY <3>1, <3>2
    <2> QED
      BY <2>1, <2>2 DEF ImagesInv
  <1>7. ASSUME NEW c \in Checkers, TriggerCheck(c) \/ SetBeta(c) \/ CheckStep(c) PROVE ImagesInv'
    BY <1>3, <1>7, CheckKinds DEF ImagesInv
  <1> QED
    BY <1>4, <1>5, <1>6, <1>7, StepKinds

LEMMA TargetIsKind == ASSUME TypeOK, Tag # "latest" PROVE TargetChannel # "latest"
  BY DEF TypeOK, TargetChannel, TargetFor

LEMMA LatestStays == ASSUME TypeOK, MovedInv, [Next]_vars PROVE LatestInv'
  <1> SUFFICES ASSUME Tag # "latest"
               PROVE  (\A t \in Jobs : job'[t].channel # "latest") /\ updater'.channel # "latest"
      BY DEF LatestInv
  <1>1. (\A t \in Jobs : job[t].channel # "latest") /\ updater.channel # "latest"
    BY DEF MovedInv, LatestInv
  <1>2. CASE Boots
    <2>1. \A t \in Jobs : job'[t] = IdleJob
      BY <1>2, BootKind DEF Boots
    <2> QED
      BY <1>1, <1>2, <2>1 DEF Boots, IdleJob
  <1>3. CASE Elsewhere
    BY <1>1, <1>3 DEF Elsewhere
  <1>4. ASSUME NEW t \in Jobs, Apply(t) \/ JobStep(t)
        PROVE  (\A u \in Jobs : job'[u].channel # "latest") /\ updater'.channel # "latest"
    <2>1. job'[t].channel \in {Tag, TargetChannel, job[t].channel}
      BY <1>4, JobKinds DEF IdleJob
    <2>2. updater'.channel \in {updater.channel, Tag, job[t].channel}
      BY <1>4, JobKinds DEF NoUpdater, Launched
    <2>3. \A u \in Jobs : u # t => job'[u] = job[u]
      BY <1>4, JobKinds
    <2> QED
      BY <1>1, <2>1, <2>2, <2>3, TargetIsKind
  <1>5. ASSUME NEW c \in Checkers, TriggerCheck(c) \/ SetBeta(c) \/ CheckStep(c)
        PROVE  (\A u \in Jobs : job'[u].channel # "latest") /\ updater'.channel # "latest"
    BY <1>1, <1>5, CheckKinds
  <1> QED
    BY <1>2, <1>3, <1>4, <1>5, StepKinds

\* What GitHub names as the newest is on the channel of its kind.
LEMMA NewestIsTagged ==
    ASSUME TypeOK, BuildsInv, NEW betas \in BOOLEAN, Newest(betas) # 0
    PROVE  \/ Newest(betas) \in Releases /\ Newest(betas) = tags["stable"]
           \/ Newest(betas) \notin Releases /\ Newest(betas) = tags["beta"] /\ betas
  <1>1. tags["stable"] \in Releases \cup {0} /\ tags["beta"] \in Betas \cup {0}
    BY Kinds, Numbers DEF BuildsInv
  <1>2. tags["stable"] \in Nat /\ tags["beta"] \in Nat
    BY Numbers
  <1>3. CASE betas /\ tags["beta"] > tags["stable"]
    <2>1. Newest(betas) = tags["beta"] /\ tags["beta"] # 0
      BY <1>2, <1>3 DEF Newest
    <2> QED
      BY <1>1, <1>3, <2>1, Kinds
  <1>4. CASE ~(betas /\ tags["beta"] > tags["stable"])
    <2>1. Newest(betas) = tags["stable"]
      BY <1>4 DEF Newest
    <2> QED
      BY <1>1, <2>1
  <1> QED
    BY <1>3, <1>4

Found(c) ==
    /\ chk[c].pc \in {"ask", "store"} => chk[c].betas \/ Tag = "stable"
    /\ chk[c].pc = "store" => /\ chk[c].found # 0 /\ chk[c].found <= tags[Pick(c)]
                              /\ chk[c].betas \/ Pick(c) = "stable"
    /\ chk[c].pc \in {"digest", "compare"} => Tag = "latest" \/ ~Versioned(running)

LEMMA FoundStays ==
    ASSUME TypeOK, TypeOK', MovedInv, [Next]_vars, NEW c \in Checkers,
           chk'[c] = chk[c], running' = running
    PROVE  Found(c)'
  <1>1. Found(c) /\ BuildsInv
    BY DEF MovedInv, ChecksInv, Found
  <1>2. Pick(c)' = Pick(c) /\ Pick(c) \in Channels /\ chk[c].found \in Nat
    BY Numbers DEF Pick
  <1>3. tags[Pick(c)] <= tags'[Pick(c)] /\ tags[Pick(c)] \in Nat /\ tags'[Pick(c)] \in Nat
    BY <1>1, <1>2, Rises, Numbers, NumbersAfter
  <1>4. chk[c].found <= tags[Pick(c)] => chk[c].found <= tags'[Pick(c)]
    BY <1>2, <1>3
  <1> QED
    BY <1>1, <1>2, <1>4 DEF Found

LEMMA ChecksStay == ASSUME TypeOK, TypeOK', MovedInv, [Next]_vars PROVE ChecksInv'
  <1> SUFFICES \A c \in Checkers : Found(c)'
      BY DEF ChecksInv, Found
  <1>1. CASE Boots
    <2>1. \A c \in Checkers : chk'[c] = IdleCheck
      BY <1>1, BootKind DEF Boots
    <2> QED
      BY <2>1 DEF Found, IdleCheck
  <1>2. CASE Elsewhere
    BY <1>2, FoundStays DEF Elsewhere
  <1>3. ASSUME NEW t \in Jobs, Apply(t) \/ JobStep(t) PROVE \A c \in Checkers : Found(c)'
    BY <1>3, JobKinds, FoundStays
  <1>4. ASSUME NEW c \in Checkers, TriggerCheck(c) \/ SetBeta(c) \/ CheckStep(c),
               NEW d \in Checkers
        PROVE  Found(d)'
    <2>1. /\ UNCHANGED << running, tags >> /\ \A q \in Checkers : q # c => chk'[q] = chk[q]
      BY <1>4, CheckKinds
    <2>2. CASE d # c
      BY <2>1, <2>2, FoundStays
    <2>3. CASE d = c
      <3>1. CASE chk'[c].pc \in {"idle", "begin"}
        BY <2>3, <3>1 DEF Found
      <3>2. CASE chk'[c].pc = "ask"
        BY <1>4, <2>3, <3>2, CheckKinds DEF Found
      <3>3. CASE chk'[c].pc = "digest"
        BY <1>4, <2>1, <2>3, <3>3, CheckKinds DEF Found
      <3>4. CASE chk'[c].pc = "compare"
        <4>1. chk[c].pc = "digest"
          BY <1>4, <3>4, CheckKinds
        <4> QED
          BY <2>1, <2>3, <3>4, <4>1 DEF Found, MovedInv, ChecksInv
      <3>5. CASE chk'[c].pc = "store"
        <4>1. /\ chk[c].pc = "ask" /\ chk'[c].betas = chk[c].betas
              /\ chk'[c].found = Newest(chk[c].betas) /\ chk'[c].found # 0
          BY <1>4, <3>5, CheckKinds
        <4>2. chk[c].betas \in BOOLEAN /\ (chk[c].betas \/ Tag = "stable")
          BY <4>1 DEF TypeOK, CheckStates, MovedInv, ChecksInv
        <4>3. /\ Pick(c)' = IF chk'[c].found \in Releases THEN "stable" ELSE "beta"
              /\ tags' = tags /\ chk'[c].found \in Nat
          BY <2>1, NumbersAfter DEF Pick
        <4>4. \/ Pick(c)' = "stable" /\ chk'[c].found = tags["stable"]
              \/ Pick(c)' = "beta" /\ chk'[c].found = tags["beta"] /\ chk'[c].betas
          BY <4>1, <4>2, <4>3, NewestIsTagged DEF MovedInv
        <4>5. tags["stable"] <= tags["stable"] /\ tags["beta"] <= tags["beta"]
          BY Numbers
        <4> QED
          BY <2>3, <3>5, <4>1, <4>2, <4>3, <4>4, <4>5 DEF Found
      <3>6. chk'[c].pc \in {"idle", "begin", "ask", "store", "digest", "compare"}
        BY DEF TypeOK, CheckStates
      <3> QED
        BY <3>1, <3>2, <3>3, <3>4, <3>5, <3>6
    <2> QED
      BY <2>2, <2>3
  <1> QED
    BY <1>1, <1>2, <1>3, <1>4, StepKinds

LEMMA ForgottenStays == ASSUME TypeOK, MovedInv, [Next]_vars PROVE ForgottenInv'
  <1> SUFFICES ASSUME ~Versioned(running')
               PROVE  /\ Tag # "latest" => offer'.version = 0
                      /\ \A c \in Checkers :
                             chk'[c].pc \in {"digest", "compare"} => offer'.version = 0
      BY DEF ForgottenInv, Versioned
  <1> DEFINE forgotten == /\ Tag # "latest" => offer'.version = 0
                          /\ \A c \in Checkers :
                                 chk'[c].pc \in {"digest", "compare"} => offer'.version = 0
  <1>1. CASE Boots
    <2>1. PICK b : /\ Boot(b)
                   /\ \/ b = running
                      \/ b = pulled[Tag] /\ b # 0
                      \/ b = pulled[updater.channel] /\ updater.state = "running"
      BY <1>1 DEF Boots
    <2>2. running' = b /\ SameOffer /\ \A c \in Checkers : chk'[c] = IdleCheck
      BY <2>1, BootKind
    <2>3. ASSUME Tag # "latest" PROVE b = running
      <3>1. ASSUME NEW c \in Channels, c # "latest", b = pulled[c], b # 0 PROVE FALSE
        <4>1. b \in BuildsOf[c]
          BY <3>1 DEF MovedInv, BuildsInv
        <4> QED
          BY <2>2, <3>1, <4>1, Kinds
      <3>2. Tag \in Channels /\ updater.channel \in Channels /\ updater.channel # "latest"
        BY <2>3, Numbers DEF MovedInv, LatestInv
      <3>3. updater.state = "running" => pulled[updater.channel] # 0
        BY DEF MovedInv, ImagesInv
      <3> QED
        BY <2>1, <2>3, <3>1, <3>2, <3>3
    <2> QED
      BY <2>2, <2>3 DEF SameOffer, IdleCheck, MovedInv, ForgottenInv
  <1>2. CASE Elsewhere
    BY <1>2 DEF Elsewhere, MovedInv, ForgottenInv
  <1>3. ASSUME NEW t \in Jobs, Apply(t) \/ JobStep(t) PROVE forgotten
    BY <1>3, JobKinds DEF SameOffer, MovedInv, ForgottenInv
  <1>4. ASSUME NEW c \in Checkers, TriggerCheck(c) \/ SetBeta(c) \/ CheckStep(c) PROVE forgotten
    <2>1. ~Versioned(running) /\ ForgottenInv /\ \A d \in Checkers : d # c => chk'[d] = chk[d]
      BY <1>4, CheckKinds DEF MovedInv
    <2>2. offer'.version \in {offer.version, 0}
      BY <1>4, <2>1, CheckKinds
    <2>3. chk'[c].pc = "digest" => offer'.version = 0
      BY <1>4, CheckKinds
    <2>4. chk'[c].pc = "compare" => chk[c].pc = "digest"
      BY <1>4, CheckKinds
    <2>5. \A d \in Checkers : chk'[d].pc \in {"digest", "compare"} => offer'.version = 0
      BY <2>1, <2>2, <2>3, <2>4 DEF ForgottenInv
    <2> QED
      BY <2>1, <2>2, <2>5 DEF ForgottenInv
  <1> QED
    BY <1>1, <1>2, <1>3, <1>4, StepKinds

LEMMA OfferStays == ASSUME TypeOK, TypeOK', MovedInv, [Next]_vars PROVE OfferInv'
  <1>1. /\ \A c \in Channels : tags[c] \in Nat /\ tags'[c] \in Nat /\ tags[c] <= tags'[c]
        /\ offer.version \in Nat /\ offer.for \in Channels /\ target \in Channels
    BY Rises, Numbers, NumbersAfter DEF MovedInv
  <1>2. CASE offer'.version \in {offer.version, 0} /\ offer'.for = offer.for /\ target' = target
    BY <1>1, <1>2 DEF OfferInv, MovedInv
  <1>3. CASE Boots
    BY <1>2, <1>3, BootKind DEF Boots, SameOffer
  <1>4. CASE Elsewhere
    BY <1>2, <1>4 DEF Elsewhere
  <1>5. ASSUME NEW t \in Jobs, Apply(t) \/ JobStep(t) PROVE OfferInv'
    BY <1>2, <1>5, JobKinds DEF SameOffer
  <1>6. ASSUME NEW c \in Checkers, TriggerCheck(c) \/ SetBeta(c) \/ CheckStep(c) PROVE OfferInv'
    <2>1. CASE UNCHANGED << offer, target >>
      BY <1>2, <2>1
    <2>2. CASE offer'.version = 0
      BY <2>2 DEF OfferInv
    <2>3. CASE /\ chk[c].pc = "store"
               /\ target' = IF chk[c].betas THEN Pick(c) ELSE target
               /\ offer'.version \in {0, chk[c].found}
               /\ offer'.for = TargetFor(chk[c].betas, Pick(c))
      <3>1. /\ chk[c].found <= tags[Pick(c)] /\ (chk[c].betas \/ Tag = "stable")
            /\ chk[c].betas \/ Pick(c) = "stable"
        BY <2>3 DEF MovedInv, ChecksInv
      <3>2. tags' = tags
        BY <1>6, CheckKinds
      <3>3. (IF Tag = "stable" THEN offer'.for ELSE target') = Pick(c)
        BY <2>3, <3>1 DEF TargetFor
      <3> QED
        BY <2>3, <3>1, <3>2, <3>3 DEF OfferInv
    <2>4. CASE chk[c].pc = "compare" /\ target' = target /\ offer'.version = offer.version
      <3>1. Tag # "stable" \/ offer.version = 0
        BY <2>4 DEF MovedInv, ChecksInv, ForgottenInv
      <3> QED
        BY <1>1, <2>4, <3>1 DEF OfferInv, MovedInv
    <2> QED
      BY <1>6, <2>1, <2>2, <2>3, <2>4, CheckKinds
  <1> QED
    BY <1>3, <1>4, <1>5, <1>6, StepKinds

Shown(t) == job[t].shown # 0 =>
    /\ Versioned(running) /\ running < job[t].shown
    /\ job[t].pc \in Pulling /\ job[t].channel # "latest" => job[t].shown <= tags[job[t].channel]
    /\ job[t].pc = "spawn" /\ job[t].channel # "latest" => job[t].shown <= pulled[job[t].channel]

\* A thread that does nothing, while the registry and the images go up.
LEMMA ShownRests ==
    ASSUME TypeOK, TypeOK', MovedInv, [Next]_vars, NEW t \in Jobs, running' = running,
           job'[t].pc = job[t].pc, job'[t].channel = job[t].channel, job'[t].shown = job[t].shown
    PROVE  Shown(t)'
  <1>1. Shown(t)
    BY DEF MovedInv, ShownInv, Shown
  <1>2. /\ job[t].channel \in Channels /\ job[t].shown \in Nat
        /\ \A c \in Channels : /\ tags[c] \in Nat /\ tags'[c] \in Nat /\ tags[c] <= tags'[c]
                               /\ pulled[c] \in Nat /\ pulled'[c] \in Nat /\ pulled[c] <= pulled'[c]
    BY Rises, Numbers, NumbersAfter DEF MovedInv
  <1>3. /\ job[t].shown <= tags[job[t].channel] => job[t].shown <= tags'[job[t].channel]
        /\ job[t].shown <= pulled[job[t].channel] => job[t].shown <= pulled'[job[t].channel]
    BY <1>2
  <1> QED
    BY <1>1, <1>3 DEF Shown, Versioned

LEMMA ShownStays == ASSUME TypeOK, TypeOK', MovedInv, [Next]_vars PROVE ShownInv'
  <1> SUFFICES \A t \in Jobs : Shown(t)'
      BY DEF ShownInv, Shown
  <1>1. CASE Boots
    <2>1. \A t \in Jobs : job'[t] = IdleJob
      BY <1>1, BootKind DEF Boots
    <2> QED
      BY <2>1 DEF Shown, IdleJob
  <1>2. CASE Elsewhere
    BY <1>2, ShownRests DEF Elsewhere
  <1>3. ASSUME NEW c \in Checkers, TriggerCheck(c) \/ SetBeta(c) \/ CheckStep(c)
        PROVE  \A t \in Jobs : Shown(t)'
    BY <1>3, CheckKinds, ShownRests
  <1>4. ASSUME NEW t \in Jobs, Apply(t) \/ JobStep(t), NEW u \in Jobs PROVE Shown(u)'
    <2>1. running' = running /\ \A w \in Jobs : w # t => job'[w] = job[w]
      BY <1>4, JobKinds
    <2>2. /\ job[t].channel \in Channels /\ job[t].shown \in Nat /\ running \in Nat
          /\ \A c \in Channels : tags[c] \in Nat /\ tags'[c] \in Nat /\ tags[c] <= tags'[c]
      BY Rises, Numbers, NumbersAfter DEF MovedInv
    <2>3. Shown(t)
      BY DEF MovedInv, ShownInv, Shown
    <2>4. CASE u # t
      BY <2>1, <2>4, ShownRests
    <2>5. ASSUME job'[t].pc = "start", job'[t].shown = Offered PROVE Shown(t)'
      <3>1. ASSUME Offered # 0 PROVE Versioned(running) /\ running < Offered
        <4>1. Versioned(running) /\ ~VersionRuns /\ Offered = offer.version /\ offer.version # 0
          BY <3>1 DEF Offered
        <4>2. offer.version \in Nat
          BY Numbers
        <4> QED
          BY <2>2, <4>1, <4>2 DEF VersionRuns
      <3> QED
        BY <2>1, <2>5, <3>1 DEF Shown, Pulling, Versioned
    <2>6. ASSUME job'[t].pc = "pull", job'[t].channel = TargetChannel, tags' = tags,
                 job'[t].shown = StillOffered(job[t].shown)
          PROVE  Shown(t)'
      <3> SUFFICES ASSUME job'[t].shown # 0 PROVE Shown(t)'
          BY DEF Shown
      <3>1. /\ job'[t].shown = job[t].shown /\ job[t].shown # 0
            /\ offer.version = job[t].shown /\ offer.for = TargetChannel
        BY <2>6 DEF StillOffered
      <3>2. job[t].shown <= tags[IF Tag = "stable" THEN offer.for ELSE target]
        BY <3>1 DEF MovedInv, OfferInv
      <3>3. TargetChannel # "latest" =>
                TargetChannel = IF Tag = "stable" THEN offer.for ELSE target
        BY <3>1, HostAssumption DEF TargetChannel, TargetFor, IncludeBetas, Channels
      <3>4. TargetChannel # "latest" => job[t].shown <= tags[TargetChannel]
        BY <3>2, <3>3
      <3> QED
        BY <2>1, <2>3, <2>6, <3>1, <3>4 DEF Shown, Versioned
    <2>7. ASSUME job'[t].channel = job[t].channel, job'[t].shown = job[t].shown,
                 job'[t].pc = "stamp"
          PROVE  Shown(t)'
      BY <2>1, <2>3, <2>7 DEF Shown, Pulling, Versioned
    <2>8. ASSUME job'[t].channel = job[t].channel, job'[t].shown = job[t].shown,
                 job[t].pc = "pull", job'[t].pc = "spawn", tags' = tags,
                 pulled'[job[t].channel] = tags[job[t].channel]
          PROVE  Shown(t)'
      BY <2>1, <2>3, <2>8 DEF Shown, Pulling, Versioned
    <2>9. ASSUME job'[t].channel = job[t].channel, job'[t].shown = job[t].shown,
                 job[t].pc \in Pulling, job'[t].pc \in {"wait", "unset"}
          PROVE  Shown(t)'
      <3>1. job[t].shown <= tags[job[t].channel] => job[t].shown <= tags'[job[t].channel]
        BY <2>2
      <3> QED
        BY <2>1, <2>3, <2>9, <3>1 DEF Shown, Versioned
    <2>10. ASSUME job'[t] = IdleJob PROVE Shown(t)'
      BY <2>10 DEF Shown, IdleJob
    <2>11. Shown(t)'
      BY <1>4, <2>5, <2>6, <2>7, <2>8, <2>9, <2>10, JobKinds
    <2> QED
      BY <2>4, <2>11
  <1> QED
    BY <1>1, <1>2, <1>3, <1>4, StepKinds

LEMMA OverStays == ASSUME TypeOK, TypeOK', MovedInv, [Next]_vars PROVE OverInv'
  <1>1. /\ updater.channel \in Channels /\ updater.over \in Nat /\ running \in Nat
        /\ \A c \in Channels : pulled[c] \in Nat /\ pulled'[c] \in Nat /\ pulled[c] <= pulled'[c]
    BY Rises, Numbers, NumbersAfter DEF MovedInv
  <1>2. CASE updater' = updater
    <2>1. updater.over < pulled[updater.channel] => updater.over < pulled'[updater.channel]
      BY <1>1
    <2> QED
      BY <1>2, <2>1 DEF OverInv, MovedInv
  <1>3. CASE updater'.state # "running"
    BY <1>3 DEF OverInv
  <1>4. ASSUME NEW t \in Jobs, job[t].pc = "spawn", updater' = Launched(t), pulled' = pulled
        PROVE  OverInv'
    <2>1. job[t].channel \in Channels /\ job[t].shown \in Nat
      BY Numbers
    <2>2. updater'.channel = job[t].channel /\ updater'.over = IF job[t].shown # 0 THEN running ELSE 0
      BY <1>4 DEF Launched
    <2>3. job[t].shown # 0 /\ job[t].channel # "latest" =>
              running < job[t].shown /\ job[t].shown <= pulled[job[t].channel]
      BY <1>4 DEF MovedInv, ShownInv
    <2>4. job[t].shown # 0 /\ job[t].channel # "latest" => running < pulled[job[t].channel]
      BY <1>1, <2>1, <2>3
    <2> QED
      BY <1>4, <2>2, <2>4 DEF OverInv
  <1>5. CASE Boots \/ Elsewhere
    BY <1>2, <1>3, <1>5 DEF Boots, Elsewhere
  <1>6. ASSUME NEW t \in Jobs, Apply(t) \/ JobStep(t) PROVE OverInv'
    <2>1. NoUpdater.state # "running"
      BY DEF NoUpdater
    <2> QED
      BY <1>2, <1>3, <1>4, <1>6, <2>1, JobKinds
  <1>7. ASSUME NEW c \in Checkers, TriggerCheck(c) \/ SetBeta(c) \/ CheckStep(c) PROVE OverInv'
    BY <1>2, <1>7, CheckKinds
  <1> QED
    BY <1>5, <1>6, <1>7, StepKinds

LEMMA InitMoved == Init => MovedInv
  <1> SUFFICES ASSUME Init PROVE MovedInv
      OBVIOUS
  <1>1. TypeOK
    BY InitTypeOK
  <1>2. BuildsInv
    <2>1. \A c \in Channels : pulled[c] \in BuildsOf[c] \cup {0}
      BY DEF Init
    <2>2. \A c \in Channels : tags[c] \in BuildsOf[c] \cup {0} /\ pulled[c] <= tags[c]
      BY DEF Init
    <2> QED
      BY <2>1, <2>2 DEF BuildsInv
  <1>3. /\ \A t \in Jobs : job[t] = IdleJob
        /\ \A c \in Checkers : chk[c] = IdleCheck
        /\ updater = NoUpdater /\ offer.version = 0
    BY DEF Init
  <1>4. ImagesInv /\ LatestInv /\ ChecksInv /\ ForgottenInv
    BY <1>3 DEF ImagesInv, LatestInv, ChecksInv, ForgottenInv, IdleJob, IdleCheck, NoUpdater
  <1>5. OfferInv /\ ShownInv /\ OverInv
    BY <1>3 DEF OfferInv, ShownInv, OverInv, IdleJob, NoUpdater
  <1> QED
    BY <1>2, <1>4, <1>5 DEF MovedInv

LEMMA NextMoved == TypeOK /\ TypeOK' /\ MovedInv /\ [Next]_vars => MovedInv'
  <1> SUFFICES ASSUME TypeOK, TypeOK', MovedInv, [Next]_vars PROVE MovedInv'
      OBVIOUS
  <1>1. BuildsInv'
    BY Rises DEF MovedInv
  <1> QED
    BY <1>1, ImagesStay, LatestStays, ChecksStay, ForgottenStays, OfferStays, ShownStays, OverStays
       DEF MovedInv

\* The recreation itself: what an offered version promised to replace is replaced by
\* that version or a later one.
LEMMA RecreateIsNewer ==
    ASSUME TypeOK, MovedInv, Recreate, updater.over = running, Versioned(running),
           Versioned(running')
    PROVE  running' >= running
  <1>1. updater.state = "running" /\ running' = pulled[updater.channel]
    BY DEF Recreate, Boot
  <1>2. running # 0 /\ running \in Nat /\ updater.channel \in Channels
    BY Kinds, Numbers
  <1>3. pulled[updater.channel] \in Nat /\ pulled[updater.channel] \in BuildsOf[updater.channel] \cup {0}
    BY <1>2, Numbers DEF MovedInv, BuildsInv
  <1>4. updater.channel # "latest"
    BY <1>1, <1>3, Kinds
  <1>5. running < pulled[updater.channel]
    BY <1>1, <1>2, <1>4 DEF MovedInv, OverInv
  <1> QED
    BY <1>1, <1>2, <1>3, <1>5

\* "A beta newer than the latest release is not moved back to it": an update applied
\* while a newer version is offered never installs an older one, for any builds, tags,
\* threads and checks, and whatever the host pulls, recreates or restarts meanwhile
\* (check_for_updates, run_update).
THEOREM UpdatesGoForward == Spec => NotMovedBack
  <1>1. Init => TypeOK /\ MovedInv
    BY InitTypeOK, InitMoved
  <1>2. TypeOK /\ TypeOK' /\ MovedInv /\ [Next]_vars => MovedInv'
    BY NextMoved
  <1>3. TypeOK /\ MovedInv /\ [Next]_vars =>
            [Recreate /\ updater.over = running /\ Versioned(running) /\ Versioned(running')
                 => running' >= running]_vars
    BY RecreateIsNewer
  <1> QED
    BY <1>1, <1>2, <1>3, UpdatesTypeCorrect, PTL DEF Spec, NotMovedBack

=============================================================================
