------------------------------- MODULE Updates -------------------------------
(***************************************************************************)
(* The self-update of services/updates.py: what the settings table          *)
(* remembers of an update and of the last check, the threads of the web     *)
(* container that write it (run_update, check_for_updates, the status       *)
(* poll), and what they act on: the registry, the images pulled to this     *)
(* host, the image the web container runs, and the container beacon_updater *)
(* that recreates the stack.  Every set_setting is a commit of its own: a   *)
(* step ends where another thread, or a restart, can tell the difference.   *)
(*                                                                          *)
(* A build stands for its image, its digest and its rank: numbers compare   *)
(* as versions do.  A build that is neither a release nor a beta (main,     *)
(* local) has no version.  0 is "nothing", and the local build as running.  *)
(***************************************************************************)
EXTENDS Naturals

CONSTANTS Releases, Betas, Mains,  \* the builds a channel may come to hold
          Tag,                     \* BEACON_TAG: the channel named in .env
          Installed,               \* the build the host was set up with
          Jobs, Checkers           \* threads in run_update, check_for_updates

Builds    == Releases \cup Betas \cup Mains
Channels  == {"stable", "beta", "latest"}
BuildsOf  == [stable |-> Releases, beta |-> Betas, latest |-> Mains]
Versioned(b) == b \in Releases \cup Betas

ASSUME BuildsAssumption ==
    /\ Builds \subseteq Nat \ {0}
    /\ Releases \cap Betas = {} /\ Releases \cap Mains = {} /\ Betas \cap Mains = {}
ASSUME HostAssumption == Tag \in Channels /\ Installed \in Builds \cup {0}

VARIABLES
    attempt,  \* update_in_progress, _started_at (none, recent, old), _last_result
    offer,    \* update_available, _available_version, _remote_digest, _known_digest
    beta,     \* update_beta, the switch in Settings
    target,   \* update_beta_target
    tags,     \* the build each channel holds in the registry
    pulled,   \* the build each channel's tag names on this host
    running,  \* the build of the web container
    updater,  \* beacon_updater
    job,      \* threads in run_update
    chk,      \* requests, and the daily loop, in check_for_updates
    poll      \* the request for /api/update/status

vars == << attempt, offer, beta, target, tags, pulled, running, updater, job, chk, poll >>

NoUpdater  == [state |-> "none", channel |-> Tag, by |-> "host", over |-> 0]
IdleJob    == [pc |-> "idle", channel |-> Tag, late |-> FALSE, shown |-> 0]
IdleCheck  == [pc |-> "idle", betas |-> FALSE, found |-> 0, channel |-> Tag]
IdlePoll   == [pc |-> "idle", remote |-> 0]

Attempts == [on : BOOLEAN, started : {"none", "recent", "old"},
             result : {"none", "success", "failed"}]
Offers   == [available : BOOLEAN, version : Builds \cup {0}, remote : Builds \cup {0},
             known : Builds \cup {0}, for : Channels]
Updaters == [state : {"none", "running", "done", "ok", "bad"}, channel : Channels,
             by : Jobs \cup {"host"}, over : Builds \cup {0}]
JobStates   == [pc : {"idle", "start", "stamp", "pull", "spawn", "wait", "unset"},
                channel : Channels, late : BOOLEAN, shown : Builds \cup {0}]
CheckStates == [pc : {"idle", "begin", "ask", "store", "digest", "compare"},
                betas : BOOLEAN, found : Builds \cup {0}, channel : Channels]
PollStates  == [pc : {"idle", "reaped", "refresh", "compare"}, remote : Builds \cup {0}]

TypeOK ==
    /\ attempt \in Attempts /\ offer \in Offers /\ updater \in Updaters
    /\ beta \in BOOLEAN /\ target \in {"beta", "stable"}
    /\ tags \in [Channels -> Builds \cup {0}] /\ pulled \in [Channels -> Builds \cup {0}]
    /\ running \in Builds \cup {0}
    /\ job \in [Jobs -> JobStates] /\ chk \in [Checkers -> CheckStates]
    /\ poll \in PollStates

Init ==
    /\ attempt = [on |-> FALSE, started |-> "none", result |-> "none"]
    /\ offer = [available |-> FALSE, version |-> 0, remote |-> 0, known |-> 0, for |-> Tag]
    /\ beta = FALSE /\ target = "beta"
    /\ tags \in {f \in [Channels -> Builds \cup {0}] :
                   \A c \in Channels : f[c] \in BuildsOf[c] \cup {0}}
    /\ pulled = [c \in Channels |-> IF Installed \in BuildsOf[c] THEN Installed ELSE 0]
    /\ \A c \in Channels : pulled[c] <= tags[c]
    /\ running = Installed
    /\ updater = NoUpdater
    /\ job = [t \in Jobs |-> IdleJob]
    /\ chk = [c \in Checkers |-> IdleCheck]
    /\ poll = IdlePoll
-----------------------------------------------------------------------------
(* Which channel updates come from. *)

IncludeBetas == beta \/ Tag = "beta"
TargetFor(betas, pick) == IF betas THEN pick ELSE Tag
TargetChannel == TargetFor(IncludeBetas, target)

\* /releases/latest is the latest release; the list holds the betas too.  The
\* newest of them, or 0 when nothing is published.
Newest(betas) == IF betas /\ tags["beta"] > tags["stable"] THEN tags["beta"] ELSE tags["stable"]

\* What docker says of the running container's image: None for a local build,
\* or when docker does not answer.
DeployedDigests == {{}} \cup (IF running = 0 THEN {} ELSE {{running}})
\* Faulty variant: only the version offered counts, not a later one.
VersionRunsExactly == offer.version # 0 /\ running = offer.version

\* The version offered, or a later one, runs already.
VersionRuns == offer.version # 0 /\ Versioned(running) /\ running >= offer.version
-----------------------------------------------------------------------------
(* run_update, in a thread of its own. *)

SetJob(t, pc) == job' = [job EXCEPT ![t].pc = pc]

\* The version the page, polled just before, offers for the one that runs; 0 when
\* nothing is offered, or an image that is only another one.
Offered == IF offer.available /\ Versioned(running) /\ ~VersionRuns THEN offer.version ELSE 0

\* The version offered is still the same, and the channel the one it was offered for.
StillOffered(b) == IF offer.version = b /\ offer.for = TargetChannel THEN b ELSE 0

\* apply_update: the flag is read here and set by the thread it starts.  "shown"
\* is history.
Apply(t) ==
    /\ job[t].pc = "idle" /\ ~attempt.on
    /\ job' = [job EXCEPT ![t] = [IdleJob EXCEPT !.pc = "start", !.shown = Offered]]
    /\ UNCHANGED << attempt, offer, beta, target, tags, pulled, running, updater, chk, poll >>

Start(t) ==
    /\ job[t].pc = "start"
    /\ attempt' = [attempt EXCEPT !.on = TRUE]
    /\ SetJob(t, "stamp")
    /\ UNCHANGED << offer, beta, target, tags, pulled, running, updater, chk, poll >>

\* Faulty variant: the attempt is not given its time.
StampNoTime(t) ==
    /\ job[t].pc = "stamp"
    /\ attempt' = [attempt EXCEPT !.result = "none"]
    /\ job' = [job EXCEPT ![t].pc = "pull", ![t].channel = TargetChannel,
                          ![t].shown = StillOffered(@)]
    /\ UNCHANGED << offer, beta, target, tags, pulled, running, updater, chk, poll >>

\* The time, an empty result, and the channel to pull.
Stamp(t) ==
    /\ job[t].pc = "stamp"
    /\ attempt' = [attempt EXCEPT !.started = "recent", !.result = "none"]
    /\ job' = [job EXCEPT ![t].pc = "pull", ![t].channel = TargetChannel,
                          ![t].shown = StillOffered(@)]
    /\ UNCHANGED << offer, beta, target, tags, pulled, running, updater, chk, poll >>

\* docker compose pull.
Pull(t) ==
    /\ job[t].pc = "pull" /\ tags[job[t].channel] # 0
    /\ pulled' = [pulled EXCEPT ![job[t].channel] = tags[job[t].channel]]
    /\ SetJob(t, "spawn")
    /\ UNCHANGED << attempt, offer, beta, target, tags, running, updater, chk, poll >>

\* The result is committed, and the flag cleared by the next step.
JobFails(t) ==
    /\ attempt' = [attempt EXCEPT !.result = "failed"]
    /\ SetJob(t, "unset")
    /\ UNCHANGED << offer, beta, target, tags, running, chk, poll >>

\* The pull fails or takes 10 minutes; one service of six may have failed after
\* the web image was pulled, and PROJECT_DIR may turn out to be missing.
PullFails(t) ==
    /\ job[t].pc = "pull"
    /\ JobFails(t)
    /\ UNCHANGED updater
    /\ \/ UNCHANGED pulled
       \/ /\ tags[job[t].channel] # 0
          /\ pulled' = [pulled EXCEPT ![job[t].channel] = tags[job[t].channel]]

\* _spawn_recreator removes the previous beacon_updater, running or not.  "over"
\* is history: the build the version offered on the page is newer than.
Launched(t) == [state |-> "running", channel |-> job[t].channel, by |-> t,
                over |-> IF job[t].shown # 0 THEN running ELSE 0]

\* The thread stays only if the web container is to survive.
Spawn(t) ==
    /\ job[t].pc = "spawn"
    /\ updater' = Launched(t)
    /\ \E same \in {FALSE, running = pulled[job[t].channel]} :
          job' = [job EXCEPT ![t] = IF same THEN [@ EXCEPT !.pc = "wait"]
                                    ELSE IdleJob]
    /\ UNCHANGED << attempt, offer, beta, target, tags, pulled, running, chk, poll >>

\* A docker command fails, or takes too long and is done all the same.
SpawnFails(t) ==
    /\ job[t].pc = "spawn"
    /\ JobFails(t)
    /\ updater' \in {updater, NoUpdater, Launched(t)}
    /\ UNCHANGED pulled

Mine(t) == updater.by = t

\* docker wait returned 0: beacon_updater is removed, success recorded.
WaitEnds(t) ==
    /\ job[t].pc = "wait" /\ Mine(t) /\ updater.state = "ok"
    /\ updater' = NoUpdater
    /\ offer' = [offer EXCEPT !.available = FALSE]
    /\ attempt' = [attempt EXCEPT !.on = FALSE, !.result = "success"]
    /\ job' = [job EXCEPT ![t] = IdleJob]
    /\ UNCHANGED << beta, target, tags, pulled, running, chk, poll >>

\* A non-zero exit, a container another run removed, or 5 minutes.
WaitFails(t) ==
    /\ job[t].pc = "wait"
    /\ updater.state = "bad" \/ ~Mine(t) \/ job[t].late
    /\ JobFails(t)
    /\ UNCHANGED << pulled, updater >>

Unset(t) ==
    /\ job[t].pc = "unset"
    /\ attempt' = [attempt EXCEPT !.on = FALSE]
    /\ job' = [job EXCEPT ![t] = IdleJob]
    /\ UNCHANGED << offer, beta, target, tags, pulled, running, updater, chk, poll >>
-----------------------------------------------------------------------------
(* The web container stops, with every thread in it, and starts again. *)

\* finish_pending_update, before the first request.
FinishPendingUpdate ==
    IF attempt.on
    THEN /\ attempt' = [attempt EXCEPT !.on = FALSE, !.result = "success"]
         /\ offer' = [offer EXCEPT !.available = FALSE]
    ELSE UNCHANGED << attempt, offer >>

Boot(b) ==
    /\ running' = b
    /\ job' = [t \in Jobs |-> IdleJob]
    /\ chk' = [c \in Checkers |-> IdleCheck]
    /\ poll' = IdlePoll
    /\ FinishPendingUpdate
    /\ UNCHANGED << beta, target, tags >>

\* docker compose up -d in beacon_updater, on the channel it was started with.
Recreate ==
    /\ updater.state = "running"
    /\ updater' = [updater EXCEPT !.state = "done", !.channel = Tag, !.over = 0]
    /\ Boot(pulled[updater.channel])
    /\ UNCHANGED pulled

\* Nothing to replace: the image is the one the container runs.
RecreateOthers ==
    /\ updater.state = "running" /\ pulled[updater.channel] = running
    /\ updater' = [updater EXCEPT !.state = "done", !.channel = Tag, !.over = 0]
    /\ UNCHANGED << attempt, offer, beta, target, tags, pulled, running, job, chk, poll >>

UpdaterExits ==
    /\ updater.state \in {"running", "done"}
    /\ \E st \in {"ok", "bad"} :
          /\ st = "ok" => updater.state = "done"
          /\ updater' = [updater EXCEPT !.state = st, !.channel = Tag, !.over = 0]
    /\ UNCHANGED << attempt, offer, beta, target, tags, pulled, running, job, chk, poll >>

\* A crash, a reboot, a restore of the database, docker restart.
Restart == Boot(running) /\ UNCHANGED << pulled, updater >>

\* docker compose pull, then up -d, typed on the host with the tag of .env.
HostPull ==
    /\ tags[Tag] # 0
    /\ pulled' = [pulled EXCEPT ![Tag] = tags[Tag]]
    /\ UNCHANGED << attempt, offer, beta, target, tags, running, updater, job, chk, poll >>

HostUp ==
    /\ pulled[Tag] # 0 /\ pulled[Tag] # running
    /\ Boot(pulled[Tag])
    /\ UNCHANGED << pulled, updater >>
-----------------------------------------------------------------------------
(* check_for_updates: the daily loop, the button, and a turn of the switch. *)

TriggerCheck(c) ==
    /\ chk[c].pc = "idle"
    /\ chk' = [chk EXCEPT ![c].pc = "begin"]
    /\ UNCHANGED << attempt, offer, beta, target, tags, pulled, running, updater, job, poll >>

SetBeta(c) ==
    /\ chk[c].pc = "idle" /\ ~attempt.on
    /\ beta' = ~beta
    /\ chk' = [chk EXCEPT ![c].pc = "begin"]
    /\ UNCHANGED << attempt, offer, target, tags, pulled, running, updater, job, poll >>

\* Versions are compared where betas are offered, and on the stable channel;
\* elsewhere digests, and the version offered is forgotten.
Begin(c) ==
    /\ chk[c].pc = "begin"
    /\ IF IncludeBetas \/ (Versioned(running) /\ Tag = "stable")
       THEN /\ chk' = [chk EXCEPT ![c].pc = "ask", ![c].betas = IncludeBetas]
            /\ UNCHANGED offer
       ELSE /\ chk' = [chk EXCEPT ![c].pc = "digest", ![c].betas = IncludeBetas]
            /\ offer' = [offer EXCEPT !.version = 0]
    /\ UNCHANGED << attempt, beta, target, tags, pulled, running, updater, job, poll >>

\* GitHub answers, or the check ends and what is recorded stays.
AskGitHub(c) ==
    /\ chk[c].pc = "ask"
    /\ LET newest == Newest(chk[c].betas)
       IN  chk' = [chk EXCEPT ![c] =
                     IF newest = 0 THEN IdleCheck ELSE [@ EXCEPT !.pc = "store", !.found = newest]]
    /\ UNCHANGED << attempt, offer, beta, target, tags, pulled, running, updater, job, poll >>

CheckFails(c) ==
    /\ chk[c].pc \in {"ask", "digest"}
    /\ chk' = [chk EXCEPT ![c] = IdleCheck]
    /\ UNCHANGED << attempt, offer, beta, target, tags, pulled, running, updater, job, poll >>

\* Faulty variant: what is no release is looked for on :latest.
PickLatest(c) == IF chk[c].found \in Releases THEN "stable" ELSE "latest"

Pick(c) == IF chk[c].found \in Releases THEN "stable" ELSE "beta"

\* The newest release's kind names the tag to move to; with a version to compare,
\* only a newer one is offered, and the digest is forgotten.
Store(c) ==
    /\ chk[c].pc = "store"
    /\ IF chk[c].betas THEN target' = Pick(c) ELSE UNCHANGED target
    /\ IF Versioned(running)
       THEN LET newer == chk[c].found > running
            IN  /\ offer' = [offer EXCEPT !.available = newer, !.remote = 0,
                                          !.version = IF newer THEN chk[c].found ELSE 0,
                                          !.for = TargetFor(chk[c].betas, Pick(c))]
                /\ chk' = [chk EXCEPT ![c] = IdleCheck]
       ELSE /\ offer' = [offer EXCEPT !.version = 0]
            /\ chk' = [chk EXCEPT ![c].pc = "digest"]
    /\ UNCHANGED << attempt, beta, tags, pulled, running, updater, job, poll >>

\* GHCR is asked for the digest of the channel to move to.
AskRegistry(c) ==
    /\ chk[c].pc = "digest" /\ tags[TargetChannel] # 0
    /\ chk' = [chk EXCEPT ![c] = [IdleCheck EXCEPT !.pc = "compare",
                              !.found = tags[TargetChannel], !.channel = TargetChannel]]
    /\ UNCHANGED << attempt, offer, beta, target, tags, pulled, running, updater, job, poll >>

\* Without a digest of the running image the last known one stands in for it; the
\* first one seen is the baseline.
Baseline(c) == IF offer.known = 0 THEN chk[c].found ELSE offer.known

Compare(c) ==
    /\ chk[c].pc = "compare"
    /\ \E deployed \in DeployedDigests :
          LET against == IF deployed = {} THEN {Baseline(c)} ELSE deployed
              current == chk[c].found \in against
          IN  offer' = [offer EXCEPT !.available = ~current, !.remote = chk[c].found,
                                     !.known = IF current THEN chk[c].found ELSE @,
                                     !.for = chk[c].channel]
    /\ chk' = [chk EXCEPT ![c] = IdleCheck]
    /\ UNCHANGED << attempt, beta, target, tags, pulled, running, updater, job, poll >>
-----------------------------------------------------------------------------
(* GET /api/update/status: reap_stalled_update, then refresh_available. *)

\* Faulty variant: no update is given up while beacon_updater runs.
StalledNotRunning ==
    attempt.on /\ attempt.started = "old" /\ updater.state # "running"

Stalled == attempt.on /\ attempt.started = "old"

Reap ==
    /\ poll.pc = "idle" /\ Stalled
    /\ attempt' = [attempt EXCEPT !.on = FALSE]
    /\ poll' = [poll EXCEPT !.pc = "reaped"]
    /\ UNCHANGED << offer, beta, target, tags, pulled, running, updater, job, chk >>

ReapTells ==
    /\ poll.pc = "reaped"
    /\ attempt' = [attempt EXCEPT !.result = "failed"]
    /\ poll' = [poll EXCEPT !.pc = "refresh"]
    /\ UNCHANGED << offer, beta, target, tags, pulled, running, updater, job, chk >>

\* Faulty variant: only the version is looked at.
RefreshByVersion ==
    /\ poll.pc = "refresh" \/ (poll.pc = "idle" /\ ~Stalled)
    /\ IF ~attempt.on /\ offer.available /\ VersionRuns
       THEN offer' = [offer EXCEPT !.available = FALSE, !.version = 0]
       ELSE UNCHANGED offer
    /\ poll' = IdlePoll
    /\ UNCHANGED << attempt, beta, target, tags, pulled, running, updater, job, chk >>

\* An offer made by version is retracted once that version runs; one made by
\* digest once the image docker reports has it: docker is asked between the reads
\* and the commit.
Refresh ==
    /\ poll.pc = "refresh" \/ (poll.pc = "idle" /\ ~Stalled)
    /\ IF ~attempt.on /\ offer.available
       THEN IF VersionRuns
            THEN /\ offer' = [offer EXCEPT !.available = FALSE, !.version = 0]
                 /\ poll' = IdlePoll
            ELSE /\ UNCHANGED offer
                 /\ poll' = IF offer.remote = 0 THEN IdlePoll
                            ELSE [pc |-> "compare", remote |-> offer.remote]
       ELSE UNCHANGED offer /\ poll' = IdlePoll
    /\ UNCHANGED << attempt, beta, target, tags, pulled, running, updater, job, chk >>

Retract(deployed) ==
    /\ poll.pc = "compare"
    /\ IF poll.remote \in deployed
       THEN offer' = [offer EXCEPT !.available = FALSE, !.known = poll.remote]
       ELSE UNCHANGED offer
    /\ poll' = IdlePoll
    /\ UNCHANGED << attempt, beta, target, tags, pulled, running, updater, job, chk >>

DismissResult ==
    /\ attempt' = [attempt EXCEPT !.result = "none"]
    /\ UNCHANGED << offer, beta, target, tags, pulled, running, updater, job, chk, poll >>
-----------------------------------------------------------------------------
\* _RECREATE_TIMEOUT goes by.
Age ==
    /\ attempt' = [attempt EXCEPT !.started = IF @ = "recent" THEN "old" ELSE @]
    /\ job' = [t \in Jobs |-> [job[t] EXCEPT !.late = (job[t].pc = "wait")]]
    /\ UNCHANGED << offer, beta, target, tags, pulled, running, updater, chk, poll >>

\* A build is published on the channel of its kind.
Publish ==
    /\ \E c \in Channels, b \in Builds :
          b \in BuildsOf[c] /\ b > tags[c] /\ tags' = [tags EXCEPT ![c] = b]
    /\ UNCHANGED << attempt, offer, beta, target, pulled, running, updater, job, chk, poll >>

JobStep(t) == \/ Start(t) \/ Stamp(t) \/ Pull(t) \/ PullFails(t) \/ Spawn(t)
              \/ SpawnFails(t) \/ WaitEnds(t) \/ WaitFails(t) \/ Unset(t)
CheckStep(c) == Begin(c) \/ AskGitHub(c) \/ CheckFails(c) \/ Store(c)
                \/ AskRegistry(c) \/ Compare(c)
StatusStep == Reap \/ ReapTells \/ Refresh \/ \E d \in DeployedDigests : Retract(d)
HostStep == Recreate \/ RecreateOthers \/ UpdaterExits \/ Restart \/ HostPull \/ HostUp

Next == \/ \E t \in Jobs : Apply(t) \/ JobStep(t)
        \/ \E c \in Checkers : TriggerCheck(c) \/ SetBeta(c) \/ CheckStep(c)
        \/ StatusStep \/ HostStep \/ DismissResult \/ Age \/ Publish

Spec == Init /\ [][Next]_vars

\* Threads run, time goes by, a page is open that polls every three seconds, and
\* docker answers some of the time.
Fairness == /\ \A t \in Jobs : WF_vars(JobStep(t))
            /\ WF_vars(Age)
            /\ WF_vars(StatusStep)
            /\ SF_vars(\E d \in DeployedDigests \ {{}} : Retract(d))
FairSpec == Spec /\ Fairness
-----------------------------------------------------------------------------
(* Properties *)

\* reap_stalled_update gives up on a flag that has no time beside it: one is set
\* only between run_update's first two commits.
StallCanBeSeen ==
    attempt.on /\ attempt.started = "none" => \E t \in Jobs : job[t].pc = "stamp"

\* check_for_updates: "a beta newer than the latest release is not moved back to
\* it".  An update applied while a newer version was offered, the switch untouched
\* since the check that offered it, does not install an older one, whatever other
\* checks, publications and updates on the host do meanwhile.  (An offer made by
\* digest promises only another image, and may be an older version.)
NotMovedBack ==
    [][Recreate /\ updater.over = running /\ Versioned(running) /\ Versioned(running')
         => running' >= running]_vars

\* Every update ends: the page does not spin on "pulling images" for ever, and
\* Apply and the switch answer again.
UpdateEnds == attempt.on ~> ~attempt.on

\* refresh_available: an offer of what the web container runs already, after an
\* update typed on the host, is retracted, unless an update is applied meanwhile
\* (the status request leaves docker alone then).
Contradicted == /\ offer.available
                /\ VersionRuns \/ (offer.remote # 0 /\ offer.remote = running)
StaleOfferRetracted ==
    Contradicted ~> (~Contradicted \/ \E t \in Jobs : job[t].pc # "idle")

\* finish_pending_update: "reaching this point with an update in progress means
\* this process is the *replacement* container": an update becomes a success by
\* the recreation, or by the wait for it.
FinishedIsReplaced ==
    [][attempt.on /\ ~attempt'.on /\ attempt'.result = "success"
         => Recreate \/ \E t \in Jobs : WaitEnds(t)]_vars
=============================================================================
