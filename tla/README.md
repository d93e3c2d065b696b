# Beacon PXE: a TLA+ model

Beacon is a PXE boot server: a FastAPI process over SQLite that stores operating
system images, extracts what a client boots from, and generates the iPXE menu and
the dnsmasq configuration that sibling containers serve. This directory holds a
TLA+ model of it, the TLC configurations that check the model and proofs checked
by TLAPS. Paths below are relative to `src/`; the Python lives in `web/app`.

## The system

The web process answers requests in two ways: `async` routes run on one event loop
(uploads, catalog additions, saving settings), the others in a pool of threads.
Background tasks, which build images, run in the same pool. State is shared through
the database (`web/app/models.py`), the folders under the data volumes and a few
module-level tables. There is no transaction around a request: a route reads a row,
works, and commits by primary key.

| Component | State | Operations | Talks to | Hard behaviour | Correct when |
|---|---|---|---|---|---|
| Image lifecycle (`services/images.py`, `routers/images.py`) | `images` rows, `IMAGE_DIR`, `bootroot/os`, `nfsroot`, `smbroot`, `_runs` | upload, add from catalog, process, Reprocess, Delete, bulk, reconcile at startup | boot menu, downloads, drivers | threads over one row and one folder, stop requests, restarts, ids and names given again | one builder per image; ready means built from its own upload; a removal removes exactly its image; nothing is left on disk or stuck |
| Boot menu (`services/ipxe.py`) | `boot.ipxe` | render; enable, default, order, arguments | every component that changes a row | renders overlap; order of commit and write | offers exactly the ready, enabled images; counts down only for an explicit default |
| Self-update (`services/updates.py`) | `update_*` settings, the updater container | check, apply, pull, recreate, confirm at startup, reap, beta channel | Docker, registry | the updating process is killed by its own success; timeouts; double start | one update at a time; success only when the new image runs |
| Backup and restore (`services/restore.py`) | one staged file, the database file | preview, apply, cancel, restart | whole process | shared staged file, writes between swap and restart | what was previewed is what is applied, host settings kept |
| Accounts (`routers/users.py`, `auth.py`, `deps.py`) | `users` rows, cookie sessions | role, delete, reset, sign in, TOTP, token | lockout | check then act on the number of admins; stale cookies | an admin always exists; a reset ends other sessions |
| Lockout and throttle (`services/ratelimit.py`) | `login_lockouts`, `_events` | record, reset, allow | sign in, tracking | window boundaries | never more failures than the limit without a lockout |
| dnsmasq and watchers (`services/dnsmasq.py`, `dnsmasq/`, `nfs/`, `smb/`, `reload/`) | `dnsmasq.conf`, last mtime seen | render, poll, restart | settings | whole-second mtimes, torn reads | the running service has the last configuration |
| Downloads (`services/netboot.py`) | `.part` file | download, resume, cancel | mirrors | dropped and misplaced ranges | the file kept is the whole file |
| Netboot catalog (`services/netboot.py`, `routers/images.py`) | `catalog_entries`, the release caches | save, import, delete, add an image, list releases | downloads, image lifecycle | entries change under a run; counts before stores; slow lookups store last | a ready image is of one edition; the cap holds; a page offers what is current |
| Driver packs (`services/drivers.py`) | pack folders | fetch, upload, delete, re-bake | image lifecycle | long download after a check | no half-installed pack |
| Tracking and status stream (`routers/track.py`, `routers/images.py`) | `seen_clients`, `boot_events`, `_sse_open` | record, prune, stream | throttle | caps | tables and streams stay bounded |
| Settings, setup, startup (`routers/settings.py`, `services/bootstrap.py`) | `settings` rows | save, seed, reconcile, render | all of the above | a save is many commits | generated files follow the settings |

## What is modelled

**`ImageRuns`** is the image lifecycle. Its variables are the table (`rows`), the
files (`iso`, `derived`), the menu (`menu`), the table of builds with their stop flags
(`runs`), queued background tasks (`queued`), what every pool thread is doing (`act`)
and the uploads in progress (`streams`). Three history variables (`overtaken`,
`raced`, `leaked`) record things the properties are stated around; no action reads
them. A step is what the code does between two points where another thread can act
and be noticed: a commit, a change on disk, the section under `_runs_lock`.

| Actions | Code |
|---|---|
| `UploadOpen`, `UploadCommit`, `AddNetboot` | `upload`, `add_netboot`: the file and its name before the transfer, the row after it |
| `Begin`, `Drop`, `Load`, `Claim` | start of `process_image` up to "processing" and the wipe |
| `Read`, `Extract`, `Unpack`, `CommitReady` | the builds of every family: list or download, kernel and initrd, the rest, "ready" |
| `Cancel`, `Fail`, `Raise`, `Except` | `check_stop` (also looked at as each step ends), the errors turned into messages, every other exception |
| `RenderRun`, `End`, `Finish`, `Sweep` | the menu, the `finally`, `_finish_delete` |
| `RetryLoad`, `RetryCommit`, `DeleteLoad`, `DeleteCheck` | `retry`, `delete`, `delete_image`; also each image of a bulk request |
| `RemoveFiles`, `RemoveRow`, `RemoveMenu` | `_remove_image` |
| `Restart` | loss of memory, optional loss of the volumes, `reconcile_statuses`, `ipxe.render` |

What makes it hard is kept: SQLAlchemy addresses a row by id alone and raises
StaleDataError when it is gone; SQLite gives a new row the highest id in use plus
one, so an id returns after the last image is deleted; the name of an upload returns
once its file and row are gone; a catalog archive has a random name. An upload is a
number that stands for its bytes: a folder built from another image's ISO is seen as
such. Abstracted away: file lists, distro detection, boot arguments, messages. A
download is one step (there, or failed); rendering never fails; an extraction that
fails half-way has written nothing or the whole of an earlier step.

**`Updates`** is the self-update. The settings it persists are `attempt` (flag, time,
result), `offer` (available, version, the two digests), `beta` and `target`; the world
around it is the registry (`tags`), the images on the host (`pulled`), the build the
web container runs (`running`) and the container that recreates the stack
(`updater`); the threads are `job` (`run_update`), `chk` (`check_for_updates`) and
`poll` (the status request). A build is a number: its image, digest and rank. Every
thread dies when the web container is replaced, which is how a successful update ends.

| Actions | Code |
|---|---|
| `Apply`, `Start`, `Stamp` | `apply_update` reads the flag; the thread sets it, then the time, the empty result, the channel |
| `Pull`, `PullFails`, `Spawn`, `SpawnFails`, `WaitEnds`, `WaitFails`, `Unset` | the commands of `run_update`; a failure is two commits, the result and the flag |
| `Recreate`, `RecreateOthers`, `UpdaterExits` | `docker compose up -d` in `beacon_updater` |
| `Boot` with `FinishPendingUpdate` | the web container starts: after `Recreate`, `Restart` (crash, reboot, restore) or `HostUp` |
| `TriggerCheck`, `SetBeta`, `Begin`, `AskGitHub`, `Store`, `AskRegistry`, `Compare`, `CheckFails` | `check_for_updates`, by version and by digest, from the loop, the button and the switch |
| `Reap`, `ReapTells`, `Refresh`, `Retract`, `DismissResult` | the status request: `reap_stalled_update`, `refresh_available`; dismissal |
| `Age`, `HostPull`, `HostUp`, `Publish` | five minutes go by; commands typed on the host; a build is published |

Commits with nothing in between that another thread reads differently are one step
(the time and the empty result; the digest and the availability of a check; the three
commits of `finish_pending_update` and of a successful wait). Two fields are history:
`shown` is the newer version the page offered when an update was applied (0: none, or an
image that is only another one), `over` the build it was offered over, and `offer.for` the
channel it was made for. A recreation that leaves the web
container down is out of the model: nothing of this code runs then.

**`BuildLock`** is the abstract promise of `_runs`: an image has one builder, a stop
request lasts until the builder releases the image, a restart releases everything.
`ImageRuns` is shown to implement it with `owner` mapped to the set of threads that
are inside a build of the id (`LockSpec`).

**`RateLimit`** is the arithmetic of one lockout row (`Locked`, `Pruned`, `Failed`), and
**`Accounts`** the accounts, the sessions and the two sign-in steps that use it. The
variables are the tables (`acct`, `lock`), what each browser's cookie holds (`cookie`),
the requests in flight with what each has read (`req`) and the clock (`now`). A request
keeps the row it read, as an SQLAlchemy session does, and its commit writes only the
columns that differ from it (`Flush`); a response replaces the browser's cookie by the
request's own copy (`Respond`). Passwords and tokens are the number of the request that
set them. History: `clashed`, `raced` and `wrong`.

| Actions | Code |
|---|---|
| `TurnedAway`, `Ask`, `AskByToken` | `deps.current_user`, `require_user`, `require_admin`: by session or by API token |
| `ReadTarget`, `WriteAccount`, `WriteNewAccount` | the routes of `users.py` and `auth.py`: the target is read, refused or changed, then committed |
| `Login`, `Verify`, `SecondFactor`, `SecondDropped` | `login_submit`, `totp_submit`: throttle first, then the account's row, then the slow hash |
| `Succeed`, `Fail`, `Count` | `reset`, and `record_failure` in its read and its commit |
| `Logout`, `Tick`, `Restart` | sign-out, time, `bootstrap` with its first admin |

**`HostConfig`** is the server's settings and everything generated from them, and the
restore that replaces the database file under them. The variables are the file at
`DB_PATH` (`disk`), the replaced file the connection pool still has open (`held`), the
staged upload and the safety copy (`staged`, `pre`), `dnsmasq.conf` with its time stamp
(`conf`, `fresh`), the dnsmasq container (`dns`), the address in `boot.ipxe` and in the
XCP-NG boot loaders (`menu`, `grub`) and the requests (`req`). After `os.replace` the
open file descriptors of the pool go on naming the old inode, and a new connection opens
the new one: a reader sees either (`Readable`). An upload that is still being written
follows its inode too (`ino`): into the database that is in use, if that is where the
file went.

| Actions | Code |
|---|---|
| `Save`, `SaveKey`, `RenderConf`, `WriteConf`, `RenderMenu`, `WriteMenu`, `RebuildGrub`, `SaveEnds` | `settings_save`, `setup_save`: a commit for each key, then the files; truncation and write of `dnsmasq.conf` are two steps, and so are the query and the write of the menu |
| `DrawMenu` | `ipxe.render` from a build or a change of an image, in a thread |
| `UploadOpen`, `UploadWrite`, `Preview`, `Cancel` | `restore_preview` piece by piece, `build_preview`, `token_for`, `restore_cancel` |
| `Apply`, `CheckToken`, `Inspect`, `RewriteStaged`, `CopyLive`, `Replace` | `restore_apply`, `restore.apply` |
| `Restart` | `restart_self` or a crash; `bootstrap.run` seeds the address and generates both files |
| `Poll`, `StartDnsmasq`, `DnsmasqExits`, `Second` | the loop of `dnsmasq/entrypoint.sh`; a second goes by |

**`Restores`** is the abstract promise of `services/restore.py`: the database file is replaced
in one step, by a file whose preview was shown, with a host value this machine can have,
and only while `pxe.db.pre-restore` is a copy of what is replaced; before and after, a key
at a time is saved. `HostConfig` is shown to implement it with the four files mapped to
its own (`RestoreSpec`): the upload, the token, the rewriting of the staged file and the
connections to the old file are steps `Restores` does not see. Once an apply was disturbed
(`mingled`) the promise is weaker: any file may be put in place, but the safety copy is
still only ever a copy of the database, and previews are still of usable files.

**`Drivers`** is the driver packs (`folder`), the `boot.wim` of a Windows image (`wim`,
`ready`) into which the boot packs and the server address are baked, and the jobs that
change them (`job`). History: `mixed`, `lapped`.

| Actions | Code |
|---|---|
| `UploadPack`, `Fetch`, `FetchFails`, `InstallBegins`, `InstallEnds`, `InstallFails`, `DeletePack` | the routes of `routers/drivers.py` and `fetch_pack`: the check, the download, the folder made and filled, the removal after a failure |
| `Rebake`, `BakeStarts`, `BakeEnds` | `rebuild_windows_setup_all`, `_patch_boot_wim`; a `wimupdate` gives up on a file another one writes |
| `Build`, `BuildPatches`, `BuildCommits` | `_process_windows`, which reads the address before the long unpacking |
| `Stop` | the process ends |

**`Deployment`** composes the two: they share the process and its event loop (a save
holds it, and so does an upload of drivers while it re-bakes), the pool of requests and
the `boot.wim`. A save ends with the re-bake (`SaveBakes`, `SaveIsBaked`), and a restart
stops both.

**`Download`** is `netboot.download`, read by read: the reply of each attempt with its
offset and length, drops, early ends, the size cap, the `.part` file, the move into
place. A byte is recorded as the version of the file it was read from and its position,
so that a gap, a repeat and a mixture can be told apart; one `Chunk` is one byte.

**`Netboot`** EXTENDS it with the image that is fetched and the custom entries it is
made from: the rows (`table`), the catalog requests (`req`), the image's row (`image`)
and its run (`run`). `ImageRuns` has the life of a row with ids, names and threads; here
there is one row, one run, and what is in its files.

| Actions | Code |
|---|---|
| `Fetch`, `Answer`, `NoAnswer`, `Refuse`, `Chunk`, `Interrupted`, `EndOfReply`, `CannotWrite`, `Publish` | `download`; the mirror's reply; another file published under the same address |
| `SaveNew`, `SaveEdited`, `Import`, `StoreReads`, `StoreCommits`, `DeleteReads`, `DeleteCommits` | `save_entry`, `import_entries` (count, `free_entry_id`, then `store_entry` one by one), `delete_entry` |
| `Add`, `Reprocess`, `DeleteImage`, `Begin`, `Lookup`, `Download`, `Fetched`, `NotFetched`, `Extract`, `End`, `Restart` | `add_netboot`, `process_image` around `_process_netboot`, `fetch_boot_files`, `extract_boot_files`, `_extract_live_files` |

**`Releases`** is the release lists of one distro: its two caches (`discovery`,
`prereleases`), the pages being made with a thread for each lookup (`page`), and a
distro that publishes while the clock runs (`stage`, `since`, `clock`). `Open`, `Check`,
`AskMirror` and `Store` are `page_catalog`, `ended_release`, `_cached_discovery` and
`_cached_prereleases`; `WithDiscovered`, `WithPrereleases`, `Superseded` and
`Preselected` translate the functions that merge the answers into the list of a page.

**`Catalog`** puts `Netboot` and `Releases` side by side; they share no variable.

## What is checked

| Run | Instance | Question |
|---|---|---|
| `images_reuse` | 2 threads, 2 uploads, 1 ISO name, restarts | do files, rows and names stay together when an id and a name are given again |
| `images_restart` | 3 threads, 1 upload, Reprocess, restarts | one builder, ready means built, menu and files follow, a hung build leaves nothing, `BuildLock` |
| `images_live` | 3 threads, 1 upload, Reprocess, no restart, fair | does every stop end in a removal, every build end |
| `images_lost_reprocess` | 2 threads, 1 upload | counterexample: Reprocess dropped, image stays pending |
| `images_stuck_deleting` | 2 threads, 1 upload | counterexample: Delete before the run reads its row |
| `images_wrong_removal` | 2 threads, 2 uploads | counterexample: the end of an old run removes a new image |
| `updates_stable` | release 1 installed, beta 2 and release 3 to come, switch, host updates | is a stalled update always visible to the reaper; does an update applied while a newer version was offered move the host back |
| `updates_latest` | main build 1 installed, 2 to come, fair | does every update end, is every stale offer retracted |
| `updates_early_success` | release 1 installed, 2 to come | counterexample: a restart during the pull is recorded as success |
| `accounts` | 2 accounts, 2 browsers, a script with a token, 2 requests, 2 ticks | does an admin remain, does a changed password end every older session, are wrong answers limited |
| `deployment` | 2 addresses here and 1 of another machine, 2 requests, 1 crash, a boot pack and a served one, fair dnsmasq container | do generated files, dnsmasq and boot images follow the database in use; is what was previewed what is applied; `Restores` |
| `catalog` | 3 attempts, files of 0 to 3 bytes in two versions, 4 editions, 3 entry ids, 2 requests, 1 restart; 2 releases, 2 ticks, 2 pages; fair runs | are files whole, does a ready image boot, does the cap hold, is an offered release current, does every run end |

**Bounds.** `MaxUploads` caps images ever added, `MaxQueued` caps queued tasks per
image at which Reprocess is still offered (0: none; 1: a second task may wait while
one runs, which is what the lock is about). Two uploads are the smallest number with
which an id and a name come back; two threads suffice for a removal against a build,
three for a build, a first and a second Delete. A repeated restart is allowed at
every state. What larger instances would add is the matter of the proofs below, which
hold for every bound; it is not obvious that they add nothing. In earlier versions of
these properties small bounds had hidden exceptions: two uploads show that a removal
under another thread may pass on a name as well as an id, two requests that the copy a
restore makes is already that of the next one, two betas that an offer by digest may go
back. The properties now name them. Threads and ISO names are symmetric in the safety
runs; the fair run uses no symmetry. Deadlock is not checked: with every image built
and the bounds used up the system rests.

`Updates` has no counters: the sets of builds bound it. `updates_stable` has an older
release, a beta between and a newer release, the fewest with which "newer" and "of the
other channel" differ in both directions; `updates_latest` has two builds of one
channel, all that an offer by digest needs. One thread applies and one checks in both:
the theorems cover any number. With two jobs the one-at-a-time rule fails, see below.

In `Accounts`, `MaxRequests = 2` and two slots make every pair of operations cross at
every point, on top of initial states that already hold open sessions, a second admin
or user, a second factor and a failure a moment ago: two requests are what a race needs.
One failure is in the window at the start, so two more reach `MaxFailures`. The window
and the lockout are one tick, the clock runs to 2, which is past both. Accounts,
browsers and request slots are symmetric (no liveness property is checked there).

In `Deployment`, two requests and one crash; the initial states hold a backup that was
already previewed, so two further requests are enough for an apply crossed by an upload,
a save, a build or another apply. `Modes` has one member: the other settings are then
told apart by where they came from (`from`), and a changed configuration by the address.
`HostConfig` alone was also explored with three requests.

In `Catalog`, the action constraint `OneAtATime` explores each of the two parts next to
an initial state of the other. As they share no variable, and no property reads both,
nothing is lost. The lengths (`MCCatalog`) hold an empty file, one beyond the cap, a
file that shrinks and one that is no kernel; three attempts let a resumed transfer be
resumed again. `Contents` gives more than one content only to the image's own entry,
`Concerned` lets only that one change next to an image, `MayPublish` lets one file be
replaced, while a run is under way; `Watched` stops the distro once no page can see it.
Interchangeable slots are taken in a fixed order. Ttl is 2 and Retry 1, so a failed
lookup is forgotten first.

**Fairness.** In `images_live`: a thread that is inside a build or a
removal goes on (weak fairness of `Build(t) \/ Remove(t)`). The code justifies it:
external tools run to their end, a download has a timeout and a limited number of
attempts, and the pool schedules its threads. Nothing obliges a user to press a
button or a queued task to start. A tool that hangs for ever is the case a second
Delete is for; it is covered by the safety runs, where a thread may stop at any step.
In `updates_latest`: a thread in `run_update` goes on (its commands have timeouts), time
goes by, the status request is made again and again (a page polls every three seconds
while an update is in progress, and on every load), and docker answers some of the
requests made of it (strong fairness, since it may fail in between). No fairness is
given to checks, to `beacon_updater`, which may hang, or to any restart.
In `deployment`: `Watching`, the poll loop of the container and Docker's restart
policy. Nothing in the web process is fair: `LatestConfIsRun` needs only the watcher. In
`catalog`: `RunStep`, the thread of a run, which is scheduled and whose reads time out;
an endless reply is cut by the size cap and a mirror that never answers by the attempts.
The mirror is not fair, nor are requests.

**Exclusions in the properties.** Removing an image under another thread that acts on it
breaks a good deal, which is a real weakness of the code, listed under `hazards`: a
Delete of a queued image does not stop the run that starts meanwhile. The properties of
`ImageRuns` end where that begins to matter. `ReadyIsBuilt` and `FoldersAreItsOwn` speak
of images that are `Undisturbed`: no image with that id was removed under a thread
(`overtaken`) and, if its file is an ISO, no image at all, since the ISO's name may pass
on. `NamesAreUnique` ends with the first such removal. `FilesAreOwned` goes on past it,
as long as the other thread was a build that had been told to stop, reached its end, and
its id was not given again (`raced` says otherwise): then even a build that hangs leaves
nothing behind. An ISO whose upload a restart cut short is left for good (`leaked`).
`MenuIsCurrent` has no exception.

`NotMovedBack` speaks of an update applied while a newer *version* was offered; at
`Stamp`, when the thread reads the channel, the offer is of the same version and was made
for that channel; and of the web container it was offered over.
Outside of that the host can be moved back, and the code does it: turning the switch
off while the re-check fails leaves the beta's offer standing, and Apply then pulls the
release. An offer made by digest (to a local build, or on `latest`) promises another
image and nothing about its age: on `BEACON_TAG=beta` it survives an update typed on the
host and may name an older one.

`Updates` also reaches, without a run of their own: two updates at once (the flag is
read in the request and set by the thread), an update reported as stalled while it
pulls (300 s against 600 s), one reaped at its first commit because the time beside the
flag is an earlier update's, and an offer retracted on a digest just superseded.

The properties of `Accounts`, `HostConfig` and `Drivers` say where they end, by a history
variable that no action reads. `AdminRemains` and `SessionsFollowPasswords` end at
`clashed`: accounts that a request changed from rows another request had changed since
it read them. Two admins who demote each other at once do leave none (the next start
seeds an admin only when no account is left). `ThrottleHolds` ends at keys with two
sign-ins under way at once, whose failures may count as one. `PreviewedIsApplied`, `SafetyCopyUndoes` and `ForeignHostKeptOut` end at `mingled`:
the one staged file was opened, cancelled or applied by another request during an apply.
The safety copy is of the database replaced last or, once the next restore has made its
own, of the one that is about to be replaced.
`MenuFollowsSettings` ends at `crossed`, two menus drawn at the same time;
`LatestConfIsRun` at `missed`, a file that changed again within the second whose time stamp
the watcher had already taken; `NoHalfPacks` at `mixed`, a pack two requests worked on or a
crash cut off; `BakedIsCurrent` at `lapped`, a change during a re-bake or a build, and at a
restored database, after which the code re-bakes nothing. These are the code's own
windows, each reachable in the model, not liberties of the model.

`FilesAreWhole` assumes what the code cannot check: a reply starts at the offset it
names, a Range is answered by a 206 only where one was sent, one past the end is
refused, and a reply without a length is chunked, so that its early end breaks the
connection (a connection that is simply closed by an HTTP/1.0 server is not told from
the end). A file that is replaced on the mirror between two attempts gives a mixture:
nothing (no ETag, no If-Range) tells the versions apart. The property therefore asks for
the length of a published version, every byte at its own place, and the last byte of
that version. The extraction of an archive is one step that succeeds or fails.

**Findings.** The four counterexample runs each contradict a comment or docstring
quoted in `PROJECT.json`. The three of
`ImageRuns` need two requests within a window of a few statements, or a hung tool
followed by an upload of the same name; that of `Updates` needs a restart while images
are being pulled.

Every property of a passing run has a mutant: a faulty variant of one action, defined
next to it, under which TLC finds the property violated.

## What is proved

Every safety property of a passing run is a theorem, for every value of the constants
that meets the assumptions. All proofs have
one form: an invariant that implies the property, one lemma per group of actions, a step
theorem that puts them together. What follows is why each invariant is what it is.

**`ImageRunsProofs`**: every set of threads and file names and every bound.

- `TypeCorrect`: `Spec => []TypeOK`. Types alone are not inductive, since a step reads
  `rows[act[t].id]`; `TypeInv` adds that a thread that is not idle has an id of the
  table (`ActsHaveIds`).
- `OneRunCorrect`: `Spec => []OneRunPerImage`. `OneRunPerImage` with `TypeInv` is inductive.
  The argument goes through `AllSteps`: whatever the action, the builds under way
  change in one of five ways (`Quiet`, `Started`, `Told`, `Ended`, `Restarted`).
  `Started` needs a free entry, which by the invariant means no builder; `Ended` frees
  an entry whose only builder leaves.
- `LockImplemented`: `Spec => LockSpec`, from the same five kinds of step.
- `MenuFollowsImages`: `Spec => []MenuIsCurrent`. `MenuInv` says who will put it right: an
  image that is ready and not in the menu has a thread at `render`, one that is gone and
  still in the menu has some thread at `rmmenu`.
- `NamesStayUnique`, `FoldersStayItsOwn`, `ReadyMeansBuilt`, `FilesStayOwned`: the
  files. They share two foundations. The first is a list of the *kinds* of step, as few
  as the arguments can tell apart: what a thread does to rows and history (`ThreadStep`:
  it begins, asks, loads, leaves, finishes, wipes, drops the row, ...) and to the folders
  (`DiskStep`: `Plain`, `Emptied`, `Filled`, `Readied`). The second is `HandsInv`, who
  works on what: a thread past its load holds a file name (`ShapeInv`); one that removes
  an image is alone with its id, or the id is in `overtaken` (`AloneInv`), or, where nothing
  was raced, the others are builds told to stop, or at their end (`PeersInv`); and the
  row a thread has in hand is still that row, or gone and the thread about to clear up
  (`AttachInv`).
  - `NamesInv`: a name is chosen by looking at the disk and the table, long before its
    row is there. So a file being written must stay on disk (`StreamFiles`), which
    `HandsInv` gives: what a thread has in hand is in a row; no row and no second upload may
    have its name (`StreamNames`), a row's file holds its own upload or is gone
    (`RowFiles`), and every name on disk is a known one (`DiskNames`), so that the random
    name of the next archive is new.
  - `FoldersInv`: what a thread writes into the folders comes from the source it holds,
    which is the image's own upload; and an id without a row has empty folders, because a
    row is removed only once they are (`Cleared`).
  - `ReadyInv`: at `unpack` the folder is the image's, at `commit` it is whole, and
    until then the row does not say "ready".
  - `UploadsInv`: ids and names come back, uploads do not, so what a thread has in hand
    is of one image for good, whatever was raced. `OwnInv` can therefore follow a file
    to its owner by its upload: an image whose row nobody is about to remove, an upload,
    or a thread that `Working` will bring to `finish` and `sweep`. It also needs `IsoGone`,
    that between the two steps of a removal the ISO does not come back.

**`UpdatesProofs`**: every set of builds, channel and number of threads.

- `UpdatesTypeCorrect`: `Spec => []TypeOK`, here inductive as it stands; one lemma per
  group of actions, over lemmas on the records of settings.
- `StallsAreSeen`: `Spec => []StallCanBeSeen`, inductive with the types: `Start` puts its
  thread at `stamp`, only `Stamp` leaves it and gives the time, nothing takes a time
  away, and a start of the container clears the flag.
- `UpdatesGoForward`: `Spec => NotMovedBack`, an action property. A version travels from
  the registry through a check, the offer, the thread that applies it and the image it
  pulls to the container that recreates the stack; `MovedInv` has a bound for each
  station (`ChecksInv`, `OfferInv`, `ShownInv`, `OverInv`), all against `tags`, which only
  rise (`BuildsInv`). `ForgottenInv` is the one that is easily missed: where digests are
  compared no version is offered, so that none is left over from an earlier build.

**`NetbootProofs`**, over `DownloadProofs`: every set of addresses, lengths, versions,
entries, editions and requests, every cap and number of attempts.

- `CatalogInvariant`: `Spec => []NetbootInv`, the conjunction of the types,
  `DownloadInv`, `StoresAreSound` and `FetchesAreKnown`.
- `DownloadsAreWhole`: `Spec => []FilesAreWhole`. It is not inductive: what is moved
  into place was written over several attempts. `DownloadInv` adds that the `.part` file
  has `call.size` bytes, each at its own place and within the cap, that a reply being
  read goes on at the offset where the file ends, and that at full length the last byte is
  of the version being read.
  `Answer` keeps it by `Keeps`, which either finds the two offsets equal or starts
  again; `EndOfReply` uses it together with `TooShort`.
- `CapIsKept`, `NewEntriesAreNew`: `Spec => []CapHolds`, `Spec => []NewIsNew`.
  `StoresAreSound` adds what a request still has to store: the entries there and those to
  come fit under the cap together, one request at a time stores, and only the first entry of
  one that adds is new. Deletes from threads only make the set smaller (`Smaller`).
- `ReadyImagesBoot`: `Spec => []ReadyBoots`. `BootInv` follows one run through its list of
  files: the download under way is of the next one (`CallIsNext`), the files no longer
  on the list fit the edition that was looked up (`FilesAreOfEdition`), and while a run
  is under way the row does not say "ready" (`RunHasRow`), so that "ready" is only said
  with the list empty.

The steps of `Releases` and the images' own fields are stutters for what does not name
them.

**`ReleasesProofs`**, over `NetbootProofs`: every finite set of numbers published, every
list of the catalog, every set of pages and every pair of periods with the shorter one
for failed looks.

- `CachesAreRecent`: `Spec => []AnswersAreRecent`. A lookup takes the time first, asks the
  mirror later and stores last, so the invariant adds `LookupsAreInTime`: the time a
  lookup took is no later than the one at which the mirror answered it.
- `CatalogTypeCorrect`: `Spec => []TypeOK`, of both components.
- `BetasAreSuperseded`: `Spec => []BetasAreAhead`. A page is made of two answers of
  different ages, so what is said of them is relative to a time: an answer `Covers` time t
  if, for every version that was out before t, it holds one of that major at least as new,
  and leaves as pre-releases only newer ones. `ReadsInv`: the cached answer covers the time
  it was read, and the one on a page covers the time the page looked it up, less Ttl. The
  step from one to the other is `AnswersAreRecent`, and the next version to come out does
  no harm, since it comes out later (`CoveringIsKept`). What the mirror carries covers now
  (`MirrorIsSound`), because versions come out in order, one of them from the start
  (`OutInOrder`). The merged list then has a release that supersedes the beta.
- `NewestIsPreselected`: `Spec => []PreselectedIsNewest`. `ReadsInv` adds that a known
  answer has a release, and none of its pre-releases among them (`Sound`).
  `ListedWell` says what merging makes of that: the first default of the list is the
  newest release found. The pre-releases put in front only move it (`Precedes`).

Both rest on what sorting returns. That a finite set can be put in order (`CanBeSorted`)
is an induction over its size, argued by the least size at which it fails
(`LeastNumber`, from the library's theorem on well-founded relations), since a set may
have an element that nothing comes after (`LastElement`).

**`AccountsProofs`**: every set of accounts, browsers and requests, every limit, window
and lockout.

- `AccountsTypeCorrect`: `Spec => []TypeOK`; `Typed` adds that a request does only what
  its operation has steps for.
- `AdminsRemain`: `Spec => []AdminRemains`. `AdminInv` adds `Fresh`: unless a request is
  late (another one changed the accounts since it read), its row is the present one, and
  another admin exists when it takes one away.
- `SessionsAreCurrent`: `Spec => []SessionsFollowPasswords`. Whoever remembers an account,
  a cookie in a browser, a request's copy of it or the row it read, knows the present
  password or an older epoch (`Current`). For that a new password must be new, which is
  `NumbersInv`: the number of a request in flight is in no row, and no other has it.
- `WrongAnswersAreBounded`: `Spec => []ThrottleHolds`. `RowSound` relates a row to the
  answers that were really given: it counts at least those of the window, and once the
  key is locked, or the row pruned, none is left out. That the row was not changed
  between `record_failure`'s read and its commit is `Undisturbed`.

**`HostConfigProofs`** and, over it, **`DeploymentProofs`**: every set of hosts,
settings, packs and requests. A step of the composition is, for the settings, a step of
`HostConfig` or none (`DeploymentPlaysHost`), so their invariants carry over.

- `HostTypeCorrect`, `DeploymentTypeCorrect`: `HostSpec => []HostTypeOK` and
  `Spec => []TypeOK`. `HostInv` adds to the types that a request which saves, writes or
  uploads carries a database (`Carries`).
- `PacksAreWhole`: `Spec => []NoHalfPacks`. A job whose files somebody removed may end
  with a folder that is not whole, so the invariant adds `HitsAreKnown`: this happens only
  to packs in `mixed`. The lemma `Touched` is where the two meet: whoever changes a
  folder puts it in `mixed` if another job is at work on it.
- `PreviewIsApplied`, `RestoreIsUndone`: `RestoreInv`. Tokens are given out for usable
  files only (`TokensInv`); an apply that has checked its token is the only one, nobody
  writes the staged file meanwhile (`Apart`), and the file is what the token stands for,
  as it was before `RewriteStaged` and as rewritten after it (`Follows`).
- `ForeignStaysOut`: `ForeignInv` says of every request what it carries that will come
  into use (`OwnRequest`): above all, a backup of another machine is applied with an
  address to put in its place.
- `RestoreImplemented`: `Spec => RestoreSpec`. Every step of the settings is one step of
  `Restores` or none (`HostPlaysRestore`): the one that matters is `Replace`, which is a
  `Swap` because `RestoreInv` knows what the staged file has become and whose copy `pre` is,
  and `ForeignInv` which host value it now has. A save is one of this host's addresses by
  `OriginsInv`; an upload writes into the database only where `RestoreInv` has ended.
- `ConfIsCurrent`, `MenuAddressIsCurrent`: `SettledInv`, over `LoopInv`. The event loop has
  at most one save, and a start of the process is alone (`LoopInv`). While no connection is
  left to a replaced file, what is generated is current or a request will still generate
  it, and what a request has in hand to write is what the database says (`AtHand`). An
  upload that writes into the database's file (`NoStray`) is ruled out here, since a file
  moved there leaves `held` set until the restart.
- `BakesAreCurrent`: `Spec => []BakedIsCurrent`. `BakeInv` is stated for databases that are
  this host's own and re-bakes nothing crossed (`Steady`): the `boot.wim` is what it should
  be, or being made of the present packs and address, or a re-bake is still to come
  (`Yet`). `OriginsInv` gives that such a database was never a restored one, and that
  only a save changes it.

**Assumptions.** Constants get what the code justifies, and no proof uses more.
`ImageRuns`: `MaxUploads` is a number (`UploadsAssumption`), ISO names are not numbers
(`NamesAssumption`). `Updates`: builds are positive numbers of one kind each
(`BuildsAssumption`), the channel and the installed build exist (`HostAssumption`).
The catalog: there is a version, an attempt, an address and an edition besides
the live one, lengths and caps are numbers, every edition names an address for each file
(`DownloadAssumption`, `EditionsAssumption`, `BoundsAssumption`); the periods and bounds
of `Releases` are numbers, a failed look is kept no longer than another, and that one for
some time (`ReleasesAssumption`: 10 minutes and 6 hours in the code); what is published
and what the catalog lists are versions, and at least one is published
(`NumbersAssumption`). `Accounts`: no account and no browser has the name that stands for
none, accounts are finitely many (`PartiesAssumption`), the bounds are numbers
(`LimitsAssumption`), the operations offered are the code's (`OfferedAssumption`), and a
lockout lasts at least as long as the window, as in the code (900 s against 300 s)
(`ThrottleAssumption`). The deployment: this host has an address and the settings
a value (`ValuesAssumption`), the bounds are numbers (`HostLimits`), startup is no request
(`SlotsAssumption`), no file is not a file (`NothingAssumption`), and boot packs are
packs, of which there is one (`PacksAssumption`).

**Checked by TLC only.** Every liveness property (`StoppedRunRemoves`, `BuildEnds`,
`UpdateEnds`, `StaleOfferRetracted`, `LatestConfIsRun`, `RunEnds`): fairness is out of
their reach. And the four counterexamples.

## Not modelled

- **Boot tracking, dashboard and status stream.** Nothing else reads this state. The caps
  are soft: seen clients are counted and then inserted on threads, boot events are pruned
  with a probability, so no bound holds that could be stated. `ratelimit.allow` is one
  section under a lock that only skips the recording of an event.
- **Boot menu.** Enabled, default, order and boot arguments: one commit, then one render in
  the same request. What renders that overlap do to the menu is in `HostConfig`, by the
  address. Two requests that set different defaults at once can leave two rows with the flag;
  the menu then counts down for the first. The text of the script is wording.
- **nfs and smb watchers.** Each poll starts afresh from the interface in the file. What
  they read while `dnsmasq.conf` is truncated (no interface: every address) lasts until
  the next poll, a few seconds. `reload.sh` belongs to older compose files.
- **Catalog text.** Validation of entries, templates, scraping of mirror pages: strings.
  An entry is one of a few contents, a listing a set of versions. Also left out: extra
  files, the finish of an XCP-NG image, the cache of a rolling distro's current build.
- **Image detection.** Which distro an ISO is, where its kernel is, its command line.
- **Bulk** is modelled as its single requests: that its tasks run one after another in
  one response, and share one commit, is not.
- Password hashing, the check of codes, password rules, log parsing, metrics, templates,
  host probing, column migrations: no state of their own, or straight-line code.

## What is left

1. Proofs: an abstract specification of what an update promises, and that `Updates`
   implements it; that `Download` alone, without the catalog, implements a file that is
   absent or whole.
2. Runs of their own for what is reachable but excluded: a Delete of a queued image
   (CHANGELOG.md:274) and a failed Reprocess that leaves its image in the menu
   (CHANGELOG.md:740).
3. Larger instances: three requests in `Deployment`, two pages and a check that overlap
   three lookups in `Releases`.
