# Formal models of Blink Downloader

Blink Downloader takes the motion clips of a Blink camera account, keeps them
on local disk or with a cloud provider, has an AI model analyse them, sends
alerts, and shows it all in a web application.  This directory holds TLA+
models of its back end, the TLC configurations that check them and the TLAPS
proofs about them.  Paths are relative to `src/backend/app/` unless they start
with `docs/` or `src/`.

Contents: 1 the system, 2 the models, 3 the runs, 4 the proofs,
5 where code and documentation part, 6 what is left out, 7 the plan.

## 1. The system

| Process | What runs in it |
|---|---|
| API | FastAPI request handlers, the live view manager and its sweeper, the preview cache, in-memory link sessions |
| Worker | arq jobs from a Redis queue: sync, downloads, analysis, alerts, archiving, sync-module storage, model download |
| Postgres | every row; one transaction per request or per job phase |
| Redis | the job queue, alert and rate-limit keys |
| Disk, S3, Google Drive, OneDrive | the bytes of clips |
| Blink, AI providers | external services |

### 1.1 What makes it hard

A job is a coroutine.  It loads rows in a session that keeps what it has read
(`expire_on_commit=False`), works across awaits of the network and the disk, and
commits what it computed from what it read.  Several jobs run at a time in a
worker (arq's `max_jobs` is left at its default), next to the API's requests,
and nothing but Postgres' row locks keeps them apart.  arq gives three ends to a
job, and they differ:

- `arq.Retry` (only `download_clip` raises it) puts it back into the queue;
- any other exception, and the job's `timeout`, ends it for good: the job is
  cancelled at the await it has reached;
- a worker that dies, or is shut down, leaves its jobs to be run again from
  their arguments, while `max_tries` (`worker/main.py:75-116`) allows.

So the recurring hazards are state read before an await and used after it, two
jobs on one clip, an effect outside the database (a file, an upload, a
message, a key) that a later failure does not undo, and a status that is
written on one kind of end only.

### 1.2 Components

Each with its state, its operations, whom it works with, and what makes it
correct.  `PROJECT.json` has the same list with sources and status, and under
`hazards` the lines where each can go wrong.

| Component | State | Operations | Works with | Correct when |
|---|---|---|---|---|
| Clip discovery (`worker/tasks/blink_sync.py`, `download.py`) | `blink_accounts.last_sync`, camera and clip rows, the queue | sync, "sync now", enqueue, download | Blink, clip store, analysis | no clip is passed over, each is downloaded by one job, syncing goes on |
| Clip store (`integrations/archive.py`, `storage/service.py`, `api/clips.py`) | `storage_backend`, `storage_path`, files, objects | download, archive, auto-archive, restore, delete | clip discovery, analysis (auto-archive), providers | the bytes survive every move, the row says where they are, a deleted clip stays deleted and leaves no file |
| Clip analysis (`ai/pipeline.py`) | `analyses`, `recognized_faces`, events, `ai_usage` | analyse, analyse again, report a false positive | alert delivery, biometrics, clip store | one current analysis, usage is kept, reports are honoured, alerts belong to analyses, no standstill on locks |
| Alert delivery (`worker/tasks/alerts.py`, `alerts/`) | settings row, Redis dedup key | send, change settings | analysis, sync | one message per channel and window, nothing suppressed for nothing, channels independent |
| Sync Module local storage (`sync_module/`, `worker/tasks/sync_module.py`) | module status, item rows, files, the USB drive | refresh (asked for or periodic), download and delete an item | Blink, disk | rows, files and drive agree, statuses are left again |
| Live view (`livefeed/live_stream.py`) | two tables of sessions, ffmpeg processes, relays, feeds, Blink clients, HLS directories | start, heartbeat, stop, sweep, shutdown | Blink | whatever is left of a stream belongs to a session or to somebody who will stop it, the tables agree, idle sessions are stopped |
| Camera previews and live clips (`livefeed/service.py`, `storage/service.py`) | preview files, `Camera.preview_path`, view settings | fetch, write, rename | Blink, disk | a path in a row leads to a whole image of that camera |
| Account linking (`blink/linker.py`, `api/blink.py`) | pending two-factor sessions, the account row | link, verify, expire, unlink, restart | Blink | one account, one use of a pending session |
| The stored Blink token (everything that talks to Blink) | `encrypted_token_data`, the account's status | load, refresh, write back, forget | sync, previews, live view, Sync Module jobs | the stored token is one that Blink still takes |
| Users and setup (`api/setup.py`, `api/users_admin.py`, `cli.py`) | users | first administrator, create, demote, deactivate, delete | - | there is always an administrator |
| Camera batteries (`blink_sync.py:184-247`) | battery state and events | notice, record, alert | sync, alerts | the history ends with what the row shows, one alert per drop |
| Arming and motion detection (`sync_module/service.py`, `blink_sync.py`) | `armed`, `motion_enabled` | switch one, switch all, fetch | Blink | what is shown is what Blink has |
| Storage settings and directories (`api/settings.py`, `storage/`) | directory and quota, directories on disk | choose, create, rename, delete | downloads | no directory operation takes a clip away |
| Storage integrations (`integrations/service.py`, `integrations/cloud.py`) | one settings row, one pending flow, folders at the provider | connect, disconnect, browse, create, rename, delete | providers, archive jobs | a callback is used once, no recording goes with a folder |
| Biometrics (`biometrics/`) | people, samples, images, the model's status | enrol, match, report, delete, check the model | analysis, disk | a report keeps the face away, images go with their people, the status is left again |
| Settings singletons, AI settings (`db.py`, `ai/service.py`) | single rows | make on first use, read, save a form | analysis | one row, linked tiers agree |
| Learning notes, statistics | single rows | read, write | analysis | documented as last writer wins |
| Vehicles (`vehicles/`, `ai/pipeline.py:439-512`) | one row per camera, proximity events, the breach event of a clip | register, change, remove, measure | analysis | a breach is reported when somebody is near, and only then; events and history agree |
| Rate limiting, cryptography, video tools, AI providers | counters or none | pure functions, library calls | all | - |

## 2. The models

| Module | Models | Proofs | Checked by |
|---|---|---|---|
| `ClipVault` | what clip storage promises, without jobs or places | | `store_vault` |
| `ClipLifecycle` | what a clip's discovery and its storage rely on each other for: its row and its one download | `BlinkSync_proofs`, `ClipStore_proofs` | `sync`, `store_safety` |
| `ClipStore` | the jobs and requests that create, move and delete one clip's bytes; implements `ClipVault` and the second half of `ClipLifecycle` | `ClipStore_proofs` | `store_*` |
| `BlinkSync` | chains of syncs, insertion, `last_sync`, download jobs; implements `ClipLifecycle` for each clip | `BlinkSync_proofs` | `sync`, `sync_gap` |
| `ClipAnalysis` | `analyze_clip` jobs and a false-positive report, with row locks | `Recognition_proofs` | `analysis`, `analysis_current` |
| `AlertDelivery` | `send_alert` jobs of one camera and reason | `AlertDelivery_proofs` | `outlets_safety` |
| `SyncModuleStorage` | refresh and item jobs of one Sync Module | `Storage_proofs` | `files_safety`, `module_stuck` |
| `LiveView` | the live view session manager | `LiveView_proofs` | `services_live` |
| `BlinkLinker` | requests that link and unlink the account | `Accounts_proofs` | `services_safety` |
| `BlinkToken` | who loads, exchanges and writes the stored token | `Accounts_proofs` | `services_safety` |
| `Administrators` | setup, changes of users, the recovery command | `Accounts_proofs` | `services_safety` |
| `CameraBattery` | battery levels, their history and alerts | `Cameras_proofs` | `services_safety` |
| `CameraSwitches` | arming and motion detection | `Cameras_proofs` | `services_safety` |
| `OAuthFlow` | connecting Google Drive and OneDrive | `Accounts_proofs` | `services_safety` |
| `CloudFolders` | the folder browser of S3, Google Drive, OneDrive | `Storage_proofs` | `services_safety` |
| `StorageFolders` | the storage directory, its quota, the directory browser | `Storage_proofs` | `files_safety` |
| `CameraPreview` | preview requests that share files | `Cameras_proofs` | `outlets_safety` |
| `FaceLibrary` | people, face samples, images, matching | `Recognition_proofs` | `services_safety` |
| `FaceModel` | the check of the face model | `Recognition_proofs` | `files_safety` |
| `AISettings` | the settings row of the AI tiers | `Recognition_proofs` | `services_safety` |
| `VehicleProximity` | a camera's vehicle and how near people come to it | `Cameras_proofs` | `services_safety` |
| `MC...` | instances for TLC | | |

The modules meet at the queue.  `BlinkSync.EnqueueDownload` is the download
job that `ClipStore` starts with.  `ClipLifecycle` says where: the sync brings
a clip to `HandedOver`, a pending row whose one download is due, and
`ClipStore` begins there (`Life!Continued`).  Each of the two implements the
lifecycle, so what either assumes of the other is what the other was shown to
do: no sync inserts a row twice or enqueues a second download, and nothing in
the store but that download makes a pending clip a downloaded one.
`BlinkSync.FollowUp` is `ClipAnalysis.Enqueue` or
`ClipStore.EnqueueAutoArchive`; `ClipAnalysis.Alert` is where the jobs of
`AlertDelivery` come from, and `CameraBattery.QueueAlert` another.  A job in
the queue carries ids and arguments and nothing that it has read, so each
module may take the arrival of its jobs as free choice.

One transaction of the sync writes clips, batteries, switches, the account's
token and its status, and four modules model it: `BlinkSync`,
`CameraBattery`, `CameraSwitches`, `BlinkToken`.  They share no column, and
each has the read, the await and the commit that its own columns go through,
so that what the others do is a stutter of it.

Conventions shared by all modules:

- One step per stretch of code between two awaits that others can see: a
  commit, an effect on a file, an object, the drive or Redis, a read that is
  used later.  A job's local variables are fields of its record.
- `mishaps` (`hazards` in `SyncModuleStorage`; `troubles`, `slips`, `crossed`,
  `together`, `trouble`, `clash`, `tangled`, `mixed`, `dropped`, `astray`,
  `raced`, `moved`, `halved` in the smaller modules) is a history variable: the
  kinds of trouble met so far.  No guard reads it, except `GuardedSpec` (section 4).
  It is there so that a property can say exactly *which* troubles it survives;
  every invariant names the fewest it has to exclude.
- Death of the worker and the job's timeout are actions of their own, possible
  at every step, so that "committed" and "done" are never confused.
- Definitions marked "Mutant" are plausible mistakes in the definition that
  follows.  No action uses them; each property is shown to fail when the one
  `PROJECT.json` names takes the place of the definition.

### 2.1 `ClipStore`

State: `row` (`Pending`, `Gone`, or the place `storage_backend`/`storage_path`
name), `copies` (the places that hold the bytes), `clipPath` (what
`clip_path()` returns at this moment: it follows the camera's name), `job`.
One clip is enough: clips share no row, file or object key.

A place is `<<"local", path>>` or `<<provider, key>>`.  S3 and OneDrive replace
the object when `<clip id>.mp4` is uploaded again (`Overwriting`); Google Drive
hands out a new id each time (`FreshKeys`).  This is the distinction that
decides what two archives of one clip do.

| Code | Actions |
|---|---|
| `download_clip` | `LoadDownload`, `SkipDownload`, `WriteDownload`, `DownloadFails`, `DownloadAuthFails`, `CommitDownload` |
| `archive_clip_job`, `auto_archive_clip_job`, `archive_clip` | `LoadArchive`, `LoadAutoArchive`, `SkipMove`, `Fetch`, `Upload`, `UploadFailsLate`, `MoveFails`, `RemoveSource`, `RemoveSourceFails`, `CommitMove` |
| `restore_clip_job`, `restore_clip` | `LoadRestore`, `Fetch`, `WriteRestored`, `RemoveSource...`, `CommitMove` |
| `delete_clip`, `_delete_one` | `RequestDelete`, `EraseFile`, `DeleteFails`, `CommitDelete` |
| arq, uvicorn | `WorkerCrash`, `JobTimeout`, `ApiCrash` |
| a rename taken over by a sync | `RenameCamera` |

Mishaps: `twins` and `cross` (jobs overlapped that move the clip the same way,
or not), `crash`, `leftover` (an upload or write that failed late, or a
cleanup that did), `half_delete` (the file went, the row stayed).

Abstractions.  A file or object either has the clip's bytes or is absent: a
download that `ffprobe` rejects is retried (`DownloadFails` from `stored`); one
it accepts is taken for good.  A thread of `asyncio.to_thread` whose job was
cancelled is not followed any further.  Thumbnails are left out but for the
failure of their deletion, which comes after the video's.

### 2.2 `BlinkSync`

A point in time is the set of media uploaded before it, so `lastSync` is a set
and `list_media(since)` is `uploaded \ since`.  One camera stands for all.  A
sync is `Start` (interval, account), `ListMedia` or `SyncFails`, `Write`
(cameras, `_insert_new_clips`, `last_sync`: one transaction, whose first
statement, the upsert of the camera row, makes every other sync wait until it
commits), `EnqueueDownload` for each new clip, and `SyncEnds`, the `finally`
block.  `SyncCutOff` is the timeout or an unexpected error, after which the
`finally` block still runs; `ChainBreaks` the two ways in which it does not:
the interval is read before the `try` (58-62), and `enqueue_job` itself may
raise.  `WorkerCrash` kills running syncs (one try) and downloads (more) and
starts the worker again, whose `startup` enqueues a sync: with "Sync now"
(`SyncNow`) this is how chains come to overlap.

The download job appears with its phases and what follows it; the bytes are
`ClipStore`'s.  Not in the model: the first sync's window, rounding of
`since` to seconds, `account.status` (only displayed), batteries, media that
the feed marks deleted, clips deleted by an administrator.  For the last
reason a lifecycle is that of one row: a clip that is deleted while a sync has
it listed gets a new row with a new id, and a lifecycle of its own.

### 2.3 `ClipAnalysis`

A job's transaction is part of its record until `Commit`: READ COMMITTED, so
that nobody sees it before.  `Supersede` takes the snapshot of the `UPDATE`,
`WriteRow` waits for the rows of that snapshot, locks those still current and
inserts the new row; `Upsert` locks what the run upserts, one row after the
other: the event of a breach, the recognised face, and the other events in the
order in which the provider listed them; `Commit` makes it all visible. `held`
are the rows whose lock a transaction has, `Wanted` those that its next
statement locks, and a step that locks has `Unhindered` as a guard: nobody else
holds one of them.  `Ahead` is everybody it waits for, directly or through
others, for chains of any length.  Provider calls matter for their `ai_usage`
rows: `_call_tier` commits them at once when the call fails, otherwise they are
flushed and share the fate of the transaction.

A clip has several faces that resemble the person, and each keyframe is matched
by itself.  `Match` takes any of them but those that are negative samples: such
a face is nearer to itself than to any other, and a vetoed one names nobody,
while the clip's other faces may match as before.

`Report`, `DeleteFace`, `ReportFails`, `CommitReport` are
`report_false_positive` (`biometrics/service.py`): it keeps the face that
resembles the person most (`captured`) as a negative sample, deletes the row of
the recognised face and reverts the label of the current analysis, of no other.
`AbortJob` and `AbortReport` are Postgres' deadlock detection: they abort whoever is
`Deadlocked`, that is, `Ahead` of itself.

Scores, prompts, escalation thresholds, baselines, proximity (2.11) and the events'
contents are left to nondeterminism; the text of the summary, which a report
does not touch, and a clip deleted during its analysis are left out.

### 2.4 `AlertDelivery`

`Start` reads the settings and looks at quiet hours, `ShouldDedupe` is
`SET NX EX`, `Deliver` one channel's attempt: confirmed, or
`AlertDeliveryError`, after which the message may have arrived all the same.
`CutOff` is the job's 30 s timeout or an exception that `_deliver` does not
expect; `WorkerCrash` re-runs the job, whose claim is still in Redis.  Time is
a counter of ticks; the time of day is the counter modulo `Day`.

### 2.5 `SyncModuleStorage`

The rows of one module's items with their ids, the files by row id, the drive,
the module's status.  A refresh is `StartRefresh` (status `refreshing`,
committed), `PollManifest` or `PollFails`, `ReadItems`, `CommitRefresh` or
`RefreshConflicts` (a row it updates is gone, or one it inserts is there:
`StaleDataError`, `IntegrityError`).  The item jobs are `StartDownload`,
`Prepare`, `WriteFile`, `CommitDownload`, and `StartDelete`, `DeleteOnDrive`,
`CommitDelete`; `TaskFails` is `BlinkError`, `WriteFails` a `StorageError`
(which is none), `TaskRowVanished` an update of a row that is gone.  Loading a
row and its first commit are one step; row ids that nothing refers to any more
are reused, which keeps the state space finite.

### 2.6 `LiveView`

`start_session` holds a lock from `Acquire` to `Register`; `_stop` takes none
and has three awaits, the process, the feed and the client, so that a request,
the sweeper and shutdown may all be stopping the same session.  A stream is
what a start takes over piece by piece: relay, feed, client, directory,
process (`OpenRelay`, `Acquire`, `Spawn...`, `Playlist...`, `Register`), and
each piece can be left behind.  `Sweep` makes its list and then goes through
it; a session that was used again (`Access`) or stopped meanwhile is stopped
from the list all the same, as in the code.  `FeedTimesOut`
cancels the feed, and with it everybody else who awaits it
(`live_stream.py:312`): a sweeper that is cancelled so is `dead`.  A feed that was
`cancelled` stays so: a stop of the same session that comes to await it later
is raised out of there as well (`FeedRaises`).  `lost`
streams are those of a start that met an error it does not catch, and of a
stop that shutdown cut off.

### 2.7 Accounts: `BlinkLinker`, `BlinkToken`, `Administrators`

`BlinkLinker`: handlers run on one thread and interleave where they await.
`LinkAccount` counts the accounts and goes on to sweep expired sessions;
`BlinkAccepts`, `CodeRequired`, `BlinkRefuses` are Blink's answers; a pending
session is taken out after the await (`ForgetSession`), so that two requests
with one code meet there; `Persist` inserts.  `together` is the history of two
links that were under way at once.

`BlinkToken`: the token is `current` (Blink takes it) or `stale`.  A user of
it loads it (`LoadToken`), may be given another in exchange (`Refresh`: every
other copy is stale then), and either writes it back, which only a sync does
(`SyncSucceeds`), or forgets it (`UserEnds`, `AuthFails`).

`Administrators`: `UpdateUser` and `DeleteUser` count the other administrators,
`SaveRole` and `RemoveUser` write; `RunSetup` counts users and `SetUp` inserts
after the password has been hashed.  `CreateAdmin` is the command on the host.

### 2.8 Cameras: `CameraBattery`, `CameraSwitches`, `CameraPreview`

`CameraBattery`: `FetchLevels`, `ReadPrevious`, `CommitLevels` (rows and
`BatteryEvent`s), `QueueAlert` one by one.  `owed` counts, for a camera, the
drops to low that came into its row less the alerts that were queued, as long
as it has no `trouble`: another sync has committed between a sync's read and
its commit (`overlap`), or a sync ended with an alert to be queued (`cut_off`).
A later change that is compared with the row as it is ends the trouble.

`CameraSwitches`: `real` is Blink's, `shown` the rows'.  A request switches at
Blink one camera after the other (`BlinkSwitches`, `BlinkRefusesSwitch`) and
then writes the rows it has answers for; its session writes a row only if the
value is not the one loaded.  A sync fetches all and writes all.  Its
`mishaps` are cleared by a sync that has everything to itself, since that one
puts all right.

`CameraPreview`: `preview.jpg.part` is opened, written and renamed, and two
requests for one folder share it; the model keeps whose bytes each file has,
or that they are torn, and which file each open descriptor writes to.

### 2.9 Storage: `StorageFolders`, `OAuthFlow`, `CloudFolders`

`StorageFolders`: the checks before `rename` and `rmdir` and the system calls
themselves, which decide; downloads load the directory, write and commit the
path.  A form loads the row (`LoadStorage`) and makes two commits, the directory
(`SetDir`) and the quota (`SetQuota`); each sends its column only if it is not
what was loaded before.  One level of directories stands for the tree.

`OAuthFlow`: one row has one pending flow; `BeginFlow` and `SetVerifier` are
two commits, `Callback` loads the row, `Consume` checks what was loaded
(`Matches`: provider, state, time) and clears, `Connected` writes the refresh token
with the client that was loaded.  States are fresh; callbacks may come again and
at once, and `raced` are the flows that two of them had loaded.

`CloudFolders`: `cloud` selects the provider.  On S3 a folder is a marker or a
prefix, a rename is check, mark, unmark; on the drives it is an item with an
id and a title.  Archive jobs store and remove recordings meanwhile.  One
level of folders stands for the paths below a parent.

### 2.10 Recognition: `FaceLibrary`, `FaceModel`, `AISettings`

`FaceLibrary`: faces are points on a line, likeness is nearness, so that ties,
thresholds and vetoes all occur; `Matched` is `best_match`.  Requests load the
person with the samples, write or remove files, and commit last.

`FaceModel`: settings page and job both hold the row as they read it and write
only the columns they changed (`Flush`), which is how a verdict gets next to a
pack it is not about (`mixed`).

`AISettings`: the savepoint that makes the row on first use (`LookUp`,
`Insert`, `InsertConflict`), and `Save`, whose `Dirty` columns are those
SQLAlchemy would send.

### 2.11 `VehicleProximity`

Two halves.  The geometry is a set of functions over whole pixels: lengths are
compared by their squares, quotients by cross-multiplication, so that no
rounding is left but the one the code asks for: `Rounded` is the nearest tenth of
a foot, half to even, of a distance of any size (`Tenths`).  What floating-point
numbers do at the very boundary of a threshold is not modelled.
`ClosestBreached` is `_closest_proximity`: the first person with the least
distance in tenths of a foot.  `Near` is the definition that it is compared
with, by discs and bands around corners and edges instead of a distance.

Around it, `PutVehicle` and `RemoveVehicle` against `LoadVehicle` and
`CommitVerdict`, which has what was loaded and writes under its id; a breach
of a vehicle that is gone meets the foreign key (`VerdictLost`).  The rest of
an analysis is `ClipAnalysis`.

### 2.12 Instances that move one part at a time

`MCServices`, `MCOutlets` and `MCLocalFiles` each check several modules in one
run.  The modules of an instance share no variable, and
no property looks at two of them.  A behaviour chooses with `turn` which one
moves; the others stay as they begin.  So every behaviour of every module is
checked, and the numbers of states add up instead of multiplying.  `StillInit`
lets a part that does not move begin in one state only; in `MCServices` and
`MCLocalFiles` it also picks one beginning for parts that move, where another
one is either symmetric (which directory, which pack) or reached in a few
steps (an empty drive that then changes).  For the same reason slots and things of
different modules may share model values, and one symmetry serves all.

`MCClipAnalysis` has a `turn` too, between two restrictions of `ClipAnalysis`:
two faces and neither events nor breaches, or one of the faces with all of
them.  What is stored, current, named and metered does not depend on the events
(a transaction only holds more rows), and the order of locks does not depend
on how many faces there are.

## 3. The runs

Twelve configurations; states are distinct ones, times those of two TLC workers.

| Run | Instance | Shows |
|---|---|---|
| `store_safety` | two jobs, S3 and Drive, two paths, two Drive ids; 1.07 M states, 100 s | `CanonicalCopy`, `StoragePathResolves`, `BytesSurvive`, `DeletedLeavesNoFile`, `StoreKeepsLifecycle` |
| `store_vault` | the same with one path and one id, `FairSpec`; 0.27 M states, 120 s | `VaultPromise`: each step keeps what `ClipVault` promises; `JobsEnd`: every job ends, retries and crashes included |
| `store_overlap` | as `store_safety` | violation: an archive and a restore delete both copies |
| `sync` | two chains, two media, limit 1, two tries; 1.1 M states, 135 s | `SinceCovers`, `RowsAreQueued`, `FollowedOnce`, `SyncsGoOn`, `SyncKeepsLifecycle`; no deadlock |
| `sync_gap` | the same | violation: a clip uploaded during a sync is passed over |
| `analysis` | two analyses of two tries and a report; two faces, or one with two event types; 2.0 M states, 125 s | `Consistent`, `LoneRunRepairs`, `UsageKept`, `ReportHonoured`, `DeadlockCauses` |
| `analysis_current` | the analyses alone | violation: two current analyses |
| `outlets_safety` | two alerts, two channels, a window of one tick, days of four; two cameras, two folders, two requests; 2.1 M states, 100-160 s | `AlertInv`, `OnePerWindow`, `SuppressedForAnother`, `PreviewInv` |
| `files_safety` | one item, two refreshes, one item job, a drive that changes once; two directories, one clip, two requests; two packs, two pages, one job; 1.9 M states, 105 s | `Consistent`, `CopiesKeepTheirRows`, `RefreshReconciles`, `StorageInv`, `ModelInv` |
| `module_stuck` | one item, `FairSpec` | violation: a module stays "refreshing" |
| `services_safety` | two slots for whatever is under way, two of each thing, three people, both drives, all three clouds; eight setups of a vehicle, 71 sightings of people; one person, two directories, two samples; two forms; 0.85 M states, 115 s | `LinkInv`, `TokenInv`, `BatteryInv`, `SwitchInv`, `AdminInv`, `OAuthInv`, `FolderInv`, `VehicleInv`, `FaceInv`, `AIInv` |
| `services_live` | two cameras, two requests, two streams, `LiveFairSpec`; 33 k states, 20 s | `LiveInv`, `NothingLeaks`, `IdleIsSwept`, `RequestsEnd` |

`CHECK_DEADLOCK FALSE` stands where the system may really stop: every job is
over and nobody asks for more.  A system of syncs never stops, so the `sync`
run keeps the check.

An invariant whose name ends in `Inv` conjoins a module's type invariant with
its safety properties, each a definition with its own comment:

| Invariant | Conjuncts besides types |
|---|---|
| `Consistent` (analysis) | `CurrentKept`, `SoleCurrent` |
| `Consistent` (Sync Module) | `CopiesExist`, `BusyRowsHaveJobs` |
| `AlertInv` | `ChannelsIndependent`, `QuietHoursWrap` |
| `LiveInv` | `TablesAgree`, `ListedIsWhole`, `ActorShape`, `OwnsApart`, `Owned`, `GivenUpIsClosed` |
| `LinkInv` | `SessionUsedOnce`, `OneAccount` |
| `TokenInv` | `TokenKept` |
| `BatteryInv` | `BatteryHistory`, `LowAlerted` |
| `SwitchInv` | `ShownIsReal` |
| `AdminInv` | `AlwaysAnAdmin`, `SetUpOnce` |
| `OAuthInv` | `AcceptedOnce`, `VerifierFits` |
| `FolderInv` | `RecordingsStay`, `WantedAreListed`, `TitlesDiffer` |
| `StorageInv` | `FilesStay`, `PathsResolve`, `OneForm` |
| `PreviewInv` | `PreviewsAreSound` |
| `FaceInv` | `ReportsVeto`, `SamplesHaveImages`, `ImagesGoWithPeople` |
| `ModelInv` | `ReadyIsForThisPack`, `DownloadingIsPending` |
| `AIInv` | `FirstUseWins`, `LinkedTiersAgree` |
| `VehicleInv` | `NearIsBreach`, `EventHasHistory` |

### 3.1 The properties that say most

- `BytesSurvive`: upload before delete and write before delete are enough.
  Crash, timeout, failed cleanup, two archives or two restores at once:
  none of them loses the last copy.  Only an archive that overlaps a restore
  (`cross`) does, and a half-done delete.
- `StoragePathResolves` excludes crashes, because a move that ends between its
  cleanup and its commit leaves a row that points at nothing (section 5).
- `SinceCovers`: `last_sync` moves past a clip without a row in two cases
  only: uploaded between listing and commit (`gap`), or skipped because its
  camera was not known when it was listed (`unknown`).
- `FollowedOnce`: a downloaded clip is handed to the analysis or to the
  archive policy once.  A crash after that and before the job's end does not do
  it again, since the re-run finds `downloaded_at` set.  A crash before it
  means that it never happens: the property excludes `cut_off` for "at least
  once" and for nothing else.
- `SyncKeepsLifecycle`, `StoreKeepsLifecycle`: overlapping syncs that list the
  same clip insert one row and enqueue one download; the download alone
  obtains the video, once, whatever is run again; no job that commits after a
  deletion brings the clip back.  No mishap is excluded in either.
- `SoleCurrent`, `LoneRunRepairs`: analyses whose write phases do not overlap
  leave one current row, and the next that runs alone repairs what others left.
- `DeadlockCauses`: the order in which analyses lock rows (snapshot, breach,
  face, events) leaves them two ways into a deadlock, of any number of
  transactions.  One is that providers listed the same events in different
  orders.  The other needs a report: it locks the face first and the analysis
  second, an analysis the other way round.  Upserting the face or the breach
  elsewhere would open a third.
- `ReportHonoured`: the analysis that a report reverted stays so, and the face
  that it kept names the person no more, whatever analyses come later; another
  face of the same clip may, since only the best match is kept.
- `OnePerWindow`: two messages on a channel go back to one claim, or to claims
  a window apart, whatever is retried or changed in between.
- `CopiesKeepTheirRows`: a refresh drops the row of a downloaded item in one
  case, when the item was first downloaded between its read and its commit.
- `NothingLeaks`: every ffmpeg, relay, feed, client and directory of a live
  view is some session's, or in the hands of a start or stop under way,
  although stops take no lock and any of their awaits may be cut off.
- `IdleIsSwept`: an idle session is stopped, unless the sweeper itself has
  died of another stop's cancelled feed; `RequestsEnd` holds without that
  exception.
- `TokenKept`: the stored token is useless in three cases only, each named: it
  was exchanged by something other than a sync, a sync was cut off after the
  exchange, or an overtaken sync wrote its old one.
- `AcceptedOnce`: a flow is accepted again only by a callback that had loaded it
  before the first one's commit, whatever mixture of starts, callbacks and forms
  the row has become.
- `LowAlerted`: for every drop to low in a row an alert is queued or waits to be,
  and none for anything else; the two ways to lose or double one are named per
  camera, and the next change seen from the row ends them.
- `SessionUsedOnce`: one code sent twice, an expiry sweep in between, a
  restart: one account comes of one pending session, because `del` after the
  await decides.
- `RecordingsStay`, `FilesStay`: no folder operation takes a clip away,
  although every check of emptiness is stale when it is acted on: `rmdir` and
  `rename` fail on what is not empty, S3 deletes the marker only, a drive's
  folder goes into the trash (and the model counts what is in it as kept).
- `PreviewsAreSound`: two writes that share one `.part` file may tear the
  image (`clash`); the next write alone puts it right, and a row never names a
  file that is not there.
- `ImagesGoWithPeople`: the samples are looked up again after the file work of
  a deletion, so that an enrolment that came in between is not left on disk.
- `ReportsVeto`: whatever is enrolled later, a face equal to a negative sample
  of a person is not matched with that person.
- `NearIsBreach`: a person at the car's depth within the threshold is reported
  whatever the outline looks like, notched, flat or crossing itself, with one
  exception: of two people at the same tenth of a foot only the first counts,
  and may be the one that is just too far away.

### 3.2 Bounds, and why they are enough

- *Two jobs in flight.*  Every hazard of `ClipStore`, `ClipAnalysis` and
  `AlertDelivery` that is known is a race of two: one job's reads against
  another's commit.  Each slot is used again and again (`ClipStore`), so that
  sequences of any length are covered, and the proofs of section 4 are for any
  number.
- *Tries* are the code's: 4 for downloads and 2 for moves in `ClipStore`, 2 in
  `ClipAnalysis`, `AlertDelivery` and `SyncModuleStorage`.  `BlinkSync` has 2
  instead of 4: what it says of downloads depends on whether a try is left.
- *Providers.*  One of each behaviour; two ids for the one that hands out new
  ones, which is one more than a clip can have in use by one job.
- *Paths.*  Two: before and after a rename.
- *Media 1 and 2, limit 1.*  The newest is analysed, the other is not.
- *Window 1, two ticks.*  Alerts within a window and at its end; the
  quiet-hours test is compared for every start and end of a day of four ticks
  at each clock value with the cyclic definition.
- *One item.*  Items of a module share only the refresh that lists them.  The
  drive begins empty: an item gets there by the one change (`MaxChanges`), and
  leaves it by an item job.
- *Two slots* for requests, syncs, watchers, handlers, forms: the services
  look first and act later, and lock nothing, so that two are what an overlap
  takes.  `LiveView` has two requests besides the sweeper and shutdown, so up
  to four actors stop at once.
- *Two streams* with two cameras: a start waits for the other's slot to be
  empty again when both are in use; `LiveView_proofs` is for any number.
- *Three people* in `Administrators`: two that demote each other and one that
  setup or the command adds.
- *Two accounts, two sessions, two links*: one more than there should be.
- *Two provider flows, one client change*: a callback for a flow that another
  replaced, and a client that changed under a pending flow.
- *Two faces* (`MaxFace` 1, `Threshold` 0): equal or not, always above the
  threshold, so that only a veto keeps a match away; two samples, of which one
  may be negative.  `FaceLibrary.ChangeDir` does not go back to a directory
  that was left with images, and `CameraPreview.Rename` gives a camera no name
  it has had: old files would be found again, which no property is about.
- *Eight setups, 71 sightings*: each kind of outline that the geometry treats
  differently (`MCServices`), feet inside, on, beside and beyond its edges,
  heights within and beyond the tolerance at two scales, distances to 28 ft, and
  pairs.  Two rows:
  a vehicle and the one that is registered after its removal.
- *One slot for a model check*: the status keeps a second from being queued;
  `dropped` and `mixed` name the ways around that.
- `enqueued` and `followed` count up to 2, which is "more than once".

Symmetry is used in safety runs only, over jobs, slots, chains, ids, paths, faces
or event types, which no definition tells apart.  In `analysis`, `LoneRunRepairs` is an
action property and is checked under the same symmetry: it does not compare
states more than a step apart.

### 3.3 Fairness

`FairSpec` of `ClipStore` and `SyncModuleStorage` assumes weak fairness of the
steps of each job: arq polls the queue and runs every job it holds, and the
awaits of a job return, raise or time out.  `SyncModuleStorage` adds the
periodic refresh, which enqueues itself again.  Nothing is assumed of
crashes, requests, renames or the drive: they may happen for ever or not at all.
`JobsEnd` therefore rests on the limits on tries, and fails when a try is given
back.  That they do limit a job is proved: `TriesRunOut` (section 4.1).

`LiveFairSpec`: weak fairness of each start's and stop's own steps (awaits
return, fail or time out) and of the sweeper's next round; strong fairness of
`Acquire`, since `asyncio.Lock` wakes its waiters first come first served, so
that one who waits cannot be passed over for ever.  Nothing is assumed of
requests, of ffmpeg or of the viewers' heartbeats.  That no step sends a request
back is proved: `RequestsGoForward` (section 4.4).

## 4. The proofs

Checked by TLAPS for every value of the constants:

| Module | Theorem | Statement |
|---|---|---|
| `ClipStore_proofs` | `TypeCorrect` | `Spec => []TypeOK` |
| | `Inductive` | `Spec => []IInv` |
| | `NoMoveLosesBytes` | `Spec => []BytesSurvive` |
| | `PathResolves` | `Spec => []StoragePathResolves` |
| | `StaysDeleted` | `Spec => NeverResurrected` |
| | `ImplementsVault` | `GuardedSpec => VaultSpec` |
| | `KeepsVaultPromise` | `Spec => VaultPromise` |
| | `CopyInductive` | `Spec => [](IInv /\ CopyInv)` |
| | `OneCanonicalCopy` | `Spec => []CanonicalCopy` |
| | `DeleteLeavesNoFile` | `Spec => []DeletedLeavesNoFile` |
| | `DownloadAlone` | `Spec => [](IInv /\ LifeInv)` |
| | `StoreImplementsLifecycle` | `Spec => StoreKeepsLifecycle` |
| | `NothingRunsForEver` | `Spec => TriesRunOut` |
| `BlinkSync_proofs` | `SyncsAgree` | `Spec => []SyncInv` |
| | `NothingIsPassedOver` | `Spec => []SinceCovers` |
| | `OneDownload` | `Spec => []DownloadedByOneJob` |
| | `EveryRowIsQueued` | `Spec => []RowsAreQueued` |
| | `HandedOnOnce` | `Spec => []FollowedOnce` |
| | `ASyncIsDue` | `Spec => []SyncsGoOn` |
| | `SyncImplementsLifecycle` | `Spec => SyncKeepsLifecycle` |
| | `EachClipLives` | `Spec => Life(m)!Spec` for each clip `m` |
| `Recognition_proofs` | `ACurrentAnalysis` | `Spec => []Consistent` |
| | `CallsAreCounted` | `Spec => []UsageKept` |
| | `ALoneRunRepairs` | `Spec => LoneRunRepairs` |
| | `ReportsAreHonoured` | `Spec => []ReportHonoured` |
| | `CausesOfDeadlocks` | `Spec => []DeadlockCauses` |
| | `LibraryHolds` | `FaceSpec => []FaceInv` |
| | `VerdictIsOfThePack` | `ModelSpec => []ModelInv` |
| | `LinkedTiersStay` | `AISpec => []AIInv` |
| `AlertDelivery_proofs` | `MessagesAreSpaced` | `Spec => []OnePerWindow` |
| | `ChannelsAreAllTried` | `Spec => []AlertInv` |
| | `SuppressedForOne` | `Spec => []SuppressedForAnother` |
| `Storage_proofs` | `ModuleAgrees` | `Spec => []ModuleInv` |
| | `RowsAreTrue` | `Spec => []Consistent` |
| | `FilesKeepTheirRows` | `Spec => []CopiesKeepTheirRows` |
| | `RefreshesReconcile` | `Spec => RefreshReconciles` |
| | `DiskHolds` | `StorageSpec => []StorageInv` |
| | `FoldersHold` | `FolderSpec => []FolderInv` |
| `Accounts_proofs` | `OneAccountIsLinked` | `LinkSpec => []LinkInv` |
| | `StoredTokenIsKept` | `TokenSpec => []TokenInv` |
| | `AnAdministratorRemains` | `AdminSpec => []AdminInv` |
| | `FlowsDoNotMix` | `OAuthSpec => []OAuthInv` |
| `Cameras_proofs` | `BatteriesAreToldOf` | `BatterySpec => []BatteryInv` |
| | `RowsShowSwitches` | `SwitchSpec => []SwitchInv` |
| | `PathsLeadToImages` | `PreviewSpec => []PreviewInv` |
| | `RaysAgree` | off an outline, `PointInPolygon` <=> `InsideUpwards` |
| | `RoundedIsExact` | no number of tenths that a fraction reaches, half to even, is more than `Rounded` of it |
| | `BreachIsNear` | `Breaches` of `DistanceToPolygon` <=> `Near` |
| | `BreachesAreTrue` | `VehicleSpec => []VehicleInv` |
| `LiveView_proofs` | `SessionsAgree` | `LiveSpec => []LiveInv` |
| | `NoStreamLeaks` | `LiveSpec => []NothingLeaks` |
| | `NoRequestGoesBack` | `LiveSpec => RequestsGoForward` |
| | `TheLockIsGivenBack` | `LiveSpec => []LockGoesOn` |

The assumptions are the `ASSUME`s of the modules, which TLC evaluates on the
runs: the bounds are natural numbers, names that stand for "nobody", "none" or
"the default" are no member of the sets they are added to, the overwriting
providers are among the providers (`StoreAssumption`), `Nowhere`, `Pending` and
`Gone` are no places (`PlaceAssumption`), the settings rows an instance of
`AlertDelivery` starts from are settings rows (`StartRowsAssumption`), its
channels are a list without repetitions, as `send_alert`'s is, an outline is a
sequence of points with whole coordinates and a sighting a sequence of people
who stand at such points (`VehicleAssumption`).  The slots of syncs, refreshes
and item jobs are finite in number (`CameraBattery`, `SyncModuleStorage`) where
a proof counts them or needs one id that nobody has, and so are event types,
which analyses list (`AnalysisAssumption`); there is a directory, an item, a
provider kind, since the models choose a first one.  Slots may otherwise be of
any number, infinite included.

The inductive invariants are definitions of the modules they are about, so
that TLC could look for a counterexample to each before it was proved: the
instances of section 3 with the invariant added, and for `FaceModel` two jobs.
`DownloadedByOneJob`, `NeverResurrected`, `TriesRunOut`, `RequestsGoForward` and
`LockGoesOn` are theorems that no run of section 3 repeats: the first two are
parts of what the lifecycle properties check there, and the others were checked
once on the instances of `store_safety` and `services_live`.

### 4.1 `ClipStore`

*The inductive invariant.*  `BytesSurvive` is not inductive: the step that
deletes the source must know that the destination is another place and has
the bytes.  `IInv` adds

1. `TypeOK`;
2. `Shape` for each job: an archive goes from a local place to a cloud place,
   a restore the other way, so source and destination differ; a queued job has
   a try left;
3. as long as there has been no `cross`: `OneWay` (jobs in flight are twins),
   `DstHeld` (what a job has stored is still there: its twins delete on the
   other side only) and `DeleteHasRow`;
4. the two safety invariants themselves, `BytesSurvive` and
   `StoragePathResolves`, which share the steps' case analysis.

The step `NextIInv` is split by what an action does to a job, not by action:
it leaves flight, takes flight, advances, stores, removes its source, commits.
Each of these is one lemma (`LeavesFlight`, `TakesFlight`, `Advances`,
`CommitsStored`, `RemovesSource`, ...), and each action is an instance of one.

*The refinement.*  `phase` is computed from the row and from whether a delete
has begun to erase; `held` is `copies`.  Most steps are stutters
(`UnseenStep`); downloads, uploads and restores are `Gain`, cleanups `Lose`
(never the last copy of a kept clip: `LoseStep` uses the invariant), the
download's commit is `Keep`, and deletes are `Discard` and `Forget`.
`GuardedSpec` is `Spec` without the steps that bring `cross` or `half_delete`:
after those the promise is indeed broken, as `store_overlap` shows.

*The one copy.*  `CanonicalCopy` and `DeletedLeavesNoFile` speak of a clip that
no job holds, and only of histories without mishaps; a proof has to say where
the bytes are in the middle of every job.  `CopyInv` does: with nothing on
record one job at most is in flight (a second one that takes flight is itself
a mishap), `InHand` gives `row` and `copies` for each phase of it, and
`Settled` for no job.  It needs `IInv` for the places of source and
destination, so the two are proved inductive together.

*The lifecycle.*  The row is "downloaded" in any place, and the download is
due while a job of that kind exists.  `Obtain` is the commit of a download
that finds its row pending, as it was when the job looked, long before and
with other jobs in flight, unless an administrator has deleted it.  That is
`LifeInv`: there is one download, in flight its row is pending or gone, and
while a move is in flight the row is not pending.  No step makes a second
download (`NoNewDownload`), and a move takes flight only if the row says that
there is a copy to be moved.

*The end of jobs.*  `Left` counts what a job may still do: the phases of this
try and, for each try after it, one round of phases more.  A step lowers it
for the job it is about and leaves every other job as it is; a failure, a
timeout and a crash go back to the queue with a try less, or end.  With it,
what `JobsEnd` asks of TLC beyond the proofs is fairness: that a job which is
not over can take a step, and does.

### 4.2 `BlinkSync`

`SyncInv` is inductive and has the five properties among its conjuncts; they
need one another and three more facts.  `TodosApart`: a new row is in the `todo`
of one sync at most, and is not queued yet, which is what makes
`DownloadedByOneJob` inductive.  `ListingsCover`: but for the gap and unknown
cameras, what a running sync has listed and what has a row cover all that is
uploaded.  `Phases`: which row a download's phase goes with, which is what
`FollowedOnce` and `RowsAreQueued` rest on.  Most steps change one sync or one
download, and are instances of `SyncMoves` and `DownloadMoves`; the commit
(`WriteStep`), `EnqueueStep`, `UploadStep` and `CrashStep` have proofs of their
own.

*The lifecycle.*  Of one clip's life most steps are stutters (`LifeFrame`).
A commit that finds it without a row is `Insert`, one that finds it with a row
does nothing to it (`LifeInserted`); `EnqueueDownload` is `Enqueue` for the
head of `todo` and nothing for others, which takes `TodosApart`
(`LifeEnqueued`); a download that obtains the video needs a pending row, which
is `Phases` (`LifeObtained`); and a download that the worker's death meets
stays due, or is over if it has no try left (`LifeCrash`).

### 4.3 `AlertDelivery`, `ClipAnalysis`

`SoleCurrent` is not inductive: the run that commits must know what it has
superseded.  `AnalysisInv` adds `JobShape` and `LoneRun`: of a run that writes
alone, nobody else writes, its snapshot is `current` as it is, and once it
writes it holds the locks of all that is current.  `CommitStep` follows: what
was current becomes superseded, and its own row is the one that is left.
`LoneRunRepairs` is the same fact as an action property.

`ReportHonoured` looks at the moment after a report for ever, so that every
later run has to be ruled out: `HonourInv` says that a run which has matched
its faces after the report has not matched the one that was captured
(`ReportAlone`: the negative sample is committed, and runs that matched before
are on record as a mishap), that what is reverted is stored (`Reverted`), and
that no analysis which is already stored can be stored again under the same id
(`TriesAreNew`), or a revert of its label could be undone by a retry.

`DeadlockCauses` is about chains of waits of any length.  `LocksInv` says which
rows a transaction has and which it may still want: an analysis has the
superseded rows first, then the breach, the face, the events (`UpsertOrder`),
and the report has the face at most.  `Ahead(t)` is the least set that holds
those `t` waits for and is closed under waiting, so what holds of the former and
is handed on from one to the next holds of all of it (`AheadIsLeast`): whoever is
ahead holds a row and so is past its snapshot (`AheadHolds`).  With
`EventsInOrder` each row has a place, and what an analysis holds comes before what
it wants (`RowsAscend`): along waits between analyses the wanted row rises, and
nobody comes back to itself.  So a cycle has the report in it; who waits for the
report wants the face, which is all that it holds, and it waits for an analysis
of `target`, which one of those ahead has locked.

`OnePerWindow` speaks of messages that were sent, long after their claims
expired.  `ClaimInv` is about the claims `Made`, those a message went out
under or still may: any two lie `Apart`, and the key in Redis is the last one
made, so that a new claim, which needs the key expired, comes a window after
all of them.

`ChannelsIndependent` follows from what is tried of what was loaded
(`ResultsFollow`): a job that ends of itself has no untried channel left.
That there is always a first untried one, until there is none, is well-founded
induction over the list.  `SuppressedForAnother` needs, for each claim that
stands, the job that made it (`ClaimsStand`): a job with a claim is sending
under it or has told all channels it loaded, as long as nothing failed, and
the key in Redis is nobody else's.

### 4.4 `LiveView`

`LiveInv` is inductive as it stands in the module.  `TablesAgree` and
`ListedIsWhole` are what the code's comments promise.  `ActorShape` and
`OwnsApart` say what a start has in its hands: nobody else knows of its
stream, it holds the lock, and its camera has no other session, which is why
`Register` cannot overwrite one.  `Owned` is `NothingLeaks` with no help from
the lists of a sweep or of shutdown: a stream on such a list that is not a
session any more was released by whoever took it out.  `GivenUpIsClosed`:
the stop that cancelled a feed goes on to the end, so that the others, which that
feed raises out of their way, leave nothing behind.  Steps are grouped by
what they do to their actor: `StopBegins`, `GoesOn`, `EndStep`, with the
changes to streams they may make as hypotheses.  `FeedTimesOut`, which ends
several actors at once, and `ShutdownStep` are proved separately.

*The end of requests.*  `Before` numbers the phases of a request: the lock, the
stop of the camera's old session, the start, the stop of its own stream when
the start fails.  A step that is not a request's own leaves it as it is, or
ends it with a feed both of them awaited (`TimeOutGoesForward`).
`LockGoesOn` adds that the lock is with somebody beyond the lock, so that waits
have no cycle.

### 4.5 Accounts: `BlinkLinker`, `BlinkToken`, `Administrators`, `OAuthFlow`

`OneAccount` needs to know of requests that have not inserted yet: `AloneInv`
says that unless two links were under way `together`, there is one account at
most, none as long as a request may still lead to one, one pending session at
most, and one request at most that is about to insert.  `SessionsInv` says of a
pending session that it is pending still, or taken out by the one request that
may yet use it.  `TokenInv` is inductive by itself: the one sync that is "to
be written" changes hands as others refresh.  `AdminIndInv`: while nothing has
crossed, one request at most is under way, and what it counted still holds.

`OAuthIInv`: states are fresh when a flow begins and are never begun again
(`FlowsAreFresh`); what a request has loaded is still in the row unless it met
another (`LoadedIsThere`); a flow that was accepted is pending no more, and no
callback holds it as pending but one that raced with the first
(`AcceptedIsGone`); and a verifier that is still to be committed is for the
pending flow or for none (`PendingFits`), which is the window between the two
commits of a start.

### 4.6 Storage: `SyncModuleStorage`, `StorageFolders`, `CloudFolders`

`ModuleInv` says which job has which row and file in its hands: a row that is
"available" has no file and no download at it (`NewIsClean`), a busy one has
one (`BusyHasDownload`), and a download has its row (`DownloadsHaveRows`),
each as far as the mishaps it names have not occurred.  `NewIsClean` is what
lets a refresh drop available rows: that is the only way a downloaded file
could lose its row, and it takes a download that began after the refresh had
read the table, which the commit of the refresh puts on record as "raced".
Row ids that nobody refers to are reused, so the proof also carries that the
ids in use are finitely many.  `RefreshReconciles` is proved of the commit by
itself, from what the refresh has seen.

`StorageIInv`: a file is in one directory at most, which exists, and is in the
one its download loaded unless a rename met it (`FilePlaces`, `FileTrails`);
what a request was checked for is not in it, since `rename` and `rmdir`
decide anew.  `FormAlone` is the window between the two commits of a form: unless
something came in between since its load, the row has the directory that it
chose and the quota that it has read back.
`FolderIInv`: while no two requests have met, what was wanted is marked, also
between the mark and the unmark of a rename (`WantedAreMarked`).

### 4.7 Cameras: batteries, switches, previews, vehicles

`BatteryIInv` adds that alerts are due after a commit only (`DueAfterCommit`) and
that nothing is counted for a camera in trouble (`FrozenWhileTroubled`), so that
the count starts from nothing when `Settled` ends the trouble.  `SwitchIInv` adds what
a sync that is alone has fetched, and for one request that works without
mishaps how rows and switches differ: in what Blink has done for it
(`OneAtATime`).  `PreviewIInv` says who writes which `.part` file
(`WritesApart`: a writer that is not alone has its folder in `clash`) and
that a request about to commit a path has its file (`FilesAreThere`).
`VehicleIInv` adds `RowIsLast`: the row is the last that was made, so the next
one has an id that no history and no event can name; and `WatchedHasOutline`,
without which there is nothing to measure to.

*The geometry.*  `NearIsBreach` compares what the code computes with `Near`,
which measures nothing, for any closed outline of whole pixels.

1. One edge (`EdgeWithin`): the clamped projection is within the threshold just
   when the point is on the disc of an end or in the band; the identity of
   Lagrange relates the three distances.
2. The nearest edge (`DistanceWithin`): that finitely many fractions have a
   least one is well-founded induction over finite sets (`LeastFraction`).
3. Inside (`RaysAgree`): an edge crosses just one of the ray to the right and
   the ray upwards when just one of its ends is in the quadrant between them
   (`EdgeRays`).  Going around the outline one enters and leaves the quadrant
   an even number of times (`TurnsAreEven`), so the two counts of crossings
   are both even or both odd.  The exception is an edge through the point
   itself, and then it is near.
4. The report (`ClosestIsBreach`): `Rounded` reaches no end of its range
   whatever the distance (`RoundedIsOne`, `RoundedIsExact`) and never decreases
   with the distance (`RoundedGrows`), so the person reported is the nearest one
   or ties with it.

### 4.8 Recognition: `FaceLibrary`, `FaceModel`, `AISettings`

`FaceIInv`: a deletion keeps its promise only if no image can be anywhere but
where the deletion looks.  So samples and images are followed from the moment
a number is given out (`NumbersWereGiven`): an image that waits for its row is
in one directory (`OnlyIn`), the row is committed with that directory
(`SamplesStayInPlace`), and what a deletion owes is there or already removed
(`Holds`).  `Later` is what a step may do to files that others count on: write
one of a new number, remove none but of samples whose deletion has begun.
`ReportsVeto` needs no strengthening: a face is as close to itself as a face
can be, so the negative sample vetoes every sample the face could hit.

`ModelIInv`: `DownloadingIsPending` is not inductive, because a job may end
without a word when the row it loaded already said what it comes to.
`SomeoneWillSay` counts only the jobs that will write: those queued, and those
that have read "downloading".  `SeenIsCurrent` is the other half: until
something overlaps, whoever holds the row holds it as it is.

`AIInv` is inductive as it stands: `Edited` makes the tiers agree in what it
returns, and the columns it does not send are those in which the row that was
read agreed already.

### 4.9 What stays with TLC

- Liveness (`JobsEnd`, `IdleIsSwept`, `RequestsEnd`), which the prover does not
  do.  The measures by which `JobsEnd` and `RequestsEnd` hold are proved
  (`NothingRunsForEver`; `NoRequestGoesBack` with `TheLockIsGivenBack`); that
  what is not over can step, and what fairness makes of that, is TLC's.
- The four disagreements of section 5, which are counterexamples.

## 5. Where code and documentation part

Shown by a run:

| Run | Code | What is said |
|---|---|---|
| `store_overlap` | an archive and a restore of one clip at once delete both copies (`integrations/archive.py:87`) | "the remote copy already exists and is now the canonical one" (90-92) |
| `sync_gap` | `last_sync` is the time of the commit, not of the listing (`worker/tasks/blink_sync.py:132`) | "a sync that must never silently drop clips" (`blink/service.py:340-341`) |
| `analysis_current` | two overlapping analyses are both current (`ai/pipeline.py:389`); readers that expect one raise | "superseding any prior current one" (2-3) |
| `module_stuck` | a refresh cut off leaves "refreshing", which the periodic job skips (`worker/tasks/sync_module.py:145`) | "current without requiring an admin" (124-125) |

Met while modelling; the models have the behaviour, and the properties exclude
it by name:

- A move cut off between its cleanup and its commit leaves `storage_path`
  naming a copy that is gone, though another exists
  (`integrations/archive.py:87-97,136-146`).  Hence no `crash` in
  `StoragePathResolves`.
- Two archives to different providers leave two cloud copies, one of which no
  row names.  Hence no `twins` in `CanonicalCopy`.
- All channels share one job of 30 s, and an error other than
  `AlertDeliveryError` ends it: the channels after it are not tried
  (`worker/tasks/alerts.py:95`).  Hence `ChannelsIndependent` is about jobs
  that reach their end.
- The dedup key is set before anything is delivered
  (`alerts/service.py:79-85`): an alert that fails on every channel still
  suppresses the next ones of its window, and its own re-run after a crash.
  Hence `mishaps = {}` in `SuppressedForAnother`.
- Deleting a downloaded Sync Module item drops its row and leaves its file
  (`sync_module/service.py:371`); rows in `error` that were never downloaded
  are kept for good (277-283); a `None` answer leaves `downloading`.
- A job that ends in an unexpected error loses the usage rows of the calls
  that succeeded (`ai/pipeline.py:385`).  Hence `cut_off` in `UsageKept`.
- A report that overlaps an analysis can be undone by it
  (`biometrics/service.py:306-308,361`).  Hence `report` in `ReportHonoured`.
- A sync whose interval cannot be read ends its chain until the worker is
  started again (`blink_sync.py:58-62`).  Hence `chain` in `SyncsGoOn`.
- A clip of a camera that is disabled when its download runs is never
  downloaded, even if the camera is enabled later (`download.py:108`).
- A sync that overlaps another writes its old token over the new one, although
  the docstring calls an overlap harmless (`blink_sync.py:68-70`); a token that a
  preview, a live view or a Sync Module job is given in exchange is never
  stored.  Hence `troubles` in `TokenKept`.
- Each of two overlapping syncs compares the batteries with the rows as it read
  them before the other's commit (`blink_sync.py:192-247`): the history may end
  with another level than the row, and an alert is lost or sent twice, although
  "an occasional overlapping run is harmless, just a little redundant work"
  (68-70).  Hence `overlap` in `BatteryHistory` and `LowAlerted`, for that camera
  and until its next change that is compared with the row.
- A sync that is cut off after its commit has written the low battery and its
  event, and the alert is never queued: the next sync finds nothing changed
  (`blink_sync.py:132-150`).  Hence `cut_off` in `LowAlerted`.
- A form that loaded the directory which it chooses does not send it
  (`settings/service.py:17-22`): if another form commits in between, its
  directory stays, next to this one's quota.  Hence `halved` in `OneForm`, as for
  forms that overlap between their commits.
- Two callbacks with one state that load the row before either commits are both
  accepted (`integrations/service.py:98-112`), although the pending state is
  cleared either way, "so a state can never be replayed" (94-95).  Hence `raced`
  in `AcceptedOnce`, which says that this is the only way.
- Two starts of a flow that overlap may leave the verifier of one next to the
  state of the other (`integrations/service.py:88-95`), and the exchange fails.
  Hence `astray` in `VerifierFits`.
- The sweeper can die of a cancelled feed, after which no abandoned session is
  stopped (`live_stream.py:47-51,312`).  Hence `dead` in `IdleIsSwept`.
- A start whose process cannot be spawned for an `OSError` releases nothing,
  although its docstring makes the manager "solely responsible for closing them,
  including if this method itself raises" (`live_stream.py:160-162`).  Hence
  `lost` in `NothingLeaks`.
- Two links, two setups or two demotions that overlap break the rule that each
  of them checks before its await (`api/blink.py:115`,
  `api/users_admin.py:133`).  Hence `together` and `crossed`.
- A rename of an S3 folder to the name it has marks it and then removes that
  marker (`integrations/cloud.py:165-183`).  Hence `slips` in
  `WantedAreListed`.
- A directory that is renamed takes its clips along and their `storage_path`
  does not follow (`api/settings.py:157`).  Hence `moved` in `PathsResolve`.  The
  previews in it go the same way, which `CameraPreview` has no action for:
  `PreviewsAreSound` is about a directory that stays where it is.
- Of two people at the same tenth of a foot, one of them within the threshold,
  the analysis goes by the first (`ai/pipeline.py:470`): the breach may go
  unreported.  Hence `TieInTenths` in `NearIsBreach`.
- A form that is saved over one it has not seen leaves a linked tier 2 with
  another key than tier 1 until the next save (`ai/service.py:42-50`).

## 6. What is left out

- *Not modelled*: AI providers, video tools, rate limiting, cryptography and
  headers, health, logs and configuration, the web application, migrations.
  The first two are calls that succeed or fail in the modules that make them;
  the others keep no state that another step could find changed.
- *Numbers*: matching distances, scores, baselines, overlap of face and
  person boxes, rounding of floating-point values.
- *Third-party or external*: blinkpy, ffmpeg, AI providers, fastapi-users, the
  providers' upload protocols.  They are successes and failures here.
- *No state of their own*: health, logs, configuration, headers, migrations;
  the web application keeps nothing that the back end relies on.
- Within modelled components: a renamed directory with previews in it, bulk
  delete's single commit, unlinking of the account under running jobs, temporary
  links, a clip deleted while it is analysed, the row upsert of Sync Modules,
  plain updates of single rows (people's names, view settings, prices, learning
  notes), a vehicle's reference frame, logins and sessions of users
  (fastapi-users).

## 7. The plan

Done: the five modules of the jobs, the live view, the accounts, the cameras,
storage and recognition, the lifecycle in which discovery and storage meet,
and proofs for every safety property that holds in a run.  What would come next:

1. `ClipLifecycle` with the analysis in it, which `ClipAnalysis` implements,
   and with that a clip deleted while it is analysed.
2. Unlinking the account under running jobs: `BlinkLinker.DeleteAccount`
   composed with `BlinkSync` and `ClipStore`.
3. The prices and baselines of `ai/`, as functions over bounded inputs.
