# A verification development of tDocs

tDocs is a self-hosted drive: a Go server with a SQLite catalog whose files are documents in a
private Telegram channel (the "storage channel") or objects on the server's disk. This directory
holds TLA+ modules that model the parts of the server whose state is shared between requests,
goroutines, processes or crashes, TLC configurations that check them on small instances, and
theorems about them that the TLA+ proof system checks.

Source paths below are relative to `src/`. `PROJECT.json` gives, for every definition that stands
for code, the lines it stands for.

## 1. Inventory

| Component | State it keeps | Operations | What is hard | What makes it correct |
|---|---|---|---|---|
| Folder tree (`internal/db/files.go`, `handlers_drive.go`, `handlers_library.go`) | table `folders` | create, rename, move, trash, restore, purge, empty trash | a move walks the ancestors one SELECT at a time and writes without a transaction; trash and restore read a subtree and then mark it; purge cascades | the folders are a forest, parents exist, every walk and recursive query ends |
| File catalog and versions (`internal/db/files.go`, `features.go`, `handlers_library.go`, `handlers_drive.go`, `handlers_upload.go`) | tables `files`, `file_versions`; messages of the channel | trash, restore, rename, move, copy, purge, end of upload, restore and delete of versions | handlers read a row, call Telegram, then write by id; rows and messages are changed one after the other | a live file and a version that can be restored have their message; references resolve; a folder never takes a file row with it |
| Chunked uploads and disk storage (`handlers_upload.go`, `disk_storage.go`, `static/app.js`) | `upload_sessions`, staging files, objects, the map of running hashes | open, chunk, complete, purge | lost answers and chunks sent again overlap their first attempt; no lock on a staging file; row, rename and path are three steps | a listed file has its bytes; a resend is harmless; a right hash means right bytes |
| Telegram session storage (`internal/telegram/session.go`, `cmd/tdocs/commands.go`) | one row of `settings`; what a process last observed | load, store, reload, watch, login, reset, logout | two processes share the row; the server saves again at every reconnect | nobody replaces a session by one with another key; the server ends up on the stored one |
| Task dispatch (`internal/telegram/client.go`) | `running`, the channel of tasks, a worker per run | Run, Do, serveTasks | calls, contexts, session end and worker end in any order | a function runs at most once, none goes on after its answer, calls of a session that stays up return |
| Primary-to-backup pipeline (`handlers_accounts.go`, `uploader.go`, `downloader.go`, `limiter.go`, `telegram/backup.go`) | the two sessions' workers, the upload mutex, a pipe | copyFileToBackup, snapshot upload | a lock and two single-task sessions are taken in different orders; a download is retried into the same pipe | a recorded copy has its parts in their places; somebody gets on |
| Backup jobs and mirroring (`handlers_accounts.go`, `handlers_v32.go`) | `backupJobs`, `backup_copies` | upload hook, schedule, Backup Now, the passes of a job | a trigger that finds a job running only marks it; marks race with the end of the job; restarts | no file twice without a cause, every job ends, what a job owes is done |
| File requests (`handlers_v32.go`, `db/v32.go`) | `file_requests`, `request_sessions`, `upload_sessions` | create, revoke, public init, chunk, complete | an upload is three calls that check the link again, beside trash and purge of its folder; the session is bound to the link after it is made | what comes in through a link is an upload of that link and lands in its folder |
| Share links (`handlers_share.go`) | `share_links`, cookies | create, delete, unlock, download, preview | the limit is compared and counted in two statements; the file is trashed or purged in between | the downloads exceed the limit by no more than the visitors at once, and none is sent uncounted (the stream route of a link sends the file and counts nothing) |
| Channel sync (`telegram/channelsync.go`) | table `files`, messages of the channel, `sync_runs` | scan, upsert of each document; at a start, after a login, by hand | pages of history; look-up and insert are two statements, beside uploads and purges | after a sync no document of the channel is without a row |
| Snapshots and restore (`db/backup.go`, `telegram/backup.go`, `telegram/discovery.go`, `handlers_snapshot.go`, `server.go`) | the database file and two handles on it, snapshot messages, the vault the manager works in | snapshot, prune, delete, restore from the list or from a received file | the database is closed and replaced under a running server; the task of a restore looks for the vault with the database closed; clients go away | a restore swaps in what was selected, retention spares the newest |
| Accounts registry (`telegram/accounts.go`, `handlers_accounts.go`) | a JSON list in `settings`, keys of each account, managers, running loops and their cancel functions | add, delete, wizard, backup, refresh, start, stop, remove | read-modify-write of the list without a lock; start and stop take several locks in turn | one loop an account, known to the registry, so that a deletion cancels it |
| Telegram login and wizard (`auth.go`, `web_wizard.go`, `handlers_telegram_wizard.go`) | the wizards and their flows, the marker of authorization | start, poll, submit, cancel, time-out | the flow runs in the session and goes on after its time-out; submit, cancel and callbacks write one record | a success is a login; what was handed in before a cancel is not used; every wizard ends |
| Downloads and ranges (`downloader.go`, `handlers_drive.go`) | cache of document locations | download, ranged stream | chunk arithmetic, references that rotate, a retry into a started body | the bytes asked for, in order |
| Web sessions and roles (`security.go`, `server.go`, `handlers_v32.go`) | the map of sessions, users, API tokens | login, logout, revoke, users, API tokens, the guards of every route | a session is stored before it has its role; nothing sweeps the map on its own | a viewer changes nothing; a session ends on time and stays over |
| Rate limiter (`security.go`) | times of accepted calls by key | Allow, Reset, pruning | the clock is read before the lock is taken; quiet keys are judged by their last entry | no more than the limit in a window |
| Automatic TLS (`web/autotls.go`) | the domain, two listeners | save, retry | saves interleave; listeners start and stop in goroutines | the listeners shown hold their ports, and no port is lost |
| Self-update, release check (`cmd/tdocs/ops.go`, `restart.go`, `handlers_update.go`) | the binary and its copies, the service; a cache of the release | update, look for a release | any step fails or is killed; one look at a time behind a flag | the binary is whole unless a package could not be checked; an update that ends leaves the service as it was or as the package's scripts made it; looks end |
| Encryption (`internal/crypto`) | none | seal, open | | sequential library calls, used as: every ciphertext is new |
| Audit, tags, favourites, statistics; other commands, setup; dashboard, packaging | tables and files of one statement each | | | not modelled: see section 8 |

Interactions. Every HTTP request runs on its own goroutine; there are no transactions around the
statements of a handler, so any two requests interleave at statements. All Telegram calls of an
account go through `ClientManager.Do` to one worker, so a session executes one task at a time.
Uploads to any account hold `SafeLimiter.uploadMu`. A finished upload starts or marks backup jobs.
`tdocs login` and `tdocs logout` are other processes on the same database. A restart loses every
map, goroutine and request and keeps the tables, the disk and the channel.

## 2. Modules

| Module | Lines of code it stands for | Uses |
|---|---|---|
| `FolderTree` | `MoveFolder`, `TrashFolder`, `RestoreFolder`, `DeleteFolder`, `DescendantFolderIDs` and the folder handlers | |
| `Catalog`, `MCCatalog` | the file handlers, `purgeFile`, the end of a Telegram upload, versions, `EmptyTrash`, folder requests with their files | `INSTANCE FolderTree`: every step is a step of the tree together with its effect on files, or leaves the tree alone. `MCCatalog` extends `Catalog`: a behaviour is of the kind "whole" (all operations, one request at a time, bounded by `Small`), "busy" (several requests that need messages, in a library without folders and copies, `Flat`) or "crashing" (the same, and the process dies; what was being deleted then goes into the history `interrupted`) |
| `SessionHandoff` | `EncryptedSessionStorage`, `watchSessionChange`, `Reload`, the runner of `runServer`, `runLogin`, `runLogout` | |
| `Dispatch` | `Run`, `Do`, `serveTasks` | |
| `BackupPipeline` | `copyFileToBackup`, `uploadStream`, `DownloadFullByMessage`, snapshot upload, `uploadMu` | takes from `Dispatch` that a session executes one task at a time |
| `BackupJobs` | `maybeMirrorNewFile`, `startBackupJobAuto`, `runBackupPasses`, `runBackupPass`, the scheduler, Backup Now | takes from `BackupPipeline` that a copy succeeds or fails |
| `Upload`, `MCUpload` | `handleUploadInit`, `writeUploadChunk`, `writeDiskChunk`, `finishUpload`, `finishDiskUpload`, `purgeFile`, the upload manager of the browser | |
| `Recovery`, `MCRecovery` | `SyncChannelToDB`, `UpsertFileFromChannel`, `CreateSnapshot`, `UploadSnapshot`, `PruneSnapshots`, `RestoreSnapshotByID`, `RestoreFromGzip`, the snapshot handlers, `EnsureStorageChannel`, `OnboardStorageChannelInteractive` | takes from `Dispatch` that the worker executes one task at a time and that a task goes on when its caller has gone |
| `LiveSessions` | the abstract specification of the session store: a session is good until it is closed, the server stops or it has been idle too long, and over for good then | |
| `Access`, `MCAccess` | `handleLoginSubmit`, `SessionStore`, `authMiddleware`, `superuserOnly`, the handlers of users, API tokens and sessions | implements `LiveSessions` under `INSTANCE ... WITH idle <- ...` |
| `RateLimiter` | `Allow`, `Reset` | |
| `ShareLinks` | the handlers of share links, `IncrementShareDownload` | |
| `FileRequests` | the handlers of file requests, `newUploadSession`, `request_sessions` | takes from `Upload` that an upload has its bytes or not |
| `Streaming` | `ParseRange`, `DownloadRangeLoc`, `DownloadRangeByMessage`, the document cache, `handleFileStream` | |
| `Accounts` | `LoadTelegramAccounts` to `DeleteTelegramAccount`, `AccountRegistry`, the handlers of accounts | |
| `Wizard` | `WizardStart`, `run`, the callbacks, `WizardSubmit`, `WizardCancel`, `WizardSnapshotJSON` | takes from `Dispatch` that the session executes one flow at a time |
| `AutoTLS` | `applyAutoTLS`, `restartAutoTLS`, `stopAutoTLS` | |
| `Update`, `ReleaseCheck` | `runUpdate`, `copyFile`, `captureServiceState`, `restoreServiceAfterUpdate`; `refreshUpdateCache` and the update status | |
| `MCServer` | | extends `Dispatch` and instantiates `SessionHandoff`, `Wizard`, `BackupJobs`, `AutoTLS`, `Update`, `ReleaseCheck` |
| `MCRequests` | | extends `FileRequests` and instantiates `RateLimiter`, `ShareLinks`, `Streaming`, `Accounts` |
| `*_proofs` | | the module of one passing run each: `FolderTree`, `MCCatalog`, `BackupPipeline`, `Upload`, `Recovery`, `MCServer`, `Access`, `MCRequests`; and `TLAPS` |

State and actions. A table is a function from identifiers to rows (or a set of rows); an identifier
that `generateID` has handed out is never handed out again, so a row is unused, present or gone.
A handler is a record with a program counter `pc` and the local variables it reads again later;
one SQL statement, one Telegram call or one file operation is one step. An in-memory map or a mutex
is a variable of its own. Names are members of a small set, file contents are sequences of part
numbers, a ciphertext is a number that says which key it holds. Histories (variables marked as such)
record what a property speaks of and guard nothing.

`MCServer` and `MCRequests` put parts that share no state into one run: a variable `scenario` says
which part takes steps while the others rest in a first state of theirs. The reachable states are
those of the parts side by side, and the properties of each part are checked on it as if it ran
alone; what parts do to each other is inside a module (`Catalog` with `FolderTree`, `Access` with
its store, `FileRequests` with folders) or stated in the last column above.

## 3. What the runs show

| Run | Instance | Result |
|---|---|---|
| `FolderTree` | 3 folders, 1 move, 1 trash/restore/purge/empty request | the folders stay a forest (`TreeAcyclic`) with existing parents (`ParentsExist`), and every walk and recursive query ends (`RequestsEnd`) |
| `Catalog` (module `MCCatalog`) | every operation and crashes on 1 folder and 2 files; 2 requests at once on 3 files, versions and messages; 2 requests at once and crashes on 2 of each | the folder of a file and the file of a version exist (`RowsResolve`); in the second and third kind, a live file and a version that can be promoted have their message, but for files that a crash caught while they were being purged or replaced (`ObjectsStay`) |
| `BackupPipeline` | 2 accounts, 1 snapshot, 1 request, 2 parts, 2 copies each | recorded copies are whole (`CopiesWhole`), one account alone holds nobody up (`AloneServes`) |
| `Upload` (module `MCUpload`) | 1 disk and 1 Telegram upload of one name, 2 requests at once, 4 parts in chunks of 2, 2 faults | `RowsWhole`, `HashVouches`, `TelegramResends` |
| `Recovery` (module `MCRecovery`) | pages of 2 messages, and three kinds: a fresh and an installed server with 1 vault and 1 that may be made, 1 upload, 1 request, 1 purge, syncs, 2 events; restores of 2 requests with 2 vaults, 4 events | a sync leaves no document without a row but those behind the service message of a pinned snapshot (`SyncCovers`); a restore swaps in what was selected or what others have put in its place (`RestoresSelected`); the newest snapshots are kept (`NewestKept`), and a start ends its sync (`StartSyncs`) |
| `Server` (module `MCServer`) | 3 calls of `Do` over 2 runs; the server and 2 logins, 2 reconnects, 1 reset or logout; 2 wizards; a mirror of 2 files with a tick, a Backup Now and a restart; 3 saves of a domain; 2 updates; 2 releases | a task runs at most once (`ExecutedOnce`) and a session that stays up answers (`SessionServes`); no stored session is clobbered (`SessionNotClobbered`) and the server follows (`ServerFollows`); a success of the wizard is a login (`HonestSuccess`), a cancel ends what was handed in (`CancelStopsInput`); no file is copied twice without a cause (`CopiedOnce`) and none that a job was started for is forgotten (`HeardIsMirrored`); ports have owners (`PortsOwned`); the binary stays whole, but for an unchecked package, and an update that ends leaves the service enabled and running where it was so or where the scripts made it so, and nowhere else (`UpdateSafe`); wizards, jobs, shutdowns and looks end (`WorkEnds`) |
| `Access` (module `MCAccess`) | 2 requests at once, 2 sessions, 1 user, 1 API token, a clock, 1 restart | a viewer's request changes nothing (`ViewersOnlyRead`); the store implements `LiveSessions` (`SessionsEndOnTime`) |
| `Requests` (module `MCRequests`) | 2 calls on 2 keys; 3 visitors of 1 link; 2 file requests, 1 folder, 1 upload; 2 readers of a file of up to 3 bytes; 2 accounts and 3 requests | `WindowBound`, `OverrunBound`, `UploadsConfined`, `SentInOrder`, `RotationHeals`, `LoopsKnown` |
| `Catalog_replace` (module `Catalog`) | one upload over a name | violates `ReplacedCopyKept`: the archived version goes with the file row it belongs to, although the guide promises version history |
| `BackupJobs_missed` (module `BackupJobs`) | 2 uploads | violates `MirrorMissesNone`: the second upload marks the job of the first, which looks at the first file again |
| `Recovery_swap` (module `MCRecovery`) | as `Recovery` | violates `SwappedWhileClosed`: the client of a restore goes away, and the file is replaced under the handle that was opened again |
| `Streaming_retry` (module `Streaming`) | 1 reader of a file of up to 4 bytes in chunks of 2 | violates `CompleteIsRight`: the reference rotates after the first chunk, and the second attempt writes the range again from its start into the same body |

The violation runs are findings; each quotes in `PROJECT.json` the comment or document the code
departs from. Run one with `tlc -config X.cfg M`. `SessionHandoff`, `Dispatch`, `BackupJobs`,
`Wizard`, `AutoTLS`, `Update`, `RateLimiter`, `ShareLinks`, `Streaming` and `Accounts` also have a
configuration of their own, with the module's other properties and in part larger bounds (two
domains, a longer clock, a limit of two). `Dispatch.cfg` checks `AnsweredIsOver` besides,
`RateLimiter.cfg` that a refusal is earned (`RefusalsEarned`), `Streaming.cfg` the ranges against
their definition (`RangesUnderstood`), `ShareLinks.cfg` that no download is sent uncounted
(`EveryDownloadCounted`; the stream route counts nothing), `Accounts.cfg` that a cancelled loop ends (`StopEndsLoops`).

What one may expect and does not hold is kept as well, one question each. Three have a
configuration: `FolderTree_twoMovers` (`TreeAcyclic`: two moves pass each other's cycle check),
`Dispatch_returns` (`DoReturns`: a call without a deadline waits for ever when the run ends before
it is taken) and `BackupPipeline_blocked` (`UploadsNotBlocked`: a snapshot waits for the upload
mutex inside the primary session, a copy holds the mutex and waits for that session). For the
others, state the definition as the only INVARIANT (or PROPERTY, marked P) of the configuration
named, with the constants given:

| Configuration | Violated | Why |
|---|---|---|
| `Catalog_replace`, `Ops = {finish, copy, trash, purge}` | `ObjectsExist` | a copy shares the message of its original, and a purge deletes it |
| the same, `Versioners = {w1}`, `Ops = {finish, crash, deleteVersion}` | `ObjectsExist` | a crash between the archived version and the row that is replaced leaves both with one message, and deleting the version deletes it |
| the same, two workers, both uploaders, two versions, `Ops = {finish}` | `NamesDiffer` | two ends of uploads look for the name before either has written |
| the same, a folder and a keeper, `Ops = {finish, trashFolder, purgeFolder}` | `FolderPurgeTakesFiles` P | the files of a trashed folder are not in the list of live files |
| the same, `Ops = {finish, trash, trashFolder, restoreFolder}` | `HandTrashedStays` | restoring a folder restores files trashed by hand before |
| the same, `Ops = {finish, trash, restore, empty}` | `EmptyTrashSparesLive` P | emptying the trash deletes what was restored after the listing |
| `SessionHandoff`, `Logins = {cli1}`, `MaxResaves = 0`, `Foreign = {}` | `PairedIsStored` | the server stores a new key between `login --reset` and the first save of the login |
| `SessionHandoff`, `Foreign = {server, cli1}` | `ServerFollows` P | a login under another secret leaves a row the server cannot read, and its runner stops |
| `SessionHandoff`, `MaxResaves = 0`, `Foreign = {}`, `MaxRemovals = 2` | `ServerFollows` P | the row changes back between the two looks of the runner |
| `Dispatch`, `Calls = {c1}`, `Background = {}` | `SoleSession` | the worker of an ended run executes while the next session is up |
| `Upload`, `Sessions = {d}`, `Resuming = {}`, `MaxFaults = 1` | `ResendsAccepted` | a chunk that has landed and is not the last is refused when it is sent again |
| `Upload` | `HashRight` | a chunk that is sent again is hashed again |
| `Upload` | `NameKept` | a client sends "complete" twice: the ends find and delete each other's file |
| `Recovery_swap` | `RestoresUploaded` | two uploads of snapshots share one temporary file, which is written before the lock is taken |
| `Recovery_swap` | `FullyCovered` | a service message on a page (pinning a snapshot leaves one) ends the scan |
| `Recovery_swap` | `OneRowPerMessage` | a sync runs between the commit of an upload and its row |
| `Recovery_swap` | `NamesKept` P | a sync writes the name in the channel over the one a user has given |
| `Recovery_swap` | `RestoresListed` | a restore looks for the vault with the database closed, and takes the number of the snapshot to another one |
| `Recovery_swap` | `WorksInBound` | the discovery of a restore fails with the database closed and makes a vault; the restore fails, and uploads go to the new vault until something reads the binding again |
| `Access` | `DemotedStops` | live sessions keep the role of their login |
| `Access`, `ApiKeys = {k1, k2}`, `Prefix <- SamePrefix` | `KeysWork` | the first token with the prefix decides |
| `ShareLinks` | `LimitKept` | two downloads compare the count before either is counted |
| `ShareLinks` | `ExpiredSendsNothing` P | only the landing page looks at the expiry |
| `ShareLinks` | `DiskFilesShared` | the routes of a link read every file from Telegram |
| `Requests` | `PurgedFolderRefuses` | the foreign key moves the link to the root, which then takes the files |
| `Requests` | `LandsWhereShown` P | the folder is trashed, and takes files nobody sees |
| `Accounts` | `AccountsKept`, `DeletedIsGone` | two changes of the list, one lost; a save that began before the deletion |
| `Accounts` | `NoGhosts` | a start that was under way puts the manager of a deleted account back |
| `Accounts` | `OneVault` | the wizard that has signed in and the loop of its manager both find no vault and make one |
| `Wizard` | `FinalPhaseStays` | a callback of a flow that went on writes the phase of a wizard that is over |
| `Wizard` | `CancelledSendsNothing` P | a cancel does not take back the task that waits for the session |
| `Wizard` | `MarkerTells` | a flow that signs in after the time-out is not marked |
| `AutoTLS` | `DomainServed` | a save of the empty domain comes while another one starts its listeners, and finds none to stop |
| `AutoTLS` | `ClearingSucceeds` | the error of an earlier save is still there |
| `Update` | `PackageVerified` | without published sums, the package is installed unchecked |
| `Update` | `ServiceSurvives` | the script of the package stops the service and the installation fails, or the command is killed |
| `Update` | `StoppedStaysStopped` | the postinst of a .deb restarts what was stopped (`scripts/package-deb.sh:119-122`) |

## 4. Bounds

Every bound is a constant or a set in a `.cfg`.

- Identifiers (`Folders`, `Files`, `Versions`, `Messages`): an instance stops creating when they are
  used up. A cycle needs two folders, a cycle not seen by a one-level check three; a lost or shared
  message needs a file, its replacement and a third party; so 3, 3 and 3 where they meet. With
  folders and crashes `Catalog` has two files, a version, a message and a worker (`FewFiles`,
  `FewVersions`, `FewMessages`, `FewWorkers`): a reference that does not resolve needs one of each.
  With crashes and two workers one identifier of each sort stays unused (`Spare`): a file a crash has
  caught and one beside it.
- Requests in flight (`Movers`, `Keepers`, `Workers`, `Handlers`, `Calls`, `Logins`, `Wizards`,
  `Saves`, `Ticks`, and the accounts, snapshots and requests of the backup modules): two of the kind that conflict, and one of each other kind. The
  handlers hold no state between requests, so a third of the same kind repeats the second.
- `MaxRuns` 2 (a run and its successor), `MaxResaves` 2 and `MaxRemovals` 1 (one reset or logout,
  a save before and after it), `MaxCopies` 2, `Parts` 2 (a first part and another), `MaxCrashes` 1,
  `MaxFaults` 2 in `Upload` (a lost answer and something going wrong with what is sent again).
- `Size` 4 and `ChunkParts` 2: a chunk that is not the last, and one whose write can be cut in the
  middle. In the code a chunk is 10 parts of 512 KB.
- `Recovery`: `PageSize` 2 and `Window` 3 stand for the 100 messages of a page and of the list of
  snapshots, `Keep` 1 for the 5 snapshots that are kept; the vault of the instance holds three
  messages and may grow to six (`MaxMessages`), so that it has three pages and a snapshot can fall
  out of the window. `MaxEvents` and `Few` bound what users, operators and faults do. `MCRecovery` puts three
  kinds of instance side by side: a fresh and an installed server, with `Few` 2 events (a request and
  what goes wrong with it, on top of one upload and the syncs of starts), and "restores", where two
  vaults hold snapshots and two requests meet at the lock, the worker and the temporary file, with
  `MaxEvents` 4 (two restores or uploads of snapshots, and a client that goes away or a failure of
  each). In the last, a restore does land in another vault, is overwritten before the swap and after
  it. Without the kinds, with one old vault, two requests, two events and no fairness, the
  invariants of the run and those of the proofs (section 6) hold in all 3.6 million states.
- `RateLimiter`: `Limit` 2 in a `Window` of 3, the smallest in which a window slides over calls of
  different times; `MaxKeys` 1 stands for 10000, so that two keys prune; `Lag` is the longest wait
  for the lock and part of the property, since the time is taken before it.
- `ShareLinks`: three visitors overrun a limit of one by two; `MaxCount` only ends the counting.
- `Streaming`: files of up to 3 bytes (4 in the violation run) in chunks of 2: a range within a
  chunk, across two, and a last chunk that is short. `MaxRotations` and `MaxFaults` 1: the retry
  covers one, and what a second would do it does for one attempt.
- `Accounts`: `MaxLoops` 2 and `MaxManagers` 3, a loop, the one that follows it, and a manager made
  without a loop; three requests, of which two conflict while the third deletes.
- `AutoTLS`: one domain in `Server`, two in `AutoTLS.cfg`; a save, one that overlaps it, and one
  that comes when both may be half done. `Update`: `MaxUpdates` 2, a failure and another attempt.
- `Access`: `TTL` 1 and `MaxTime` 3, so that two sessions may end one after the other. Requests are
  declared interchangeable; no definition tells them apart, and `SessionsEndOnTime` is a safety
  property without them, so the symmetry is sound.
- `MCUpload` declares handlers and file identifiers interchangeable. No definition tells their
  members apart (`Purgeable` is all files there) and only invariants are checked, so the symmetry is
  sound.
- `CHECK_DEADLOCK FALSE` stands in configurations whose instance uses up its triggers or
  identifiers, or whose processes legitimately end.

## 5. Fairness

- `FolderTree`: weak fairness of each step of a request; a goroutine whose statement can run runs.
- `SessionHandoff`: weak fairness of the server's client and of its runner, which is a loop with a
  ticker. Logins may stop anywhere.
- `Dispatch`: weak fairness of a worker that can take or finish a task, of Run returning after its
  session ended, and of a call whose answer is there. Functions end because Telegram calls have a
  timeout; sessions need not end.
- `BackupPipeline`: strong fairness for taking the worker or the mutex, since both are given in
  turn (a Go channel and a `sync.Mutex` are not starved for ever), weak fairness for the rest.
- `BackupJobs`: weak fairness of the steps of a job.
- `Wizard`: weak fairness of the steps of each wizard's goroutine and flow and of its time-out,
  which is a context with a deadline. Submissions, cancels and polls are never fair.
- `AutoTLS`: weak fairness of a save that has begun and of the goroutine of a listener.
- `ReleaseCheck`: weak fairness of a look that is under way: its context ends after 20 seconds.
- `Accounts` (in its own configuration): weak fairness of a loop that was cancelled, and of the
  goroutine that launches one.
- In `Server` the fairness of the storage is that of its scenario (`HandoffFairness`), since its
  first state, unlike those of the others, has steps that would have to happen.
- `Recovery`: weak fairness of the steps of the sync a start begins, which is a loop in one
  goroutine that waits for no lock; starts themselves are not fair.

Environment actions (users, clients, crashes, ends of connections, errors) are never fair.

## 6. What is proved

For every value of the constants (under the named assumptions of the modules), checked by `tlapm`.
There is one module of proofs for each passing run, and its theorems are about the specification the
run checks: all safety properties of the eight runs are proved, invariants and action properties.
`FolderTree` alone has a premise, `OneMover`.

- `FolderTree_proofs`: with at most one move in flight (`OneMover`) the folders are acyclic and
  parents exist. `TreeAcyclic` is not inductive: the walk's UPDATE is safe only because of what the
  walk has already seen, so the invariant adds `WalkOf`, which says that the folder being moved is
  not among the ancestors passed and that the rest of the path is still ahead, and `OnceOnly`, that
  deleted identifiers stay deleted. Without `OneMover` it is false (`FolderTree_twoMovers`).
- `Catalog_proofs`: `RowsResolve` from types and from what a request between two statements may
  hold (`RowsAre`). `ObjectsStay` needs to know whose a message
  is, which no table says: there is a map `owner` from messages to files such that a message is
  behind one file at most, the versions of that file and the requests that have read one of them
  (`RowsOwned`, `WorkerOwned`). A version is there only while the upload that made it replaces the
  file, or after a crash has stopped that upload (`Kept`), so a request that deletes a message it has
  read deletes one of a file whose row is gone, goes next or was to go (`Going`). A crash therefore
  costs the files that were being deleted and no others. Copies break the first part; see section 3.
- `BackupPipeline_proofs`: types, which say where the holders of the primary session and of the
  upload mutex stand, and `CopiesWhole`, from `PipeOf`: while a copy is not torn, the upload has
  read exactly what the download has written.
- `Upload_proofs`: `TypeOK`, `RowsWhole`, `HashVouches` and `TelegramResends`, from one invariant in
  six parts. `Typed` says what a request holds at each statement; `Browsing`, that a browser waits
  for a request of its upload and chunk, and that no request is ahead of it; `Telegram`, that the
  parts before the chunk a browser sends are saved, and that the tries it counts are no more than the
  faults; `Named`, that a row that is being made belongs to one request; `Objects`, that a row of
  a disk file has its object unless a request is about to give it one or to delete the row.
  `Staging` is where chunks that overtake each other matter. An upload without overlaps (`Alone`)
  has a staging file of whole chunks that holds all the client knows to have landed (`Acked`). With
  overlaps the argument is the ledger's: an entry that is not wrong proves that each chunk was
  hashed once and in order, so at most one request writes each chunk (`Followed`), and without an
  entry the next one either starts with all that is staged or is wrong (`Restarted`). The proof of
  this found that the ledger knows nothing of an end that is asked for a second time: with four
  requests in flight a late chunk of an overlapping upload can start a new entry between two ends.
  The history `ended` marks the uploads whose hash was taken, and `HashVouches` leaves out, in
  `unfollowed`, those with overlaps whose end is asked for again.
- `Recovery_proofs`: `TypeOK`, `SyncCovers`, `NewestKept` and `RestoresSelected`. The types
  (`Typed`) say of every database, in use, saved in a vault, in the temporary file or at `DBPath`,
  that its rows have identifiers of their own, handed out for the messages of the rows (`Sound`), and
  that what is ever saved or restored knows a vault (`Bound`); and which request, if any, holds the
  lock and waits for the task of the worker (`Stage`, `Waits`). `SyncCovers` needs that a scan
  sees every document that is not behind a service message, although it stops at the first page
  that is not full (`ScanSeesAll`): no page above such a document holds a service message, so that
  every message there is a document, a snapshot or gone, and counting
  the documents newer than a given one (`Ranks`, `RankedBetween`) puts each on some page that is
  asked for. Then each document the scan has seen has a row, is still to be looked at, or had its
  row taken away by a user (`AllCovered`). `RestoresSelected` follows a request from the list to the
  file at `DBPath`, one invariant for each stage: the message selected is still the one with that
  number (`Listing`), the task holds its database (`Fetched`), the temporary file holds it
  (`Received`), and the file, half written, is being written from it (`Swapping`, `Swapped`).
  `NewestKept` needs no invariant but the types: what a retention deletes has `Keep` snapshots
  above it in the list, and these stay (`PrunedKeeps`). The history `others` holds, for
  each request, what others have put in the place of its database: `Fetch` adds the snapshot found
  under the number in another vault, `Receive` of another request what it writes over the temporary
  file, `Replace` and `Copy` of a task whose client has left what they make of the file. It grows
  until the request has its answer (`OthersMoves`). `writer` says whose file is at `DBPath`: who
  writes a file that has been removed since changes nothing there (`Undisturbed`). The history `behind` of a
  sync holds the documents on older pages than a pinned snapshot's service message. Neither leaves
  a restore or a sync out of the property: without the alternatives they are violated, as
  `RestoresUploaded`, `RestoresListed` and `FullyCovered` of section 3 show.
- `Server_proofs`: every safety property of the run. `ServerTypes`; `ExecutedOnce` and, besides,
  `AnsweredIsOver`, from what each state of a call says of its worker and the other way round
  (`CallOf`, `WorkerOf`); `SessionNotClobbered` from what ties the key a client loaded to what its
  storage observed (`KeyLoaded`); `HonestSuccess` and `CancelStopsInput` from which flow may run beside
  which state of the wait, since a flow that goes on after a time-out still writes phases
  (`LoginStage`, `LoginStopped`); `CopiedOnce` by counting, for each file, the messages, the jobs
  that are copying it and those that run behind the account's (`CopiesCounted`); `PortsOwned` since
  listeners are shown once and detached once, and a save keeps what it has bound until it publishes
  or fails (`HttpsShown`, `HttpsLeaving`, `HttpsBound`); `UpdateSafe` from which copy of the binary
  is whole at each step and how far the service was put back, up and down, against what the
  scripts of the package switched on (`UpdateHolds`, `ServiceHolds`).
- `Access_proofs`: types, `ViewersOnlyRead`, and the refinement `SessionsEndOnTime`: `Access`
  implements `LiveSessions`. A session is in the store as an administrator's before its role is
  filled in, so the invariant says that the role is right once a browser may hold the cookie
  (`RoleKnown`) and that a token in use is not drawn again (`TokenSpent`). For the refinement each
  action maps to a step of `LiveSessions` or to a stutter: removing an expired entry, by a lookup
  or the sweep of a login, changes nothing there, since `IdleOf` counts it as over already.
- `Requests_proofs`: every property of the run. `RequestsTypes`; `WindowBound`, since the accepted
  calls of the last window have the newest entries of the log, in the same order (`Entered`),
  although stamps come in out of order and quiet keys are dropped; `OverrunBound` by counting what
  was sent and the visitors under way (`CountedSends`, `UnderwayBound`); `UploadsConfined` from what
  makes an upload so before it is finished: the row of `request_sessions` names the link that began
  it (`Owned`), a handler that was let through acts for that link (`Calling`), and every folder on
  the way is the link's or the root after a purge (`LinksNear`, `Begun`, `Near`); `SentInOrder` and
  `RotationHeals`, since what an attempt that was not torn has sent is the beginning of its range
  (`Sent`, `Undisturbed`); `LoopsKnown`, since a handler between two locks holds a loop that nobody
  else touches (`ClaimsHeld`).

A part of `MCServer` and `MCRequests` keeps its invariant because the steps of the other parts leave
its variables alone; the theorems are about the composition, and through it about each part.

Only model-checked: all liveness properties (`RequestsEnd`, `AloneServes`, `SessionServes`,
`ServerFollows`, `HeardIsMirrored`, `WorkEnds`, `StartSyncs`), which need ENABLED and fairness, which the
installed provers do not handle; and the properties the configurations of single parts check besides
those of the runs (section 3). No module uses a RECURSIVE operator;
`Subtree` is defined by closure, without recursion.

## 7. Assumptions of the models

- A SQL statement is atomic and succeeds unless a constraint refuses it or it finds no row.
- A Telegram call happens once, or fails without effect; a deletion of a message that fails is
  printed and otherwise ignored, as in the code. gotd loads the session once per Run, and its
  downloader writes parts of the size the code calls `PartSize`.
- `Upload`: no request takes two hours, so an entry of the hash ledger is not swept out while the
  request that made it runs. The API's client is the browser's upload manager, or a client with an
  API key that may continue a session (`Resuming`).
- `BackupPipeline`: `DownloadFullByMessage` retries after a stale reference and writes the file again
  from its start. When parts were already written the copy is not recorded; the download may then
  stay blocked on the pipe, which `AloneServes` excludes by its premise.
- `Recovery`: Telegram numbers the messages of a channel from one and posts a service message when a
  message is pinned. A database file that is missing or cut short does not open (SQLite would create
  an empty one where the file is missing altogether; the window is the few system calls between the
  removal and the new file). The server is off while a login runs. No channel is configured by
  environment, an account has at most 100 dialogs, and no vault more than the 5000 documents a scan
  stops at. Trash marks do not matter to a sync, and copies and archived versions are left to
  `Catalog`. A running server that is given a new session is left to `SessionHandoff`.

- `Access`: passwords are right or wrong; a token is drawn once. Requests that are refused change
  nothing and are left out, but for a lookup that removes an expired session.
- `Streaming`: Telegram refuses a location whose reference was rotated; the writer of the response
  refuses what goes past the announced length. A chunk is fetched as a whole or fails.
- `FileRequests`: the bytes of a chunk and the end of an upload are those of `Upload`; here an
  upload has its bytes or not.
- `Accounts`, `Wizard`: the flow of gotd asks for a code, calls back and signs in; what a session
  does once connected is Telegram's. None of the accounts there at first is paired.
- `AutoTLS`: a port may be held by another program, so that binding fails at any time; certificates
  are issued on the first visit and fail there.
- `Update`: GitHub, the package manager and systemd are external: a download may be damaged, a call
  of systemctl may fail, and the command may be killed between any two steps. The scripts are those
  of `scripts/package-deb.sh`, the prerm of the old package included, which may stop and disable
  the service; an rpm's do neither, which the model allows too. Two updates at once are not
  considered.

Behaviour of the disk backend that no property speaks of: a Telegram upload over a disk file deletes
the row and leaves the object; `SetFileStorage` on a row purged meanwhile succeeds and leaves the
object; a disk upload over a Telegram file leaves the message and archives no version.

## 8. Not modelled

- Encryption: pure functions. Audit, tags, favourites and statistics: one-statement reads and writes
  that nothing interacts with. Dashboard rendering, the description of the API, packaging scripts.
- Of the web guards: CSRF tokens and signed download tickets, which keep no state but a secret, and
  the headers of the CDN route.
- Of the accounts: `StartAll`. Of the Telegram login: the terminal prompts of `tdocs login`, and the
  cache of health checks of `telegram_bridge.go`, whose answers are only shown.
- Of the command line: setup, doctor, status, migrate, service, uninstall, passwd, upload, download and
  list, which an operator runs and which end their process; the backup and restore commands.
- Flood-wait pacing: timing only.

Known and not stated as a property: a HEAD request counts as a download of a share; `handleUpdateUser`
writes the role before it looks at the password; a wizard that ran into its time-out keeps a password
that was submitted, and a later cancel does not clear it; rows of `upload_sessions` that were never
completed are not collected.

## 9. Plan

Written: `FolderTree`, `Catalog` (composed), `SessionHandoff`, `Dispatch`, `BackupPipeline`,
`BackupJobs`, `Upload`, `Recovery`; `Access` over `LiveSessions`, `RateLimiter`, `ShareLinks`,
`FileRequests`, `Streaming`, `Accounts`, `Wizard`, `AutoTLS`, `Update`, `ReleaseCheck`; the
compositions `MCServer` and `MCRequests`.

What would come next, in this order:

1. Abstract specifications: the catalog as a set of named objects that `Catalog` implements for
   operations without copies; a queue of tasks that `Dispatch` implements.
2. `StartAll` of the accounts, and an account's session handed over as in `SessionHandoff`.
