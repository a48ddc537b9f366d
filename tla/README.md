# Vaultaine: specifications

TLA+ models of the Vaultaine backend and of the parts of its web interface that keep state, TLC configurations that check
them on small instances, and TLAPS proofs of what they promise on every instance. Vaultaine is a personal file vault: a
web interface and a Telegram bot accept files, the backend (`backend/src`, one Node process, PostgreSQL) stores them on its
own disk or at a cloud provider (S3, WebDAV, OneDrive, Google Drive, Aliyun OSS) and indexes them in the table `files`.

Nearly all that is difficult in it has one shape. An object is written at a provider and a row is written in the
database; the two cannot be one transaction; the process may die, the provider may fail without telling what it did,
a lease may run out, a user may pause, cancel, retry or delete, and a periodic sweep repairs what is left, at the same
time. The models are about that: who may do what next, and what no interleaving may produce.

## 1. The system

| Component | State | Operations | Modelled in |
|---|---|---|---|
| Chunked uploads, completion (`routes/chunkedUpload.ts`, `chunkUploadSessions.ts`, `chunkUploadReconciliation.ts`) | sessions, journal, `files`, objects, chunk directories | complete, retry, cancel, expiry, heartbeat, maintenance | `ChunkSessions`, `ChunkCompletion`, `UploadLedger` |
| Chunked uploads, writing (`boundedUploadQueue.ts`, `chunkUploadProtocol.ts`, `api.ts`, `routes/chunkedUpload.ts`) | queue of the browser, sessions, chunks, part files, locks | queue, reserve, write a chunk, cancel, expire, remove | `WebUpload` |
| Download queue of the bot (`downloadTaskQueue.ts`) | groups, files, pauses, limit, history | add, finish, pause, resume, cancel, prioritize, retry, disk pressure, cooldown | `DownloadTaskQueue` |
| Storage accounts (`storageAccountLifecycle.ts`, `storageAccountLease.ts`, `storageAccountOperation.ts`, `storage.ts`) | accounts, setting, leases, memory of the manager | switch, initialise, admit, lease, renew, release, delete | `StorageAccounts` |
| Setting up of accounts (`routes/storage.ts`, `oauthFlowStore.ts`, `storage.ts`, `SettingsPage.tsx`) | flows, accounts, old settings, tokens | authorise, add, renew, refresh, migrate, start | `AccountSetup` |
| Clients of the providers (`storage.ts`) | folders, caches, locks, parts of an object | save, delete | `StorageClients` |
| yt-dlp tasks (`ytDlpDownload.ts`, `ytDlpExecution.ts`) | tasks, journal, queue, controllers | submit, claim, renew, upload, settle, compensate, cancel, retry, restart | `YtDlpExecution`, `YtDlpTasks` |
| Telegram jobs (`telegramChannelJobs.ts`) | jobs, items, subscriptions | scan, claim, settle, pause, cancel, cooldown, retry, recover | `TelegramJobs` |
| Telegram writes (`telegramUpload.ts`, `telegramWriteReconciliation.ts`) | one item, its journal, objects, rows | save, index, commit, compensate, reconcile | `TelegramWrites` |
| Files sent to the bot (`telegramUpload.ts`, `telegramMediaGroup.ts`) | albums, single files, tracker and silent session of a chat | collect, admit, queue, try twice, cool down, cancel | `TelegramChat`, `SingleFiles` |
| Rows of transfer tasks (`transferTasks.ts`, `taskCenterDismissals.ts`, `routes/tasks.ts`) | `transfer_tasks`, dismissals | ordered snapshots, restart, cancel, dismiss | `TransferRows` |
| Bot in conversation (`telegramBot.ts`, `telegramPathSettings.ts`) | wizards, confirmations, directories | `/tg_download`, subscriptions, paths | `BotConversation` |
| Task centre of the bot (`telegramCommands.ts`, `telegramTaskCenter.ts`) | card, questions | act on one task or on all | `TaskCenter` |
| Files deleted by the bot (`telegramCommands.ts`) | question, list | delete one, clear the storage | `BotFiles` |
| Files (`routes/upload.ts`, `routes/files.ts`, `fileDeletion.ts`, `orphanCleanup.ts`, `bucketImport.ts`) | objects, rows, previews, tokens | upload, preview, delete, sweep, import | `FileLibrary` |
| Folders (`routes/folderOperations.ts`, `routes/files.ts`, `fileScope.ts`) | rows of files and of empty folders, stars | create, rename, move, put a file away, star | `FolderTree` |
| List of files (`fileQuery.ts`, `App.tsx`, `latestRequest.ts`) | pages, requests | list, more, rename, reload | `FileList` |
| Sign-in on the web (`routes/auth.ts`, `security.ts`, `webSessionStore.ts`, pages) | password, sessions, second factor | set up, sign in, sign out, change, enable, disable | `WebSessions` |
| Sign-in of the bot (`telegramBot.ts`, `telegramState.ts`, `authSettings.ts`) | keyboard, lock, allowed and kept users | PIN, code, allow, revoke | `BotSignIn` |
| Pool of connections (`db/index.ts`) | connections | acquire, hold, release | `AdmissionPool` |
| Cooldown table, user client, API keys, media, deployment | small, or none | | not modelled, see section 10 |

They meet in few places. Every write at a provider holds a row of `storage_account_leases` while it lasts. Whatever
works for longer than a request pins its target (provider and account) in a row with a foreign key, except Telegram
jobs, which keep it in JSON. The sweeps of the journals run in the same process as the handlers they repair. The bot
feeds one `DownloadTaskQueue`; the cooldown of an account puts its files back there.

What is hard, and where the models look: handlers and sweeps on the same rows; statements that ask for a token or a
status and so lose to another; evidence of a side effect written after the side effect; crashes between any two steps;
calls whose outcome is unknown; leases that lapse while their holder goes on; memory rebuilt from queries at
different times; state read before an await and used after it; commands that meet an earlier one still waiting.
`PROJECT.json` lists each of these hazards at its line with the properties that would catch it.

### Conventions

An action is what happens between two awaits. A process is a record with the await it stands at (`pc`, `at`) and the local
variables read later. A statement that can affect no row, or throw, has a disjunct or an action (`...Fails`) for that. Failures,
crashes and commands draw on a bounded budget (`mishaps`, `troubles`, `acts`, ...), named in each module. Identifiers are
numbers given once. Operators whose comment says that they are a slip are wrong on purpose: each is what a plausible bug would make of
the definition after it, and shows that a property notices it.

Modules whose parts of the system share no state are checked side by side: `MCTelegram` and `MCServices` are unions.
A behaviour is one of the part its first state names; the parts use the variables `v1`, `v2`, ... in turn, under the names of their modules.

## 2. Chunked uploads

`ChunkSessions` is the database: two tables as functions from ids to records, and one operator per SQL statement or
transaction, whose guard is the `WHERE` clause. `ChunkCompletion` is the program: `handler[t]` is one `POST /complete`
with the await it stands at, `sweep[s]` a maintenance run: an operation with the snapshot its claim returned, or none, then the
deletion of expired sessions, then the recovery. What throws cuts the run short (`SweepCutShort`), as a missing target does, and the timer begins the next (`NextRun`).
A completion draws one token, one journal operation, one object and one `files` row, each with a
fresh id, so an attempt stands for all four. `Faults` chooses which failures happen: `"db"` (a statement throws, before its
effect or after it, when its answer was lost), `"store"` (a provider call throws, and nobody knows what it did), `"crash"`.
Time is what statements ask of it: a session is expired or not, a lease is live or lapsed.

`UploadLedger` is the promise: an attempt's effects are visible only while it runs or after it committed, and an upload
is decided once. `ImplementsLedger` maps the tables to it (pending operation: running; resolved as committed: committed).
It lets maintenance take the effects of a committed attempt away (`Lose`), because the code does; see section 8. And a row may
stray from a running attempt (`LoseAnswer`): `INSERT INTO files` commits by itself (`chunkedUpload.ts:416`), so when its answer is lost the row
is there, but the handler records it as never inserted, deletes the object and resolves the journal. `unanswered` holds such rows; `SideEffectsAccounted` is
about all objects and all other rows, and the ledger says that nothing else strays.

`WebUpload` is what comes before: the queue of the browser with its places, pauses and cancellations, the requests of one
upload, and the handlers that reserve a session against the budget and write a chunk through a part file, one handler of a
chunk behind the other. The browser aborts requests whose handlers go on. A completion is claimed, then ends in one step there, well or not; an end that fails may leave
the session `completing` or a pending `journal`, as a crash may, and while it pends nothing reopens, recovers or deletes the session.
The maintenance that resolves it (`Maintenance`) happens but is not fair, because an earlier operation may stop every run: `Rested` says that a session at rest
is `completing` only after a crash or an error.
Chunks have one content; a session is asked for its chunks when its upload is taken up again. What the model shows beside its
properties: if the answer to the `COMMIT` of a chunk is lost, the chunk's file is removed while the table lists it
(`chunkUploadSessions.ts:260`), so the completion fails later; and a client told that its cancellation succeeded may find the session still there.

Left out: owners (a session has one), hashes, limits of rates, the listing of pending operations for an administrator.

## 3. The download queue

`DownloadTaskQueue` is a class in memory; the program is single threaded, so each method is one action, including the call
of `processNext` at its end. `ProcessNext(q, st)` gives the queue and the statuses after it: in queue order, files
whose group exists and neither it nor a scope is paused or cancelled start while places are free. A download that ends
(`Finish`) counts its outcome and turns a waiting pause or cancellation into a final one. The storage cooldown replaces a running
file by a new entry and a timer that resumes the group (`CooldownRequeue`, `TimerResumes`, `TimerIsLate`).
A pause is dropped when the running file of an album ends before the next announced file was added: the group then counts as over.
Left out: progress, pruning above 500 groups. The persistence of snapshots is `TransferRows`: a chain per group, thinned out to one
a second, written by version, under the statements of admission, restart, web cancellation and dismissal. A group that is being cancelled is at no end yet: a
pause may take it on, and so may a late file a completed one (`Follows`). But its row is final by then (`tasks.ts:320` writes `cancelled` at once), so a final `cancelled` tells of a cancellation that came through, is on its way or was undone by a pause (`undone`), and of nothing else. A final row is never written
again; the pauses of all groups do not raise the version; the last of several snapshots that is not final may never be written.

## 4. Storage

`StorageAccounts` has the rows of accounts, the mark of the default on a row and in `system_settings`, the default the
storage manager holds in memory, and the work that uses an account: `Uploads` (one request, nothing but a lease tells of
them), `Tasks` (chunk sessions and transfer tasks, rows with a foreign key), `Jobs` (Telegram jobs, target in JSON).
A transaction that holds the account's row is one step; between the steps of a submission (choose the
target, lock and lease it, insert the row, release the lease) and of a write (lease, write, index, release) everything
else can happen. `init()` of the manager is three steps: the setting is read, the accounts are read, memory is replaced.
Leases lapse and are renewed; a release whose statement fails leaves a lease that nobody holds. A lease whose holder died
refuses the deletion of its account for ever: the deletion asks for `released_at IS NULL` only, although
`storageAccountOperation.ts:75` says that it expires naturally.

`AdmissionPool` counts connections. An admission holds one, with the row of its account locked, and asks for another to take its
lease; so do a scan and a recovery with their advisory locks; a switch waits with its connection for the row. Nothing keeps such
requests fewer than the connections (10 by default, no timeout): with as many they may wait for one another for ever. `ComesToRest` says that everybody is served (`Answered`) but for this,
and `Exhausted` says what it is: every connection is held by one who waits for another.

`AccountSetup` is how accounts come to be: flows of authorisation with the page that waits for them, addition, renewal, refresh of tokens
(whose row and memory are written apart), the settings of older versions and their migration. Histories say what excuses a breach, so that
each property names the only ways there are: a crash between the setting and the row of the account makes the next start insert a second
default, and every start after it fails; a crash before `UPDATE files` leaves the old files unlinked; a refresh in flight overwrites the
token just authorised; two additions at once make two accounts of one client. A failed statement is taken to have no effect.

`StorageClients` is saving and deleting at each kind of provider: folders ensured level by level under a lock that shares its result or its
failure, uploads in one call or in parts, answers that are lost. Two uploads that create one OneDrive folder at once: the second fails (409).
Google Drive gets two folders of one name only from different client objects. A deletion at WebDAV whose answer was lost can never
succeed again, since a missing object is an error (`storage.ts:590`). A lost answer to the last part leaves an object after a failed upload.

## 5. yt-dlp tasks

`YtDlpExecution` is the database, as `ChunkSessions` is: `transfer_tasks` and `ytdlp_write_reconciliations`, one operator per
statement. A claim draws a fresh token and counts `execution_generation` up, so an execution is named by its task and that number,
and so are its journal operation, its object and its `files` row. No clock is needed: whoever clears the token clears its
time, and the claim never looks at a running task (`LeaseWhileRunning`).

`YtDlpTasks` is the program. There are `MaxConcurrent` places; `worker[s]` is the call of `executeYtDlpTask` in place `s` with the await
it stands at, the local variables its compensation reads, and the state of its abort signal. `waiting`, `known` and
`controllers` are the queue's memory; `calls` holds the continuations that wait for an answer (the `enqueue` after a submission or a
retry, the `abort` after a cancellation, `shouldRequeue` and the `process()` after it), so commands come in between. `faulty` is set
by a statement or `mkdir` that fails, and by an `abort` that is processed after a retry and the next claim and so hits the wrong
execution. A controller registered by a worker whose directory could not be made stays for ever (`Leaked`). A call of `saveFile` that
throws leaves an object `"inDoubt"`.

Left out: the child process, the choice of the output file, names and paths, messages to the chat, the limit of 500 tasks
at startup, and `resolveYtDlpCompensated` and `markInterruptedYtDlpExecutions`, which nothing calls.

## 6. Telegram

`TelegramJobs`: a subscription scans the messages after its cursor with a job per scan, a range job scans in segments; a runner claims
items in batches with a lease, renews it, and settles each in one step; the recovery worker repairs and resumes. A message is its id, `latest` the
newest. Truths the model shows beside its properties: an item whose last attempt failed is made pending again by a reached quota (`telegramChannelJobs.ts:922`, if its error speaks of a limit), but
the claim asks for `attempts < $2` (`:1020`), so nobody takes it, its job runs for ever and cannot be retried; a `FloodWait` puts a job that was finalised meanwhile to sleep for good (`Asleep`), since the sweep wakes only jobs without an end; a job may end
`completed` although a file failed, so that a retry is refused; a job paused while its runner writes a final state cannot be resumed. A sweep takes up `LIMIT 5` jobs (`Resumed`): `Served` excuses these, and nothing else.

`TelegramWrites` is one item in detail: two leases, two tries each, the journal and its sweep. The first try has no journal row, since
the id of the job is put into the reference by `withTelegramDownloadRefLease` (`telegramChannelJobs.ts:1216`), which the first try has not called before it begins. The sweep looks at its own lease and then
deletes, even after the worker's commit: an item that succeeded may lose its object. A sweep during `saveFile` leaves the row to an
operator; a crash between the two marks leaves it pending for ever. A lost answer to the `INSERT` leaves the row (`stray`) while the object is removed and the
journal told that nothing was inserted; `WorkAccounted` names that row and no other. The lost answer of a journal statement is not a case: the journal then knows more than the worker, whose compensation writes it again.

`TelegramChat` is the albums of a chat: deliveries, timer, processor, batch, silent session and card. Old cards keep their control
scope; a file that comes late to an album may end a session early. `SingleFiles` is the other half of `handleFileUpload`: one delivery per message, an entry in the tracker,
a task with two tries, a cooldown, a cancellation at any moment. Nothing of it is in a journal, so a crash between object and row leaves an object.
An admission that fails loses the file and tells nobody (`telegramBot.ts:1917`); a cancellation after the last look at the signal leaves the file,
counted as cancelled; a lost answer to the `INSERT` keeps the row without its object, and the second try makes another; a cooldown whose
statement fails on a repetition leaves the entry for ever (`Tracked` names it); a task that is cancelled does not end its session, the next message does.

`BotConversation`: every update has its own handler, and a wizard is an object that a waiting handler keeps. A user who writes on before the
answer came may still change a wizard that is already confirmed (`hasty`). `TaskCenter`: one card over three kinds of tasks; a handler looks the task up, then acts on what may have moved on.
A group of the memory with a file in hand is only marked (`cancelling`), is listed no more and ends with that file; a pause by command writes over the mark, and the group is alive again.
The bulk cancellation passes over failed yt-dlp tasks and over a channel job between two of its batches; what it found is over or ends with its file, unless a statement failed, the user had it tried again, or paused it while it ended (`BulkTakesAll`). Pause and resume change row and group one
after the other and may cross; the press of another user removes a pending question. `BotFiles`: clearing takes a file on the disk
that is not indexed yet for an orphan; after its indexing the row has no file.

`BotSignIn`: the keyboard, the lock after `MaxFailed` failures, the list of allowed users and the code. One wrong PIN may count twice; a saved list
that crosses the first user's automatic entry loses one of the two; a user removed while he is written down stays in memory until his next message is checked.

## 7. The web

`FileLibrary` is each object, its row and its preview under all that makes or removes one of them. Deletion reads its scope again after the token was
used; an import may index the object of an upload in progress, whose `INSERT` then fails and takes the object away, or bring back the row of a deleted file; a preview finished while its file is deleted is left; a lost answer to the `INSERT` of an upload leaves a row whose object is removed.
A deletion drops rows by id, so each handler keeps in `rows` which of those it has read are still there: a row that an import brings back is another. The sweep relies on age.

`FolderTree` is the folders of the accounts: a row is a file or stands for an empty folder, and a folder is there when some row is in or below it. A request is its
checks, one by one, and its update, at read committed: between them others write, and the default account may be switched, which every statement reads anew. `since` notes what
was written since a request first looked, and of which kind: this is what `ChecksHold` excuses, and nothing else. A creation, a rename and a move that cross may mix two folders
into one (`crossed`). The star of a folder is turned over for all rows below it, and its list shows a folder as starred if all of it is, so two requests for one star may both set it. What the model shows
beside its properties: the row of every empty folder has the path `.folder`, and an account may have a path only once (`schema.sql:124`), so in a cloud account
the second empty folder is refused, whatever its name (`Refused`; `routes/files.ts:302`). `deleteFileIndex` and an upload take rows away and add them (`Depart`, `Arrive`).

`FileList` is keyset pages on the server and the list in the browser. A row is a key and an id; `since` are the rows that were in the view all along.
`loadFiles` that overtakes `loadMore` leaves `loadingMoreFiles` set (`App.tsx:379`); after a list that failed, loading more adds to the rows of the view before.

`WebSessions` is the administrator's set-up, passwords, sessions and the second factor with the pages of two browsers. Two set-ups of the second factor that cross may
enable a secret other than the one whose code was verified (`clash`). The limit of requests is left out.

## 8. What the runs show

| Run | Instance | Shows |
|---|---|---|
| `chunk_faults` | one upload, one attempt, one sweep, all faults, fair | nothing is left at a provider or in `files` that the journal does not know, but the row of a lost answer; commit and session agree; chunks stay while the upload can be completed; outcomes are final; a completion nobody works on is handed back unless the runs are cut short for ever |
| `chunk_races` | one upload, two attempts, one sweep, crashes | at most one attempt is committed; the ledger is implemented |
| `chunk_lost_object` | one attempt, one sweep, no fault | **violated**: a completed upload may have lost its object |
| `task_queue` | an album of two files, a single file, one scope, limit up to 2, one retry | overrides are true of the files; no file loses its group; none waits beside a free place or is missing in the totals; starts respect limit and pauses |
| `task_queue_cancel` | the same | **violated**: a cancellation in progress may be undone |
| `storage` | two scenes: two accounts, two switches, one job, one crash; one account, one upload, one task, two leases | both places of the default agree; memory follows; a user of an account refuses its deletion at every point; a job loses its account by a retry only |
| `yt_dlp` | two tasks, one place, two executions of each, four commands, faults or crashes | nothing saved is forgotten; a completed task keeps its file; one worker per task; no task is left without somebody who goes on with it |
| `yt_dlp_lost_object` | one task, one execution, three commands, faults or crashes | **violated**: a restart may complete a task without its object |
| `telegram` | the parts `jobs`, `writes`, `chat`, `files`, `file`, `clients`, `web`, `bot`, fair | a job that ends has listed its range; effects of writes are accounted for; files saved are whole; every delivery is seen to, once; cards work; sign-in is in order; nothing is left waiting |
| `telegram_cursor` | one job, three messages, a scan limit of two | **violated**: the cursor may pass messages that were never listed |
| `services` | the parts `uploads`, `rows`, `library`, `list`, `talk`, `center`, `bot`, `folders`, `setup`, `pool`, fair | what was acknowledged is recorded; rows are true; files stay until a confirmed deletion; lists are complete; folders are not mixed up; what is done is what was agreed to; everything comes to rest |
| `file_pages` | two rows of one second, pages of one | **violated**: a row may be in no page |

Bounds. Uploads are independent of each other (no statement names two), so one is enough; two attempts are what it takes
for a stale handler to meet its successor, one sweep for a stale snapshot to meet a handler. Two files of one group and one
of another are what it takes for a group to be partly in flight, and for a start to pass a group over. Two switches overlap;
a third adds no new kind of overlap. Two leases let a task hold one for its admission and another for its write, or a second
user be refused by the first. Two tasks for one place are what it takes for
a task to wait, two executions for a stale worker to meet its successor; four events allow submit, cancel, retry and one fault, or two faults
and a crash. One job of two messages with segments of one has a scan that is interrupted half way, and an item done while another is in flight. Two leases
are a worker and its successor. Two deliveries are the least album, and one may come twice. Two single files share a session with one mishap; one
file has three mishaps, enough for two cooldowns and a failing statement. Two uploads race for a folder, two levels deep. Two browsers, two
users with two hands each and three passwords let every pair of requests cross. Two chunks with two writers race for one chunk while another is
written; a budget of three admits a session and refuses the next. Local and cloud files differ in the sweep and the import. A folder within a folder, another beside it and a name as long as two segments (`Short`) are what it takes for
a move into itself and a path that only begins like another; one account is local and one in the cloud, two rows stand for folders, and two requests, one of which may begin again, cross one write from elsewhere. Two rows and a page of
one have a boundary. Three requests for two or three connections, as many of them as like holding one while they wait, meet the bound of the pool and exhaust it. The remaining `Max...` bound counters in guards.
Symmetry is used where twins are interchangeable, and only in runs without liveness.

Deadlock is not checked where all attempts and commands may be used up and the work done: the system may stop.

Fairness. A handler that waits for a call gets an answer (`Proceed`, `Work`, `Step`, `Process`: provider clients and the driver have timeouts or fail), timers fire
(`setInterval` and `setTimeout`: maintenance, the sweeps, recovery, cooldowns, the scan), leases run out (they are times in the database), and a
file that nobody knows of gets old (strong, since each sweep and each deletion looks for a moment only). Nothing is assumed of users, of
renewals, of crashes or of failures, except that there is an end to them; after the budget of mishaps the rest must go well.
The recovery of sessions has no fairness of its own: it comes last in a maintenance run, so `AbandonedRecovered` is said of behaviours in which runs are not cut short again and again
(`<>[]~CutShort`): a target that is gone cuts short every run (`chunkedUpload.ts:62`), and nothing in the code ends that.
In a union of parts the weak fairness of parts that exclude each other is one formula in `services`: a part is never left.

What the violated runs say:

* `chunk_lost_object`. The sweep claims every pending operation that no other sweep holds, also that of a handler still at
  work (`runChunkMaintenance`, `routes/chunkedUpload.ts:60`). It deletes the object; the handler's own guards still hold; it commits.
  A related loss is not a run: a crash between the journal entry and the record of the object leaves an operation that the sweep gives to
  an operator and never takes again; recovery, cancellation and retry skip such a session, which stays `completing`.
* `task_queue_cancel`. `pauseGroup` does not look for `cancelling`: the pause replaces it and the group is never cancelled.
* `yt_dlp_lost_object`. `COMMIT` of the `files` row takes effect but answers with an error; the compensation deletes the object first
  (`ytDlpDownload.ts:262`); the process dies before the row is deleted; the restart finds the evidence and the row of before.
* `telegram_cursor`. The recovery worker takes the job of a scan in progress, finds nothing failed and moves the cursor to `params.toId`
  (`telegramChannelJobs.ts:1980`), past the messages the limited scan has not listed.
* `file_pages`. The cursor of a page carries the time of its last row with less precision than the table has, so a row of the same
  second after it is skipped.

## 9. What is proved

For every value of the constants, with no assumption but the named ones on constants:

* `ChunkCompletionProofs`: `TypeOK`, `SideEffectsAccounted`, `OneCommitPerUpload`, `CommitMatchesSession`, `ChunksKept`,
  `NoUnresolvedCommit`, `OutcomeIsFinal` and `ImplementsLedger`. None is inductive alone. The invariant says, per point of the handler, which
  evidence its operation must show, that only the holder of the session's token can have a pending operation that could commit, and that
  a resolved operation without a commit has no effects left but a row of a lost answer. The first part of the module reduces every step to the statement it executes;
  the refinement goes the same way: each statement is a step of the ledger, or none.
* `DownloadTaskQueueProofs`: `TypeOK`, `OverridesEarned`, `FilesHaveGroup`, `NobodyForgotten` and the action property `StartsAreAllowed`.
  `Inv` is about groups and records: the argument goes through what a command leaves before the scheduler runs. `Whole` adds the types, that no file
  waits beside a free place, and that the totals of a group cover its files. The scheduler is treated by what it yields: `Only` and
  `FirstOf` take files of the queue in its order, lemmas say which and how many, and the first files that may start fill the free places exactly. (The
  prover cannot expand `SelectSeq`; `Only` is that, which TLC checks on short queues in `MCDownloadTaskQueue`.)
* `StorageAccountsProofs`: `TypeOK`, `LiveTasksHaveAccount`, `WritesHaveAccount`, `SettingIsConsistent`, `MemoryFollowsSetting`, `OnlyRetryOrphans`.
  The invariant adds that a write in flight holds an unreleased lease on its target, that leases name accounts that exist, and that a row not
  yet inserted has no journal: with these, every user of an account is one the deletion asks for. For the memory: while nothing
  disturbed an initialisation at most one is under way, and the accounts it has read are those of the last switch.
* `YtDlpTasksProofs`: `TypeOK`, `LeaseWhileRunning`, `SideEffectsAccounted`, `CommitMatchesTask`, `PendingIsClaimable`, `OneWorkerPerTask`, `TasksAreServed` and the
  action property `CompletionKept`. `TaskInv` holds what the tables must keep true between them: at most one open operation, of the
  last execution if the task runs, and nothing known of executions to come. `WorkerInv(s)` says what the worker at each await knows:
  before `beginWrite` nothing is stored of its execution; from there to the end of the compensation its operation is open, and each flag
  (`finalPath`, `fileId`, what was deleted) is true of the store. No two workers share an execution (`OwnExecution`), so a step of one
  leaves what the others know alone, even of workers that were cancelled and retried meanwhile. The commands only move rows (`RowsMoved`); the
  restart runs with no worker left (`DownIsEmpty`). `CompletionKept` follows: only a worker with an open operation deletes, and
  a completed task has none. `ServiceInv` is about the scheduler: the line lists exactly the known tasks that
  wait and fills the places, a controller is that of a worker of its task, and, while nothing fails, a running task has its worker and a pending one is in the line.
* `WebUploadProofs`: what `UploadsSound` is made of, from `Sized` (finitely many tasks and chunks, 0 is nobody, at least one place, as the constructor of `BoundedUploadQueue` demands). The invariant
  has two sides. On the server every file belongs to a handler at work, to the table or to a directory about to go; a handler that has not recorded its chunk is not the
  one the table names for it, so that the file it gives up is never the one the table lists (but after the lost answer of section 2). In the browser an entry waits in the line at most once, the places taken are those of
  active entries, and a request that is waited for was sent by the run its entry is in.
* `ServicesProofs`: `RowsSound`, `UploadsSound` and `LibrarySound` of the composed run. For `UploadsSound`, its part is an instance with the same substitution as that of
  `WebUploadProofs`; lemmas say so definition by definition, and the theorem is cited for it. The rows of the transfer tasks: the last of the snapshots that wait for a group
  is the newest and none is from the future; unless a snapshot was lost, a group that is over has its end in the row, or waiting in the last snapshot; a row tells of ends the
  group did come to; a version that is hidden is the present one at most, and then the row is one that may be dismissed. `LibraryInv`: an object is stored once; one that was uploaded and
  that the sweep did not find in the table is fresh, so too young for it; a row that a deletion has read and that is still there has its preview, if any,
  among those the deletion will remove, and what it says is gone is gone. `ListInv`: a request in flight is either outdated or for what the user looks at, from where the list ends, and a page that is
  delivered covers all rows that were there throughout, from its cursor to the next (`Covers`). This is where the order must be one of `key` and `id` that the cursor carries exactly:
  `ListSized` assumes `Precision = 1`, the list by name; by time it fails, which is the run `file_pages`.
  `FolderInv` is what a request may count with where it stands, depending on what was written since it looked: the folder it creates is still free if no folder and no file came, and so for each of its
  checks; two rows that stand for one folder are there only if a write came between a check and its update.
* `AgreementProofs`: `AgreedIsDone`, part by part. `CenterInv`: of each task, the cancellations accepted, those that lapsed and the open question are never more than the questions asked; what a bulk cancellation found
  is over, ends with its file, or a handler still reaches it (`Reaches`), and what was over stays so unless it is no longer counted as found; the group of a cancelled job is stopped or its handler is about to stop it. `BotInv`: a handler deletes what the user named, or what is older than the question (`Older`, `Deletes`). `TalkInv`: the terms shown last are those of the wizard (`Showing`),
  and a handler that waits has its wizard for itself, or the user was hasty (`OnItsOwn`); with it, what jobs and subscriptions have and that a prompt serves once. The handler that takes an update is the least free one (`TalkSized`: they are finitely many). `SetupInv`: what a request may count with at each of its steps, of its
  rows (`RowsFit`), of the grant it was given (`GivenFits`), of its flow (`FlowFits`), and of what the start has read (`BootFits`); that an application has one row while nobody looked at the same time (`OneRow`, `OnePends`);
  that the mark of the default and the setting agree (`DefaultsFit`), the old files have their account (`OldFilesFit`), and the rows and the memory the last grant (`GrantsFit`). Assumed are that the kinds of tasks are apart (`TasksApart`), and that
  the start of the process is no request and an application has an id (`SetupShaped`).
* `TelegramProofs`: `SignInSound`, `WorkAccounted`, `Once` and `ChatAttended`. `WebInv` says at which step each kind of request may be and on which page
  its browser is, and what it carries: a new password with the one it was given for, the secret whose code was verified (unless two set-ups crossed). `BotInv` says of each
  handler that its user has entered what his place requires: the PIN before he is counted or listed, all of it before he is remembered. `FirstPassword` is the assumption that
  the password set first has a number. `JobsInv`, for jobs over ranges: a row knows from which message on it was listed (`Marks`), because the scan goes down from the newest and
  notes the lowest it has passed; the loop that works on it knows what is left of the segment it just read, and that after the last segment or when it drains nothing is
  left (`Lists`). A segment that was read holds the newest messages that were not listed; that one shorter than its size holds all of them is an argument about cardinality. The scan and the sweep work on the same rows,
  and what is listed stays so: that is all one has to know of the other. `RowsNumbered` and `RangesNumbered` are the assumptions: rows and messages have numbers and a segment is not empty (`telegramChannelJobs.ts:27`).
  `WritesInv`: what the worker may still store or insert, it has not stored yet; an open row is of the worker that holds the item, or nobody holds it; what the journal
  calls deleted is gone and does not come back. `FilesInv(M)` is for any set of files and bound on tries (`F` is one instance for both parts): a task is active
  while its worker is at a step between the claim and the end, what that worker has stored is what its step says, before the first save nothing is there but what a lost answer left,
  and whatever is there of a file is of its last try. `ClientsInv`: the folders form a tree in which no client makes a name twice below one folder (`Tree`, `P!OneFolder`); an entry
  of the map of promises is of an upload that lists or creates, and there is one for each folder (`Shared`); and for each upload, what it holds of its file, the folder it is in,
  why it failed, and for whom it waits (`Word`, `Place`, `Cause`, `Turn`). `BelowRoot` says that a path has at least one folder: the first is the service's own (`storage.ts:748`, `storage.ts:1277`).
  `ChatInv`: an album that has begun has a processor and one that is gone no files; a file about to be queued still waits; a delivery that has not joined its album is unknown to the queue.

`TypesHold` of `services` is proved in two halves: `ServicesTypes` (uploads, rows, library, list, folders) and `AgreedTypes` (conversation, task centre, deletion, accounts, pool; `Bounded` says that the bounds are numbers).

Model-checked only: liveness (out of the prover's reach: `AbandonedRecovered`, `NothingLeftWaiting`, `ComesToRest` and the others); `TypesHold` of `telegram`.

## 10. Not modelled

* The cooldown table: one upserted row per account. What a cooldown causes is in `DownloadTaskQueue`, `TelegramJobs` and `SingleFiles`; which
  errors count as an exhausted provider is a matter of their texts.
* The user client of Telegram, API keys and signed links: connections and checks without state of their own.
* Media: streams, thumbnails, previews as images, the download of bytes, the disk watermark; the names of files and folders, duplicates that are skipped.
* Covers and sizes in the list of folders.
* `/tg_download` with all arguments in one message, and the reply with the result of a job: a shorter way to the same job.
* `/start`, set-up of the second factor by the bot, the lock over all users, limits of rates.
* The encryption of rows of older versions at start-up, the migration of the schema, deployment, `backend/dist`.
* Rendering, navigation and the wording of every message; the counters of a silent session, which may count a file twice.

## 11. Plan

The order was that of importance: what may lose data first (`ChunkCompletion`, `StorageAccounts`, `YtDlpTasks`, `TelegramJobs`, `TelegramWrites`),
then what schedules it (`DownloadTaskQueue`, `TelegramChat`, `SingleFiles`, `WebUpload`), then what users see and agree to. What is left to prove is `TypesHold` of `telegram`, part by part.
