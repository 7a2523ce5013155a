# TLA+ models of the tafreegh backend (RADY_APP)

The repository is a FastAPI application for vehicle-plate lists: it transcribes
recorded audio to plates (Gemini), compares two Excel lists ("check", فرز),
checks plates live over a websocket, stores large lists in Postgres, and routes
between GPS points. Several processes (Gunicorn/uvicorn workers) may share one
Redis (`README.md:82`) and one database.

## Inventory

| Component | State | Operations | Interacts with | Hard behaviour |
|---|---|---|---|---|
| Check job pipeline: `routers/check.py`, `services/check_queue.py`, `services/job_store.py` | Redis list of jobs, one row per job with a TTL, temporary files, worker tasks | POST /check, status, result, worker loop, start, stop | Redis, file system, lifespan of the process | concurrent handlers and workers of several processes, lost Redis replies, stop and crash, expiry |
| Provider key pool: `services/provider_key_pool.py`, `services/provider_keys.py`, `routers/proxy_ors.py`, `routers/admin_provider.py` | Redis list `order`, hash `secrets`, zset `parked` | rotate, park, promote, delete, add, list | every Gemini, ORS and Maps call | no transaction around several commands |
| Live session: `core/plate_checker_ws.py`, `core/session.py`, `services/gemini_usage.py` | one SessionState per `user:client`, cleanup tasks, usage counters, semaphore | connect, reject, open, message, hang up, flush, idle cleanup | key pool, user database, Gemini Live | reconnections and tabs that overlap, cancelled timers |
| Live turn logic: `core/plate_checker_ws.py` | turn buffer, transcript, anchor, keys emitted in the turn, workbook | Gemini messages, client messages | session | two tasks over one session between awaits |
| Audio jobs: `routers/audio.py`, `services/gemini.py` | row, upload file, semaphore | POST /process, background task | key pool, job store | failover after a failed attempt |
| Tickets and upload tokens: `services/ws_check_live_ticket.py`, `services/live_excel_upload_store.py` | keys in Redis, a dictionary per process, temporary files | mint, put, consume, pop, prune | live websocket | two stores, lost Redis replies, restarts, expiry |
| Authentication: `services/auth_service.py`, `routers/auth.py`, `dependencies/auth.py` | refresh tokens, the bound device, `is_active` | login, refresh, logout, every authenticated request, enable, disable, device reset | user database, subscription | concurrent rotation, commits on rows read earlier |
| Subscription and billing: `services/subscription.py`, `routers/admin.py`, `services/gemini_usage.py` | start of the cycle, stored renewal, usage rows | promote, expire, renew early or late, record usage | authentication | the clock between two steps, renewals and expiries that overlap |
| Check storage: `services/check_postgres.py`, `services/check_group_sync.py`, group handlers of `routers/admin.py` | imports and rows under row level security, groups and limits in the user database, their mirror in Postgres | import, delete, check, collect GPS points, create and move users, groups, limits | two databases | quota and duplicate tests in other transactions than the insert, failures between the databases |
| Temporary check sessions: `services/check_temp_storage.py` | session row, its plates | start, ping, upload, query, look up, close, purge | live check | expiry against use, uploads that overlap |
| Plate matching: `services/check_match.py`, `services/plate_utils.py`, `services/excel_utils.py` | a temporary SQLite file | normalise, detect the column, index, compare | check jobs, live check | boundaries of batches and samples, spellings of one plate |
| Excel, GPS, catalogue, configuration, migrations, web client | none shared | requests, single-row CRUD, startup | - | - |

What makes them correct: an accepted job is executed at most once with its files
present, its row never goes back from a result, and it is executed at all when nothing
fails; the pool never loses a usable key and a request tries all of them; a live session
stays while it is used, is removed when it is not, and its usage is billed once; paid time
is neither lost nor made; a one-time token is accepted once; quotas and the mirror of the
groups hold except where requests race, a call between the two databases fails, or the id of a
deleted user is handed out again, and a check shows only what its user may see; a
comparison finds every pair of rows of one plate.

## Modules

| Module | Models | Level of a step |
|---|---|---|
| `CheckLifecycle` | what a check job promises: its row and whether it is new, open, running or closed | one transition of a job |
| `CheckJobs` | the pipeline with Redis: handlers, list, rows, files, workers, processes | one Redis command or file effect |
| `MemoryQueue` | the pipeline without Redis: `asyncio.Queue`, rows in a dictionary, sentinels | the code between two awaits |
| `AudioJobs` | transcription requests, their background tasks and the failover over the keys | the code between two awaits; whole pool commands |
| `KeyPool` | the key pool, its rotation and failover loops, its admins | one Redis command |
| `LiveSession` | the shared SessionState, its cleanup tasks, metering, semaphore | the code between two awaits |
| `LiveTurn` | the turns of one connection: buffer, transcript, anchor, plates sent | the code between two awaits |
| `Accounts` | one user: row, refresh tokens, usage, the requests of the user and of admins | a query or a commit of a request |
| `CheckStorage` | stored files, quotas, groups in two databases, checks over them | a transaction, or a statement a later one relies on |
| `OneTimeTokens` | the two stores of tickets and upload references | one call |
| `TempSession` | one temporary session and its requests | one statement |
| `PlateMatch` | the comparison of two sheets and the algorithms on plates | one row |
| `RedisLists` | `LPUSH`, `RPOPLPUSH` and `LREM` as `KeyPool` and `AudioJobs` use them | operators |
| `CheckJobs_proofs`, `MemoryQueue_proofs`, `AudioJobs_proofs`, `KeyPool_proofs`, `LiveSession_proofs`, `LiveTurn_proofs`, `CheckStorage_proofs`, `Requests_proofs` | inductive invariants and theorems | - |

The modules `MC*` hold the instances for TLC; `MCRequests` runs `Accounts`,
`OneTimeTokens`, `TempSession` and `PlateMatch`, which share no state, one at a time. Definitions
named "Mutant" are faulty variants of the definition that follows them; no specification
uses them. They show that each property can fail: `PROJECT.json` pairs them with the
properties.

### CheckJobs

`queue` is the Redis list (`LPUSH` appends, `BRPOP` takes the head), `row` the value
of `job_save`, `files` the two temporary files, `pc` the handler of a request, `wpc`
and `wjob` the worker tasks, `proc` the processes. Each action is one Redis command
or file-system effect of `check_plates`, `enqueue_check_job`, the worker loop or
`process_check_queue_item`, with its error path: a command may raise without effect,
or after Redis applied it. `Stop` cancels the workers of a process as
`stop_check_queue` does (`finally` unlinks, `except Exception` does not run);
`Crash` runs nothing. The row expires at any time after its handler ended, since a
job may wait longer than the TTL.

The Excel comparison is a thread that ends in success or an exception. Job contents,
the per-user rate limit and the download endpoint, which changes nothing, are left out.

### KeyPool

The list, hash and zset of one kind. Every client runs the same loop: promote due
keys, `LLEN`, then `RPOPLPUSH`, `ZSCORE`, `HGET` per key and, by the provider's
answer, return, go on, park (`LREM`, `ZADD`) or delete (`LREM`, `HDEL`, `ZREM`).
Answers are nondeterministic. An admin adds a key (`HSET`, `LPUSH`) or deletes any uid a listing
may have shown: one already gone, or one that another admin is still adding, which the listing
calls an orphan. `early` records the uids that were deleted from the list between those two
commands (`BeingAdded`), which end up in the list without a secret. A parked key is "until" a midnight to come or "due".
`MidnightRaises = TRUE` is the code: `next_midnight_utc_ts` evaluates `time.min` on the
module `time` and raises between `LREM` and `ZADD`. `FALSE` is the function its
docstring describes; one run uses it, because the code as committed never parks a key
and the promotion would not be exercised at all.

### LiveSession

Objects and cleanup tasks are named by the connection that creates them. A connection
goes new, model, wait (semaphore), dial, ready, live, ending, flush, wipe, closed, or
is rejected. Time is abstract: a sleeping task may wake at any moment; it may find the
session not due only if something touched it after the task began to sleep, and may
always find it due (hard TTL). `mishaps` records that connections overlapped or that the
database failed a handler: `ActiveKept` (the session stays, and so does the
upstream: `OwnSession`, `OwnUpstream`) and `BilledOnce` speak of connections no other one overlapped, since the source lets the last one to arrive or
leave have the session; `AbandonedWatched` and `IdleRemoved` hold for every overlap but
not after a database error. The `except` clause at line 841 cannot run after the
session exists, so lines 847-851 are unreachable and have no action.

### MemoryQueue

The branches of the same functions that run without `REDIS_URL`. `job_save` and
`put_nowait` do not suspend there, so that a handler answers in the step in which it
saves the row. `stop_check_queue` waits for room for each sentinel (`PutSentinel`) and
then for the workers (`EndStop`). The rows live until `schedule_job_cleanup` runs
(`Forget`), which no one calls for the row of a refused request. Both `CheckJobs`
and `MemoryQueue` implement `CheckLifecycle`: what a client may observe of a job does not depend on which of them serves it.

### AudioJobs

`process` and `_audio_job_task` with `process_audio` as one attempt. Requests belong to a
process (`Home`), whose semaphore has `Places`; all share the pool. The pool's commands
are whole here (`KeyPool` takes them apart), and a quota takes the key out of the list and
raises, as `KeyPool` shows. It implements `CheckLifecycle` too. Saving the usage never
raises (`gemini_usage.py:209-213`), so `Bill` has one outcome.

### LiveTurn

The transcript at Gemini is a sequence of words of which only "is a plate" matters; the
text buffer is a sequence of plates with a flag whether it parses. A verdict is named by
the plate column it was looked up with. `Quirks` says what may happen besides user and
model taking turns: `column` (the client changes workbook or column), `interrupt`,
`silent` (a turn without a transcription), `repeat` (the same transcript again),
`restart` (a new transcript); `calm` holds until one of them happens.
That transcripts are cumulative is taken from the source's own comment (`plate_checker_ws.py:744`), the service itself is external. The lookups in a
temporary Postgres session and the letter-level rules of `_sanitize_live_plate_text` are
left out.

### Accounts

`row` is the user's row (`is_active`, start of the cycle, stored renewal, device), `tokens`
the refresh tokens, `usage` the usage events, `req` the requests in progress. A request that
enters the server (login, refresh, logout, any authenticated one) promotes a stored renewal
(`Promote`), then looks whether the cycle is over (`Expire`, with a second reading of the
clock), revokes and switches off (`Revoke`, `SwitchOff`), and goes on to its own work. SQLAlchemy
writes the columns that differ from the row the request read (`Write`), so that a commit may
rest on what has changed: `raced` records that, and the properties that only hold without it
say so. `Tick` lets the cycle end between any two steps. Usage is anchored to a cycle as
`gemini_billing_cycle_start_for_event` does, and an early renewal moves what came after it.

### CheckStorage

`known`, `groupOf`, `limit`, `own` are in the user database; `mirror`, `imports` in Postgres.
`Importers` and `Checkers` are threads, so that each of their transactions is a step;
`Admins` are event loops of processes, whose handlers interleave only with each other. A
policy shows a row to its owner, to members of the owner's group by the mirror, and to
admins. `CutShort` is a Postgres call that fails after the commit in the user database, or the
death of the process; `Crash` that of an importer between its transactions. The role of the DSN is taken to be
subject to row level security, as `FORCE ROW LEVEL SECURITY` intends. SQLite, the default user database, does not
enforce the foreign key to the group (`db.py:7-9` sets no pragma), so that a user may be put in a deleted
group (`CommitMove`, `CommitCreate`), and may hand out the id of a deleted user, whose rows are still in
Postgres; another database may refuse the first, and the model has both outcomes.

Three histories name what the properties exempt. `stale` has the requests whose count or limit has changed
since they read it. `lapses` collects what a quota does not survive: `"raced"`, a stale request
committed; `"unsynced"`, an import was stored whose peers, read from the mirror, were not the members of its
group (`blind`), as after a failed call, when imports one after the other overshoot; `"inherited"`, a new user got an id with
stored rows. `crossed` says that admin requests about one user or group met, or one was cut short. `RowsOf` counts
the pairs of an import and a plate, which are the rows that `SELECT COUNT(*)` sees.

### OneTimeTokens

`stored` are keys in Redis, `memory` the dictionaries of the processes. Neither module
awaits, and the scripts of Redis are atomic, so a call is a step with the outcomes of its
command: applied, not applied, applied with the reply lost. With one worker a ticket falls
back to the memory when Redis fails, with several it does not (`_multi_worker_mode`);
references to uploads have one store only. `Accept` is what the live connection does with
them, the removal of the file included. Pruning removes all expired entries here, at most 500
in the code; those it leaves are refused all the same.

### TempSession

One session, its plates, and requests whose statements interleave. `Touch` is the UPDATE of
`last_seen_at`, which takes the lock of the row until the commit and writes the time the
transaction began. `Purge` runs at the start of most requests; under forced row level security
it sees no row (`bypass`). `could` keeps the contents that were current while a request was under way.

### PlateMatch

A cell is a sequence of characters and, for the property only, the plate its writer meant.
`Letters`, `Digits`, `PlateFrom`, `Legacy`, `NormalizePlate` and `FormatDisplay` are the
functions of `plate_utils.py` over two letters in two scripts, one variant, a tatweel, two
kinds of digits and separators, and two Latin letters that are on no Saudi plate (`Foreign`), which the
code keeps as they are. The steps read the large sheet in batches into the index, read
ahead in the small one to detect its column, and compare row by row.

Characters are named (`"alefHamza"`, `"indic1"`, `"space"`). `Keep` is a recursive function over
positions, so that what it keeps can be proved: the recursive operators under `SelectSeq` could not be
reasoned about. What a cell means is a reference of its own: `Spelled` says by a one-to-one map of
positions, without any function of the code, which plate or word the characters of a text say, and
`CellsAssumption` requires that of every cell of the instance. `MatchSound` compares the workbook
with the pairs of rows of one meaning; `KeysStable` says that a key of the index is its own key,
unless it is that of a plate whose letters are all `Foreign`, and that every plate as the workbook
shows it, such a one included, leads back to the key of its row. The key of such a plate is in Latin letters still and is
turned round each time it is normalised: `Turned` says how the workbook shows it.

## Runs

| Run | Instance | Shows |
|---|---|---|
| `check_jobs` | 3 requests on 2 processes, 1 worker each, depth 1, 1 failing command, 1 stop or crash | one place, files present, no return from a result, refinement of `CheckLifecycle` |
| `check_jobs_live` | 3 requests, depth 2, no failures, fairness | accepted jobs are executed |
| `memory_queue` | 3 requests, 2 workers, depth 2, a stop at any time, fairness | bounded queue, an accepted job is in it or with a worker until it is executed, the stop ends and drains it, accepted jobs are executed, refinement of `CheckLifecycle` |
| `key_pool` | 2 loops, 2 admins, 1 key and 1 to add | the rotation list repeats no key and names one without a secret only when it was deleted while it was added |
| `key_pool_parks` | 1 loop, 3 keys, 1 never added, parking repaired | no key is lost, a cycle covers the pool |
| `key_pool_orphan` | 1 loop, 2 keys | violation: a key that met 429 is lost |
| `live_session` | 3 connections in any overlap, 1 place, database errors, fairness | session and upstream kept, billed once; an abandoned session is watched and removed |
| `live_turn` | 2 plates, 2 columns, 3 words, buffers of 2, all quirks | the final list agrees with what was shown; in calm turns the plate looked up is of this turn |
| `audio_jobs` | 2 requests in 1 process, 1 place, 2 keys, 1 fault, 1 crash, fairness | uploads are removed, refinement of `CheckLifecycle`, accepted recordings settle |
| `check_storage` | 2 users (1 admin), 1 group, 2 importers, 1 checker, 2 admin processes, 3 requests, 1 failure | mirror, quota, imports and checks are sound |
| `requests` | accounts: 2 requests at a time of 3, 2 devices, cycle of 2 ticks, 5 ticks, 1 usage event; tokens: 1 ticket, 2 uploads, 1 or 2 processes, 2 losses; session: 2 requests at a time of 3, 2 plates, ttl 1, 2 ticks; sheets: up to 3 and 4 rows | paid time is neither lost nor made, tokens stay with their device, usage goes on counting, a one-time token is taken once, a session answers from one file, a comparison is the join of its sheets and shows plates by their keys |
| `account_boundary` | 2 requests, 1 device, cycle of 2 ticks | violation: an account with a stored renewal is deactivated |

### Bounds, and why they suffice

- Jobs: two handlers race on the depth test, the third meets a full queue or waits behind
  an executed job. In `audio_jobs` one job holds the only place and the other waits for it;
  processes share nothing but the pool there, whose interleavings `KeyPool` has.
  In `check_jobs` two processes separate the one that dies from the one that goes on.
- `MaxFaults` = 1 and one stop or crash: error paths of the code do not nest, and
  each is taken at every command. Two failures of one job are covered by the proofs, which
  hold for every `MaxFaults`, `MaxEnds` and `MaxCrashes`.
- Queue depth 1 or 2: full and nearly full are both reached with three jobs.
- Keys: in `key_pool` one key that is there and one that is added meet two loops and two admins, who
  may delete the same key, or the one the other adds; more keys only make the list longer, and are covered
  by the proof. In `key_pool_parks` three make a cycle that is parked and skipped in the middle. Keys
  are added as long as there are any left.
- Connections: two overlap, the third comes after or between them; one place under the
  semaphore makes the others wait, and a place for all only removes that wait.
- Words and buffer (`MaxWords`, `MaxBuffer`): two turns with a word that is a plate and
  one that is not; two plates in a buffer are needed for a change between them.
- Accounts: `MaxTime` = 5 with `Cycle` = 2 reaches the third cycle, so that a renewal is stored, promoted and
  expires; a race needs two requests, the third finds what they left. What depends on paid time is proved for any numbers.
- Storage: `MaxRequests` = 3 lets an import be overtaken by another and by an admin request;
  limits of 1 and 2 rows with one plate per file put the quota at its edge. `MaxFailures` = 1 as for jobs.
  Two users are enough for one to be deleted and its id given out again.
- Tokens: `PruneAt` = 2 (2000 in the code) prunes at the third entry; `MaxLosses` = 2 lets one failure put a
  ticket in both stores and another interrupt its use.
- Sessions: `Ttl` = 1 and `MaxClock` = 2 make a session expire under a request that began before; `MaxBegun` = 3.
- Sheets: `BatchSize` = 2 (2000), `SampleSize` = 3 (5) and `PreviewSize` = 2 (300) put a row before,
  at and behind each boundary with `MaxLarge` = 3 and `MaxSmall` = 4; three rows are the least from which
  the last detection differs from the one by the third row of a sheet.

TTLs and sleeps have no length where no property compares them: a row may expire, a task may wake, at any
moment the code allows. `SYMMETRY` is used only in runs that check safety.

### Fairness

Weak fairness of handlers and workers: the event loop resumes every coroutine whose
await is done, Redis answers, and the comparison thread returns. Nothing retries a job
whose process died or whose command failed: `check_jobs_live` has neither, and `Settles` of
`AudioJobs` speaks of behaviours without them. In `MemoryQueue` the stop, once it
began, goes on as its workers make room. Tasks in `AudioJobs` get strong fairness because
`asyncio.Semaphore` wakes its waiters in order. `LiveSession` assumes that a sleeping task wakes and that the
handler of a connection goes on to its next await and through its `finally`; never that
a user hangs up.
The other modules state safety only and need no fairness.

## Proofs

Every safety invariant of the runs is a theorem; so are the action property
`UsageKept` and the three refinements of `CheckLifecycle`. They hold for all values of the
constants. The assumptions are the named `ASSUME`s of the modules on their constants; three theorems of `KeyPool`
have hypotheses besides, which are named below. Each module states an invariant that every step keeps, one lemma per action (per
action and conjunct where the actions are large), and the theorems follow from it.

`CheckJobs_proofs` proves, for every set of jobs, workers and processes and every depth and
number of faults and ends, `TypeCorrect`, `JobsInOnePlace`, `InputsStay`,
`SettledStaysOver` and `PipelineKeepsLifecycle`.
The invariants are not inductive alone: a handler between upload and `LPUSH` holds a job
that is in no queue yet, so `IInv` adds what holds before the push (`Early`: no result in
the row, the files are there) and that a process which is not up has no worker
(`WorkersFollow`). For the refinement, `Stages` is the stage of each job, and every action either makes one transition of
`CheckLifecycle` or leaves all stages and rows as they are.

`MemoryQueue_proofs` proves the same of the pipeline without Redis: `MemoryTypeCorrect`; `BacklogIsSound` (the queue
never exceeds its depth, sentinels included; an accepted job is in it or with a worker, not both, until it is
executed; and whatever is there was accepted and has its files); `StopLeavesNothing` (when `stop_check_queue` has returned every accepted job
was executed) and `MemoryKeepsLifecycle`. The core is `OrderInv`: sentinels are behind all jobs, and a
job is queued once. `StopInv` says that a worker has ended only when sentinels alone are left. There must be a worker
at all (`Workers # {}`: `max(1, ...)`, `check_queue.py:42`).

`AudioJobs_proofs` proves `AudioTypeCorrect`, in which the semaphore's bound is (`PlacesInv`);
`UploadsAreReleased`, from what an upload and a row are at each step of a job (`JobInv`); and
`RecordingKeepsLifecycle`, whichever keys fail and whenever a process dies.

`KeyPool_proofs` first proves what `LRem` and `RPopLPush` do to a list: members, order,
distinctness. `LRem` is a recursive function over positions; `UpTo` does the induction, from the fact that `<` is
well founded. Then:

- `PoolTypeCorrect`, for any actors and either midnight.
- `RotationStaysSound`, for the midnight of the source, where no key is ever parked (`RotationInv`), and any
  number of loops and admins: the list repeats no key; a key is added after its secret and removed before it, so
  that one without a secret was deleted while it was being added (`early`).
- `KeysAreKept`, for an actor alone with the pool and a midnight that is computed. `AloneInv` places each key, at each
  command of the loops and handlers. With two actors it is false.
- `CycleTriesAll`, for one loop: with the midnight of the source and any admins, or alone with a computed
  one. `CycleInv` says that the active keys not seen are within as many places of the end of the list as the loop has rotations
  left. With two loops it is false.

`LiveSession_proofs` proves `LiveTypeCorrect`, `ActiveIsKept`, `UsageIsBilledOnce` and `AbandonedIsWatched` for any number of
connections, of places and of overlaps. `AbandonedWatched` is inductive with `ConnectedInv` (only a database
error leaves an object connected that nobody uses). The other two need `SoleInv`: without an overlap one handler is served at a
time, and no cleanup finds an upstream to close; and `MeterInv`: the counters hold the usage of that connection.

`LiveTurn_proofs` proves `SyncNeverContradicts` for every behaviour of client and Gemini:
`SyncAgrees` follows from `SyncInv`, whose core is that a plate in
`model_plate_norm_keys` was last shown with the column in force, which is what clearing
the keys at each column change is for. `TurnsAreSliced` proves `MatchOfTurn` from
`WordsInv`: while `calm`, the anchor is where the turn began and the transcript, once
there is one, reaches beyond it. Without `calm` it is false: a silent turn is enough
(see below). `TurnTypeCorrect` bounds the texts.

`CheckStorage_proofs` has two invariants. `CInv` is the conjunction of what the imports (`ImportsInv`), the
checks (`ChecksInv`) and the admin handlers (`AdminsInv`) rely on, and gives `StorageTypeCorrect`, `MirrorKeepsUp`,
`ImportsStaySound` and `CheckIsSound`. That ids stay in their range needs a count of the
requests that have not inserted yet (`CountInv`); `MirrorInv` says for which users a handler under way has still to write the
mirror. `QuotaInv` gives `QuotaHolds`: while `lapses` is empty, what a request that is neither stale nor blind has counted still leaves room for
what it will add (`ImportFits`, `AdminFits`).

`Requests_proofs` is about the four modules that `MCRequests` composes.

- `Accounts`: `NoTimeIsMade` and `PaidTimeIsKept`. `Cover(r)` is the time up to which a row
  lets its user in, `Worth` what was paid for: `RowInv` says that what was used and what the row still covers are within
  `Worth`. That is not inductive, because a request may commit the row it read long ago; `RequestInv` says the same of the
  row each request has seen, `LateOK` of the late renewal that lands beside an early one stored since, and
  `OverOK` that only a cycle that is over is being switched off. `PaidInv` ties `until`, the history of what
  was paid, to the row while no request raced. `TokensStaySound` needs what a request has read of the row
  (`RequestSound`), `UsageStaysCounted` only that a late renewal begins after its cycle ended (`UsageInv`).
- `AccountsTypeCorrect` bounds the ids by a tally (`TallyInv`): a request leaves at most one token, one usage event,
  one payment and one reset behind, so none outnumbers the requests that have ended by more than the one that began with the account.
- `OneTimeTokens`: `AcceptedOnce` and `TokensTypeCorrect`. The core is
  `Balance`: the times a token was taken and the copies of it that are left come to one at most,
  two for a ticket whose failing SET was applied. A ticket must then be in one memory only (`OneKeeper`), a token that
  was not issued nowhere (`Undrawn`), an expired one not in Redis (`Timely`), and an upload that can be taken has
  its file (`Referenced`).
- `TempSession`: `SessionIsSound` and `TempTypeCorrect`. `LockInv`:
  while the session is there, a request between its UPDATE and its commit holds the lock, so that no purge, close
  or upload comes between. `ContentInv` says what each request has read against the committed
  plates, `TimeInv` that `last_seen_at` is the latest time unless one was written over.
- `PlateMatch`: `ComparisonIsJoin`, `KeysStayStable` and `OneKeyPerMeaning`; see below.
- `RequestsTypeCorrect` and `PartsStaySound`: a behaviour of the composition is one of each part,
  which gives the types and the properties of all.

The proof about `PlateMatch` goes from texts to keys to rows, for rows and texts of any length and
any `BatchSize`, `SampleSize` and `PreviewSize` that `MatchAssumption` allows.

- Texts. `UpTo` is induction over positions, derived from the fact that `<` is well founded, because the
  library's induction theorems have an operator as parameter. With it `KeepPicks` shows that
  `Keep` takes the elements of a set in their order, and `KeepIs` that a sequence so described is the one it
  returns. `LettersIs` and `ReadsIs` make of that: a text reads as a word, forwards or backwards, exactly
  when the word is what the code computes from it. So a cell that is `Spelled` means what `Means`
  computes from its text (`SpelledCell`); no text has two meanings.
- Keys. A key says what its text says (`KeyMeans`, from `PlateKey` and `WordKey`), except that the letters of a plate
  are turned round when all are `Foreign` (`Turned`; turning twice is nothing, `TurnedTwice`). So a key still
  tells its meaning (`KeyTells`), what is shown for it leads back to it (`ShownMeans`, `KeyAgain`), and two
  cells have one key exactly when they mean the same (`OneKeyPerMeaning`).
- Rows. `MatchSound` speaks of the end only; `MatchInv` is what every step keeps. `IndexPart`: the index and
  the batch not yet inserted hold together the key of each row read, once and in order. `SamplePart`: the rows
  read ahead are the next rows of the small sheet. `JoinPart`: the matches are the join by keys of
  the rows handled so far (`IsJoin`), with the count of rows without a partner and the preview. A row that is
  compared adds its partners at the end (`JoinGrows`, `LoneCounts`, `PreviewGrows`) or nothing
  (`JoinSkips`). At the end keys are replaced by meanings (`SoundAtEnd`).

`CellsAssumption` ties the rows to the alphabet and to what their writers mean by it. It asks of a cell
only what the source itself says of the writing of plates: the letters of a text in Latin script alone are read
from the other end.

Only model-checked: the liveness properties (`AcceptedIsServed` of both queues, `StopEnds`, `IdleRemoved`,
`Settles`), which are out of the prover's reach. The two expected violations are not
theorems either. The type invariants of `CheckJobs` and `MemoryQueue` are proved and
not run.

## Where the code and its documents differ

Two runs end in a violation on purpose. Each states a sentence of the source and shows
a behaviour of the code that contradicts it; `PROJECT.json` (`findings`) quotes the lines:
a key that met 429 is lost (`time.min` on the module `time`, `key_pool_orphan`); an account with a stored
renewal is deactivated when the cycle ends between two readings of the clock (`account_boundary`), and a
later promotion does not activate it.

The models contain more, which their properties exempt and no run shows alone.

Jobs, pool and live check:

- `check_queue.py:157-160`: the depth is read and the job pushed in two commands, so that
  concurrent requests exceed `check_queue_max_depth` (`CheckDepth`, `Push`).
- `check.py:954`: without Redis the row of a request refused for a full queue has no timer
  and stays in memory (`Forget` is never enabled for it).
- `provider_key_pool.py:112-113`: between the HSET and the LPUSH of a key the listing shows it as an orphan; when
  another admin deletes it there, the LPUSH leaves a uid in the list that has no secret, which rotation skips and
  `has_any_key` counts (`early`).
- `check_queue.py:86`, `check.py:792`, `audio.py:129`: a job that was popped by a process that dies is lost, and a worker
  whose "done" was applied but not answered overwrites it with "error"; `CheckLifecycle` has both steps.
- `provider_key_pool.py:193` against the docstring at `provider_keys.py:112`: concurrent rotations of one list leave
  keys untried in a cycle (`CycleCoversPool` is checked with one loop).
- `gemini.py:318-320`: `process_audio` removes the upload after its first attempt; the attempt
  with the next key has no file.
- `plate_checker_ws.py:744-749`: a turn without speech sets the anchor to 0, and an old plate matches
  again (`MatchOfTurn` without `calm`).
- `plate_checker_ws.py:825,947`: the end or the rejection of one tab marks the session of
  another as unused, and its cleanup may remove the session under it, though
  `config.py:45` says "keep session alive while active" (`ActiveKept` without its
  hypothesis).
- `plate_checker_ws.py:841`: an SQLAlchemy error after the cleanup was cancelled is not
  caught; the session counts as connected and no task removes it (`IdleRemoved` without
  its exemption).

Accounts and tokens:

- Commits on rows read earlier (`raced`): a renewal and an expiry that overlap may leave a paid user
  locked out; concurrent logins or refreshes may leave two live tokens of a device, or tokens of a device that is no longer bound.
- `admin.py:468-476`: a late renewal of an account whose stored renewal was not yet promoted drops that renewal;
  a second early renewal in one cycle adds nothing.
- `auth_service.py:212-225`: resetting the device revokes no token.
- Usage recorded between the end of a cycle and its promotion counts in the old cycle.
- `ws_check_live_ticket.py:85`: with one worker, a SET that was applied although it failed leaves the ticket
  in both stores, and each accepts it, against "consumed exactly once" at line 31 (`doubled`).
- `live_excel_upload_store.py`: the file of an upload stays when the SETEX fails or its reference expires.

Storage:

- Concurrent imports exceed a quota and store one file name twice (`"raced"`, `ImportsSound` without `looked`).
- Handlers of two processes about one user, or a failure between the databases, leave the mirror different from
  the user database until the next change (`crossed`). Imports then count the wrong rows and exceed the
  quota one after the other (`"unsynced"`).
- A check by an admin counts hits in files of other users whose rows it does not export, while the GPS collection
  of an admin returns them (`CheckExact` without its hypothesis).
- The rows of a deleted user stay in Postgres. `admin.py:339` counts the quota for an id of -1, "new user has no stored
  rows yet"; SQLite without AUTOINCREMENT (`models/user.py:12`) gives the highest id out again, and the new user then owns the old rows,
  which count in its group and are shown to its members (`"inherited"`). Group ids are taken not to be reused, as
  `create_group` is left out.
- `check_temp_storage.py:131`: under forced row level security the purge sees no session.

Matching:

- `plate_utils.py:139-141` says that the display takes the raw text or a key of `normalize_plate`. A key whose letters are all
  on no Saudi plate is turned round again by it (57-62): "PO 123" has the key op123, its text is displayed as "op 123" and
  its key as "po 123". `check_match.py:360` and `check_postgres.py:1194` display keys (`Turned`, the exemption of `KeysStable`).
- `check_match.py:244`: a cell that JSON cannot hold, such as a date in an exported column, ends the comparison
  with an exception (`Raise`).

## Not modelled

- The rate limits: `_rate_limit_user_check` prunes, tests and counts without an await under one lock and has no
  interleaving; the rest is a library's.
- GPS routing and the Excel routers: requests without shared state; the distances and formats are plain functions of their input.
- Budget arithmetic of `user_gemini_policy.py`, the Gemini catalogue, listings, start-up, migrations, configuration
  and the web client: reading, formatting or one-row writes.
- In `PlateMatch`: the choice of a sheet, decryption, the columns copied beside the plate and the look of the
  new workbook. In `LiveTurn`: the lookups in a temporary session and the letter rules of
  `_sanitize_live_plate_text`.

Postgres, Redis and Gemini are modelled by how the code uses them.

## Plan

| Order | What | Question |
|---|---|---|
| 1 | `KeyPool`, two actors on the repaired pool | double promotion, revival of deleted keys |
| 2 | budget policy (`user_gemini_policy.py`) beside `Accounts` | is a request admitted against the usage it will add |
