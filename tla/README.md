# A TLA+ verification of Clipline Cloud

Clipline Cloud is a self-hosted clip library: a Rust HTTP server over a SQL
database (SQLite or PostgreSQL) and an object store (a local directory or S3),
with a background job runner in the same process and a static web frontend.
This directory models the parts in which order, failure and concurrency
decide correctness, model-checks them with TLC, and proves the safety properties
the runs check with TLAPS, for every number of runners, jobs, requests, rows, keys and
parts. Liveness is model-checked.

- [The system](#the-system) - inventory, state, operations, interactions
- [Modules](#modules) - what models what, and how
- [Runs](#runs) - what each run checks, its bounds and what it shows
- [Fairness](#fairness)
- [Proofs](#proofs)
- [Disagreements with the documents](#disagreements-with-the-documents)
- [What is not modelled](#what-is-not-modelled)
- [Plan](#plan)

## The system

| Component | Source | State | Operations | Hard because | Right when |
|---|---|---|---|---|---|
| Job runner | `crates/clipline-cloud-core/src/jobs.rs` | none of its own but a runner id; the `jobs` table | poll, claim, run a handler under a heartbeat, settle, bury, re-arm the sweeps | several processes; locks that expire; crashes between statements; self-re-arming sweeps | a job is run by one runner at a time, is settled once, is not lost, is not duplicated; a sweep always comes round again |
| Job handlers | the same | a clip's row and objects | `validate_object`, `optimize_video`, `probe_metadata`, `thumbnail`, `poster` | every await is a place to be dropped by the heartbeat or killed; a handler may run beside its successor | the row describes the object that is served, the original is kept when asked, a clip does not stay in `processing` |
| Cleanup sweeps | the same, lines 833-1110 | sessions, clips, parts, objects | expire sessions, purge deleted clips, two orphan sweeps | list, look and delete are separate; partial failure | what is dead is reclaimed, what is referenced is not touched |
| Upload protocol | `apps/clipline-cloud-server/src/uploads.rs` | session, part and clip rows; multipart uploads | create, put part, put content, presign and acknowledge a direct part, complete, abort | requests race each other, sweeps and jobs; clients go away and retry; database and store are two systems | what was acknowledged is kept; completion is final and has its object; deletion is final |
| Database layer | `crates/clipline-cloud-db` | the tables, with partial unique indexes on active jobs | one statement or one transaction per call | guarded updates against stale reads | |
| Object storage | `crates/clipline-cloud-storage` | objects, multipart uploads, temporary files | put, head, copy, delete, multipart, range read, list | local and S3 fail differently | an object is visible whole or not at all |
| Media processor | `crates/clipline-cloud-core/src/media_processing.rs` | a work directory | encode, probe, screenshots through ffmpeg | time limits, concurrency permits | |
| Accounts | `apps/clipline-cloud-server/src/auth.rs`, `operator.rs` | users, sessions, device tokens, invitations, reset tokens, an in-memory login limiter | bootstrap, login, exchange, revoke, redeem, change password, patch, disable, purge | handlers are lists of statements without a transaction around them; one-shot links under concurrency | a password change ends what was signed in before it; a link is redeemed once; an enabled owner remains |
| Administration | `admin.rs` | settings, audit log | change users, settings and categories | read-modify-write of whole rows | |
| Game categories | `repositories/transactions.rs` 560-960, `uploads.rs`, `admin.rs`, `main.rs` | categories, the names mapped to them, a cached map | ensure, edit, merge, separate, enrich | transactions that count and then move, on two databases; a cache filled by two queries; an enrichment that answers late | every used name has a category; no category loses its last name; nobody is served a map from before an answer; edits survive |
| Clip library | `clips.rs`, `repositories.rs` 1229-2036 | clips, share ids, audit rows | list, search, edit, publish, delete, bulk | pages over a list that moves; bulk transactions in any lock order; a row read long before it is answered | an answer stays true until the next request; bulk is all or nothing; a walk shows every clip once |
| Media and public pages | `media.rs` | comments, view counters | serve ranges, pages, posters, comment threads, profiles | sizes read before the bytes; parents deleted under their replies | a range is that range of one object; a thread hangs together |
| Server process | `main.rs`, `config.rs` | configuration | start the sweeps and the runner, shut down | | |
| API crates, web frontend, deployment | | | | | |

How they interact. A client creates an upload (clip row and session row in one
transaction), sends its parts, and completes it: `finalize_upload` moves the
session to `completed`, the clip to `processing`, and inserts the
`validate_object` job, in one transaction. From there on the HTTP side and the
job runner share only the tables and the object store: there are no in-memory
queues. `validate_object` makes the clip `ready` and enqueues `optimize_video`
(or the three artifact jobs), which enqueues the artifact jobs when it is done or
given up. Independently, `cleanup_session` and `cleanup_clip` are two jobs without
a target that enqueue their own successor, a fixed interval ahead.

Requests share more than uploads. A create ensures the category of its game in
the transaction that inserts the clip, and every list shows clips through the
category map that merges and separations change. A purge or a disabling ends an
account's credentials while that account's requests are under way. Reading
handlers take several statements to answer one page, and what the object store
serves was measured one call earlier.

There are therefore four kinds of concurrency: HTTP requests with each other,
HTTP requests with jobs, jobs with jobs (several processes, or a stalled holder
and its successor), and everything with crashes.

## Modules

| Module | Models | Extends or uses |
|---|---|---|
| `JobService` | what the queue promises about a clip's job: taken, put back, finished or given up by its last taker | - |
| `JobQueue` | the `jobs` table and the runners | `Service == INSTANCE JobService` |
| `MCJobQueue` | small instances of it | `JobQueue` |
| `JobQueueProofs` | ten theorems, the refinement among them | `JobQueue`, TLAPS |
| `ClipPipeline` | one clip from finalize to optimized video: handlers, clip row, objects | `Queue == INSTANCE JobQueue` |
| `MCClipPipeline` | small instances of it | `ClipPipeline` |
| `ClipPipelineProofs` | five theorems | `ClipPipeline`, TLAPS |
| `UploadSession` | one upload: rows, parts, store, requests, sweeps, a coarse view of the jobs | - |
| `MCUploadSession` | small instances of it | `UploadSession` |
| `UploadSessionProofs` | seven theorems: rows, and what becomes of the bytes | `UploadSession`, TLAPS |
| `UploadAdmission` | create_upload: idempotency, limits, part sizes, rollback | - |
| `UploadAdmissionProofs` | five theorems | `UploadAdmission`, TLAPS |
| `Accounts` | users, credentials, links, the operator's reset | - |
| `AccountsProofs` | five theorems | `Accounts`, TLAPS |
| `GameCategories` | categories, their names, the enrichment and the cached map | - |
| `GameCategoriesProofs` | five theorems | `GameCategories`, TLAPS |
| `Clips` | the clips, their owners and the database, shared by the next two | - |
| `Library` | visibility, edits, deletion, bulk requests, audit, comments | `Clips` |
| `Browse` | lists, searches, pages and counts over clips | `Clips` |
| `LibraryProofs` | ten theorems, six of Library and four of Browse | `Library`, `Browse`, TLAPS |
| `ObjectMap` | what a store promises: a map that each call changes in one step | - |
| `ObjectStore` | both storage backends and the reads from them | `Map == INSTANCE ObjectMap` |
| `ObjectStoreProofs` | seven theorems, the refinement among them | `ObjectStore`, TLAPS |
| `MC...` | small instances of each | the module of that name |

### JobQueue

A row of `jobs` is a task (kind and clip, or a kind alone for a sweep), a status,
the attempts, the lock's holder and whether the lock is stale. Each SQL
statement is one action: `Claim` is `claim_next`, `Heartbeat` is `touch_lock`,
`Succeed`, `Retry` and `MarkDead` are the `*_if_locked` statements with their
`status = 'running' AND locked_by = ?` test (`OwnsRow`), `Buried` ends
`run_dead_job_side_effects`. `create_if_absent_active` is three statements and is
three actions (`InsertJob`, `InsertConflict` then `LookupActive`, and the second
insert), because the row that refused the first insert may be gone before the
second looks.

Time enters the program through two comparisons only. `next_run_at <= now` is
the set `due`, and the order `claim_next` takes rows in is `ahead`; `locked_at <
stale_before` is the flag `stale`. `LockExpires` on a row whose holder is alive
counts as a stall: the heartbeat touches the lock three times per timeout.

A runner is a process start. A process that is down remembers nothing, so the
same `Runner` value stands for a later start with a fresh id; the source's
id is a ULID per start, and no row locked by an id of a dead process passes that
id's test again, because `OwnsRow` also needs the claim in memory.

A *fault* is a crash, a stall or a failed statement; `MaxFaults` bounds each
kind in TLC's instances, and the proofs hold for every bound. Handler errors
and lost heartbeats are not faults: they are free at any time.

The queue implements `JobService`, which has no rows, ids, locks, order or enqueue
statements: a task's job is in force or settled, has been taken so many times and
is held by its last taker, if anyone; a worker is idle, works on a task or buries
it. `JobOf` reads a task's job off the row in force, `HandOf` a runner's hand off
its claim. Only the holder puts a job back (before the last attempt), finishes it
or gives it up (not before the last), and whatever is not one of these leaves the
count of takes as it was. The mapping is of clip jobs: a sweep that runs may have
its successor waiting, so it has no one row in force, and a sweep's rows and its
runner's hand map to nothing.

### ClipPipeline

The handlers `validate_object` and `optimize_video`, one action per await, over
the clip's row (`clip`, `size`) and its three objects (`source`, `candidate`,
`original`), composed with JobQueue: `Queue == INSTANCE JobQueue` with the
validate, optimize and artifact kinds, and no sweeps. The handlers name their
follow-ups by what the code decides (`MediaProcessing`, `FirstRite`), in place of
JobQueue's constant plans.

A video is abstracted to its *generation*: 0 as uploaded, `g + 1` for an encoding
of `g` that came out meaningfully smaller. Sizes and checksums tell generations
apart, so the row's size is a generation as well. The sequence
`heading, encoding, putting, comparing, keeping, activating, checking, stamping,
tidying` is the source's; any step can fail (`OperationFails`), be dropped by the
heartbeat (`Heartbeat`), or be cut off by the process's end (`Faulty`), and the
next attempt starts from the rows and objects it finds.

Settings are fixed within a behaviour, the purge and the sweeps are left to
UploadSession, the artifacts are left out, and there is one clip, which
`PipelineAssumption` states.

### UploadSession

One upload in every deployment and mode: local or S3, chunked or single PUT,
parts through the server or direct to S3, optimization on or off (`setup`). A
request is a program counter and what it holds in memory; each of its database
transactions and storage calls is an action, so a second request, the expiry
sweep, the purge sweep, the orphan sweeps and the jobs come in between. The local
store's completion is three steps (copy the parts into a temporary file, rename,
clean up) because a request can be dropped between them; on S3 it is one.

The purge of the account (`AccountStep`, in the setups that have `leaves`) runs
beside all this: it closes the account, after which no request of the client
arrives, lists its session, removes what the session has in the store, its part
rows and row, and then the clip with its jobs and its object. Storage
errors are logged and passed over, any step may be the last (`StopPurge`), and the
administrator may ask again. A presigned PUT under way goes on, and so do
requests and jobs that had begun; what these store after the purge has passed is left to
the orphan sweeps. A half-purged account is assumed not to be enabled again.

Bodies are right or wrong (`Good` or not), objects `original`, `corrupt` or
`optimized`: what the size and hash checks can tell apart. Requests, sweeps and
statements end early by `Drop` and `StopSweep`, at most `MaxFaults` times.

Assumed of clients: never two different bodies for the same part in flight at
once (`Unrivalled`). Assumed of time: the orphan sweeps' grace of a day is
longer than any request (`Quiet`). Reads before a request's first write are
merged into its first action. The optimization's candidate and kept original are
ClipPipeline's, and the two transient-failure paths of `validate_object` too.

### UploadAdmission

`POST /uploads` of one user, a statement or storage call at a time: look for the
`client_clip_id`, count the sessions, sum the bytes, open the multipart upload,
insert clip and session in one transaction, count and sum again, and take the
bundle back if the limits are passed. A request's number names its row and its
multipart upload. A request may stop after any step; what that leaves is kept in
history variables (`unchecked`, `stranded`) so that the properties can say
*except what stopped*. `ChoosePartSize`, `PartCount` and `ExpectedSize` are the
arithmetic of the source with a small unit in place of the mebibyte.

### Accounts

A handler of `auth.rs` reads rows, decides, and then runs its statements one by
one. A request is therefore a record with the fields it has read and a *plan*,
the sequence of statements it has left; each statement is an action that takes
itself off the plan. Passwords are counted (`pwd`), and a credential remembers
which password was the account's when it was inserted (`at`). Statements keep their WHERE
clauses: `RedeemReset` consumes a token only while it is open, `DeleteUser` meets
the foreign keys (`Referenced`). The starts of two processes (`Boot` to
`SetOwner`) choose the owner; `OperatorReset` is the command-line tool, whose
statements are no transaction (`halfReset` until it has run to its end).
`set_owner_user_id` overwrites whatever owner there is, and `replaced` remembers
that it did.

### GameCategories

A transaction is cut where another one can come between its statements. The two
databases differ there: on PostgreSQL a statement reads what is committed and
waits for row locks, on SQLite a transaction that has read may write only if
nobody has committed since (`fresh`). The enrichment is spawned by a create and
writes under the `updated_at` it has read (`AsCreated`). The cached map is loaded
in two queries under a write lock and dropped after 60 s or by a handler after
its commit, which waits for a loader; `missed` notes a handler that stopped
before it could.

### Library

Requests about finished clips: a row read, a write, an audit row, the answer from
what is then read. A bulk request reads all of its rows and writes them in one
transaction; on PostgreSQL it holds the rows it has written, on SQLite the
database. `settled` records what an answer last said of a clip that nobody has
asked to change since. A comment is checked against its clip and parent in one
statement and inserted in a later one.

### Browse

A walk is a reader going through the pages of a list; each page is two or three
statements (rows, then figures), and committed changes of clips come between any
two. The WHERE clauses are predicates by filter, LIKE patterns are matched symbol
by symbol after `escaped_like_pattern`, and the orders are the ORDER BY of each
database with the id as the last column. Text is lowered as ASCII in Rust and by
each database in its own way. Which clips came, went or moved during a walk is
kept (`came`, `went`, `through`), since offset paging promises nothing better.

Three limits belong to what the properties say. `list_clips` clamps the page to
`MAX_PAGE` (clips.rs:29, 123) and answers the page after the last one with the last one
again, so an own list is without repeats up to there (`BelowLastPage`). An offset
saturates at the largest 64-bit number, which no offset of an existing row reaches: a table has no more rows than
that (`BrowseAssumption`). And a search is for the words as typed when its lowered characters
are outside of what the database lowers and Rust does not (`Plain`): a capital outside ASCII, or
a letter such as the Kelvin sign whose lower case is inside it.

### ObjectStore

The local backend file by file: temporary file, rename, sidecar, part files; the
S3 backend request by request, each of which may fail, or take effect and lose
its answer. A listing of the disk reads an entry and then looks at it, one of S3
takes its pages in the order of the keys. An object is the sequence of blocks of
the call that wrote it, so its length is its size and its content its ETag.
`disturbed` are the keys of a call that overlapping calls write, and `clean` is
what a key must hold after the last write that ended, or `Unknown` while a call
is under way; `again` are the parts uploaded while a completion runs, which on the disk it
may publish instead of those it was told, having compared the ETag before it opens the
file once more. Local and S3 both implement `ObjectMap`, under a mapping of the files to its
objects and of the calls in flight to its *offers* (what a call may still store, and where):
a key holds nothing or one whole object, and changes in one step to what one call
in flight was about to store.

## Runs

`tlc -config X.cfg M`; every constant's bound is in the cfg.

| Run | Question | Instance | States |
|---|---|---|---|
| `job_shared` | seen by a clip, is the queue the abstract job service; do claims, retries, reclaims, burials and purges keep jobs unique and in one hand, and does a sweep keep its row? | 2 runners, 3 row slots, a validate job and a sweep, 2 attempts, any two of a crash, a stall and a failed statement | 1,131,364 |
| `job_sweeps_live` | does the sweep come round again and again? | 1 runner, 4 slots, 1 attempt, one crash | 13,901 |
| `pipeline` | does a clip keep a job while `processing`; do row, object and kept original agree however optimize is cut short? | 2 runners, 2 slots, one artifact job, optimization with the original kept and no optimization, 2 attempts, one stall, one failed statement | 710,509 |
| `pipeline_live` | do retries, reclaims and burials settle every job, take every clip out of `processing` and get every validated clip its optimize job? | 2 runners, 2 slots, validate and optimize, 2 attempts, one crash and one failed statement | 171,908 |
| `upload_race` | are acknowledged parts, completion and deletion kept in a race? | 2 requests, 2 parts, right and wrong bodies, the five setups without optimization, 2 faults | 2,245,692 |
| `upload_live` | does an acknowledged upload complete; is a purged clip reclaimed, and what the purge of an account leaves? | 1 request, 2 parts, right and wrong bodies, all ten setups, two of them with a purge of the account, 2 faults | 619,878 |
| `admission` | do the limits hold once racing creates have settled; is every multipart upload reachable; do the parts cover the file? | 3 creates, 2 at a time, with and without a key, 4 sizes, local and S3, three quota settings | 1,119,641 |
| `accounts` | do password changes end sessions, links work once, owners stay? | 3 users, 3 credentials, a reset, an invitation, 3 requests, 2 at a time, 2 changes of a password | 352,181 |
| `categories` | do names keep a category, and readers and edits what they were promised? | 2 names, 4 categories, 3 requests, 2 at a time, both databases | 257,197 |
| `library` | are answers, bulk requests, audit rows and threads right, and is every request answered? | 2 clips, 2 users, 2 requests at a time, 2 or 3 in all, both databases, 3 comments | 223,325 |
| `object_store` | is the store a map; do parts and acknowledged writes survive; are reads of one object, and listings complete? | 2 keys, 2 callers, up to 5 calls, one crash or lost answer, both backends | 350,480 |
| `browse` | does a walk show what was asked for; what can changes do to it? | 5 clips, every sort, filter, search and list, up to 2 changes in a walk, both databases | 236,482 |

Why the bounds are enough. *Two runners* are a holder and its successor; a third
would be a successor's successor, and `ImplementsService` and
`ExclusiveUnlessStalled` are proved for any number. *Three slots* hold a clip's
validate job, a sweep's row and its successor, or a job enqueued while another is
remembered; slots are reused, so the number of jobs over time is not bounded. In `pipeline`, with
two, an insert that finds no slot waits, which takes behaviours away from safety
properties that are proved for any number; `pipeline_live` has no third job, and nothing
waits for a slot there. Its encodings are no smaller (`MaxGeneration` 0): what a
replacement leaves behind is the other run's. *Two attempts*
distinguish retry from exhaustion, and the extra claims after them are reached
through faults. *Two requests at a time* race pairwise, which is how every hazard
found in the source is described; where a third matters (a create that sees two
others, a reader between two writers) `MaxRequests` is three, and in the upload it
enters through sweeps and jobs. *Two parts* make a sum that can be stale and a
copy that can fail half-way. *Two names* are the fewest a category can be
separated into, and four categories leave one for every request. *Five clips* and
pages of one or two make walks of several pages with ties on every sort column.
`MaxPage` 6 and `MaxInt` 8 stand for 1,000,000 and 2^63 - 1, so that the clamp,
the refused offset and the last page are reached.

Deadlock is checked in no run: each of these systems may stop, when a purged clip
has no requests, the bound of requests is used up, or a failed statement in a
burial leaves the processes polling an empty table until the next start. What
must not wait for ever is said by liveness: `EveryJobSettles`, `SweepsRecur`,
`EveryRequestIsAnswered`.

Each module of a component has a `TypeOK`, but ObjectStore, whose refinement
mapping already says what a key may hold. Those of JobQueue, UploadSession,
UploadAdmission, Accounts and Library are theorems; the others can be listed under
INVARIANTS of the run's cfg, where they hold (GameCategories bounds its counters by
the run's requests, which its theorems do without), as does
`OnlyOwnerModifiesOwner`, which is about an owner that no start has replaced, under
PROPERTIES of Accounts.cfg.

What they show.

- *JobQueue*: with crashes and failed statements alone no job is ever in two
  hands; a stall can put it there, and then the lock test keeps the late runner
  from reviving or re-settling anything: seen by its task a job has one life,
  whatever rows and ids it goes through (`ImplementsService`). A sweep is re-armed on every path but
  those cut short between a death and its side effects.
- *ClipPipeline*: an optimization interrupted anywhere is repaired by its next run,
  because `optimize_video` compares the row's size with the object's before it
  encodes; that comparison and the copy to `original-source.mp4` are each needed. A
  validation that ends between `mark_ready` and its enqueue is claimed again, finds the clip
  ready, and enqueues what the first did not (`OptimizationFollows`). A clip leaves
  `processing` through errors, a crash and a failed statement, the last claim that only
  buries included; what strands it is an interruption of the burial alone, after `mark_dead`
  (`UploadedClipsSettle`; item 4 below).
- *UploadSession*: the reconciliation by `head_object` is what lets a client whose
  completion was dropped complete at all.
- *UploadAdmission*: the second check of the limits makes them exact at rest,
  because the last to commit sees all the others; the price is that creates which
  race may all be refused.
- *Accounts*: every path that changes a password ends every credential that was
  there. It is a statement about credentials that exist: the insert of a login
  does not look at the account again (auth.rs:465), so a login that verified the
  old password before the change and inserts after it leaves a session that
  lives on; no document promises otherwise. Links are consumed by conditional
  updates, and the policy checks on
  stale rows are still enough to keep the owner, since its protection does not
  depend on what a stale row says.
- *GameCategories*: the map is current after every answer because invalidation
  waits for a loader. On SQLite a separation never takes a category's last name;
  on PostgreSQL two at once can (transactions.rs:813), so the property says SQLite.
- *Library*: every order of two requests leaves the last answer true. Bulk
  transactions can wait for each other on PostgreSQL; the database ends one, and it
  is answered.
- *UploadSession with a purge*: whatever of a purge fails or stops, the orphan
  sweeps find what it leaves (`LeftoversReclaimed`).
- *ObjectStore*: rename makes both backends atomic to readers; the part directory
  outlives everything but an assembled or aborted upload; the ETag check is what
  makes a completion exact. A listing may fail beside writes, but one that answers
  has everything that was there throughout.
- *Browse*: on a quiet library a walk is complete, ordered and without repeats;
  changes can only do what shifting can. The figures agree with the lists because
  the two WHERE clauses do.

## Fairness

The specifications with fairness (`LiveSpec`) assume weak fairness, per actor:

- of a runner's own steps, restarts included: a tokio task that is not
  cancelled is polled again, and the Compose file restarts the container;
  a heartbeat, a handler's failure and every fault stay unfair;
- of the passing of time: a `next_run_at` comes due, and the lock of a process
  that does not hold the claim any more expires; a *live* holder's lock is never
  made to expire;
- in UploadSession, of a request in flight, of the sweeps and the job runner
  (justified by `job_sweeps_live` and `pipeline_live`), and of a client with all
  parts acknowledged that keeps asking for completion, as the client protocol in
  `docs/05` says. Nothing is assumed of any other client.

- in Library, of each request's steps: the handlers are awaited to their end, and
  a database that finds two transactions waiting for each other ends one of them.

Accounts, GameCategories, UploadAdmission, ObjectStore and Browse state safety
only, and assume no fairness. No strong fairness is assumed anywhere.

## Proofs

All theorems are checked by TLAPS for every value of the constants under the
named assumptions of the modules: `KindAssumption`, `FollowUpAssumption`,
`BoundAssumption` and `NullAssumption` of JobQueue; `RequestAssumption`,
`BodyAssumption` and `SetupAssumption` of UploadSession; and `PipelineAssumption`,
`AdmissionAssumption`, `AccountsAssumption`, `CategoriesAssumption`, `ClipsAssumption`,
`LibraryAssumption`, `BrowseAssumption` and `StoreAssumption`. These give the constants
their types and keep null values apart from the rest. Seven say more: there is one clip
(ClipPipeline); names, clips and processes are finite sets
(GameCategories, Clips, Library), so that they can be counted; a bulk request names no clip twice
(`normalize_bulk_ids`); each account there is at start finds room in the tables; each
sweep is among those a start ensures; lowering as ASCII is part of lowering as Unicode; and
a table has at most `MaxInt` rows (both Browse). TLC evaluates all of them on every run.

Each inductive invariant was an INVARIANT of its run before it was proved. What an
invariant needs beyond the property is said here; the proofs go through one
step per action.

**JobQueueProofs.** `TypeInv` strengthens `TypeOK` with what types alone do not
say: an enqueue in flight has a task left to enqueue, a runner past its claim
remembers it, a running row has a lock and no other row has. Nothing weaker is
inductive, since `Head(todo[r])` and `jobs[mine[r].id]` need it. Every step of
the system is then shown to have one of seven shapes - `Quiet` (nobody's claim
or row changes), `Drops` (a runner forgets), `Inserts`, `Claims`, `Ages`,
`Releases`, `Purges` - and each invariant is proved once per shape:

- `TypeCorrect`: `Spec => []TypeOK`.
- `LatestClaimHoldsTheLock`: `[]LockIsLatestClaim`, for sweeps as well, with `LockInv`, which adds
  that a job a runner is burying is dead, or was purged since.
- `BurialsAreExclusive`: `[]BurialIsExclusive`, from the lock test that precedes a burial.
- `NoJobIsDuplicated`: `[]NoDuplicateJobs`, from the refusal of a conflicting insert and of a retry.
- `AttemptsAreBounded`: `[]AttemptsBounded`. By itself it is not inductive,
  since claiming a stale row adds an attempt without adding a fault; `AttemptsInv`
  says that a running row whose lock does not stand (`Healthy`) has one to spare.
- `SettlementIsFinal` and `AttemptsAreCounted`: the action properties
  `SettledStaysSettled` and `AttemptsCountClaims`, shape by shape from `LockInv`.
- `WorkIsExclusive`: `[]ExclusiveUnlessStalled`, with `ExclusiveInv`: without
  a stall, whoever has a live row in hand holds its lock, and the lock is not stale.
- `QueueImplementsService`: `ImplementsService`, the refinement `Spec => Service!Spec`. With
  `NoDuplicateJobs` a task's job is the one row in force (`TasksAsRows`), and with `LockInv`
  whoever passes the lock test is the service's holder. Each shape is then a step of
  the service or none (`Serves`): an insert is a `Submit`, a claim a `Take`, a release a `PutBack`, `Finish`
  or `GiveUp`, a drop a `Leave`, a purge a `Cancel` of the clip's tasks, and quiet and ageing
  steps stutter, as do those of sweeps.
- `SweepsStayArmed`: `[]SweepStaysArmed`, by following who carries a sweep: a row
  that waits, or a runner that has its running row in hand and will re-arm it, or
  is about to insert it (`Armed`). A
  carrier gives a sweep up only to another one, and a start that has got past a sweep
  in its list leaves it armed; the invariant says both of every prefix of the list.

**ClipPipelineProofs.** The steps are sorted twice. By what they do to rows and
claims they have one of five shapes, as in JobQueueProofs (`Quiet`, `Inserts`,
`ClaimsRow`, `Ages`, `Releases`); by what they do to the clip they are a handler's
(`Handles`), the HTTP side's, or leave it alone (`Aside`). `PipelineInv` has, of the
queue: whoever passes the lock test has the row's task in hand and has yet to settle
it (`LocksMatch`), one live row of a task (`NoDuplicates`), and, without a stall,
a fresh lock of everybody who has a job to settle (`HoldersHold`). JobQueue's theorems
say the same of its own plans of follow-ups; here the handlers decide, so it is proved
again. Of the handlers: a validate job that is about to succeed has found or
taken its clip out of `processing` (`Validated`), and what an
optimization has established by each of its steps of row, object and kept original
(`OptimizationAgrees`). The last is stable because the first three leave one optimizer
at a time (`OneOptimizer`), and only an optimizer writes what it speaks of.

- `TypeCorrect`: `Spec => []TypeOK`, and where each handler and burial can be.
- `ProcessingIsAlwaysAttended`: `[]ProcessingIsAttended`. A live validate job ends only by
  a success, which `Validated` excludes while the clip is in `processing`, or by
  a death, whose first rite is to fail the clip.
- `OptimizedSizeIsAlwaysRecorded` and `ReplacedIsAlwaysKept`: the action properties
  `OptimizedSizeIsRecorded` and `ReplacedIsKept`, from `OptimizationAgrees`.

**UploadSessionProofs.** Types are proved table by table (`RowTypes`,
`StoreTypes`, `RequestTypes`, `JobTypes`); `Frames` says which actions write the
session.

- `TypeCorrect`: `Spec => []TypeOK`.
- `DeletedClipsStayDeleted`: `Spec => DeletedStaysDeleted`, an action property: `finalize_upload`,
  `mark_failed` and `mark_ready` each test the status they overwrite.
- `ProgressNeverOverstated`: `[]ProgressIsNotOverstated`, with `ProgressInv`: a sum a request
  holds is never above the recorded parts while the account is kept, and a sweep
  that is about to remove part rows has closed the session first. That a purge
  is never taken back (`OnlyCloses`) carries it past the steps of a purge, which
  removes part rows of sessions it does not close.

Its second part follows the bytes. `UploadInv` says that requests that send the
same part send one body (`Rivals`), that all who assemble hold the same parts,
which are the recorded ones while the session takes parts (`HeldParts`), that what
is assembled is what anyone would assemble (`Verdicts`), that an upload is failed
for its bytes only if anyone's completion would fail (`Condemned`), and how far the rows,
the clip's job and a purge have come when a session is over (`Closed`).

- `AcknowledgedPartsAlwaysKept`: `[]AcknowledgedPartsAreKept`, in every setup.
- `CompletedUploadsHaveObjects` and `CompletionIsFinal`: `CompletedHasObject` and
  `CompletedIsFinal` where nothing is optimized, which is how the run checks them.
  With optimization both can fail, see *Met while modelling* below.

**UploadAdmissionProofs.** `AdmissionInv` numbers the requests: a number is given once, its row and its
multipart upload come and go with the steps of its own request, and what
has been counted *after* its transaction is within the limits
(`CheckedIsWithinLimits`). The last is the argument of the source: of two racing
creates the one that counts last has seen the other. The bytes are a sum over
a set, a recursive function of the community modules; that a sum over a part is no more than the
sum over the whole, and similar facts, are proved from a least counterexample
(`WFMin` on subsets ordered by inclusion), which takes the place of the induction that the
provers cannot instantiate. `TypeCorrect`, `LimitsAlwaysHold`,
`MultipartsAlwaysReachable` and `PartsAlwaysCoverTheFile` follow; the last needs the
arithmetic of `choose_part_size` for every size, floor and limit.

**AccountsProofs.** `TypeInv` says of every request that its plan is one that its
operation writes, and that it has in hand whatever the statements left
on the plan will read.

- `TypeCorrect`: `[]TypeOK`.
- `LinksAlwaysWorkOnce`: the conditional updates are the only statements that count
  a use, and an open link has none.
- `OldPasswordsAlwaysEndSessions`, with `PasswordInv`: a live credential is as old
  as the password, or an operator's reset has its kind still on the plan, or
  stopped before it.
- `OwnerAlwaysStaysEnabled`, with `OwnerInv`: before there is an owner nobody is
  served and a start that has found one has found an enabled admin; afterwards no request
  that has read the owner's row would write another role or status, and none
  is about to disable it.

**GameCategoriesProofs.** A step is quiet, or is one of six commits, whose effect on the
rows and on the other transactions' snapshots is said once each. `IInv` adds to
the properties: `Merging` (the names a merge has locked go to a category that
stays, and on SQLite are all the names of the one that goes), `Separating` (a
transaction whose snapshot is up to date leaves another name behind) and `Loading`
(what a loader has listed is still so, or somebody has still to drop the map).
`NamesAlwaysHaveACategory`, `SeparationsAlwaysLeaveAName`, `MapIsAlwaysCurrent` and
`EditsStay` follow.

**LibraryProofs.** `LibraryInv` says that an open clip has a link, that what a bulk
transaction has read of the rows it holds is still so and no two hold the same, that an
answer of which nobody has asked to change the clip since is what the row says, that the audit log is
short by the requests about to write to it (`Owing`) and by faults, and that
parents exist. That a new share id can always be found is a counting
argument (`NewShareIsNew`), and that the newest comments are as many as the limit is one about
ranks in a finite order (`Ranks`, by an injection). Theorems: `LibraryTypes`,
`AnswersAlwaysHold`, `BulkIsAlwaysWhole`, `AuditAlwaysMatches`,
`ThreadsAreAlwaysSound`.

**ObjectStoreProofs.** `IInv` says of each call, by its operation, what it has
written and read so far (`RowInv`), that two writes of a key that overlap have
marked each other (`WritesCross`) and that only the disk has temporary files.
Most steps move one call and nothing else (`Private`).

- `StoreImplementsMap`: `StoreIsAtomic`, the refinement `Spec => Map!Spec`. A step of
  a call maps to a `Publish`, an `Ask`, a `Withdraw` or a stutter, according to how the call's
  offer changes (`Quiet`, `Asking`, `Publishing`, `PublishingCopy`); a
  crash withdraws all of them. Torn sidecars, parts and temporary files map to stutters.
- `PartsOutlive`, `WritesStick` and `CompletionsAreExact`: `PartsOutliveCompletion`,
  `AcknowledgedWritesStick` and `CompletionIsExact`. What a completion has appended, and
  the part it is about to, is what its caller named or was uploaded again since (`ExactOK`).
- `StoreReads`: the invariant `RInv` of reads and listings, on top of `IInv`. A write in flight
  has disturbed every read and listing of its key (`Crossed`), so what a read that nothing
  has disturbed has learnt of a key - its size, its ETag, the span of its range - is still true
  of what `clean` says the key holds (`ReadOK`), and `AcknowledgedWritesStick` says that file and
  sidecar are just that. A listing has listed what it is past (`ListOK`); an upload whose id is
  known and that is open has its directory and a whole `upload.json` (`UploadsOK`), so
  one of uploads has listed those it owes, or is still to come to them (`OwedOK`). The property speaks
  of answers only, and says nothing of a read on its way to one.
- `ReadsAlwaysSound`: `ReadsAreSound`. What a range asks for is an interval, and the bytes read
  are those of it, for every header and every size (`SpanOfRange`, `Interval`, `BytesOfRange`).

**LibraryProofs, second part (Browse).** The invariant counts: a clip's `Rank` is the
number of clips of the list before it, and the clips of an order stand at their
ranks because `Before` is total (`BeforeIsTotal`, `PlaceIsRank`, by an injection). What a
walk has shown has a rank below the offset of the next page unless something came or moved
(`NoneRepeated`), and what was there all along and has not been shown has one at or
behind it unless something went or moved (`NoneMissed`): if nothing goes, ranks only grow
(`RankMoves`). The property alone is not inductive, as it looks at the end of a walk only.

- `BrowseInvariant`: types and the invariant above, with `NumbersOK` for the figures.
- `ShiftsOnly`, `CountsAlwaysMatch`: `OnlyShiftsDisturb`, `CountsMatchLists`.
- `WalksAreComplete`: `WalkIsComplete`. Its search half follows a pattern from both sides: the
  flattened sequence by induction upwards (`FlattenedTexts`, `PatternShape`), LIKE's recursion
  over what is left of the pattern downwards (`LikeUnfolds`, `LikeFindsPart`): each
  escaped character matches itself alone, and the two wildcards around them any place in the
  text. `SearchFindsNames` then has it for both databases' `LOWER`.

Model-checked only: all liveness (out of the prover's reach). Induction over data is only out of reach where a
theorem of the library would have to be instantiated with an operator: sums, ranks and
recursive functions are followed here by least counterexamples (`Upwards`, `Downwards`) and injections.

## Disagreements with the documents

The first seven have a configuration of their own beside those of the runs, under
which TLC prints the behaviour; it is the property named that fails.

1. `UploadReadyFails.cfg`, `ReadyStaysReady`: a completion overtaken by another
   finds the optimized, smaller object, and `mark_upload_failed` (uploads.rs:1491)
   fails the ready clip. docs/06-clip-lifecycle-and-jobs.md:28: the optimization
   "must never make a validated upload unplayable".
2. `UploadExpired.cfg`, `ExpiredIsReclaimed`: an expiry cut short after
   `abort_if_expired` is never resumed (jobs.rs:918), and the clip is left in
   `created`. docs/12-phase2-processing-and-reliability.md:76: "Expired sessions
   and orphaned parts/objects are reclaimed automatically".
3. `UploadTempFiles.cfg`, `TempFilesAreReclaimed`: an interrupted local write
   leaves its temporary file, which the listing for the orphan sweep skips
   (storage lib.rs:737). docs/12:64: "remove orphaned temp parts".
4. `ClipPipelineStranded.cfg`, `NoClipIsStranded`: a process that ends between
   `mark_dead` and its side effects (jobs.rs:374) leaves the clip in `processing`.
   docs/06:99: "clip does not get stranded in `processing`".
5. `ClipPipelineReadyFails.cfg`, `ReadyStaysReady`: the burial of a validate job
   that had already made its clip ready (jobs.rs:401) fails the clip.
   docs/cloud/deployment-guide.md:301: "completed uploads remain playable as soon
   as they pass validation".
6. `AccountsGrant.cfg`, `OnlyOwnerGrantsAdmin`: `update_user` (auth.rs:990) writes
   back the role it has read, so an admin's patch of a display name, in flight
   while the owner demotes its target, makes it an admin again.
   docs/04-authentication-users-and-first-run-admin.md:146: "Only the owner can
   create admin accounts".
7. `GameCategoriesRefused.cfg`, `FailedUploadsLeaveNoCategory`: a create that the
   second check of the limits takes back leaves the category it made for a new
   game (uploads.rs:997). docs/05-upload-protocol.md:294: "A failed or duplicate
   upload cannot leave an empty category behind".

Met while modelling, without a configuration:

- With *two* runner processes, `SweepsRecur` fails: a crash between the death of a
  sweep's row and its re-arming, followed by a start that counts an older row of
  the sweep still running in the other process (jobs.rs:128), leaves no row until
  some process starts again.
- `ensure_first_admin` (auth.rs:332-377) looks for an owner and sets one in separate
  statements, and `set_owner_user_id` (repositories.rs:517) sets it whatever is
  there. A start that found none and is overtaken by another start, by a
  promotion and by a demotion can replace the owner with an account that is no
  enabled admin any more. `OwnerStaysEnabled` is therefore about an owner that was
  not `replaced`.
- With optimization on, the completion of an upload can be undone by a second one
  that was under way: it finds the optimized object where it expects the
  original's size, and deletes it (item 1 above is the clip's side of it).
  `CompletedHasObject` and `CompletedIsFinal` are about setups without it.
- On PostgreSQL a search for a title with a capital outside ASCII does not find
  that title: the pattern is lowered as ASCII (repositories.rs:2028), the column by
  the database as Unicode. `WalkIsComplete` is therefore about patterns on which
  the two agree (`Plain`).
- A crash while the local `create_multipart_upload` writes `upload.json`
  (storage lib.rs:762) leaves an empty one, on which every later
  `list_multipart_uploads` fails (lib.rs:442, 786), and with it the last step of
  `cleanup_clips` (jobs.rs:936), so no orphan upload is aborted until the directory is
  removed by hand. In ObjectStore it is the `torn` case of `LookAtEntry`;
  UploadSession's orphan sweep leaves it out.
- docs/07 has non-ready clips excluded from normal views; the own list without a
  status filter shows created, processing and failed ones (repositories.rs:1804).

## What is not modelled

- Accounts: the login limiter, CSRF, profile and avatar, and the artifacts
  and avatar of a purged account. Administration: the settings form and the audit
  listing. Of
  the settings, two patches together may enable SMTP without a host, since each is
  validated against the row it has read (admin.rs:712).
- Uploads: the names and hashes a create validates; presigned URLs.
- Storage: prefixes and key syntax, modification times, presigned URLs, S3's
  limit of 10,000 parts, and errors of the local file system, but for the one the code
  ignores: a deletion answers Ok when its sidecar stays (lib.rs:699, `RemoveSide`). A sidecar that a crash leaves torn is modelled: reads of
  the object fail until it is written again.
- Sweeps: `mark_ready_clips_with_missing_source` (jobs.rs:993), which finds nothing
  where `CompletedHasObject` holds.
- Library and public pages: markers, downloads, view counts, embeds, caching
  headers, and the scores of recommendations (media.rs:1806-1916), which order but
  do not select.
- ffmpeg, SMTP and SteamGridDB are external and stateless here. Configuration
  parsing, logging, the migration runner, the API crates and the frontend's
  rendering have no state a model would add to. `retry_delay`'s amounts do not
  matter to any property: only the order of due rows does.

## Plan

Done: every module above with its run, the two refinements, and the theorems of
the eight proof modules. What is left is in *What is not modelled*; the liveness
properties stay with TLC.
