# A verification project for bun-tpl

bun-tpl is a Bun/TypeScript application template: a Hono API server over an
embedded SQLite (libSQL) database, with content-addressed file storage,
optional whole-database encryption, OIDC/TOTP authentication, a Zanzibar-style
policy engine, documents, issues, comments, a cron scheduler, backup and a web
client. This directory holds TLA+ models of its core, the TLC configurations
that check them on small instances, and TLAPS proofs of what matters for every
size. Paths below are relative to `src/`; `api/` stands for
`src/apps/api/src/`.

The server is one process with one event loop. Nothing preempts a handler, but
every `await` lets any other handler run. So **a step of a model is what runs
between two awaits**, and the interesting behaviours are the interleavings of
handlers that read, await and then write, together with crashes, timeouts and
failing calls.

## 1. Inventory

| Component | State it keeps | Operations | What is hard | What makes it correct |
|---|---|---|---|---|
| **File store** `api/modules/file` | `files` rows (`sha256`, `ref_count`), `file_references` rows, blobs under their hash, `FILE_GC_MODE` | `uploadAndReference`, `releaseReference`, `releaseAllByOwner`, the `file-gc` task (orphan sweep + unreferenced files), `syncDeleteBlob` | the attachment count and the references are read outside transactions; a driver call sits inside one and another outside; the sweeper works from an old list; crashes between blob and row | references resolve; counts never hide an unreferenced file; one row per content; bounded overrun of the limit; blobs have rows; garbage is collected |
| **Write lock** `api/db/bun.ts` | held flag, FIFO queue with timers, the async-local transaction scope | `WriteLock.run`, gated `execute`/`batch`/`transaction` | hand-over is a promise resolution; a waiter may time out as its turn comes; nested transactions; detached work of a transaction that ended | one writer; no stranded lock; FIFO; refused only inside an open transaction; everybody answered |
| **Encryption lifecycle** `api/modules/encryption` | `app.db` and its `.bak`/`.tmp` siblings, `meta.db` (wrapped DEK, version), locked/unlocked, operation latch, challenges | init, unlock, rotate DEK, change master key, boot | many filesystem steps, any of which may fail or be the last before a crash; two files that must agree; requests that race the latch | after any crash the database opens with the recorded DEK; no data lost; one operation at a time |
| **Application lifecycle** `api/app.ts`, `api/index.ts`, `api/pid-lock.ts` | current app (locked or full), DB handle, PID file | hot swap on unlock, shutdown, lock takeover | the old handle is closed while old handlers and timers still run | nobody uses a closed handle; shutdown ends; one process at a time |
| **Cron** `api/modules/cron` | `cron_jobs`, `cron_job_logs`, in-memory timers | start, sync, run, auto-pause, reap, drain | `syncJob` awaits between removing and adding a timer; auto-pause looks at history; drain has a deadline | timers agree with rows; a paused job stays paused until enabled; no run is lost in "running" |
| **Authentication** `api/modules/account/auth`, `users/totp.service.ts` | PKCE states, TOTP challenges, sessions, lockout counters | login, callback, TOTP, renew, logout, step-up | consume is read-then-delete; counters are read-modify-write; renewal works from an old row | single use; a logout is final; N failures lock |
| **Users, groups, tokens** `api/modules/account` | members, groups, API tokens | sync from the IdP, group delete, token create | several statements without a transaction | no membership of a deleted group; token limit |
| **Policy engine** `api/modules/policy` | relation tuples, namespace configs | check, expand, listUserResources | recursion with a shared visited set, depth and node budgets; per-request cache | check and the listing answer what is derivable, where no budget is met |
| **Documents, issues, comments** `api/modules/document`, `issue`, `item` | items with versions, parent links, comments | create, update, move, delete | parents resolved before the transaction; optional version check | tree stays a tree; no lost update; no live child of a deleted parent |
| **Backup and restore** `api/modules/backup` | everything, as archive | export, restore, reconcile | reconciliation after commit, next to the file sweep | restored counts equal restored references |
| **Rate limits and quota** `api/shared/middleware` | in-memory counters, checkpointed rows | count, checkpoint, load | concurrent cold loads; checkpoint awaits | bounded drift after a restart |
| **Audit log** `api/modules/audit` | append-only rows | append, retention in batches | retention loop against handle close | stops before the handle closes |
| **Settings, system pages** | one-row tables | read, upsert | nothing | unit tests |
| **Lode supervisor** `api/lode` | an external supervisor's files | handshake at boot and stop | only visible through `index.ts` | with the lifecycle |
| **Workers runtime** `api/workers` | Durable Object storage | same handle interface | single-threaded by the platform | no lock of its own |
| **Web client** `apps/web` | browser state | the HTTP routes | reaches server state only through the routes | out of scope |
| **Shared cryptography** `packages/shared` | none | ECIES, KDF | numeric code | out of a model checker's reach |

How they interact: every handler writes through the one DB handle, so the
**write lock** orders all writers; the **file store** is called by documents,
issues and comments (upload, release by owner), by **backup** (reconcile) and by
**cron** (the `file-gc` task); **encryption** replaces the handle and the app
under everybody (`onDbReady`, hot swap); **cron**, **retention** and
**shutdown** hold the handle across awaits. `PROJECT.json` lists the hazards of
each at their lines, with the properties that would catch it.

**Application lifecycle** and **cron** are modelled together, because the shutdown
waits for runs and the hot swap changes the handle under them; **documents** with the
**policy engine**, because a document's rows and its tuples are written by one request;
**authentication** with what an administrator does to a **user**.

## 2. Modules

| Module | Models | Extends / instantiates |
|---|---|---|
| `FileStore` | state machine of the file module | – |
| `FileStoreProps` | its properties | `FileStore` |
| `MCFileStore` | model values and symmetry for TLC | `FileStoreProps` |
| `FileStoreProof` | theorems | `FileStoreProps`, TLAPS |
| `FairLock` | abstract specification: one fair line of writers | – |
| `WriteLock` | the lock and the gated handle | – |
| `WriteLockProps` | its properties, and `FairLock` under a refinement mapping | `WriteLock`, `FairLock WITH line <- Line` |
| `MCWriteLock`, `WriteLockProof` | instance for TLC, theorems | `WriteLockProps` |
| `Encryption` | init, unlock, rotation, master change, boot, on the files and `meta.db` | – |
| `EncryptionProps` | its properties | `Encryption` |
| `MCEncryption`, `EncryptionProof` | instance for TLC, theorems | `EncryptionProps` |
| `Quota`, `QuotaProps` | the durable creation quota, its properties | – |
| `MCQuota`, `QuotaProof` | instance for TLC, theorems | `QuotaProps` |
| `Cron`, `CronProps` | scheduler, its admin routes, hot swap and shutdown | – |
| `MCCron`, `CronProof` | instance for TLC, theorems | `CronProps` |
| `Policy` | the relation engine's `check` and listing as recursive functions over tuples | – |
| `Documents`, `DocumentsProps` | documents, shares, groups and attachments over those tuples | `Policy` |
| `MCDocuments`, `DocumentsProof` | instance for TLC, theorems | `DocumentsProps` |
| `EngineProof` | theorems about what the engine answers | `DocumentsProof`, TLAPS |
| `SignIn`, `SignInProps` | sign-in, failure buckets, sessions, role and status of an account | – |
| `MCSignIn`, `SignInProof` | instance for TLC, theorems | `SignInProps` |

### FileStore

State. `files`, `sha`, `refCount` are the `files` table (a file's storage key is
its content, so `blobs`, the objects under their final name, are contents);
`refs` are the `file_references` rows; `owners` the comments and documents a
route still finds. `up[u]`, `rel[d]` and `sweep` are what each handler remembers
between its awaits: the stale reads. `lock` is the upload transaction that holds
the write lock.

Actions and code.

* `StartUpload`, `CheckLimit`, `BeginUpload`, `PutBlob`, `CommitDedupe`,
  `CommitNew` are `uploadAndReference`, cut at its awaits. Only this transaction
  is several steps, because only this one awaits something other than SQL
  (`driver.put`) while it holds the lock. The unique index on
  (`file_id`, owner) is the roll-back in `CommitDedupe`.
* `StartDeleteAttachment`, `StartDeleteOwner`, `ListByOwner`, `ReadReference`,
  `ReleaseTx`, `FinishRelease` are the delete routes, `releaseAllByOwner` and
  `releaseReference`. Comments are hard-deleted and always released on the async
  contract; documents are soft-deleted.
* `SyncDeleteBlob`, `SyncDeleteRow` are `syncDeleteBlob` (`FILE_GC_MODE=sync`).
* `StartSweep`, `ReadReference`/`ReleaseTx` of the releaser `Sweeper`,
  `ListUnreferenced`, `CollectBlob`, `CollectRow`, `FinishSweep` are the
  `file-gc` task. The scheduler never overlaps two runs of it, so there is one.
* `Busy` (a 503 `DB_BUSY` from the write lock), `UploadFails` (an exception in the
  upload's transaction), the failing branch of `DeleteObject` (the local driver
  swallows a failing `rm`) and `Crash` are the faults, at most `MaxFaults`.

The schema's foreign key (`ON DELETE RESTRICT`) is part of the model as
`Deletable`; without it `NoDanglingReference` fails, and that mutant is checked.

### WriteLock

State. `held` and `queue` are the two private fields of `WriteLock`, with each
entry of the queue standing for the `turn` closure of its task; `timer` the armed
timeouts; `scope` the `AsyncLocalStorage` context (which open transaction a piece
of work belongs to); `awaits` the transaction body that waits for another task.

Actions. `Write` and `Transaction` are the gated entry points up to the first
await of `run`; `Release` is `run`'s `finally`, and `Resume` the continuation of
the waiter that was handed the lock: between the two, other tasks run, and find
the lock held. `TimeOut` is the timer's callback. `Spawn` and
`NestedTransaction` are what a transaction body may do on the outer handle.
`End` closes the scope, which the code does before it releases the lock. A write in the
model is one the code recognises: inside an open transaction it refuses only what
is plainly a write, and what is merely not a read (`WITH ... INSERT`, a pragma) goes to the
outer handle without the lock (`bun.ts:154-160`).

`FairLock` promises a single line: arrive at the end, write at its head, leave,
or give up anywhere but at the head. `Line` maps the owner followed by the queue
to it.

### Encryption

State. `disk` maps `app.db` and the four siblings the code renames to and from it
(`.bak`, `.unencrypted.bak`, `.rekey.tmp`, `.enc.tmp`) to a key and a set of rows; a
copy that has begun has a key and no rows. `meta` is what `meta.db` records.
`handle` is the DEK of the open database handle. `initialized`, `unlocked`, `busy`
(`operationInProgress`) and `failed` (`dbError`) are `EncryptionState`. `req[r]` is a
request: its operation, where it is, the DEK its client knows (what `meta.db`
recorded when the client asked, which may be outdated by the time it posts) and the
DEK the handler generated.

Actions. One per `await` or system call, because the process can die between two
renames: `InitCopy`, `InitFiles` (copy, rename aside, rename in, unlink), `InitRecord`,
`InitOpen`; `PostUnlock`, `BeginUnlock`, `OpenUnlock`; `Quiesce`, `Drain`,
`RotateCopy`, `RotateFiles`, `RotateRecord`, `RotateOpen`, `RotateDrop`;
`ChangeMaster`. `BeginInit`, `BeginUnlock` and `BeginAdmin` take the operation latch,
after whatever the route has checked before. `InitFails`, `CopyFails` and
`RotateFails` are the catch blocks, entered from any step they cover; their own
recovery may succeed or fail. `Crash` is a new process over the same files (`Boot`),
`OperatorRestores` the manual recovery the comment at `encryption.service.ts:213-216`
has in mind. `Write` is the application committing a row through the handle. A failed
unlock keeps the handle there was; in the code the new one is served if all that fails is
the read of the settings after the swap (`app.ts:97-101`).

### Quota

State. `row[w]` is the checkpoint of window `w` in `rate_limits`, `cache[w]` the entry
in memory with its `persisted` mark, `req[h]` a request in `consumeCreationQuota`: the
time it read, the windows it found cold, what it loaded, which upserts it waits for.
`book` is a history: what was really let through in the window that is cached.

Actions. `StartWarm` and `StartCold` are the entry up to the first await, `CountCold`
what follows the load, `Upsert` the statement in the database (upserts run in the
order they were issued, `turn`), `Settle` the continuation that sets `persisted`,
`Answer` the middleware's verdict over both windows. `Evicted` is another key that
pushes this one out, `Restart` a new process, `Refused` an upsert that fails. One
user and one resource are modelled; the keys share nothing but the size of the map.

### Cron

State. `job[n]` is the row of a name, soft-deleted rows included, because the name is
unique over both; `logs` the log rows; `timer[n]` what the in-process scheduler holds,
with the id and the database handle its callback closed over; `sched` the handle
`startCron` was called with; `handle` the one that is open now. `run[r]` and `adm[a]`
are runs and admin requests between their awaits, `sweeping` the background sweeps that
run (audit retention, file GC), `phase` is how far `index.ts` has come.

Actions. `Boot` (`startCron`: seed, reap, add the timers), `HotSwap` (a DEK rotation
opens a new handle and closes the old), the routes (create, pause, resume, trigger,
delete, each cut at its awaits: row, then `syncJob`'s removal, read and addition), the
runs (`executor.ts`: insert the log, act, write the result, count the failures, pause
the job and detach the timer), `StartSweep` and `EndSweep`, the shutdown and `Crash`.

The shutdown is the order of `index.ts:71-82`: `StopHttp` (the HTTP drain, with a
deadline), `StopRetention` and `StopCron` (the retention sweep, then the file sweep, are
stopped and waited for, and these two waits have **no** deadline: `platform/bun.ts:38`),
the timers, the drain of the runs in flight until `DrainDeadline`, flush, close, exit.
The watch on the supervisor's files is stopped in between and awaits nothing, so it is no
step, and neither flush nor close awaits anything that could stay away. A sweep is a
phase here and not its statements: it runs or not, and may take for ever, because its
blob driver may. What it does to the file rows is `FileStore`.

Simpler than the code: the runs that `runOnStartup` would start without `inFlight`
knowing (`cron.service.ts:249-258`; no action of the repository sets it) are left out, and
there is one process at a time. In the code the reap comes before the PID lock
(`index.ts:20` and `:26`, `:87`), so a second process that is about to be turned away could
reap the log of a run that still runs. A hot swap closes the old handle under
a sweep as under a run; `NothingUnderClosedDb` is about the shutdown's close alone.

### Policy and Documents

`Policy` translates `zanzibar.engine.ts`: `Check` threads the visited set, the node
budget and the depth through the branches in the order the code takes them, and
`ListObjects` is the query for one user's objects. The calls of `check` are a walk over
what is left to visit (`Work`): `Found` is the yes of a call, `After` what it leaves, and
the calls a node makes go before the rest (`Unfolded`), which is their depth-first order.
The budget of a listing is left out: it is spent by the group and by the level of the
tree, and no tree is 5000 levels deep.

State of `Documents`: `doc[d]` (status, parent, creator), `tuples`, `groups`,
`members`, `attached`, and `req[q]`, a request between its awaits with what it looked up.
Actions: create, move (the parent is looked up, then the transaction), delete (list the
subtree, release its attachments, recompute it and delete it), share (delete the old role,
check that the caller may grant, insert) and unshare, joining, leaving and ending a group.
`Hang` is a query that does not end: for a subtree on a cycle, or for the ancestors of a
document on or below one.

`Unshare` is `removeDocumentShare` (`document.service.ts:654-669`). It asks that the tuple
is of the `item` namespace and that the caller may revoke on its object, and nothing of
its relation: the id of a document's own `owner` or `parent_item` tuple is revoked as a
share is. So the action takes any tuple, and the history `revoked` remembers what it took
from a document; the edge comes back with the next move, the owner does not.

The release of a subtree's attachments is one step here, and one document after the other
in the code; and no upload comes between it and the delete (`FileStore` has uploads).

### SignIn

State. `lockout[b]` is the row of a bucket, `challenges`, `sessions` and `lastStep` the
tables of the second step and the sessions, `req[q]` a request between its awaits.
Actions. The gate (`IsLocked`, with its lazy delete `Sweep`), `CheckPassword`, `Count`
and `Write` (`recordFailure` reads, then writes), `Clear`; the callback (`ReadUser`,
`BindUser` are the read and the write of `upsertUser`); the second step (`Take` and
`Drop` are the read and the delete of `consumeTotpChallenge`, `CheckCode` its
transaction); `OpenChallenge`, `OpenSession`; `ReadSession`, `Renew`, `EndSession` of a
request that uses a session; `Logout`, `ResetPassword`, and `Change`, the PATCH that is
judged on a row read before and may carry a role, a status or both. `Abandon` ends a
request anywhere: an error or a restart.

`BindUser` writes `RoleFor` of the role that `ReadUser` read: `DEFAULT_ADMIN` promotes
whoever it lists, at every login, and revokes nothing (`auth.service.ts:136-158`). Whether
the user is listed is chosen anew each time, because the list belongs to the start of the
process and an email counts only once the provider has verified it.

`era` counts what ends sessions (resets, changes of status or role), and a role that a
login takes away because it writes what it read before a change; a promotion by
`DEFAULT_ADMIN` ends no session and does not count. `admin`, in a request, a challenge
and a session, is whether it signed in as an administrator; `late` marks sessions that
were open or being opened while a change went past them. `tried` and `loose` are what the
buckets should have counted.

## 3. Runs

| Run | Instance | What it asks | Result |
|---|---|---|---|
| `file_store_safety` | 2 uploaders, 2 deleters, sweeper, 3 contents, 1 comment, limit 1, both GC modes, 3 files, 3 references, 1 fault; symmetric contents, uploaders, deleters | `TypeOK`, `NoDanglingReference`, `NeverOvercounted`, `OverrunBounded`, `NoOrphanBlob`, `OneRowPerContent` | holds (727 000 states) |
| `file_store_live` | 1 uploader, 1 deleter, sweeper, 2 contents, 1 comment, 1 document, 1 fault, async mode, fair | `RefCountExact` with a single releasing request, `OnlyAskedOrOrphaned`, `EventuallyCollected`, `OrphansReleased` | holds (50 000 states) |
| `file_store_live_blob` | 1 uploader, 1 deleter, sweeper, 1 content, no fault | `LiveBlobPresent` | **violated**: finding 1 |
| `file_store_double_release` | 1 uploader, 2 deleters | `RefCountExact` | **violated**: finding 2 |
| `write_lock` | 4 tasks, fair | `TypeOK`, `OneWriter`, `NeverStranded`, `QueueIsWaiters`, `RefusedOnlyInside`, `EverybodyAnswered`, `ImplementsFairLock` | holds (45 000 states) |
| `encryption` | 2 requests, 3 DEKs, 2 writes, 2 failures or crashes, started without or with an unencrypted database, fair | `TypeOK`, `HandleFits`, `ServesRecorded`, `RecordedCopy`, `NothingErased`, `QuietlyCurrent`, `EveryOperationEnds` | holds (119 000 states) |
| `encryption_rotation_fails` | 1 request, 2 DEKs, 1 failure | `RecordedDekOpens` | **violated**: finding 3 |
| `encryption_master_change` | 2 requests, 2 DEKs, no failure | `ServedDekRecorded` | **violated**: finding 4 |
| `quota` | 2 requests at a time, 7 in all, a minute and an hour window with caps of 2 and 7 and lengths of 1 and 2, drift 2, time to 2, 1 fault; symmetric requests | `TypeOK`, `RefusalDurable`, `DriftBounded`, `BudgetKept` | holds (1 060 000 states) |
| `cron` | 2 job names (one seeded, one the purge), 1 admin request and 1 run at a time, 1 sweep, 2 processes, 2 handles, threshold 1, 1 fault or crash | `TimersAgree`, `RunningIsInFlight`, `NothingUnderClosedDb`, `ShutdownEnds` | holds (1 397 000 states) |
| `documents` | 3 documents, 2 users, 1 group, 3 requests of which 2 at a time, depth limit 3; symmetric requests and documents | `TreeSound`, `TuplesFollow`, `AttachmentsFollow`, `EngineExact` | holds (416 000 states) |
| `sign_in` | 4 requests of which 2 at a time, 2 sessions, 2 challenges, threshold 2, time to 3, with and without a second step; symmetric requests, sessions, challenges | `SessionsSound`, `AdminSessionsHold`, `FailuresCounted`, `RenewalKeeps` | holds (1 750 000 states) |

Bounds. Three contents, files and references with two uploads at once let a
content be stored, collected and stored again under a new id while a third handler
still remembers the old one, which is the longest chain of stale reads in the code
(list, release, collect). The limit of one attachment is the smallest that two
uploads can overrun. One fault is enough for each single failure in each state;
two together add only the combinations, which the proofs cover for every
`MaxFaults`. Ids are bounded by `MaxFiles` and `MaxRefs`, and `StartUpload` keeps
room for every upload in flight, so no handler is ever blocked by a bound half
way. Four tasks are one that owns the lock, one it waits for, and two behind
that one in the queue: enough for a time-out at the head, in the middle and at the
end of the queue. `CHECK_DEADLOCK FALSE` is set for the file store, which stops
when the ids are used up, and for encryption, which stops when the DEKs are used up or
the recorded DEK opens nothing; the lock's run checks deadlock.

For encryption three DEKs are an init and two rotations, so a second rotation
meets the leftovers of a failed or crashed first one; two faults are a failure and a
crash, or a crash during the recovery from one.

For the quota, the minute's cap of two is passed by the third request, and the drift of
two is reached three times before the hour's cap of seven, so a window is refused, lost in
part and reloaded within seven requests. For cron, two processes are a crash and the start that reaps what it
left, a threshold of one makes every failed run pause its job, and a run and an admin
request suffice for the two changes of one job that can cross; one log and two ids keep
the product of rows, timers and phases in reach. One of the two sweeps is configured, the
one whose wait comes second: both would double the states of a liveness check, and they
differ only in the phase that waits for them; the proofs are for both. For documents, a move that crosses a
move needs two requests at a time and three documents, and the third request is the
delete, share or end of group that meets the result; a depth limit of three is one below
what a chain of three documents with a group needs, so the limit is met. For sign-in,
four requests are two that overlap and two more to see what they left (a wrong attempt
that crosses another, then one more past the threshold); the time bound lets a lock, a
challenge and an idle session lapse, and the two values of `max_age` (2 and 4, with an
absolute deadline of 4) let a renewal be cut at the absolute deadline, be followed by a
second one, and shorten a session by writing after a longer one. No session is old enough
to reach the absolute deadline itself: with these values no row expires after it, so the
first test of `Expired` covers the second, and the proofs are for every value of both.
`CHECK_DEADLOCK FALSE` is set for these four, which stop when their requests are used up.

Symmetry is used only in runs without a liveness property: `file_store_safety`, `quota`,
`documents` and `sign_in` (whose one temporal formula is about single steps).

Fairness. The file store's `FairSpec` assumes strong fairness for each handler's
steps and for the sweep: a handler that was started goes on (promises settle), the
scheduler keeps starting the sweep, and a write that waits for the lock gets it
although the lock is taken again and again, because the lock is FIFO
(`ImplementsFairLock`, proved as `LockIsFair`). No request is ever assumed to be
sent. The lock's own run assumes that promises settle and timers fire (weak) and
that a statement returns and a transaction body that waits for nobody ends
(strong: a body may start nested work again and again in between). The encryption
run assumes only that a handler that was started runs on (weak). The cron run assumes
that the shutdown goes on as long as it can (weak, of all its steps together), among them
its two deadlines: runs and requests may hang for ever, and the shutdown must end all the
same. Of the sweeps nothing is assumed in the specification, because the code waits for
them without a deadline; so the hypothesis stands in the property: `ShutdownEnds` says that
the shutdown ends if each sweep that runs ends some time, and a sweep whose blob driver
never answers holds the shutdown up for good.

Every property of a passing run has a mutant in `PROJECT.json`: a small change of
the code's definition, named beside it in the module (`WithoutFloor`, `NoForeignKey`,
`StillQueued`, `LastInFirstOut`...), under which TLC finds it violated.

## 4. Proofs

`FileStoreProof` proves, for all finite sets of uploaders and all other constants
that satisfy `Actors` and `Bounds`, seven layers of inductive invariants, each using
the ones before it:

1. `TypeInv`: `TypeOK` with `Room` (the ids still free cover the uploads in flight;
   without it the counters could leave their range), and what a handler in a given
   `pc` knows about its file.
2. `RowsInv`: the upload in its transaction is the lock's holder, a content it did
   not find still has no row, and a row it found is still there, because deleting
   needs the lock. Gives `ReferencesResolve` and `ContentStoredOnce`.
3. `CountInv`: reference ids are distinct and below `nextRef`, and a release in its
   transaction knows the file of its reference. Then a decrement removes a reference
   or loses to a second release, but never leaves the count too high:
   `CountsNeverExceed`.
4. `LimitInv`: references of an owner plus uploads past the check never exceed the
   limit plus the number of uploaders minus one; it needs a count of those uploads
   by cardinality. Gives `LimitOverrunBounded`.
5. `SweeperInv`: what the sweeper is going to release was an orphan, and comments do
   not come back. Gives the action property `ReleasesAreAskedFor`.
6. `BlobInv`: while nothing has failed, a row outlives its object only in the hands
   of whoever is deleting both. Gives `ObjectsHaveRows`.
7. `ExactInv`: a release in its transaction finds the reference it has read, and the
   counts are exact. It is preserved while releases are `Apart`, that is, no two of them
   have read one reference: `CountsExactApart`, for any number of requests. So finding 2
   is the only way a count goes wrong. With one request at a time they stay apart
   (`RequestInv`): the request's references are of owners that a route still finds, the
   sweeper's of owners that are gone. Gives `CountsExactForOne`, which is about the
   instances of `file_store_live`.

Each action has a lemma that says which parts it leaves alone, and each layer one
step per action.

`WriteLockProof` proves, for every set of tasks, that the queue and the timers are
exactly the waiting tasks, that one task at most owns the lock, that held means
owned, and that a scope names a transaction that owns the lock (`LockInvariant`).
From it follow `WritersExclude`, `LockNeverStranded`, `QueueHoldsWaiters`,
`RefusalsInsideOnly` and the refinement `LockIsFair`: `Spec => Fair!Spec`. The
refinement needs the invariant twice: the owner in `Line` is a `CHOOSE` that is
determined only because owners exclude each other, and removing a task that gave
up from the queue is a `GiveUp` only because it is in the queue exactly once.

`EncryptionProof` proves, for every finite set of requests and any number of DEKs,
writes and faults, one invariant in three parts (`SafetyInv`):

1. `ControlInv`: one request at most is behind the latch, each request has the keys
   its step needs, there is room for every DEK still to be generated, and a DEK that
   meta.db or a client has is older than the next one.
2. `FileInv`: what relates the files to `meta.db` between any two steps. A DEK that
   somebody has and that opens `app.db` is the recorded one (`KeysAgree`): this is why
   a stale unlock or rotation is harmless, and it holds only because a DEK is
   generated once. The recorded DEK opens `app.db`, or a `.bak` that holds everything
   (`Reopens`). The rows are in `app.db`, or in `.bak` if there is no `app.db`, and
   what init migrates may still be in its backup or its copy (`Kept`).
3. `Stages`: what the one operation behind the latch has done so far, step by step;
   without it a `rename` could not be shown to move the file it is meant to.

It gives `EncryptionTypeCorrect`, `HandlesFit`, `OnlyRecordedServed`,
`WritesRecoverable` and `NothingLost`. A lemma per action shows that it preserves the
three parts; while a request is behind the latch all others wait, so their stages are
empty (`OthersWait`).

A fourth part, `QuietInv`, is about behaviours in which nothing has failed yet. Then the
rows are in `app.db`, or between two renames in the copy about to be promoted
(`Home`, `Promoting`, `InBetween`), and the recorded DEK is the one of the file unless an
operation stands between the rename and the record (`Unsettled`). With nobody behind the
latch only the first case is left: `QuietlyComplete`.

`QuotaProof` proves, for any finite number of requests, any windows and caps,
`QuotaTypes`, `RefusalReachesTheRow` (`RefusalDurable`), `BudgetIsKept` and
`DriftIsBounded`, with two invariants:

1. `QuotaInv` orders the upserts in flight by their turn and says that the last one
   carries a count past the cap, that the row has it, or that the entry's `persisted`
   mark is still below the cap, so that the next request crosses it again.
2. `CounterInv` adds what is remembered of a window. `BudgetInv`: what was let through,
   plus the requests in flight that will be (`Promised`, by cardinality), plus any count
   of this window that memory, the row or a request still has, is within the cap and the
   requests that came. `ExactInv`: without a fault a window that lasts is in memory with
   the count of all its requests, so its row is never read back. `DriftInv`: the last
   value written for an entry is behind it by at most `MAX_DRIFT - 1` for each request
   that holds the window; a request that counts and crosses a checkpoint writes it, and
   one that does not uses up one of these slacks.

`CronProof` proves the safety of the scheduler and of the shutdown, for any numbers of
jobs, runs, admin requests, processes, hot swaps and faults. `Parameters` says that one
action at most has a default schedule, as `defaultCron` in the code, and that `None` is
none of the values it stands beside. Six layers, each using the ones before:

1. `TypeInv`: the types, and which operations come to which step (`CronTypes`).
2. `DownInv`, `CloseInv`: before `startCron` no timer ticks, so a run is a request's; once
   the HTTP drain is over there are no requests; a sweep that was stopped is not started
   again; and after the timers are stopped there are only runs the drain waits for. Gives
   `NobodyUnderTheClose`, for any of the sweeps, and for them even in a shutdown that was
   cut short.
3. `LogInv`: logs are numbered as they are inserted, and in a process that reaped every
   log that says running is of this process and has its run or was stranded by a failed
   write. Gives `RunningRunsAreThere`.
4. `IdInv`: an id belongs to one name, whoever remembers it; so a detach or a pause by id
   cannot meet another job's timer.
5. `SoloInv`: a name that is not in `raced` has one change in progress at most.
6. `SyncInv`: between the row's write and the timer's, what that one change is about to
   do; with nobody changing it, timer and row agree. Gives `TimersFollowRows`.

`DocumentsProof` proves the three safety properties of the documents, for any users,
groups, documents and requests. What the engine answers is left open here: it decides
which requests are admitted, and no property of the rows depends on it. `Parameters` says that
a group is none of the users and documents: a tuple's subject carries its namespace, and
`deleteTuplesForEntity` matches it (`policy.service.ts:356`), so the end of a group takes
no owner and no edge with it. The layers:

1. `TypeInv`: the types, and that a request at a step has the record of its kind. Lemmas
   say what a step does to the other requests (`OthersKept`: flags are only raised) and
   to its own (`OwnStep`, `EditFate`).
2. `RowInv`: a document that was not created yet is nobody's parent, in no tuple and in
   no request but the one that creates it. So a create adds a leaf, and it adds the only
   tuples of its document.
3. `CrossInv`: no nonempty set of documents is closed under going up (`Acyclic`; the same
   as the absence of cycles, and free of induction), and a move whose check nothing made
   stale still has a target outside the subtree (`MoveOk`). `LiveInv`: the parent that a
   commit is about to write is live, unless a delete came after it was resolved. Gives
   `TreeStaysSound`. A subtree is the least closed set, so all that is needed of it are
   two lemmas: it is closed, and it is contained in every closed set.
4. `TupleInv`: a share between its delete and its insert finds its place empty, unless
   another one overlapped, and a group whose tuples were dropped has only stray ones
   (`Pending`); `SubjectInv`: edges lead to documents and owners are users; `RevokedInv`:
   nothing of a document that was not created yet was revoked, so a create finds its
   place as it should be. A revocation takes the only tuple of its kind, because owner and
   edge are exactly one (`TuplesOfUnshare`). Gives `TuplesFollowRows`.
5. `AttachInv`: what a delete has listed is its subtree as it is now, and after the
   release has no attachments, unless the tree was reshaped meanwhile (`Listing`). Gives
   `AttachmentsFollowDeletes`.

`EngineProof` proves what the engine answers, `EngineExact`, for any users, any finite
sets of documents and groups, and any depth (`EngineIsExact`). The reference definition,
`Derivable`, knows no walk: it asks for an ancestor whose tuple grants the relation or a
stronger one, near enough. Two assumptions: `Roomy`, that the node budget leaves room for
every relation at every distance up to the depth limit, each with all groups (with
`MAX_DEPTH` 10 and `MAX_NODE_BUDGET` 5000 that holds up to 110 groups; the run's instance
satisfies it too); and that a document has one parent edge at most (`OneParent`), which is
no assumption on the code but an invariant of `Documents`, proved first
(`AlwaysOneParent`). With several parents per object no budget of this size would be
enough. There is no induction over an operator, but a nonempty set of naturals has a least
element (`Least`), and that is enough: a recursive function is determined by its equation
(`AnswersAre`), and a walk ends because each call spends budget or shortens what is left.
The argument:

1. `CheckSound`, with neither assumption: whatever the walk has still to visit is in
   reach of the question (`InReach`), that is, an ancestor at no more than the distance
   walked and a rung no more than the rungs climbed; so a yes is derivable.
2. `CheckExact`. One visited set for all branches could be wrong in two ways: a node met
   first on a long way is refused on the short one, and its branches are then cut by the
   depth. `InTime` says that what is visited later than its distance was visited before,
   and `InOrder` why: on each rung the nearer documents come first, because computed
   usersets go before the parents. So every place within the limit is visited at its least
   depth, what a visited one leads to is known (`Explored`), none of them has the subject
   (`Refused`), its groups were asked or wait (`GroupsWait`), and the budget is enough for
   the rest (`Affords`). When nothing is left to visit, everything derivable has been
   refused, so nothing is.
3. `ListExact`: the walk down parent edges has reached its fixpoint after as many rounds
   as there are documents, because a nearest way visits a document once
   (`DistanceBound`); what it lists is what some ancestor grants, at any depth.

`SignInProof` proves all that the sign-in run checks, for any number of requests,
sessions and challenges, any thresholds and any lifetimes. Its invariants are:

1. `TypeInv` with `UseInv`: a request is of the kind its `pc` belongs to, the session it
   uses was opened, and a renewal that no other overtook still knows the session's
   expiry. The two are proved together, because a renewal writes a record only if the
   one it read was one. Gives `RenewalAlwaysKeeps`.
2. `AdminInv`: whoever is signing in as an administrator, and every challenge of one, is of
   an era that is over, or the account is an administrator's. It is handed from the request
   to the challenge and from there to the second request, which has no other word for it
   (`From`). Gives `AdminSessionsAlwaysHold`.
3. `EraInv` and `CodeInv`: the code of a request that was accepted and has no session yet
   is not above the device's last step, and differs from every other's and from every
   session's; a new code is above the last step, so it is a new one. Gives
   `SessionsStaySound`.
4. `RowInv` and `CountInv`: while attempts on a bucket do not run together, one of them
   at most has a failure to write, it knows the row, and nobody is past the gate of a
   bucket that is full. Gives `FailuresAlwaysCounted`.

A few lemmas say what a step does to the requests and the sessions (`OthersStay`,
`Fates`, `Keeps`, `ToUse`, `ToRedeem`); the layers use those and not the actions.

Only model-checked: everything under fairness (`EventuallyCollected`,
`OrphansReleased`, `EverybodyAnswered`, `EveryOperationEnds`, `ShutdownEnds`, the fairness half of
`ImplementsFairLock`), because liveness and `ENABLED` are beyond the prover. Every
invariant that a run checks is stated by a theorem.

## 5. Findings

1. *An upload may lose its bytes to the sweeper* (`file_store_live_blob`,
   `api/modules/file/file.service.ts:468`). The sweeper deletes the object of a
   candidate it listed earlier, outside any transaction and before its guarded row
   delete. An upload that dedupes onto the row in between keeps a row without bytes.
2. *A double release decrements twice* (`file_store_double_release`,
   `api/modules/file/file.service.ts:247`). The reference is read before the
   transaction, and the decrement does not depend on whether the delete removed a
   row. The count then undercounts; the sweep deletes the object and the foreign
   key keeps the row and ends the whole pass, at every sweep from then on.
3. *A failed rotation leaves `app.db` under an unrecorded DEK*
   (`encryption_rotation_fails`, `api/modules/encryption/encryption.service.ts:221`).
   The promotion is not the commit point, the write of `meta.db` is; after the
   promotion the recovery neither restores nor commits. The rows are still in `.bak`,
   which the recorded DEK opens (`RecordedCopy`).
4. *A master change may record an outdated DEK* (`encryption_master_change`,
   `api/modules/encryption/encryption.service.ts:254`). The latch serialises the
   requests, not what their clients read before.

Met while modelling, and not runs of their own:

* `docs/modules/file.md:178` says the sweep also reconciles "drift across `ref_count`
  and `file_references`"; only the restore does, so a count that finding 2 has made
  too low stays too low.
* A crash between `driver.put` and the commit leaves an object under its final name
  with no row (`NoOrphanBlob` is stated for fault-free behaviours because of it);
  no sweep looks for such objects.
* `file.service.ts:301` expects "the next sweep" to retry a failed sync delete,
  but with `FILE_GC_MODE=sync` no sweep is scheduled.
* An upload that races the soft delete of a document leaves an attachment that no
  orphan rule covers; `OrphansReleased` is about comments for that reason.
* The comment above `transaction` in `bun.ts` says a write that escapes a transaction
  is "caught instead of waiting on a lock it can never get". A statement or a batch
  is; a transaction on the outer handle is not, and waits behind its own parent until
  the wait limit ends it (`EverybodyAnswered` depends on `TimeOut`).

* An init that dies between the rename and the write of `meta.db` leaves the rows under
  a DEK nobody has; `RecordedCopy` is about rows written after init for that reason,
  and `NothingErased` says only that the rows are on the disk.
* An init that dies while copying leaves an `.enc.tmp` on which every later attempt
  fails (`InitCopy`) until it is deleted by hand. A rotation removes its leftover.
* `encryption.service.ts:441` promises that a WAL that does not drain "surfaces as a
  rotation error (then recovered)"; `Drain` shows that the handle stays closed and
  no error is flagged.
* `docs/develop/operations.md:160-165` describes the recovery of a crashed rotation by
  `.enc.tmp`, a file that only init writes; rotation writes `.rekey.tmp` and `.bak`.
* `sealed-unlock.ts:85` posts `{password}` to a route whose schema
  (`encryption.routes.ts:30`) wants `{challengeId, encryptedDek}`.

From the parts below no run could be added without giving another up; each of these is a
behaviour the model has, and the properties name it as their exception.

Quota:

* The comment at `creation-quota.ts:28-29` speaks of losing "up to `MAX_DRIFT` increments"
  at a restart. `persisted` is set to the count at the time the upsert returns, so each
  request that waits for its upsert may add `MAX_DRIFT - 1` (`DriftBounded`).
* A cold window that two requests load together is counted from the row twice, and what
  the first counted is forgotten (`BudgetKept` counts it); a refused upsert can leave a
  refusal undurable until the next one (`spoilt`).

Cron:

* `docs/develop/module/cron-actions.md:409` says `ctx.db` follows a DEK rotation.
  `startCron` returns at once while a scheduler runs, so the timers keep the closed
  handle: scheduled runs reject without a log, and a resume removes the timer before it
  fails (`TimersAgree` holds only while `sched = handle`).
* `docs/modules/cron.md` promises a `JOB_NAME_CONFLICT` and to restore a deleted job by
  creating it again; a soft-deleted row keeps its name, and the insert fails on the unique
  index. A trigger is documented to reject while the job runs; it does not look.
* A process with `CRON_ENABLED=false` never reaps the logs an earlier one left running.

Documents and policy:

* The comment on the tree listing says it gives the "same answer check() gives per
  object"; that is so only within `MAX_DEPTH` (`EngineExact` states both).
* The comment of `addDocumentShare` says it collapses its steps "into a single
  transaction"; the delete, the check and the insert are separate, so a re-share that
  fails loses the old role, and two that overlap leave both (`doubled`).
* Two overlapping moves can make a cycle, on which the `UNION ALL` queries for a subtree
  never end (`crossed`, `hung`). A move without `expectedVersion` writes to a document
  that was deleted meanwhile (`late`). A delete releases the attachments of the subtree it
  listed, not of the one it deletes (`parted`).
* A share to a group that does not exist is accepted; `restoreItem` has no caller.
* `docs/modules/document.md:68` says of `DELETE .../shares/:shareId` "Delete the share"; it
  deletes whatever tuple of the `item` namespace the id names, the owner's and the edge
  included, for whoever may revoke on its document. The document then has no owner, and only an administrator can share or delete it, though its creator still sees
  it in the tree; or it inherits nothing until its next move (`revoked`).

Sign-in:

* Failures that run together are counted once, or one of them fails on the insert; a
  write from an old row can lower a count and reopen a bucket that was locked (`loose`).
* `lockout.service.ts:33` says `isLocked` does not mutate the row; it deletes a lapsed one
  by key, and with it a row that came after it was read.
* A comment in `local-users.service.ts` says a changed credential "takes effect everywhere
  at once"; a sign-in whose password was checked before still opens its session (`late`).
* Two overlapping changes of a user are both judged on rows from before, and the sessions
  may outlive one of them. `upsertUser` says it "grants and never revokes"
  (`auth.service.ts:139`), and writes back the role it read: a sign-in can undo a demotion,
  and also a promotion, and no session ends with either (`late`). Two requests can consume one challenge; only one redeems a code.
* Overlapping renewals can shorten a session a little. `createSession` sets an expiry past
  the absolute deadline; only the check of the session looks at both.

## 6. Not modelled, and plan

Inside the modelled components: file sizes, the storage quota, MIME checks,
permission hooks, driver registry, downloads; opening the SQLite client, its
pragmas, migrations, and the recognition of a statement as read or write; the
challenge store, rate limits, bootstrap token, key wrapping, the rotation's snapshot
file and the `DB_ENCRYPTION=false` boot; cron expressions, the other built-in actions, log
retention; issues and comments beyond their attachments, contents and versions of
documents, search; nested groups, resource groups, `expand` and the admin routes of the
policy; single-user mode, the exchange with the provider before its callback, group sync,
step-up tokens, the management of devices and of API tokens, the creation of users.

The map covers about 8 % of the repository's implementation lines. Four tenths of
them are the browser client, which keeps no state the server relies on and has no
concurrency of its own beyond the requests modelled here; much of the rest is route
schemas, configuration, response shaping and OpenAPI text, which a model leaves out by
design. What has state, awaits and shared rows on the server is what the plan is about.

Planned, in order:

1. *Restore* against `FileStore`: rows reconciled after the commit, next to the sweep.
2. *API tokens and step-up*: the limit that is checked before the insert, next to the
   attachment limit it resembles (`OverrunBounded`).
3. *PID lock*: two processes and one stale file, before `Cron`'s `Boot`.
4. *Rate limits*: windows opened together, and their eviction.
