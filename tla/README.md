# Verification of bx_yunpan

TLA+ models of the backend of bx_yunpan (`src/backend`, Go), checked with TLC on
small instances and, for the components that keep the user's data (ledger, uploads,
content, task delivery, folders and whole listings, accounts, sharing, row locks,
documents, their parsing and the answers from them, thumbnails, workflow, search projection,
the content index and its generations), proved with TLAPS for every value
of the constants. `PROJECT.json` lists components, runs, mutants, the source lines
behind every definition, hazards, findings and theorems; this file explains them.

## 1. The system

bx_yunpan is a personal cloud drive: an HTTP API, workers, an AI service and a
document parser, all of one Go code base. Its only source of truth is PostgreSQL.
Bytes live in an S3-compatible store, tasks travel over RabbitMQ, and Redis,
Elasticsearch and Qdrant hold what can be rebuilt. Nothing spans two of these
stores atomically, so nearly every component repeats one pattern: *commit an
intention in PostgreSQL, act outside, commit the outcome under a fence*.

```
 HTTP --> upload --+--> identity (quota row)       drive --> ownerepoch
            |      +--> storageops (ledger) <---- objectstore (GC)   |
            |      +--> objectstore (rows, refs) <-- drive, sharing  | keys of
            v                                                        v
          outbox --> dispatcher --> RabbitMQ --> taskqueue      listing cache
            ^                                       |
            +--- recovery reconciler <--------------+--> search, ai, media, upload.Verify
```

| Component | State it keeps | Operations | What must hold |
|---|---|---|---|
| `storageops` ledger | `storage_operations`: state, attempt, lease token and deadline, `available_at` | Enqueue, claim, renew, fenced success / failure, refund on shutdown, stop of exhausted rows | an outcome is recorded once and truthfully; bounded attempts; a live lease is not disturbed; every row ends |
| `upload` sessions | `upload_sessions`, parts, operations create / complete / abort / staging delete; multipart uploads and staging objects at the provider | Create, ConfirmParts, Complete, Abort, Expire, Verify, retirement of stopped sessions, the four handlers | exact quota; nothing revived; no usable upload aborted; sessions end and leave nothing behind |
| `identity` quota | `used_logical_bytes`, `reserved_bytes` | Reserve, Release, Commit, release on delete | used + reserved never exceeds the quota |
| `identity` sessions | users, refresh token families | Register, Login, Rotate, Logout | at most one usable token per family, none after a reuse; no two accounts share a login |
| `objectstore` | `file_objects`: status, key, version, `ref_count`; canonical-ensure and object-delete operations | GetOrCreateReady, EnsureCanonical, AddReference, Release, Collect, Delete | a ready object has its bytes; references are exact; unreferenced bytes go away |
| `outbox` | `outbox_events`, `outbox_deliveries` | Add, claim, publish, confirm, replay of publications without receipt | no task is lost |
| `taskqueue` | `task_executions`, `task_results`, `task_failures`; queues and DLQ | consume, claim, renew, finish, retry, dead-letter | receipts are true and final; one executor |
| `drive` | folders, file entries, content epoch | create, rename, move, delete; list whole and paged | the folders stay a tree; no lost edit; no deadlock; listings are consistent and fresh |
| `ownerepoch` | content and ACL epoch per owner | BumpContent, BumpACL | moves with every change it names |
| `sharing` | shares, imports | Create, Access, Revoke, Import, UpdateExpiry | nothing is granted or imported after the share or the file ended; a repeated import is charged once |
| `search` | `search_file_projections`, checkpoints, acknowledgements, index generations; external documents | Handler, handleTarget, Backfill, ActivateTarget | the newest state wins in any order of events; nothing falls between backfill and events |
| `recovery` | recovery tasks, per-family stop marks | the scans of stuck work | bounded recovery, one command at a time, nothing waits for ever |
| `ai` | documents and their versions, chunks, cached embeddings | index, reprocess, search, rerank | a superseded indexer cannot publish; an answer cites only what its reader may read; a document is given up for its own fault or, an image, for a final refusal by the vision provider; chunks lose nothing |
| `media` | variants | process, write, cleanup | a served thumbnail exists; abandoned bytes are removed |
| `workflow` | workflow, steps, commands | Begin, StartStep, Complete, Fail, compensation | what succeeded is undone, once, and nothing else |
| `platform/breaker`, `ai/grpcclient` | state, sliding buckets, probe counters; retry loops | Allow, record, advance | counts are those of the window; it recovers once calls run to their end |
| `platform/dblock` | the Redis key of the dispatcher's leader | Acquire, Renew, Release, watchdog | no late command takes another's leadership |
| `platform/registry` | etcd leases and keys; the resolver's addresses | register, re-register, deregister, list, watch | the client comes to know who serves |
| `taskqueue` scheduler | pending deliveries and credits per queue | put, take | no queue starves, nobody sleeps beside work |

The rest (HTTP decoding, generated stubs, configuration, logging, the decoding of file
formats, the web client, SQL migrations, legacy import) has no protocol of its own; `PROJECT.json`
gives the reason for each.

### What is hard here

* **Leases that run out under a live owner.** Ledger operations, deliveries and
  executions are owned by lease. A slow owner goes on acting after another one
  has taken over, and the provider cannot be asked to take a request back.
* **Provider calls between two transactions.** A crash or lost answer leaves bytes
  or multipart uploads that only the operation rows know about.
* **At-least-once everything.** Lost confirms, redeliveries, replays of published
  deliveries and duplicates, each with an older retry count in its header.
* **Row locks in READ COMMITTED transactions**: checks that are stale by commit
  time, moves that are legal alone and form a cycle together, lock cycles.
* **Several paths that end the same session**, each returning its reservation.
* **Out-of-order events** into projections whose fences compare several counters.
* **Time windows** that wrap around, and answers from before a state change.
* **Replacement under readers**: a new document version, thumbnail, projection or
  index generation is built while the old one serves, and the object below may be
  deleted and come back under a new key meanwhile.
* **Failures classified again at each hop** (HTTP status, parse error, gRPC code),
  where one wrong translation gives up a document for ever or retries it for ever.

`PROJECT.json` "hazards" lists forty of these at the lines where they bite, each with
the properties that would catch it.

## 2. Modules

| Module | Models | Extends / uses |
|---|---|---|
| `DurableWork` | the abstract promise of the ledger | |
| `StorageOps` | `storageops/operations.go`, `execution.go` | implements `DurableWork` |
| `StorageOpsProofs` | theorems about it | `StorageOps`, TLAPS |
| `Upload` | `upload/service.go`, `retry_cleanup.go`, `canonical_cleanup.go`, the quota of `identity/service.go` | rows of the ledger, abridged |
| `UploadProofs` | theorems about it | `Upload`, TLAPS |
| `ContentStore` | `objectstore/service.go`, the verification half of `upload/service.go`, `sharing` Import | rows of the ledger, abridged |
| `ContentStoreProofs` | theorems about it | `ContentStore`, TLAPS |
| `TaskDelivery`, `TaskDeliveryProofs` | `outbox/dispatcher.go`, `execution_recovery.go`, `taskqueue/*` | |
| `DriveTree`, `DriveTreeProofs` | `drive/service.go`, `drive/files.go` | |
| `DriveListing` | `drive/service.go` listings, `platform/cache/json.go` | instantiated by `MCDriveListing`; theorems in `DriveTreeProofs` |
| `SearchProjection`, `SearchProofs` | `search/projector.go`, `backfill.go`, `index.go`, the Elasticsearch fence | |
| `Sessions` | `identity/service.go`: accounts and refresh sessions | |
| `Sharing` | `sharing/service.go` | its import's reference is in `ContentStore` |
| `RowLocks` | the locks of drive, sharing, upload and objectstore transactions | |
| `Breaker` | `platform/breaker/breaker.go`, `ai/grpcclient/retry.go` | |
| `Dispatching` | `outbox/dispatcher.go` (loop, preparation, fan-out), `platform/dblock/redis.go` | a row's way through the broker is `TaskDelivery` |
| `Registry` | `platform/registry/registrar.go`, `resolver.go` | |
| `Scheduler` | `taskqueue/scheduler.go` | |
| `Recovery` | `recovery/reconciler.go` | what its commands do is in the handlers' modules |
| `Documents` | `ai/service.go`, `ai/tasks.go`: document versions and their tasks | |
| `Thumbnails` | `media/service.go`, `variant_write.go`, `objectstore/variant_cleanup.go` and the deletion in `objectstore/service.go` | |
| `ContentIndex` | `search/projector.go` for content, `external_fencing.go`, `qdrant_fencing.go` | |
| `Generations` | `search/backfill.go`, `search/index.go`, `cmd/search-backfill`: index generations as a whole | what a backfill races with is in `SearchProjection` and `ContentIndex` |
| `Workflow` | `workflow/service.go` | |
| `Answering` | `ai/search.go`, `tracing.go`, `shadow.go`, `reranker.go`, `grpcserver/server.go` | |
| `Chunking` | `ai/rag/typed_chunk.go` | |
| `Parsing` | `ai/parser.go`, `parser_builtin.go`, `extract.go`, `parserrpc`, `parserengine`, `parser_worker/server.py` | |
| `MCAccounts`, `AccountsProofs` | suite of `Sessions`, `Sharing`, `RowLocks`; theorems about all three | |
| `MCPlatform` | suite of `Breaker`, `Dispatching`, `Registry`, `Scheduler`, `Recovery` | theorems about all but `Registry` in `TaskDeliveryProofs` |
| `MCDerived`, `DerivedProofs` | suite of `ContentIndex`, `Generations`, `Documents`, `Thumbnails`, `Workflow`, `Answering`, `Chunking`, `Parsing`; theorems about all but `Chunking` | |
| other `MC*` | the instance of one module | |

A *suite* checks components that share no state in one run: `part`, chosen in the
initial state, says whose behaviour it is, and the others rest. Its properties are
the components' own, under the suite's names.

An operator named `...Unfenced`, `...Unchecked` and the like under a comment
"Mutation" or "Mutant" is no part of the system: it is a plausible bug, substituted for the
definition after it to show that a property notices.

### StorageOps
`row` is the table, `held` and `pc` what each claiming invocation does, `effect`
whether the provider has carried out the request. One worker is one invocation and
stands for its fresh lease token. The clock is what the SQL compares with `now()`:
ticks until `lease_until`, and whether `available_at` has passed. `TryStart` is
`TryStartWithToken` and `ClaimTypes` (the latter also stops exhausted rows),
`MarkSucceeded`, `MarkFailed` and `RefundAttempt` are the fenced writes, `LoseLease`
is `RunOwned` noticing that renewal failed; nothing forces a worker to notice, so
stale writers are included. `ProviderApplies` may happen late, after the outcome.

### Upload
All sessions of one user, their files in one folder. `sess`, `user` and `op` are
the rows; `mp`, `made` and `staged` are the provider. A worker runs the handler of
one operation, one step per provider call or transaction: list, abort strangers,
initiate, persist (`multipart.create`); complete, mark (`multipart.complete`);
abort; delete of the staging object. `gone` marks a worker whose lease has been
taken; it goes on and is stopped only by the fences. `Verify` is one commit here;
its interplay with content is ContentStore. `confirming` keeps the status a
ConfirmParts call read before its transaction. `reply` is what Create answered.

### ContentStore
One `(sha256, size)`: its row, the canonical keys (version numbers), one verify
task per session and the reconcilers. Copy and delete at the provider, the commits
before and after them, revival under a fresh key (`RevivalKey`), release, collection
and import are separate actions. `ensure[k].by` remembers which session enqueued.

### TaskDelivery
One task from its `outbox_deliveries` row to its `task_results` row. Messages are
counted per retry header; main and delay queue are one, since any later time is
allowed. Handlers succeed, fail or ask not to be retried; a stuck handler's record
is `timeout.go`. Dispatchers lose confirmations, the broker loses messages,
processes die, `TimerRunsOut` ends a lease; `late` marks the executor it ran out on.

### DriveTree
A request is a transaction that takes its locks one by one (`tree`, `item`,
`target`), checks under them what the code checks (`folders`, `files`: emptiness),
and commits. A lock request waits, a failed check rolls back. Share locks are
shared. `label` is a name in the siblings' unique index.

### DriveListing
A child is its rank among the siblings. A behaviour has requests of one kind,
whole listings through both cache levels or page sequences; the kind is chosen in
`Init`. The reads of one listing (epoch, folders, files, epoch again) are steps.

### Breaker
Every method holds the mutex, so an action is one method. Time is ages; a tick ages
everything. Callers run the retry loop of the AI client. `log` is a history, how many
outcomes of each age there were since the breaker last opened or closed; the ring of buckets is compared with it.
`Answer` is what the service says; `Abandon` is a call whose context ends under way, which
`countsAsFailure` counts as a failure whether the service is up or not.

### SearchProjection
One file, its owner's ACL epoch, its events, and index generations. Handlers take
any open event. Two reads of one transaction are two steps, its writes one. The
value the fences compare is (version, ACL epoch, tombstone). The event of a folder
re-projects the owner's files. `raced` is a history of the two races below. Every step of a
target may fail (`TargetFails`, `PutFails`), so a task may be given up with the checkpoint of any
step or with none; `Outcomes` is what the handler's return makes of the task.

### Sessions, Sharing, RowLocks
`Sessions` has a step per lock: a registration takes an advisory lock for each
login identifier, in sorted order, a rotation that of its token family and then
the row; a logout takes the row alone. `Sharing` has one share with its file;
what is read without a lock (the share, then the file, before an import's
transaction) is a step each, so the owner may change it in between. `RowLocks` keeps
nothing but the order of locks and PostgreSQL's four row lock modes; a transaction
is the sequence its statements take, a circle is broken by aborting one (`victims`).

### Dispatching, Registry, Scheduler, Recovery
`Dispatching` has replicas in their poll loop with the leader key, whose holder may
be a token nobody knows any more (a SET answered by an error, a lost DEL, a death),
and one event with a row per destination; its writer knows any of the destinations (`Add`), since the
roles without search write no row for it, and a leader adds the missing rows. `Registry` has etcd's lease and event log,
instances that lose their lease, and the resolver's list-then-watch. `Scheduler` is the
smooth weighted round robin with its sleeping goroutines; `waited` counts takes that
passed over a queue. `Recovery` has resources in classes, each with a command that
is under way or has a receipt, and the rounds, pages, cursors and stop marks.

### Documents, Thumbnails, ContentIndex
The three derive something from one object and publish it under a fence, while the
object may be collected and uploaded again (`life`). `Documents` numbers versions over
all documents; the number stands for id and lease token. An indexer's start, touch and
commit are transactions. In `Thumbnails` attempt, key and cleanup operation are one
name; `faults.outlived` remembers that somebody outlived a lease. `ContentIndex` has the
SQL rows, Elasticsearch documents and Qdrant points of the versions' chunks; the
Qdrant deletion record is a point of its own that is never taken back.

### Generations
The rows of `search_index_versions` by generation and member (backend and projection
type) and the operators' commands. A backfill scans pages from the stored cursors and
writes its progress row by row; activation and rollback are transactions of several
statements per member, so what they wrote is in `operator[o].wrote` until `Commit`, their
row locks are in `locked`, and the retiring UPDATE is two steps: the rows its snapshot
shows, then, after the wait, those that still match. `Promote` has the partial unique
index of migration 000017. Members are handled in the order of the constant `Generation`
(the run's `TwoNew`), which gives each generation its backends and projection types; `PassOver` is a
member that is active already, which an activation leaves alone.

### Workflow
One workflow. Its callers are outside the repository, so every operation may be
called any time and twice at once. `CompleteCommand` and `CompleteCompensation` count
the other steps before they lock the instance: two steps here.

### Answering, Chunking, Parsing
`Answering` follows one request through recall (external, PostgreSQL, shadow), fusion,
loading, reranking and the choice of evidence; `authorised` and `current` are histories
of what the owner could read at some moment and at the last load. External answers
are arbitrary ranked lists. The scores of the two recalls are any of two levels; the fused
score 1 / (60 + rank) is kept exact by the product of the denominators. `Chunking` is the splitting of text, over rune classes, and the packing of
table rows, over token weights; every input up to the bounds is an initial state and
the loop of the code is the next-state relation. `Parsing` has two documents that compete for
the slots of server and worker; `disturbed` remembers that something outside a document
touched its attempt. The verdict `"rejected"` is a permanent refusal by the vision provider
(`VisionRejects`), which the code records under an error code of its own, `ai.vision.rejected`.

## 3. Runs

Each passing run explores its instance completely. `CHECK_DEADLOCK FALSE` is set in
all of them: a task, a session or an operation reaches its end and nothing is left to
do, and the bounds end the others; that nothing stops *early* is what the liveness
properties say.

| Run | Instance | Shows |
|---|---|---|
| `storage_ops` | 2 operations, 2 invocations, 2 attempts, leases of one tick, 1 shutdown | `ImplementsDurableWork`, `BudgetHolds`, `LiveLeaseProtected`, `EveryOperationSettles` |
| `upload` | 1 session, 2 workers, 3 faults of any kind (errors, crashes, outlived leases, recovery that stops) | `BytesPresent`, `QuotaExact`, `EndedStaysEnded`, `SessionsSettle` |
| `upload_trio` | 3 sessions of which two share the name, two the content, and one does not fit beside both | `QuotaHolds`, `OneFilePerNameAndContent` |
| `content` | 2 uploads of one content, an import by another user, a reconciler, 2 faults of any kind | `ReadyBytesExist`, `ReferencesExact`, `NoOrphanedCopy`, `ContentSettles` |
| `delivery` | 2 dispatchers, 2 consumers, 1 retry, 2 faults of any kind | `OneExecutor`, `ReceiptsTellTheTruth`, `RecordsKept`, `TaskSettles` |
| `drive_tree` | root, 3 folders, 1 file, 3 requests | `Tree`, `NoLostEdit`, `NoDeadlock` |
| `listing` | 2 clients on 2 processes, 3 children, pages of 2, 3 epochs | `PagesAreOneListing`, `ListingIsFresh` |
| `search` | 2 workers, 2 events, 2 generations, 1 fault | `CaughtUp`, `NeverRevived`, `ActivatesCaughtUp` |
| `search_tombstone` | a create and a delete, 2 generations, 2 workers, no fault | `SnapshotKeepsDeletion` is **violated** (finding 1) |
| `accounts` | 2 registrations that want each other's names, 2 requests over 3 tokens; 1 share with 2 visitor requests; any 4 of 11 transactions | `SessionsSound`, `SharesHonoured`, `OrderedLocks` |
| `platform` | 2 callers of a breaker; 2 dispatcher replicas, 2 destinations; 2 instances; 3 queues, 2 takers; 3 resources in 2 classes | `BreakerSound`, `LeaderHoldsKey`, `WorkBounded`, `Recovers`, `PlatformSettles` |
| `derived` | 2 indexers; 2 thumbnail attempts, a cleaner, 2 collectors; 2 projectors; 3 workflow steps; 3 commands on 3 index generations; a request with one change of the data; texts of 5 runes, tables of 3 rows; 2 documents to parse | `DocumentSound`, `ThumbnailsHold`, `CompensationSound`, `IndexSound`, `AnswerSound`, `IngestSound` |

The older modules state their types in `TypeOK`, the others in the invariants of their
proofs (section 4); the runs are spent on the other properties.

What the properties of the search and of the suites say:

* `CaughtUp`: every handled event is in the external document of every generation that is complete
  and receives events; once all is handled, document and projection say what the file's row
  says. `ActivatesCaughtUp`: a generation goes live only with every event that was handled and
  every publication that has begun, that is, has a checkpoint, whatever became of its task.
  A task without a checkpoint for the generation is not counted (see the observations).
  Both leave out generations hit by one of two races (`raced`).
* `SnapshotKeepsDeletion`: once all is handled, no rebuilt generation shows a deleted file.
* `SessionsSound`: a token family never has two usable tokens and, once a used token
  was presented again, has none for good, although a rotation may be under way; no two
  accounts can be meant by one login; registrations do not lock each other out.
* `SharesHonoured`: a visitor gets the file only if share and file were both valid at
  some moment of the request; after the revocation nothing is imported or changed;
  a repeated import is charged once.
* `OrderedLocks`: deletions, share management, ended uploads and the collector never
  lock each other out; every circle contains an import or two verifications (see the
  observations). `TransactionsAssumption` leaves out the verification of a content of
  which the same user is deleting a file: while that file is there, `CreateFile`
  refuses the new one (`drive/service.go:638-640`).
* `LeaderHoldsKey`: a replica leads without the key only after its own key ran out.
* `WorkBounded`: no queue waits longer than twice its fair period and nobody sleeps
  beside work; recovery sends a bounded number of commands, one at a time.
* `Recovers`: once the service answers for good and no call under way is abandoned any more, the
  breaker closes and stays closed, whatever late outcomes it still receives. Without the second
  condition this is not so (see the observations).
* `PlatformSettles`: from some time on no delivery row of an event waits, the client knows who
  serves, and no resource waits for a command nobody will send. A destination may stay
  without a row if the event was published first (see the observations).
* `DocumentSound`: the active version is the newest indexed one, a deleted object has
  none, a failed replacement does not hide the index in use.
* `ThumbnailsHold`: a served thumbnail has its bytes; other bytes have an operation
  that removes them, unless somebody outlived a lease.
* `CompensationSound`: a step is undone once, and only after it succeeded; a workflow
  that succeeded undoes nothing.
* `IndexSound`: when the last event is handled, both indexes show the chunks of the
  active version and nothing else; no member of the index has two active generations,
  members show different generations only where one lacks the other's backend, and no
  generation became active before all its pages were written.
* `AnswerSound`: an index authorises nothing, what is cited was readable when loaded, the
  evidence and the fusion are fair, an outage of the indexes fails no request that has a fallback.
* `IngestSound`: a document is given up as unsupported only for its own fault, and for a final
  refusal by the provider only an image; only whole documents are published, every rune and row is in a chunk, within the token budget.

### Bounds and why they suffice

* *Two owners of a lease* (workers, dispatchers, consumers, requests) give every
  order of a stale owner and its successor; a third adds another stale one, which
  the fences treat alike. `DriveTree` has three requests, since a lock cycle or a
  cycle of folders may need three.
* *Two attempts, one retry*: a first failure, the retry, and exhaustion.
* *Three sessions* in `upload_trio`: the smallest number in which a name, a content
  and the quota are contested by different pairs.
* *MaxFaults* counts crashes, failed steps and outlived leases together; two let
  a fault hit the recovery from the first.
* *MaxVersion* of `ContentStore` allows delete, revival and delete again.
* *MaxCopies* of `TaskDelivery` stops replaying while that many copies are under
  way; without it the broker could be filled with duplicates before any is
  consumed, a state that differs from the ones explored only by more duplicates.
* *MaxEpoch* of `DriveListing` allows a write before and one after a page; of
  `DriveTree`, enough writes to build a chain of folders and rearrange it.
* `Breaker`: buckets of two ticks, so outcomes fall in the middle and at the edge of a
  bucket; three buckets, so the cursor wraps and jumps; `MaxLog` bounds the outcomes
  that one window counts, above `MinRequests`.
* `SearchProjection`: two events are a first and a later change; `MaxACL` = 2 lets
  the epoch move once.
* `RowLocks`: four transactions, since the longest circle of the lock order, two
  verifications and two deletions across two users, needs four.
* `Sessions`: three tokens are a login, its rotation and the rotation of that.
* `Documents`, `Thumbnails`: two lives of the object and, for documents, three
  versions: the active one, a stale one and its successor.
* `Scheduler`: weights 3, 1, 2 make queues with different periods, in an order of
  names that is not the order of weights. `Recovery`: pages of one resource, so that
  cursors matter, and a budget of one, so that it is reached.
* `Chunking`: five runes with budgets down to one token give several pieces with
  overlap; three rows, a header, a row that must be cut.
* `Answering`: three files of the owner and another owner's, two objects, one of them with two
  entries and two chunks, so that the limit per file and the deduplication by chunk
  both bite; the code's limits (`RecallLimit`, `TopK`, ...), constants of the module, scaled
  down to be reached; one change per request.
* `Generations`: two commands under way and one before them; a PostgreSQL-only
  generation in use, one that is built and one to build; two pages, so that a resumed scan
  has something to skip.
* `Parsing`: one slot and two documents, so that one finds the other's thread; two
  tries each.

### Fairness

Fairness is assumed only for what the deployment keeps doing:

* the periodic loops of `bootstrap/worker.go` (reconcilers at 93, 113, 131, 149 and 177)
  and the roles started at `bootstrap/roles.go:189-194`: claims, stops of exhausted
  rows, expiry, convergence and retirement of sessions, collection, replay of
  published deliveries, polling of dispatchers;
* time passes (leases, backoffs, `expires_at`, breaker ticks, the leader key's and etcd's
  times to live);
* in `MCPlatform`, besides: replicas poll and are restarted, watchdogs renew, the resolver
  lists and watches again (`platform/registry/resolver.go`), an instance that lost its
  lease registers again, and a command that is under way gets a receipt (which `delivery`
  shows);
* a process that is neither killed nor failing takes its next step: provider calls
  have deadlines, handlers have timeouts, consumers reconnect.

It is weak, except that `ContentStore` assumes strong fairness of claiming a ready
ensure or delete operation by *some* worker: rows alternate between due and
leased, and the scan takes the oldest due rows first. Faults are never fair, and
in `SearchProjection`, `MCAccounts` and `MCDerived` nothing is. No fairness is assumed of users. `Recovers` assumes that the service
answers for good (`<>[]up`), that calls go on, and that from some time on none under way is abandoned
by its caller or its deadline (`<>[][\A c \in Callers : ~Abandon(c)]_vars`).

## 4. Proofs

Checked by TLAPS from nothing but assumptions on constants, which TLC evaluates in
the runs: `ConstantsAssumption`, `WorkersFinite` (StorageOps), `DriveAssumption`,
`DeliveryAssumption`, `UploadConstants`, `NoOpAssumption` (Upload), `ContentAssumption`,
`SessionConstants`, `TransactionsAssumption` (MCAccounts), `DerivedConstants`, `WorkerNames`,
`IndexConstants`, `AnswerLimits` (MCDerived), `ListingAssumption` (MCDriveListing), `SearchAssumption`, `PlatformAssumption`
(MCPlatform). One theorem has a hypothesis of its own: `QuotaExactTheorem` that the sessions are
finitely many. Bounds are natural numbers, the names for
nobody and nothing are not names of somebody or something, sessions and workers are not the
same, the sets that are counted are finite. They describe the encoding; only
`TransactionsAssumption` says something about the program (section 3).

The bounds (`MaxAttempts`, `MaxFaults`, `MaxVersion`, `MaxTokens`, `MaxCopies`, ...) are
constants like any other: the theorems hold for all of them, so for behaviours with
any number of faults, retries, lives and tokens. Each inductive invariant was checked
with TLC on small instances before it was proved.

**StorageOpsProofs**
* `TypeCorrect`: `Spec => []TypeOK`.
* `LedgerImplementsDurableWork`: `Spec => Durable!Spec`. The refinement maps pending,
  running and failed to "open". It needs `IInv = TypeOK /\ TokenInv /\ HeldInv /\
  SentInv`: a row has a token exactly while it is running, and only then a lease
  (`TokenInv`), so a worker that passes the fence writes an open row; a busy
  invocation holds an operation that exists, and one whose call returned without an
  error left its effect at the provider (`HeldInv`), so a fenced `MarkSucceeded` records
  what happened; nothing was claimed that was never enqueued (`SentInv`). None
  of this follows from the refinement alone, which sees neither tokens nor workers.
* `BudgetTheorem`: claims never exceed `MaxAttempts` plus shutdowns. The inductive
  form (`ChargeInv`) charges each claim to the row's attempt counter, or to a
  refund that was made or that a cancelled invocation may yet make; hence the
  cardinality of the cancelled invocations, and `WorkersFinite`.
* `LiveLeaseTheorem`: the action property `LiveLeaseProtected`, from `IInv`.

**DriveTreeProofs**, for any sets of folders, files, names and requests
* `TypeCorrect`, `TreeTheorem`, `NoLostEditTheorem`, `NoDeadlockTheorem`.
* `Inductive` proves `IInv = TypeOK /\ Tree /\ RequestInv`. `RequestInv` says what
  a transaction may still rely on: it was asked something sensible (`WellAsked`),
  it has the locks of the steps behind it (`LocksHeld`), exclusive locks exclude
  (`LocksExclude`), an item under creation is nobody's (`NewItems`), locked items and
  targets are what they were when checked (`ItemsKept`, `TargetsKept`), a move's
  target was not below the moved folder and still is not, since moves hold the
  tree lock (`MovesChecked`), and a folder found empty stays empty, since creators
  need a share lock on it (`DeletesChecked`). `Tree` alone is not inductive: nothing in it says
  that the check of a move still holds at its commit.
* `Acyclic` says that every non-empty set of folders has a member whose parent is
  outside it (or that is not active): acyclicity without paths, so no induction.
* `NoDeadlock` follows from the order in which locks are taken (`OrderedLocks`): tree,
  folder row, target folder, file row. `Waiting` translates "waits for" into the
  progress of the holder; the last of these locks that anyone in a circle waits for
  is held by someone who waits for nothing.
* `FreshTheorem` is about `DriveListing`: a whole listing shows folders and files as they were
  at epochs since the request came in, in this order, from whichever cache level. What
  a cache holds under the key of epoch e was read since e (`CacheOK`), because the reader
  took e before he read and the log of the children only grows; a request looks under an
  epoch it has read itself (`RequestOK`).
* `PagesTheorem`: the pages that a client was answered to the end are the folder at one epoch.
  `PagesInv` says where a sequence stands (`Cursor`): what has been answered is the folder at the
  request's epoch up to the cursor, which names the last row with the rank it had. What the two
  queries return is compared with that epoch only when the check has passed (`PageOK`: in
  `verify` they may be of two later epochs), and a cached first page is exactly the one of the
  epoch in its key. The rest is about sequences: the order of a query is total (`Order`), so
  a row's place is the number of rows before it plus one (`Places`, `SortedIs`) and the rows behind a row are
  the rest of the query (`SortedAfter`); the page at a cursor is cut from the rest of the folder even
  where folders end and files begin (`Rest`), and one row too many tells whether there is more
  (`Cut`, `PageCut`). None of it is induction over data: `Sorted` is defined by counting.

**TaskDeliveryProofs**, for any dispatchers, consumers, retries and copies
* `TypeCorrect`, `OneExecutorTheorem`, `ReceiptsTheorem`, and the action property
  `RecordsKeptTheorem`.
* `IInv = TypeOK /\ ExecutorInv /\ OutcomeInv /\ ReceiptsTellTheTruth`. `OneExecutor` is
  not inductive: it does not say that who executes with a running lease *is the
  owner in the row*, which is why a second claim is refused (`ExecutorInv`), nor that the
  owner knows the row's retry count, which is why a retry never lowers it. `OutcomeInv`
  is what a consumer carries from the handler's end to the commit and from the commit
  to the dead letter queue; a success receipt implies a finished row, so the claim of a
  redelivery is refused and no dead receipt replaces it.

The same module has the theorems about the coordination components, as `MCPlatform` instantiates
them; the number of resources and queues, their classes and weights are those of the run, and no proof
looks at them.

* `LeaderTheorem` (`LeaderHoldsKey`): a replica that leads has the key, or its key ran out
  under it. The invariant is the property with the types: every command of a replica is
  answered by Redis for its own token (SET NX, compare and delete, compare and extend), and
  `late` is set in the step in which the key runs out.
* `BreakerTheorem` (`BreakerSound`). `WindowCounts` speaks of sums over the whole ring and is not
  inductive. `RingInv` says it bucket by bucket: the bucket that lies k behind the cursor began
  `age + k * Width` ago and holds the outcomes whose ages are in its `Interval`, and nothing in the
  log is younger than the current bucket. A tick moves every interval by one with the
  outcomes in it (`TickedRing`); advancing renames the slots around the ring, and the slots it
  empties are those whose intervals have no outcome yet (`SteppedRing`), or all of them
  (`JumpedRing`); what the cursor overwrites has left the window. The intervals of the
  buckets do not overlap and cover the span, so the sum over the ring is the
  sum over the ages (`TotalGathered`, one bijection; `Total` counts units, so no fold and no induction).
  `BreakerInv` adds that the probes in flight are at most the calls that are out as probes:
  whatever opens the breaker makes these calls late, and half-opening starts from zero.
* `WakeTheorem` and `RecoveryTheorem` are two of the three parts of `WorkBounded`: nobody sleeps beside
  work, since a taker finds the queues empty and falls asleep under one mutex; and
  recovery's commands are bounded and one at a time, since `ensureWithPolicy` decides under the
  key's advisory lock (`EnsureStep`), whichever page or cursor brought it there.

**AccountsProofs**, for any accounts, requests, tokens, share visits and transactions
* `TypeCorrect`, `SessionsTheorem` (`SessionsSound`: `FamilyFenced` and `LoginsUnique`).
* Tokens: `FamilyFenced` counts the live tokens of a family; the invariant says it
  token by token (`OneLive`, `ReplayedDead`) and adds that a family is not older than its first
  token (`Families`, so that a new family is new), that two requests past the advisory
  lock are in different families (`FamilyLocks`), and that the token about to be
  rotated is not revoked (`RowHeld`: the row lock is kept to the commit).
* Logins: the identifiers a registration has locked are all smaller than those it has yet to
  lock (`SortedLocks`), so of two registrations that wait for each other one would hold
  an identifier both smaller and larger than another.
* `SharesTheorem` (`SharesHonoured`): a request that has read the share was entitled at that
  moment, and one that has read the file too was entitled to both at one moment
  (`Entitled`), whatever the owner does in between; nothing follows the event of the
  revocation (`RevokedLast`), which an import's transaction respects since it locks the share row;
  the events number the share's changes and count its imports (`Counted`).
* `LocksTheorem` (`OrderedLocks`). A transaction holds a beginning of the sequence of locks
  its statements take (`LockInv`), and the sequences are in order (`InOrder`): what is held bounds
  what can still be wanted (`Before`). Take a circle without an import and with at most one
  verification. Nobody waits for a quota row or a folder, whose holders at that point exclude
  nobody who asks. Who waits for an object waits for the verification, which then waits for its user's
  epoch, held by a deletion of the same user that waits for the same object: there is
  no such pair (`TransactionsAssumption`). Then nobody waits for an epoch, so nobody for a
  content or operation row, a session, an entry, a share: nobody waits (`NoCircle`).

**ContentStoreProofs**, for any sessions, users, workers, faults and lives of the object
* `TypeCorrect`, `ReferencesTheorem`, `ReadyBytesTheorem`, `NoOrphanTheorem`.
* `IInv = SafetyInv /\ (faults.outlived \/ LeaseInv)`. `SafetyInv` holds even
  if owners outlive their leases, which is what `ReadyBytesExist` claims; `LeaseInv` is
  for `NoOrphanedCopy`.
* A key is `Fresh` when the next publication makes it the key of a new life of
  the row. The row's version only grows and is the key of the next life, so each
  key is fresh at most once (`RowInv`). A succeeded copy to a fresh key has its bytes
  (`EnsureInv`); a deletion names a key older than the row's version, never that of a
  ready object and never a fresh one (`DelInv`), so however late it arrives it cannot
  take the bytes of a copy that is about to be published. `JobInv` is what an actor still
  relies on at each of its steps.
* `LeaseInv`: who works owns its row; a copy goes to a fresh key or to the key of an
  object whose deletion waits for it; nothing is copied behind the back of a
  deletion that found no copy running; so what it removed stays removed.
* `MaxVersion` is a guard (`Counted`) of every step that writes the row, so that the
  type of versions is an invariant and not an assumption.

**UploadProofs**, for any sessions, sizes, names, contents, workers, attempts and faults
* `TypeCorrect`, `QuotaTheorem`, `CountersTheorem`, `QuotaExactTheorem`, `OneFileTheorem`,
  `BytesTheorem`, and the action property `EndedTheorem`.
* `IInv = SafetyInv /\ (faults.outlived \/ LeaseInv)` again. `SafetyInv`: a
  session holds its reservation exactly while it is active (`SessionsInv`), so each of the
  paths that end it returns it once; operations that remove something exist only for
  sessions that have ended (`RowsInv`); a completed upload has its staging object until then
  (`StagedInv`); workers are in a phase of the handler they run (`WorkersInv`).
  `LeaseInv`: the worker of `multipart.create` owns its row, and the upload it has in hand or
  has persisted is the newest open one (`NewestOpen`), which the next attempt would keep.
* The inductive form of `QuotaExact` is `CountersExact`, which counts instead of adding: a
  reservation is a set of units, one per byte, and the counter is the number of units of all
  sessions. A step adds or removes the units of one session.
* `QuotaExactTheorem` goes from there to the run's `QuotaExact`, sums written with a fold. The
  fold's function on sets of sessions is determined by its equation (`Sums`): if two functions
  satisfied it, they would differ on a smallest set, and agree on that set without
  one session. Counting units satisfies the equation, so it is the sum. Its hypothesis, in the
  statement, is that there are finitely many sessions, as in any table.
* Every step is reduced to its effect on one session (`...Effect` lemmas); the others are
  `Apart` and keep their parts of the invariant; `Forward` says what no step takes back.

**SearchProofs**, for any workers, generations, writes, epochs and faults
* `CaughtUpTheorem`, and the action properties `NeverRevivedTheorem` and `ActivationTheorem`.
* `CaughtUp` speaks of the external document. What keeps it true is spread over the
  workers, so `SearchInv` says what each of them owes: a served generation has an event or
  somebody may still bring it (`ServedInv`, with `Owed`: the task has not said success, and whoever
  handles the event has the generation on the list or will not report success); a generation under construction
  besides has what its snapshot has read (`SnapshotInv`); checkpoints that say "indexed" and
  acknowledgements are true (`AckedInv`, from which `ActivationTheorem` follows: what has begun and is not
  unfinished says indexed); a handler brings its own event (`HonestInv`).
* All values come from the file's row (`Known`), and outside `raced` none pairs a new epoch with a
  version older than the events of that epoch (`Coherent`). So of two values the
  one that a fence refuses was covered by the one that refused it (`UpsertCovers`), and what a fence
  accepts covers what was there (`UpsertGrows`). What is published is a chain below the row
  (`TargetOK`); a delete that has reached a generation leaves a tombstone, or no row and no
  worker who is about to write one of the living file (`Buried`).
* The next generation a handler takes is the least of its list; that there is one rests on
  the well-foundedness of the natural numbers.
* The proof corrected the property. It first said that a share's event is done only when
  the document has the share's epoch. A folder's handler may have read epoch 1
  and, after the share, version 1; the file moves on to version 2; the folder's handler writes
  (2, 1); the share's handler, which has read (1, 2), is refused and the event ends. The file's
  own event, still to come, brings (2, 2). So the document has an event when
  it has the event's epoch, or a later event that will bring it is still open (`Covers`, `Agrees`).

**DerivedProofs**, for any workers, lives of the object, versions, steps and faults
* `DocumentTheorem` (`DocumentSound`): of the versions of a document only the newest may be building (`VersionsInv`), so an
  indexer that has been superseded finds its version ended; if the object was deleted since it
  started, it does not hold its version any more (`IndexerOK`).
* `ThumbnailTheorem` (`ThumbnailsHold`): `ThumbnailInv /\ (mishaps.outlived \/ LeaseInv)`, as in
  `ContentStoreProofs`. An attempt that may still publish has not been claimed by a cleaner
  (`AttemptOK`), so its bytes are there when it does; what a collector has listed was published in
  a life that is ending or over (`CollectorOK`); nobody will remove the published thumbnail while
  the object is ready (`ImageInv`). `LeaseInv`: who is at work owns its row, and bytes that are stored are
  published or have an operation that is still to remove them.
* `CompensationTheorem` (`CompensationSound`): a step's state and compensation agree (`StepOK`), and no
  two steps have one command (`OwnCommands`).
* `IndexTheorem` (`IndexSound`), first half, `ContentIndex`. A chunk's row is made, buried and never
  comes back, so whatever a slow publisher carries was said by the row once (`SaidInv`), and a
  tombstone that has arrived is final. With no event due, the rows are those of the object and its active
  version (`RowsRight`: the handler of the last event wrote them under the object's lock,
  or an earlier one did and nothing was left to write), and each index shows a row's state
  or the handler of an event is bringing it (`Reached`); a handler that fails gives its event back.
* Second half, `Generations`. `GenerationsSound` is not inductive: an activation writes its rows at
  its commit, statements after it read what they replace. A row that a transaction has locked stays as
  it found it, so what it will write fits what is there: who promotes a member has locked every
  other active row of that member and will retire it, and nobody else writes to the member
  (`LockOK`); when it commits it is through with every member of its generation (`Taken`). Rows
  of one generation become active together (`RowsTogether`), so an activation that meets
  an active member to pass over is bound to meet a retired one and fails with nothing written
  (`TransactionOK`). Cursors never run ahead of the pages written (`PagesKept`), and a row's
  last checkpoint, without which no generation is activated, comes after the last page.
* `AnswerTheorem` (`AnswerSound`), for any limits and any number of changes during the request, in
  the world of section 3 (four files, four chunks; nothing in the argument but the ranks
  up to twelve depends on their number). The sequences are built by counting what stands before an element; in a strict
  order on a finite set these counts are all different and fill 0..n-1, so the sequence is the set
  in that order (`PlacesBelow`, `OrderedSequence`), and a sequence picked from another keeps
  its order (`PickedIs`). `EvidenceIs` then counts pieces per file: those chosen are mapped
  into what stands before the last of them, those in front of an omitted one into
  those chosen. `FusedFair`: a better rank weighs strictly more, so a candidate preferred by the paths
  that have either has the larger sum. The invariant (`AnswerOK`) adds that a path fails only with the
  database or without a fallback, and that candidates past the load are distinct and were readable then.
* `ParsingTheorem`, the parsing half of `IngestSound`, for any documents, slots and tries: a
  verdict fits its document, where a rejection fits any image (`VerdictOK`), because the classifications that a failure passes
  through compose to the right one on each way (`Classified`).

**Only model-checked**
* liveness (fairness and `ENABLED` are out of the prover's reach): the `...Settle(s)`
  properties and `Recovers`;
* `NoQueueStarves`, the third part of `WorkBounded`. Credits are not conserved: a queue that
  empties loses its debt. That nobody waits longer than a fixed multiple of its fair period is then a
  bound of the kind known for cutting the tallest of growing things, with no
  short inductive form; TLC finds the factor two for the run's weights;
* `ChunksSound`, the chunking half of `IngestSound`: the token estimate and the weight of a chunk
  are folds over the data, and what a fold computes is an induction.

## 5. Findings and observations

1. *Search: a delete can be overtaken by the snapshot of a new generation*
   (`search/index.go:212`, run `search_tombstone`). `tombstoneFile` is an UPDATE and
   leaves no trace in a generation without a row of the file. In the run's trace a file
   has been projected to the serving generation. The backfill of a second one is registered,
   and its snapshot reads the live file and has not yet committed. The file is deleted;
   the handler of the delete has both generations on its list, marks the row of the first, finds
   none in the second, publishes an external tombstone to both and is acknowledged. The
   snapshot then inserts the live row into the second generation's projection. Its own publication
   is refused by the external fence, but the row stays live, and nothing revisits the file.
   `docs/SEARCH_SYNC_AUDIT_2026-11-06.md:38` makes the events after the registration
   responsible for concurrent deletes, and
   `docs/ARCHITECTURE_UPGRADE_FINAL_EXECUTION_PLAN.md:1095` forbids that an old snapshot's write
   overrides a newer live event. In other orders the external document is live too: a delete's
   `publishExternal` (`search/projector.go:302-323`) loads the row again and publishes what the
   snapshot has inserted by then. The late handler of a create does the same in a
   serving generation. `raced` keeps generations with this race out of `CaughtUp`.

Observations that no run states:

* A rollback to a generation that PostgreSQL alone has (`search/backfill.go:354-359`) leaves the
  external backend's newer generation active; `GenerationsSound` allows for it.
* `ensureBackfillVersions` (`search/backfill.go:186-203`) compares the backends only with rows that
  are committed. Two first backfills of one generation with different backends at once both
  pass; the pages that only the one without the external backend scans are then missing in the other's
  index. `Generations` gives all backfills of a generation the same backends.
* `projectFileWithACL` (`search/projector.go:439-454`) reads the file row and the ACL epoch
  in two statements. A rename and a share of another file between them store an
  old version with a new epoch; the rename's own projection, if it has read the older
  epoch, is then refused by the fence (`search/index.go:190`) and acknowledged. `raced`
  covers this too (`Torn`).
* *Activation* counts checkpoint rows (`search/backfill.go:297-303`). When the transaction that writes the
  projection and the checkpoint fails (`search/projector.go:188-195`), or the list of generations cannot be
  read, at the last try of a task, the task is dead without a checkpoint, and a generation is
  activated without its event. So it is with a task that has not started. The audit of the
  synchronisation leaves both to the operator: dead tasks are to be looked for in
  `task_failures` (`docs/SEARCH_SYNC_AUDIT_2026-11-06.md:40`). `ActivatesCaughtUp` speaks of what has begun.
* `tombstoneObjectContent` (`search/index.go:201`) buries the rows of an object in all generations at once.
  `ContentIndex` has one generation.
* With two executors of one event, the stale one can put a checkpoint back to
  pending or publishing after the event was acknowledged; `ActivateTarget` then waits for
  a publication nobody will finish.
* `upload.Create` takes its instant branch only for content the user already stores
  (`upload/service.go:200`), and there `CreateFile` refuses a second entry of the same
  content (`drive/service.go:638-640`), so the branch answers `file_exists`.
* The breaker counts every outcome that arrives while it is half-open as a probe's
  (`platform/breaker/breaker.go:140`), so a late success of an earlier call may close it
  with fewer probes than `HalfOpenProbes`. `Recovers` and `NoPhantomProbe` hold
  nevertheless.
* A call whose caller cancels, or whose deadline passes, ends as `Canceled` or `DeadlineExceeded`, and the
  breaker counts it as a failure (`ai/grpcclient/retry.go:85`, `107-113`), a half-open probe too. With the
  service up for good, callers who go on giving up can open the breaker again and again. `Recovers`
  therefore assumes that they stop; `BreakerSound` does not.
* *Lock order.* `sharing` Import locks the quota row before it bumps the epoch; deletion and
  verification lock the epoch before the quota. An import and a deletion of one
  user can deadlock, and so can two verifications with two deletions across two
  users. PostgreSQL aborts one transaction and nothing is lost; no document claims an order.
* *Sessions.* A logout that follows a rotation of the same token, which committed first,
  ends nothing: the descendant stays usable.
* *Sharing.* An import's event carries the share version read before the transaction.
* *Outbox.* Two dispatchers that acknowledge the last two rows of an event at once each
  miss that it is complete, and the event row stays pending. A writer
  without search (`RunObjectWorker`, `bootstrap/roles.go:123-145`) writes the rows of the other destinations
  alone. If these are published before a leader prepares the event, `refreshLegacyEventStatus`
  (`outbox/dispatcher.go:696-706`) marks the event published, `ensureSearchDeliveries` (596-610), which
  looks at pending and failed events only, passes it over, and search never gets it. The
  same holds for `ensureLegacyDeliveries`, although the comment at 623-627 says that each
  destination is reconciled. The model has these behaviours; `PlatformSettles` allows for them.
* *Registry.* A re-registration that races Deregister leaves the key until its TTL ends.
* *Scheduler.* A queue that empties loses its debt, so a fair period may double.
* *Recovery.* `recoverReprocessTasks` puts a file id into `ObjectID`; a key with a version
  starts a new budget when the version changes; a document whose command is acknowledged
  without progress is stopped after three commands.
* *Documents.* After a failed replacement the summary stays "processing". A stale indexer
  that fails may overwrite "unsupported" with "failed" while nothing is active, and a stale
  reprocess worker "succeeded" with "failed". A start after the object's deletion leaves a document row.
  Commit and takeover lock in opposite orders and may deadlock.
* *Content index.* A revival before the collection's event is handled leaves old rows live
  until the new version is active; the SQL join hides them.
* *Thumbnails.* A PutObject that arrives after its cleanup leaves bytes nobody removes.
* *Workflow.* Two concurrent CompleteCommand calls each see the other's step unfinished, and
  the instance runs for ever; a count before a StartStep lets it succeed with a
  running step; a second BeginCompensation while steps are compensating fails the
  instance early.
* *Answering.* Ties between two entries of one object are broken by map order. Ask removes
  duplicate chunks before it loads them, so a chunk is lost when its first entry is
  deleted in between although a second one could supply it.
* *Chunking.* If the last row of a table was cut, the final flush adds a chunk of the
  header alone with a row number beyond the table. A heading as long as the budget makes
  chunks of one token. With an overlap of half the budget a piece may lie inside the previous one.
* *Parsing.* A refusal by the vision provider that is no image's fault (401, 403, 404, a free quota that
  is used up: `ai/provider.go:68-76`) is a permanent parse error (`ai/service.go:343-344`), and `runIndex`
  (`189-190`) gives the good image up as unsupported, under the code `ai.vision.rejected`; a repaired
  key does not bring it back by itself. `ParsingSound` allows this for images and for nothing else.
  An `invalid_request` answer of the worker is classified nowhere and fails the attempt;
  a parse that timed out keeps its worker thread and slot, and the next document is told
  to come again.

## 6. Not modelled

Cryptography (passwords, JWT), the decoding of file formats, tokenisation, HTTP
decoding, generated code, configuration and metrics, the web client, deployment and the
one-time import from the former queue: none has state of its own or a protocol. In
the modelled components: malformed or conflicting envelopes; the
byte counters in `DriveTree`'s delete (they are in `Upload`); breadcrumbs and single-item reads
through the cache, which repeat the scheme of the listing; the window of the rate limiter; the
embedding cache; code without a caller in production (`TombstoneObjectContent`, `BulkUpsert`,
`MakeChunks`, `FallbackParser`).

## 7. Plan

* Model: the composition of `Documents` with `ContentIndex` through the events they exchange.
