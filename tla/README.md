# Verification of the ZGW to Corsa gateway

The gateway receives notifications about zaken (cases) and documents from the
ZGW APIs and passes the changes on to Corsa, the document management system.
This directory holds TLA+ models of that gateway, TLC configurations that check
them on small instances, and TLAPS proofs about every component. References such
as `BatchingService.php:96` are to files under `src/app/`; those to `docs/`,
`config/`, `routes/` and `README.md` are to `src/`.

## 1. The system

### Parts, state and operations

| Part | State it keeps | Operations |
|---|---|---|
| API endpoint (`Http/`) | none | validate a notification, queue one `IngestNotification` |
| Ingest (`IngestNotification`) | rows of `notifications` | ignore, send to the direct route, or link to the open batch of the zaak in one transaction |
| Batching (`BatchingService`, `Batch`) | rows of `batches`, a timer per batch in the cache | open batch, reset timer, find expired batches, lock, build a chain, mark |
| Scheduler (`routes/console.php`, `FlushExpiredBatches`) | none | every minute one `DispatchBatch` per batch whose timer expired |
| Chain (`DispatchBatch`, `HandleNotification`, `MarkBatchProcessed`) | jobs on the queue and failed jobs | one job per notification in processing order, then the batch is marked |
| Direct route (`ProcessDocumentDirectly`) | rows of `notifications` on route `direct` | send a document at once, wait for it, move to the batch |
| Corsa service (`CorsaZaakdmsService`) | `document_syncs`, a lock per document in the cache | create a zaak, change its status, add or update a document |
| ZGW reader (`Services/Zgw`) | none | reads, each of which may fail |
| Catalogi (`SyncAllCatalogi`, `SyncCatalogus`) | `catalogi`, `zaaktype_mappings` | daily copy from the ZGW catalogus; activation by hand |
| Admin panel (`Filament/`) | none of its own | shows batches and failures; edits and deletes catalogi and mappings, starts a sync |
| Queue (Laravel, Horizon) | jobs on Redis, failed jobs | tries, redelivery after a worker died, chains, retry by hand |

### Interaction

A published notification becomes a job of the ingest, delivered at least once and
in any order. The ingest reads the ZGW APIs and the mappings and writes one row.
A row on the batch route is written together with its batch; a row on the direct
route is written first and its job dispatched after it. The scheduler only looks
at timers; the job it dispatches locks the batch and builds the chain. Chains and
direct jobs call the same service, which takes the lock of a document. A direct
job that finds no zaak in Corsa hands its notification to the batch of the zaak.
Apart from all that the schedule and two buttons start the sync of catalogi, which
writes the mappings that the ingest and the service read, while an admin edits them.
The database, the cache and Corsa are shared by all workers; nothing else is.

### What is hard

* Several ingests, flushes and `DispatchBatch` jobs touch a batch at once; only
  row locks and one conditional `UPDATE` keep them apart.
* A batch is processed by a chain of jobs, of which the first that fails stops the
  rest; failed jobs are retried by hand, also while another chain of the batch runs.
* A worker may die between any two steps. The queue then runs the job again
  (chain, direct route) or refuses it (one try: ingest, `DispatchBatch`,
  `MarkBatchProcessed`).
* A document changes while it is read, sent and registered, and both routes send it.
* Waiting is done in three ways (release, a new job, a retry by the worker) with
  limits that are counted separately.
* What the ingest decides is based on several reads, and the ZGW side and the
  mappings change in between.
* The sync copies lists in many steps. Two of them and an admin write the same rows,
  and a sync that fails halfway is not tried again.

`PROJECT.json` lists the hazards one by one, with the line where each bites and the
properties that cover it, or the reason why none does.

### What makes each part correct

| Part | Properties |
|---|---|
| Batching | nothing joins a locked batch; one chain per batch; a zaak is created once per batch; order within a batch; processed means everything that got a job is handled, and is final; a failed batch can still be finished; only a job that broke off strands or gives up a batch; everything settles |
| Corsa service | the register tells the truth; a document is added once; the newest version arrives; Corsa never goes back to an older version |
| Direct route | one job per notification; nothing is lost; what moved gets a job in the chain of its batch, unless a job of that batch broke off; every wait ends |
| Ingest | a change that was ignored arrives with the link; no change is missed without a row that says why |
| Catalogi | a mapping keeps the settings of the admin; only a catalogus that was absent is deactivated; no mapping without its catalogus; the copy catches up |

## 2. The modules

| Module | What it is |
|---|---|
| `Notifications` | kinds of notification, processing group and processing order |
| `Tables` | a table or queue as a function from keys to rows: `Put`, `Drop`, `IsTable` |
| `Batching` | the batch route, from the transaction of the ingest to the mark on the batch |
| `BatchPromise` | abstract specification: what the batch route promises |
| `BatchingImplements` | the refinement mapping from `Batching` to `BatchPromise` |
| `DocumentSync` | sending one document under its lock, with the register |
| `DocumentPromise` | abstract specification: what sending a document promises |
| `DocumentImplements` | the refinement mapping from `DocumentSync` to `DocumentPromise` |
| `DirectRoute` | the job of the direct route and its hand-over to a batch |
| `DirectPromise` | abstract specification: what the direct route promises for a notification |
| `DirectImplements` | the refinement mapping from `DirectRoute` to `DirectPromise` |
| `IngestRouting` | what an ingest decides, and what becomes of the versions of a document |
| `RoutingImplements` | the refinement mapping from `IngestRouting` to `DocumentPromise` |
| `CatalogiSync` | the sync of catalogi and mappings, beside the edits of an admin |
| `CatalogiPromise` | abstract specification: what the copy of the catalogi promises the admin |
| `CatalogiImplements` | the refinement mapping from `CatalogiSync` to `CatalogiPromise` |
| `MCBatching`, `MCDocumentSync`, `MCIngestRouting`, `MCCatalogiSync` | small instances and their symmetry, for TLC |
| `TablesProofs` | lemmas about tables |
| `BatchingProofs`, `BatchingPromiseProofs`, `BatchingCountProofs` | theorems about `Batching`: its invariants, its refinement, and what takes counting: repeats, order, steps left |
| `DocumentProofs`, `DirectProofs`, `IngestRoutingProofs`, `CatalogiProofs` | theorems about the other components, with their refinements |

`Batching` extends `Notifications` and `Tables`; `DocumentSync`, `DirectRoute`,
`IngestRouting` and `CatalogiSync` extend `Tables`. Each of these five models its own
component in detail and leaves the others coarse: `Batching` lets the handler of a job
succeed, fail, be released or skip. `DirectRoute` leaves the answer of the Corsa service
open, and of a batch it has the lock, the chain and the jobs of what moved. `IngestRouting`
has jobs that send under the lock, or fail, before or after the document reached Corsa, and
mappings that change at any moment. They are not composed in one specification, since the
product would be out of reach of TLC.

The coarse parts are smaller than the detailed ones, and leave out what does not
matter to the properties of the module they are in. In `DirectRoute` the lock of a batch and the
building of its chain are two steps, as in `Batching`, and a job may break off between
them. The other notifications of the batch are there only as a chain that stops
(`StopChain`); that they restart its timer, hold its row while it is being locked, or have
jobs in front of a job in the chain is left out, as is the repeated `create:zaak`, which no
notification of the direct route is. In `IngestRouting` a job keeps the lock from its fetch
until the document is sent, so that the lock that is tried for, kept too long or lost
is left to `DocumentSync`. In `Batching` the zaak is in Corsa or not, and documents and
their register are left to `DocumentSync`.

Definitions marked "Variant" in a comment are wrong versions of the definition that follows
them. They are used by no specification; the mutation tests put them in its place to show
that a property notices.

### Batching

`notif` and `batches` are the committed rows of the two tables. An ingest is in
`reading` while its `SELECT ... FOR UPDATE` waits, and in `writing` while its
transaction is open. `timer` holds the batches with a timer in the cache,
`dispatched` counts `DispatchBatch` jobs, `building` are batches that are locked
and have no chain yet. `chain` holds the chains on the queue and the failed jobs: a
chain is what is left to do and how far its first job is (queued, running, creating, sent,
done; failing, caught, recorded, failed). `creations` and `sent` are what happened in
Corsa. `faults` counts the jobs that broke off: their worker died, or the database failed
one of the steps that come after a failure.

| Action | Code |
|---|---|
| `ReadOpenBatch`, `AddNotificationToBatch`, `CommitIngest`, `AbortIngest` | the transaction of `IngestNotification.php:108-131`, `BatchingService.php:19-90` |
| `TimerExpires`, `FlushExpiredBatches` | the cache; `FlushExpiredBatches.php`, `BatchingService.php:234-256` |
| `DispatchBatch`, `BuildChain`, `DispatchCrash` | `DispatchBatch.php:34-50`, `Batch.php:173-194`, `BatchingService.php:92-232` |
| `StartHandle`, `CallCorsa`, `CreateZaak`, `HandleFails`, `Release`, `MarkProcessed` | `HandleNotification.php:71-160` and the handlers of the service |
| `CatchFailure`, `RecordFailure`, `StoreFailedJob`, `FailureBreaks` | `BatchingService.php:222-230`, `HandleNotification.php:162-169`, the table of failed jobs |
| `RefuseJob`, `DispatchNextJob`, `WorkerCrash`, `RetryFailedJob` | the queue, as the jobs and `config/queue.php` use it |
| `MarkBatchProcessed`, `MarkBatchFails` | `MarkBatchProcessed.php:28`, `Batch.php:207-226` |

Details that matter: `SELECT ... FOR UPDATE` sees the rows as they were when it
started, waits for a row that is locked, and then checks its condition again
(PostgreSQL, read committed), hence `Lockable`; it locks nothing when it finds
nothing. `markProcessed` writes only the columns that changed since the job read the
row, hence the two outcomes for `failed`. A job that is marked as done and whose
worker dies before it is deleted has put the next job on the queue, hence the second
chain in `WorkerCrash`. A job that fails for good is deleted first; then the catch callback
marks the batch, `failed()` marks the notification, and only then is the job stored among
the failed jobs. A worker that dies in between leaves a failed batch and nothing to retry, and
a callback that throws skips what comes after it but not the storing (`FailureBreaks`).
`MarkBatchProcessed` has one try and no `failed()`: when it throws, the batch is failed
although all is handled, also when its own update had been made.

### DocumentSync

One document, since lock, register and version are kept per URL. `runs` holds the
runs that have the lock, with what they read; `register` is the row of
`document_syncs`; `shown` and `added` are what Corsa has. A run of
`addDocumentToZaak` goes through `StartAdd`, `CheckRegister`, `Fetch`,
`CheckContent`, `Send`, `Record`; one of `updateDocument` through `StartUpdate`,
`Fetch`, `CheckVersion`, `Send`, `Record`. `GiveUp`, `SendFails` and `Crash` end
it at any point. The lock lasts as long as a job may run (`DOCUMENT_LOCK_SECONDS`
and the time-out of the worker are both 300 seconds), so `LockExpires` only ends the
lock of a run that is gone.

`DocumentPromise` has none of this: there is a document that gets newer, zaken that
show a version of it, and one zaak that is its home. What a zaak shows only gets newer,
the home never changes, and a change is only done when the home shows it or there was
nothing to show. The home is the zaak of the register row. A step may show a version,
settle the home and end a change all at once, since `IngestRouting`, which implements the same
promise, sends a document in one step where `DocumentSync` takes several.

### DirectRoute

`jobs` holds every `ProcessDocumentDirectly` job with its waits and errors and
whether its time to retry is over; `notif` the rows of the direct route. `stage` is how far a
batch is (none, open, locked, chained, stopped at a failed job, stranded without a chain),
`timer` whether it has a timer, and `chained` which notifications that moved have a job in
its chain. Batches may be there already, made by notifications of the batch route (`Init`).
`StoreDirect` and `DispatchDirect` are two steps, as in
`IngestNotification::storeDirect`. The outcomes of `handle` are `DocumentSent` and
`MarkProcessed`, `DocumentLocked` (release), `TemporaryError`, `PermanentError`,
`NotInCorsa`, `UploadIncomplete`, `MoveToBatch` and `StartTimer`. `TimeRunsOut` and
`RefuseJob` are `retryUntil`; `RecordFailure`, `StoreFailedJob` and `FailureBreaks` are
`failed()`, in the order of `Batching`. `LockBatch`, `BuildChain`, `DispatchCrash`, `RunChained`,
`FailChained`, `StopChain`, `ChainCrash` and `RetryChained` are what becomes of a batch.

`DirectPromise` has no jobs, waits, attempts or timers: a notification is processed, fails or
moves to the open batch of its zaak. Once a batch closes nothing moves to it, and then it takes
on all that moved to it. As long as there was no trouble (`faults + retries = 0`) nothing that is
processed or failed is touched again, nothing that moved is handled on the direct route, and
no batch loses what it took on; with trouble a closed batch may lose some of it, or never take it on.

### IngestRouting

`document`, `links` and `published` are the ZGW side; `mapping` the mapping of the
zaaktype of each zaak (none, inactive, active); `reading` the ingests that run.
`CheckMapping`, `ResolveRoute`, `ReadLinks` and `StoreChange` are the reads and
decisions of `IngestNotification::handle`, `resolveRoute` and
`ingestDocumentUpdate`, in their order and each its own step. `AddDocument`,
`UpdateDocument`, `SendDocument`, `SendFails` and `FailDocument` are the jobs of both
routes. A change of a document without a row in the register is sent when Corsa lists the
document (`Listed`), and is registered by that; a send may fail after the document reached
Corsa (`SendFails`), and then the register does not know of it.
Whether the status of a document is "in bewerking" is left open, as a choice of
`ResolveRoute`.

`RoutingImplements` maps it to `DocumentPromise`: a change is due until some row for it is
processed, so that of a change that was delivered several times each row that says processed
must be true. All versions here come with content.

### CatalogiSync

`zgw` is the Catalogi API; `catalogi` and `mappings` are the two tables, `requests` and
`queued` the jobs on the queue, `runs` the jobs that run, each with what it read. Of a
row the models keep whether it is active, and beside it, in `chosen`, what the admin
chose last: that is not a column, and the properties compare the two. `is_active` and
`corsa_zaaktype_code` of a mapping are set in one form and are one value here.

| Action | Code |
|---|---|
| `RequestAll`, `RequestOne` | `routes/console.php:17`, the buttons in `ListCatalogi`, `ZaaktypeMappingsTable` and `CatalogiTable` |
| `FetchCatalogi`, `FindCatalogus`, `InsertCatalogus`, `FindStale`, `Deactivate`, `DispatchSyncs` | `SyncAllCatalogi.php`, from top to bottom |
| `StartSync`, `FindMapping`, `WriteMapping`, `FinishSync` | `SyncCatalogus.php`; the two in the middle are `updateOrCreate` |
| `AddCatalogus`, `EditCatalogus`, `DeleteCatalogus`, `EditMapping`, `DeleteMapping` | the forms and actions of the panel |
| `SyncFails` | an error or a worker that dies: one try (`config/horizon.php:193`) |

`updateOrCreate` reads and then writes. The write is of the columns that differ from what
was read, never of the settings (`Written`); an insert that meets a row with the same
url becomes an update of that row, as Laravel does it; and a row of a catalogus that is
gone is refused by the foreign key (`Refused`). A plain `create` of a catalogus that
is there by then fails, and the job with it (`Taken`).

`CatalogiPromise` has one entry for each url and no jobs, rows or keys: a sync adds an entry that
is not there, as inactive, and deactivates a catalogus that it did not find in the API; all else
is up to the admin, and what the admin deletes takes its zaaktypen along.

## 3. What is checked

`expect: pass` runs. All sizes are distinct states with the symmetry of the MC
module (a run with liveness uses none).

| Run | Bounds | States | Shows |
|---|---|---|---|
| `ingest_race` | 2 workers, 2 batches, 2 chains, 3 notifications, 2 `DispatchBatch` jobs each, no failures | 520 k | `OneChainPerBatch`, `CreatedOncePerBatch`, `JoinsOpenBatch`, `KeepsPromise`, `OvertakingNeedsFaults` under any interleaving of ingests, flushes and dispatches |
| `chains` | 1 batch of up to 2 notifications (zaak, document, unsupported), 3 chains, 1 fault, 1 retry, 2 tries, failures | 516 k | order (`HandledInOrder`, `OvertakingNeedsFaults`), completeness and the status of the batch (`ProcessedMeansHandled`, `StaysProcessed`, `FailedCanBeFinished`, `StrandedNeedsFault`), `RepeatsNeedFaults`, `ChainsMoveOn` and `KeepsPromise`, with everything that can happen to a chain |
| `settles` | 1 batch, 2 notifications, 2 chains, 1 fault, failures | 126 k | `EverythingSettles` (liveness) |
| `document` | 2 jobs, 2 zaken, 4 versions, 3 adds, 1 fault | 1.4 M | `RegisterTrue`, `NewestArrives`, `NeverOlder`, `RegisteredOnce`, `KeepsPromise` |
| `direct` | 1 notification, 3 jobs, 1 batch, 2 errors, 1 wait, 1 fault, 1 retry | 571 k | `OneJobPerNotification`, `MovedGetsAJob`, `LostNeedsFault`, `KeepsPromise`, `JobsMoveOn`, `DirectSettles` (liveness) |
| `routing` | 2 zaken, 3 rows, 2 versions, 2 links, 1 disruption | 936 k | `FirstLinkCarriesChange`, `NoSilentMiss`, `KeepsPromise` |
| `catalogi` | 1 catalogus, 1 zaaktype, 2 workers, 1 request that waits, 2 changes, 2 edits, 1 fault | 134 k | `SettingsKept`, `KeepsExisting`, `MappingsBelong`, `KeepsPromise`, `CatchesUp` (liveness) |

`TypeOK` is checked once per module.

### Why the bounds are enough

* Batches: the rules are per batch, and two batches of one zaak are the smallest
  case in which an ingest can take the wrong one. `ingest_race` has three
  notifications, so that order in a batch, a repeated `create:zaak` and a
  notification that comes too late occur together.
* Chains: two notifications and the mark make a chain of three jobs, with a first, a
  middle and a last one. With one fault and one retry there are at most three chains: the first
  one, the second one that a worker leaves when it dies between two jobs, and the one a retry
  makes. `MaxTries` is 20 in the code and 2 here: 2 is the least for which a job can be
  released and run again, and more only repeats that. More faults and retries than one each
  are left to the theorems.
* Waits: the code has three delays (`DOCUMENT_WAIT_SECONDS`) and four errors; one
  wait and two errors have a first, a last, and each after the other. Three jobs are the
  first, the one that waits and one that a crash or retry makes; their numbers are used again
  once they are gone (`NewJobs`). One batch is enough to be there before the notification moves
  or to be made by it, and to be closed when it would move. Two notifications that
  move to one batch or to two (2.8 M states with a single error, no waits and two jobs) were
  checked as well while the model was made, and pass; the theorems hold for any number.
* Catalogi: the rules are per url, so one catalogus with one zaaktype is the least that has
  them all; two workers are two jobs that meet. Two changes let a catalogus go and
  come back, two edits let a row be made and activated, or deleted and made again.
  Keys are used again once nothing refers to them (`NewIds`), hence four.
  `MaxRequests` bounds what waits on the queue, not how often there is a sync.
* Versions: four in `document`, so that a run can be overtaken twice between reading
  and sending; two in `routing`, where only older and newest are told apart.
* Faults: the counting properties (`... <= 1 + faults + retries`) fail on a first
  unexplained chain, job or call; one fault lets the model reach the crash, and the states
  before it are checked against none.
* `MaxDisruptions` is one bound on five things (a link deleted, a mapping changed, an
  ingest that failed, a notification about something else, a call that failed after the
  document reached Corsa), which is 1: each of them meets every interleaving of links, changes and ingests, and no two
  of them occur together.

### Fairness

`FairSpec` of `Batching` assumes weak fairness for each ingest that has started, for
the expiry of each timer, for the flush (every minute, `routes/console.php`), for the
`DispatchBatch` job and the building of each batch, and for the job at the head of each
chain: Horizon runs workers for as long as there are jobs. `FairSpec` of
`DirectRoute` assumes the same for its jobs, and that time passes (`TimeRunsOut`). That of
`CatalogiSync` has weak fairness for the daily request and for each running job, and strong
fairness for a job to be taken from the queue: with a sync every day the workers may be
busy again and again when a job waits, and the queue hands out jobs in their order.
Nothing is assumed of what the environment chooses to do: that a notification
arrives, that a failed job is retried, that a call succeeds, that a worker dies or
does not. Fairness is of the steps of a job together and not of each outcome, so a job
may be released for ever as far as the lock is concerned, and only `MaxTries` or the
time to retry ends it.

`CHECK_DEADLOCK FALSE` is set for `DocumentSync`, `DirectRoute` and `IngestRouting`:
there the environment is bounded (versions, adds, links, notifications), and when all
is done the system stops, as it should. In `Batching` the flush is always
enabled, and in `CatalogiSync` there is always a request that waits or can be made.

### Findings

`expect: violation` runs check what the documentation says and the code does not do.

| Run | Statement | What happens |
|---|---|---|
| `repeated_zaak` | docs/notificaties.md:91, an incomplete processed batch "hoort dat niet voor te komen" | a `create:zaak` that is delivered twice gets no job (`BatchingService.php:155`), and its batch is processed with a notification that is not |
| `second_batch` | README.md:9, a `create:zaak` is "always processed first" | the chain of a second batch runs beside the first, and its status fails because the zaak is not in Corsa yet |
| `double_chain` | docs/batching_system.md:250, "Dubbel uitvoeren is onschadelijk" | after a worker died between two jobs, two chains run the rest, and an older status reaches Corsa after a newer one |
| `second_zaak` | docs/notificaties.md:63, a repeated notification does not add a document twice | the register has one row per document, so a link to a second zaak is never registered and each delivery adds the document again |
| `relinked` | `IngestNotification.php:136`, README.md:83, the link sends the newest version | a link that was deleted and made again finds the row of the first link, and what changed in between is not sent |

The weaker statements that do hold are checked too: `ProcessedMeansHandled`,
`HandledInOrder`, `OvertakingNeedsFaults` (no notification reaches Corsa after a later one of its
batch, unless a job broke off or was retried), `RegisteredOnce`, `FirstLinkCarriesChange`.

More observations have no run. Two first notifications of a zaak that come in
at once make two open batches (`BatchingService.php:36` locks nothing when it finds
nothing). A notification that comes in between the flush and the lock is
processed within its own waiting time (`DispatchBatch.php:45` does not look at the
timer again), against `config/batching.php:15`. The same holds for a batch that
`moveToBatch` has just made, whose timer starts after the commit
(`ProcessDocumentDirectly.php:255`). Two batches of a zaak may each create the zaak.

Of the sync: "Deactivate catalogi that no longer exist in ZGW" (`SyncAllCatalogi.php:45`)
is about the list that was fetched; a catalogus that appears, and is added and activated
by hand, between the fetch and line 46 is deactivated although it exists. A catalogus that
was away for one sync stays inactive until an admin activates it. A page that was
opened before a sync deactivated its catalogus puts the old value back when it is saved.
`KeepsExisting` says what remains: only what was absent from some list is deactivated, and
nothing is activated.

## 4. What is proved

Every safety property of the passing runs is a theorem: it holds for any number of
batches, chains, jobs, workers, zaken, catalogi and notifications, any number of tries,
faults and retries, with and without failures. Each of the five components is also proved to
implement an abstract specification.

| Module | Theorems | Property |
|---|---|---|
| `BatchingProofs` | `TypesHold`, `ProcessedHandledAll`, `InOrder`, `JoinsOpen`, `ProcessedForGood` | `TypeOK`, `ProcessedMeansHandled`, `HandledInOrder`, `JoinsOpenBatch`, `StaysProcessed` |
| | `BatchInvHolds` | the invariant they rest on |
| `BatchingPromiseProofs` | `KeepsPromiseHolds` | `KeepsPromise`: `Batching` implements `BatchPromise` |
| | `PromiseInvHolds` | the invariant it rests on |
| `BatchingCountProofs` | `OneChain`, `StrandedNeedsFaultHolds`, `FailedCanBeFinishedHolds`, `RepeatsNeedFaultsHold`, `CreatedOnce` | `OneChainPerBatch`, `StrandedNeedsFault`, `FailedCanBeFinished`, `RepeatsNeedFaults`, `CreatedOncePerBatch` |
| | `OvertakingNeedsFaultsHolds`, `ChainsMoveOnHolds` | `OvertakingNeedsFaults`, `ChainsMoveOn` |
| `DocumentProofs` | `DocumentTypesHold`, `RegisterTrueHolds`, `RegisteredOnceHolds`, `NewestArrivesHolds`, `NeverOlderHolds` | `TypeOK`, `RegisterTrue`, `RegisteredOnce`, `NewestArrives`, `NeverOlder` |
| | `KeepsPromiseHolds` | `KeepsPromise`: `DocumentSync` implements `DocumentPromise` |
| `DirectProofs` | `DirectTypesHold`, `MovedGetsAJobHolds`, `OneJobHolds`, `LostNeedsFaultHolds` | `TypeOK`, `MovedGetsAJob`, `OneJobPerNotification`, `LostNeedsFault` |
| | `DirectKeepsPromise` | `KeepsPromise`: `DirectRoute` implements `DirectPromise` |
| | `JobsMoveOnHolds` | `JobsMoveOn` |
| `IngestRoutingProofs` | `RouteTypesHold`, `FirstLinkCarries`, `NoMissInSilence` | `TypeOK`, `FirstLinkCarriesChange`, `NoSilentMiss` |
| | `RoutingKeepsPromise` | `KeepsPromise`: `IngestRouting` implements `DocumentPromise` |
| `CatalogiProofs` | `CatalogiTypesHold`, `SettingsKeptHolds`, `KeepsExistingHolds`, `MappingsBelongHolds` | `TypeOK`, `SettingsKept`, `KeepsExisting`, `MappingsBelong` |
| | `CatalogiKeepsPromise` | `KeepsPromise`: `CatalogiSync` implements `CatalogiPromise` |

They rest on `ConstantsAssumption` of each module: the values that stand for nothing
(`NoBatch`, `Free`, `NoZaak`, `NoRow`) are not among the things they stand for the
lack of, and bounds are natural numbers. A job has at least one try (`MaxTries`), a direct
job may make at least one error (`MaxErrors`), and a document has a first version
(`MaxVersie` of `IngestRouting`); direct jobs are numbered (`Jobs`). `NoEntryAssumption` of `DocumentSync` and `IngestRouting`
says that no row of the register is `NoEntry`.

### The invariants

**`Batching`.** `ProcessedMeansHandled` is not inductive: that a batch is marked follows from
a chain that has nothing left, so it must be known that a chain only passes what is handled;
that what it started with was everything follows from the batch being locked when the
chain was built; and that nothing is linked afterwards follows from an open transaction
holding the row of a batch that is not locked. `BatchInv` says just that:

* `FreshIds`: ids are handed out once, so a commit never overwrites a row;
* `WritersHoldOpenBatches`: an open transaction has a batch that is not locked;
* `LockedWhenWorkedOn`: a batch that is being built, has a chain or is processed is
  locked, and `processed_at` and the status agree;
* `ChainsPassHandled`: what a chain has left out or passed is handled;
* `ProcessedMeansHandled` and `TypeOK`.

The proof has a lemma per conjunct. They rest on lemmas about what any step may do to
one table (`BatchSteps`, `ChainSteps`, `WritingSteps`, `NewNotificationsJoinOpen`,
`JobChangesFlags`), so that the case split over the actions is made once for each
table and not once for each conjunct. The decisive ones are `JobsStay`, the jobs of a
locked batch never change, and `OneHead`, a chain has one first job. `InOrder` follows from
the invariant alone, the two action properties from the invariant and the step lemmas.

**The promise of `Batching`.** `PromiseInv` adds that rows, readers and transactions agree on
the zaak of a batch, that no two transactions hold one batch, and that a batch is locked just
when it is not pending. With it each action maps to one step of `BatchPromise` or to none.

**Counting.** A property `count <= 1 + faults + retries` needs an account of what is still to
come. `ChainCountInv` counts the chains of a batch together with the one that is being
built, and knows that a batch that has a chain is not being built (`NotBuilt`). `RepeatInv`
counts for a notification the calls that were made and those that the chains may still make
(`CallsLeft`), plus the one of a chain that is still to be built. `StrandInv` charges each
stranded batch to a fault of its own, and knows that a chain whose failure was caught left its
batch marked, so that it may end (`CaughtIsMarked`). `GivenUpInv` does the same for the batches
that are failed and have no chain and no failed job left: a step gives up at most one
batch, and only when a failure breaks off. `CreateInv` counts the chains of a zaak that have
found it missing and not created it yet (`Creating`): once the zaak is there no chain joins
them, so that creations made and still to be made never exceed the chains there can be
(`Room`).

**Order in Corsa.** `OvertakingNeedsFaults` needs more than `HandledInOrder`, which is about marks: what
was sent and not marked yet counts as well. `OrderInv` says that a chain has passed only what comes
before all it has left (`PassedFirst`), and, while no worker died and nothing was retried, that
what was sent is the first job of its chain or behind it (`SentFirst`). That a batch has one chain
then comes from `ChainCountInv`.

**Chains move on.** `StepsLeft` counts the jobs, tries and steps that a chain has left.
`ChainsMoveOn` says that whatever changes a chain brings it down, and never below zero, unless a
job broke off; `TriesBounded` is what keeps it a natural number. It is the
safety half of `EverythingSettles`: a chain cannot go round for ever, whatever its jobs do.
That somebody keeps taking its steps is the fairness that TLC checks with.

**`DocumentSync`.** `DocInv` says that there is one run at a time and that it owns the lock
(`OwnsLock`); that a run has read a version of the past (`Historic`), and, as nobody else
had the lock since, that the register and Corsa are as it found them (`RunInv`); that a
change is due, or had nothing to show, or is shown (`DoneTrue`); and it counts the adds of
the zaak of the register (`Counted`). The refinement follows from the same invariant.

**`DirectRoute`.** `DirectInv` has the types, and that jobs and batches refer to rows
(`RefersToRows`). `LeftInv` counts the batches that left a notification behind
(`LeftBatches`): a batch that is open or locked leaves none, a chain takes on all that
is linked, and a step adds at most one batch to the count, the one whose job broke off;
that is `MovedGetsAJob`. `CountInv` counts the live jobs of a notification
with the one that is still to be dispatched, and the rows that lost theirs. One
description, `OnlyJob`, covers every step in which a job ends only when its row is settled.
The refinement rests on `QuietInv`: rows and batches agree on what moved (`PlacesAgree`), and while
there was no trouble, nothing that an ingest, a job or a batch is about to settle is settled
(`NothingTwice`). That part needs `CountInv`, since a second live job would settle it first.
`JobsMoveOn` needs the types only: `WorkLeft` counts the attempts and the steps a job has left, and
a job that is late has no other attempt. A release of a job in time is the one step that goes back,
which is why the time to retry must be assumed to pass in `FairSpec`.

**`IngestRouting`.** `RouteInv` ties rows and ingests to what was published (`RowsInv`), bounds
what Corsa shows by what is being sent (`SendingInv`), which is of rows that are still
pending (`PendingInv`), and has as its heart `CarriedInv`: of a link that is the first of its
zaak, whatever is sent to that zaak, for the link or for a change (`SendsFor`), was read after
each change that an ingest found without a link. A change is only sent for a zaak that was linked
(`HasLink`), so that it never settles the register for a zaak before its link. `NoMissInSilence` takes the newest change, which was published,
and follows its row. The refinement follows from `SendingInv`: a job that ends a change has sent
a version that is at least that new to the zaak of the register, or Corsa had it already.

**`CatalogiSync`.** `CatInv` holds for every job that runs: all that its list lacks was
absent, and so is all it is about to deactivate (`AllInv`); the zaaktypen it has left are of
its catalogus as long as that exists, and the mapping it found is of the zaaktype it is at
(`OneInv`). A key that a job refers to is not handed out again (`RowsStay`), so none of this
is undone when a row is deleted and made again. For the refinement `EntriesInv` adds that a
zaaktype has one mapping, so that a write to a row is a change of one entry (`EntryChanged`).

### Only model-checked

* Liveness (`EverythingSettles`, `DirectSettles`, `CatchesUp`): fairness and `ENABLED` are out
  of the reach of the prover.
* The runs that end in a violation.

No module declares a RECURSIVE operator, and nothing is proved by induction over data;
the code has no algorithm that would need it.

## 5. What is not modelled

* Laravel's queue, cache, database and Horizon are external: they are modelled from
  how the jobs and the configuration use them. `retry_after` (360 seconds) is larger
  than every time-out (60 and 300 seconds), so a job is handed out again only after its
  worker stopped; the models rely on that.
* The mapping of ZGW fields to Corsa's SOAP messages, the texts of errors and log
  lines, and the pages of the admin panel that only show tables: data and layout, without
  control. The columns "incomplete" and "stuck" of the list of batches are computed from
  rows that `Batching` has; the first is the run `repeated_zaak`, the second is
  a batch that says processing for half an hour (`StrandedNeedsFault` is what can be said
  without a clock).
* Validation of requests, authentication, users, tokens and providers: no state that
  notifications, batches or documents depend on.
* The JavaScript in the repository (`public/js/`, `resources/js/`, `vite.config.js`): minified
  bundles of the Filament package, the set-up of an HTTP client and the configuration of the
  build. None of it is the program's own logic, which is PHP, and the models map none of it.
* That Corsa itself refuses or merges a zaak that is created twice.
* A row of the register without a version (`versie` null), which only a document without a
  version in ZGW has: in `DocumentSync` every row has one.
* Of the sync: the pages of a list, which are fetched one after the other, are one read here, so
  that a list that changes while it is paged is left out; a url that an admin changes in a
  row that exists; the descriptions and times of last synchronisation. A catalogus that is
  deleted takes its mappings and their settings along, which is what the code says.

## 6. Plan

Written, in this order: `Notifications`, `Tables`, `Batching` with its runs,
`BatchPromise` and the refinement, the proofs about `Batching`, `DocumentSync`,
`DirectRoute`, `IngestRouting`, `CatalogiSync`, `DocumentPromise` and its refinement, the
proofs about each of them, the promises of the direct route, of the routing and of the catalogi
with their proofs, and the order and progress of chains and jobs. What could still be added:

1. The handlers for a status and a resultaat with their own reads of the zaak, where
   `Batching` has one call.
2. The pages of the lists in `CatalogiSync`, with a list that changes while it is read.
