------------------------------ MODULE Batching ------------------------------
(* The batch route: ingest jobs link notifications to the open batch of     *)
(* their zaak, the scheduler dispatches the batches whose timer expired, a  *)
(* DispatchBatch job locks the batch and builds a chain of jobs, and queue  *)
(* workers run the chains.  Several workers run all of this at once; a      *)
(* worker may die between any two steps.                                    *)
(*                                                                          *)
(* The tables hold committed rows only; an open transaction keeps its rows  *)
(* in "writing" until it commits.                                           *)
EXTENDS Notifications, Tables, FiniteSets

CONSTANTS
  Batches, Chains,    \* identifiers for batches and for chains on the queue
  Workers, Zaken,     \* workers that run ingest jobs, and zaken
  Delivered,          \* the kinds an ingest links to a batch
  NoBatch,            \* "no batch found"
  MaxNotifications,   \* bound on notifications stored
  MaxTries,           \* HandleNotification::$tries
  MaxDispatched,      \* bound on DispatchBatch jobs queued for one batch
  MaxFaults,          \* bound on jobs that break off
  MaxRetries,         \* bound on failed jobs retried from Horizon
  MayFail             \* whether calls to the ZGW APIs and Corsa may fail

ASSUME ConstantsAssumption ==
  /\ NoBatch \notin Batches
  /\ Delivered \subseteq Kinds
  /\ {MaxNotifications, MaxTries, MaxDispatched, MaxFaults, MaxRetries} \subseteq Nat
  /\ MaxTries # 0
  /\ MayFail \in BOOLEAN

VARIABLES
  notif,       \* table notifications: id -> row
  batches,     \* table batches: id -> row
  lastId,      \* the newest notification id handed out
  reading,     \* ingests that have read the open batches: worker -> what they saw
  writing,     \* ingests that hold the row of their batch: worker -> new row
  timer,       \* the batches with a timer in the cache
  dispatched,  \* the number of DispatchBatch jobs on the queue, per batch
  building,    \* batches a DispatchBatch job has locked and builds a chain for
  chain,       \* the chains on the queue or among the failed jobs
  creations,   \* how often a zaak was created in Corsa, also before this started
  sent,        \* the number of times Corsa was changed for a notification
  faults,      \* jobs that broke off so far: their worker died, or the database failed them
  retries      \* failed jobs that were retried so far

tables == <<notif, batches>>
ingest == <<reading, writing, lastId>>
queue  == <<timer, dispatched, building>>
corsa  == <<creations, sent>>
luck   == <<faults, retries>>
vars   == <<tables, ingest, queue, chain, corsa, luck>>

Ids == 1..MaxNotifications

NotificationRow == [zaak: Zaken, kind: Kinds, batch: Batches,
                    processed: BOOLEAN, ignored: BOOLEAN, failed: BOOLEAN]
BatchRow == [zaak: Zaken, locked: BOOLEAN, processedAt: BOOLEAN,
             status: {"pending", "processing", "processed", "failed"}]
Snapshot == [zaak: Zaken, kind: Kinds, open: SUBSET Batches]
Transaction == [zaak: Zaken, kind: Kinds, batch: Batches, id: Ids]

\* A chain: the notifications whose jobs have not been passed yet, and how far
\* the first of those jobs is.  With none left the job is MarkBatchProcessed.
ChainRow == [batch: Batches, todo: SUBSET Ids, attempts: Nat,
             step: {"queued", "running", "creating", "sent", "done",
                    "failing", "caught", "recorded", "failed"}]

Init ==
  /\ notif = Empty /\ batches = Empty /\ lastId = 0
  /\ reading = Empty /\ writing = Empty
  /\ timer = {} /\ building = {}
  /\ dispatched = [b \in Batches |-> 0]
  /\ chain = Empty
  /\ creations \in [Zaken -> {0, 1}]
  /\ sent = [n \in Ids |-> 0]
  /\ faults = 0 /\ retries = 0

-----------------------------------------------------------------------------
(* Ingest: IngestNotification's transaction around getOrCreateBatch and     *)
(* addNotificationToBatch.                                                  *)

OpenBatches(z) == {b \in DOMAIN batches : batches[b].zaak = z /\ ~batches[b].locked}

\* Variant: SELECT without FOR UPDATE, so that nothing waits for the row.
RowFreeNoLock(b) == TRUE
\* No open transaction holds the row of b: SELECT ... FOR UPDATE and UPDATE wait.
RowFree(b) == \A w \in DOMAIN writing : writing[w].batch # b

\* The statement SELECT ... WHERE locked_at IS NULL FOR UPDATE starts: it sees
\* the open batches as they are committed now.
ReadOpenBatch(w, z, k) ==
  /\ w \notin DOMAIN reading \cup DOMAIN writing
  /\ lastId < MaxNotifications
  /\ reading' = Put(reading, w, [zaak |-> z, kind |-> k, open |-> OpenBatches(z)])
  /\ UNCHANGED <<tables, writing, lastId, queue, chain, corsa, luck>>

\* Variant: the row is not looked at again once its lock is there.
LockableAsRead(w) == reading[w].open
\* The rows the statement may return: PostgreSQL checks a row again once it has
\* its lock, and skips it when locked_at was set since.  created_at counts in
\* whole seconds, so which of two open batches is the latest is left open.
Lockable(w) == {b \in reading[w].open : ~batches[b].locked}

\* The batch the transaction goes on with: a row it could lock, or else a new one.
TakesBatch(w, b) ==
  IF Lockable(w) # {} THEN b \in Lockable(w) /\ RowFree(b)
  ELSE b \in Batches \ DOMAIN batches /\ RowFree(b)

\* The row lock is taken or a new batch made, the notification inserted, and the
\* timer, which is in the cache and not in the transaction, reset.
AddNotificationToBatch(w) ==
  /\ w \in DOMAIN reading
  /\ lastId < MaxNotifications
  /\ \E b \in Batches :
       /\ TakesBatch(w, b)
       /\ writing' = Put(writing, w, [zaak |-> reading[w].zaak, kind |-> reading[w].kind,
                                      batch |-> b, id |-> lastId + 1])
       /\ timer' = timer \cup {b}
  /\ lastId' = lastId + 1
  /\ reading' = Drop(reading, w)
  /\ UNCHANGED <<tables, dispatched, building, chain, corsa, luck>>

\* Variant: a status the tables and the admin panel do not know.
NewBatchOpen(z) == [zaak |-> z, locked |-> FALSE, processedAt |-> FALSE, status |-> "open"]
NewBatch(z) == [zaak |-> z, locked |-> FALSE, processedAt |-> FALSE, status |-> "pending"]

CommitIngest(w) ==
  /\ w \in DOMAIN writing
  /\ LET t == writing[w] IN
       /\ notif' = Put(notif, t.id, [zaak |-> t.zaak, kind |-> t.kind, batch |-> t.batch,
                                     processed |-> FALSE, ignored |-> FALSE, failed |-> FALSE])
       /\ batches' = IF t.batch \in DOMAIN batches THEN batches
                     ELSE Put(batches, t.batch, NewBatch(t.zaak))
  /\ writing' = Drop(writing, w)
  /\ UNCHANGED <<reading, lastId, queue, chain, corsa, luck>>

\* The worker dies, or the transaction fails: nothing is stored, and the job, which
\* has one try, is not run again.  The timer of a batch that exists stays reset; the
\* key of a batch that was rolled back names no batch any more.
AbortIngest(w) ==
  /\ faults < MaxFaults
  /\ \/ /\ w \in DOMAIN reading
        /\ reading' = Drop(reading, w)
        /\ UNCHANGED <<writing, timer>>
     \/ /\ w \in DOMAIN writing
        /\ writing' = Drop(writing, w)
        /\ timer' = timer \ ({writing[w].batch} \ DOMAIN batches)
        /\ UNCHANGED reading
  /\ faults' = faults + 1
  /\ UNCHANGED <<tables, lastId, dispatched, building, chain, corsa, retries>>

-----------------------------------------------------------------------------
(* The scheduler, FlushExpiredBatches and DispatchBatch.                    *)

\* Variant: the timer is stored without a time to live.
TimerStays(b) == b \in timer /\ UNCHANGED vars
TimerExpires(b) ==
  /\ b \in timer
  /\ timer' = timer \ {b}
  /\ UNCHANGED <<tables, ingest, dispatched, building, chain, corsa, luck>>

\* BatchingService::getUnprocessedBatches.
UnprocessedBatches ==
  {b \in DOMAIN batches : ~batches[b].locked /\ batches[b].status = "pending" /\ b \notin timer}

\* Runs every minute; one job for each batch found.  More than MaxDispatched jobs
\* waiting for one batch are not told apart.
FlushExpiredBatches ==
  /\ dispatched' = [b \in Batches |->
       IF b \in UnprocessedBatches /\ dispatched[b] < MaxDispatched
       THEN dispatched[b] + 1 ELSE dispatched[b]]
  /\ UNCHANGED <<tables, ingest, timer, building, chain, corsa, luck>>

\* Variant: the lock is set without its condition.
LockAnyway(b) ==
  /\ RowFree(b)
  /\ b \in DOMAIN batches
  /\ batches' = [batches EXCEPT ![b].locked = TRUE, ![b].status = "processing"]
\* Batch::lockForProcessing: one conditional UPDATE, which waits for the row.
LockForProcessing(b) ==
  /\ RowFree(b)
  /\ ~batches[b].locked
  /\ batches' = [batches EXCEPT ![b].locked = TRUE, ![b].status = "processing"]

\* DispatchBatch::handle up to the lock.  The job that finds the batch locked stops.
DispatchBatch(b) ==
  /\ dispatched[b] > 0
  /\ \/ LockForProcessing(b) /\ building' = building \cup {b}
     \/ batches[b].locked /\ UNCHANGED <<batches, building>>
  /\ dispatched' = [dispatched EXCEPT ![b] = @ - 1]
  /\ UNCHANGED <<notif, ingest, timer, chain, corsa, luck>>

Linked(b) == {n \in DOMAIN notif : notif[n].batch = b}

\* The first create:zaak of the batch, and everything that is not a create:zaak:
\* another create:zaak gets no job.
IsRepeatedZaak(n) ==
  /\ notif[n].kind = "create:zaak"
  /\ \E m \in Linked(notif[n].batch) : notif[m].kind = "create:zaak" /\ m < n
Jobs(b) == {n \in Linked(b) : ~IsRepeatedZaak(n)}

\* The rest of processBatch and dispatchChain: read the notifications of the batch
\* and put one chain on the queue, or mark a batch without notifications.
BuildChain(b) ==
  /\ b \in building
  /\ IF Linked(b) = {}
     THEN /\ batches' = [batches EXCEPT ![b].processedAt = TRUE, ![b].status = "processed"]
          /\ UNCHANGED chain
     ELSE /\ \E c \in Chains \ DOMAIN chain :
               chain' = Put(chain, c, [batch |-> b, todo |-> Jobs(b), attempts |-> 0, step |-> "queued"])
          /\ UNCHANGED batches
  /\ building' = building \ {b}
  /\ UNCHANGED <<notif, ingest, timer, dispatched, corsa, luck>>

\* The worker of a DispatchBatch job dies: before the lock, or between the lock and
\* the chain.  The job has one try, so it is not run again.
DispatchCrash(b) ==
  /\ faults < MaxFaults
  /\ \/ /\ dispatched[b] > 0
        /\ dispatched' = [dispatched EXCEPT ![b] = @ - 1]
        /\ UNCHANGED building
     \/ /\ b \in building
        /\ building' = building \ {b}
        /\ UNCHANGED dispatched
  /\ faults' = faults + 1
  /\ UNCHANGED <<tables, ingest, timer, chain, corsa, retries>>

-----------------------------------------------------------------------------
(* Queue workers run the chains: HandleNotification and MarkBatchProcessed, *)
(* and what the queue of Laravel does around a job.                         *)

\* Variant: the jobs of a chain in the order of receipt only.
IsHeadByReceipt(c, n) ==
  /\ n \in chain[c].todo
  /\ \A m \in chain[c].todo \ {n} : n < m
\* The notification of the first job that is left in chain c.
IsHead(c, n) ==
  /\ n \in chain[c].todo
  /\ \A m \in chain[c].todo \ {n} : Precedes(notif, n, m)

\* HandleNotification has MaxTries tries, MarkBatchProcessed has one.
Tries(c) == IF chain[c].todo = {} THEN 1 ELSE MaxTries

Handled(n) == notif[n].processed \/ notif[n].ignored

GoTo(c, step) == chain' = [chain EXCEPT ![c].step = step]

\* Variants: only a batch that is processing can be marked as processed; the catch
\* callback marks a batch without its condition, or is not there.
MarkProcessedIfProcessing(b) ==
  batches' = IF batches[b].status # "processing" THEN batches
             ELSE [batches EXCEPT ![b].processedAt = TRUE, ![b].status = "processed"]
MarkFailedAnyway(b) == batches' = [batches EXCEPT ![b].status = "failed"]
NoCatch(b) == b \in DOMAIN batches /\ UNCHANGED batches
\* Batch::markProcessedOnce and Batch::markFailedUnlessProcessed.
MarkProcessedOnce(b) ==
  batches' = IF batches[b].processedAt THEN batches
             ELSE [batches EXCEPT ![b].processedAt = TRUE, ![b].status = "processed"]
MarkFailedUnlessProcessed(b) ==
  batches' = IF batches[b].processedAt THEN batches
             ELSE [batches EXCEPT ![b].status = "failed"]

\* Variant: the chain goes on after a job that failed.
FailJobGoesOn(c) == GoTo(c, IF chain[c].todo = {} THEN "failing" ELSE "done")
\* Job::fail: the job is deleted from the queue, and it goes on with the steps below.
FailJob(c) == GoTo(c, "failing")

\* A worker takes a job that has used up its tries.
RefuseJob(c) ==
  /\ c \in DOMAIN chain /\ chain[c].step = "queued" /\ chain[c].attempts >= Tries(c)
  /\ FailJob(c)
  /\ UNCHANGED <<tables, ingest, queue, corsa, luck>>

\* HandleNotification::handle up to the handler: refresh, skip what was handled before,
\* ignore what is not supported.
StartHandle(c) ==
  /\ c \in DOMAIN chain /\ chain[c].step = "queued" /\ chain[c].attempts < Tries(c)
  /\ \E n \in Ids :
       /\ IsHead(c, n)
       /\ LET skip   == Handled(n)
              ignore == ~skip /\ notif[n].kind = Unsupported
              next   == IF skip \/ ignore THEN "done" ELSE "running"
          IN  /\ chain' = [chain EXCEPT ![c] = [@ EXCEPT !.attempts = chain[c].attempts + 1, !.step = next]]
              /\ notif' = [notif EXCEPT ![n].ignored = @ \/ ignore]
  /\ UNCHANGED <<batches, ingest, queue, corsa, luck>>

\* Variant: the answer is misread, and no zaak is ever found.
NeverFound(z) == FALSE
\* checkZaakExistenceInCorsa; an error of that check counts as "not there".
InCorsa(z) == creations[z] > 0

\* The handler up to its answer from Corsa.  processZaakAangemaakt creates a zaak that is
\* not there; the other handlers change a zaak that is there, or a document, but one that the
\* register says was sent already is not sent again.
CallCorsa(c) ==
  /\ c \in DOMAIN chain /\ chain[c].step = "running"
  /\ \E n \in Ids :
       /\ IsHead(c, n)
       /\ IF notif[n].kind = "create:zaak"
          THEN /\ \/ InCorsa(notif[n].zaak) /\ GoTo(c, "sent")
                  \/ (MayFail \/ ~InCorsa(notif[n].zaak)) /\ GoTo(c, "creating")
               /\ UNCHANGED sent
          ELSE /\ notif[n].kind \in DocumentUpdates \/ InCorsa(notif[n].zaak)
               /\ \/ sent' = [sent EXCEPT ![n] = @ + 1]
                  \/ notif[n].kind \in DocumentKinds /\ UNCHANGED sent
               /\ GoTo(c, "sent")
  /\ UNCHANGED <<tables, ingest, queue, creations, luck>>

\* creeerZaak, after the check found no zaak.
CreateZaak(c) ==
  /\ c \in DOMAIN chain /\ chain[c].step = "creating"
  /\ \E n \in Ids :
       /\ IsHead(c, n)
       /\ creations' = [creations EXCEPT ![notif[n].zaak] = @ + 1]
       /\ sent' = [sent EXCEPT ![n] = @ + 1]
  /\ GoTo(c, "sent")
  /\ UNCHANGED <<tables, ingest, queue, luck>>

\* What a handler needs is not in Corsa: the zaak, or the document that was changed.
MissingInCorsa(n) ==
  /\ notif[n].kind # "create:zaak"
  /\ notif[n].kind \in DocumentUpdates \/ ~InCorsa(notif[n].zaak)

\* The handler throws because something is missing, or a call fails, which may have reached
\* Corsa ("sent"); or the next job of the chain cannot be put on the queue ("done").
HandleFails(c) ==
  /\ c \in DOMAIN chain /\ chain[c].step \in {"running", "creating", "sent", "done"}
  /\ MayFail \/ (chain[c].step = "running" /\ \E n \in Ids : IsHead(c, n) /\ MissingInCorsa(n))
  /\ FailJob(c)
  /\ UNCHANGED <<tables, ingest, queue, corsa, luck>>

\* Variants: the chain goes on after a job that was released; a job is released after
\* its document was sent; a job that is released gets its try back.
ReleaseGoesOn(c) ==
  /\ c \in DOMAIN chain /\ chain[c].step = "running"
  /\ \E n \in Ids : IsHead(c, n) /\ notif[n].kind \in DocumentKinds
  /\ GoTo(c, "done")
  /\ UNCHANGED <<tables, ingest, queue, corsa, luck>>
ReleaseAfterSending(c) ==
  /\ c \in DOMAIN chain /\ chain[c].step \in {"running", "sent"}
  /\ \E n \in Ids : IsHead(c, n) /\ notif[n].kind \in DocumentKinds
  /\ GoTo(c, "queued")
  /\ UNCHANGED <<tables, ingest, queue, corsa, luck>>
ReleaseUncounted(c) ==
  /\ c \in DOMAIN chain /\ chain[c].step = "running"
  /\ \E n \in Ids : IsHead(c, n) /\ notif[n].kind \in DocumentKinds
  /\ chain' = [chain EXCEPT ![c].step = "queued", ![c].attempts = @ - 1]
  /\ UNCHANGED <<tables, ingest, queue, corsa, luck>>
\* Another job is sending the document, or its upload is not complete: the job goes
\* back to the queue and counts one more attempt; the rest of the chain waits.
Release(c) ==
  /\ c \in DOMAIN chain /\ chain[c].step = "running"
  /\ \E n \in Ids : IsHead(c, n) /\ notif[n].kind \in DocumentKinds
  /\ GoTo(c, "queued")
  /\ UNCHANGED <<tables, ingest, queue, corsa, luck>>

\* Notification::markProcessed, which also clears a recorded failure; but a model writes only
\* the columns it changes, so a failure recorded after this job read the row stays.
MarkProcessed(c) ==
  /\ c \in DOMAIN chain /\ chain[c].step = "sent"
  /\ \E n \in Ids :
       /\ IsHead(c, n)
       /\ \E kept \in {FALSE, notif[n].failed} :
            notif' = [notif EXCEPT ![n] = [@ EXCEPT !.processed = TRUE, !.failed = kept]]
  /\ GoTo(c, "done")
  /\ UNCHANGED <<batches, ingest, queue, corsa, luck>>

\* The rest of the chain, as the worker dispatches it after a job that succeeded.
Remainder(c, n) ==
  [batch |-> chain[c].batch, todo |-> chain[c].todo \ {n}, attempts |-> 0, step |-> "queued"]

DispatchNextJob(c) ==
  /\ c \in DOMAIN chain /\ chain[c].step = "done"
  /\ \E n \in Ids : IsHead(c, n) /\ chain' = [chain EXCEPT ![c] = Remainder(c, n)]
  /\ UNCHANGED <<tables, ingest, queue, corsa, luck>>

\* MarkBatchProcessed::handle, the last job of the chain.
MarkBatchProcessed(c) ==
  /\ c \in DOMAIN chain /\ chain[c].step = "queued" /\ chain[c].todo = {}
  /\ chain[c].attempts < Tries(c)
  /\ MarkProcessedOnce(chain[c].batch)
  /\ chain' = Drop(chain, c)
  /\ UNCHANGED <<notif, ingest, queue, corsa, luck>>

\* MarkBatchProcessed::handle throws: its update fails, or reading the batch after it.
MarkBatchFails(c) ==
  /\ MayFail
  /\ c \in DOMAIN chain /\ chain[c].step = "queued" /\ chain[c].todo = {}
  /\ chain[c].attempts < Tries(c)
  /\ UNCHANGED batches \/ MarkProcessedOnce(chain[c].batch)
  /\ FailJob(c)
  /\ UNCHANGED <<notif, ingest, queue, corsa, luck>>

(* A job that fails for good: the catch callback of its chain, then failed() of the *)
(* job, and then it is stored among the failed jobs.                                *)

CatchFailure(c) ==
  /\ c \in DOMAIN chain /\ chain[c].step = "failing"
  /\ MarkFailedUnlessProcessed(chain[c].batch)
  /\ GoTo(c, "caught")
  /\ UNCHANGED <<notif, ingest, queue, corsa, luck>>

\* HandleNotification::failed; MarkBatchProcessed has none.
RecordFailure(c) ==
  /\ c \in DOMAIN chain /\ chain[c].step = "caught"
  /\ IF chain[c].todo = {} THEN UNCHANGED notif
     ELSE \E n \in Ids : IsHead(c, n) /\ notif' = [notif EXCEPT ![n].failed = TRUE]
  /\ GoTo(c, "recorded")
  /\ UNCHANGED <<batches, ingest, queue, corsa, luck>>

StoreFailedJob(c) ==
  /\ c \in DOMAIN chain /\ chain[c].step = "recorded"
  /\ GoTo(c, "failed")
  /\ UNCHANGED <<tables, ingest, queue, corsa, luck>>

\* The worker dies after the job was deleted, and nothing is left of the chain; or one of
\* the two callbacks throws, and the failed job is stored without the rest.
FailureBreaks(c) ==
  /\ faults < MaxFaults
  /\ c \in DOMAIN chain /\ chain[c].step \in {"failing", "caught", "recorded"}
  /\ \/ chain' = Drop(chain, c)
     \/ chain[c].step # "recorded" /\ GoTo(c, "failed")
  /\ faults' = faults + 1
  /\ UNCHANGED <<tables, ingest, queue, corsa, retries>>

\* The worker dies while it runs a job.  The queue hands the job out again after
\* retry_after, with its attempt counted, unless it was stopped for its time: then it fails.
\* When the next job was dispatched but this one not yet deleted, both go on: there are two
\* chains for the batch.
WorkerCrash(c) ==
  /\ faults < MaxFaults
  /\ c \in DOMAIN chain
  /\ \/ /\ chain[c].step \in {"running", "creating", "sent", "done"}
        /\ GoTo(c, "queued") \/ GoTo(c, "failing")
        /\ UNCHANGED batches
     \/ /\ chain[c].step = "done"
        /\ \E d \in Chains \ DOMAIN chain, n \in Ids, next \in {"queued", "failing"} :
             /\ IsHead(c, n)
             /\ chain' = [Put(chain, d, Remainder(c, n)) EXCEPT ![c].step = next]
        /\ UNCHANGED batches
     \/ /\ chain[c].step = "queued" /\ chain[c].todo = {} /\ chain[c].attempts = 0
        /\ chain' = [chain EXCEPT ![c].attempts = 1]
        /\ UNCHANGED batches \/ MarkProcessedOnce(chain[c].batch)
  /\ faults' = faults + 1
  /\ UNCHANGED <<notif, ingest, queue, corsa, retries>>

\* Horizon's retry puts a copy of a failed job, with the rest of its chain and the
\* catch callback, on the queue; the failed job can be retried again.
RetryFailedJob(c) ==
  /\ retries < MaxRetries
  /\ c \in DOMAIN chain /\ chain[c].step = "failed"
  /\ \E d \in Chains \ DOMAIN chain :
       chain' = Put(chain, d, [chain[c] EXCEPT !.step = "queued", !.attempts = 0])
  /\ retries' = retries + 1
  /\ UNCHANGED <<tables, ingest, queue, corsa, faults>>

-----------------------------------------------------------------------------
IngestStep(w) == AddNotificationToBatch(w) \/ CommitIngest(w)
BatchStep(b) == DispatchBatch(b) \/ BuildChain(b)
JobStep(c) ==
  \/ RefuseJob(c) \/ StartHandle(c) \/ CallCorsa(c) \/ CreateZaak(c) \/ HandleFails(c)
  \/ Release(c) \/ MarkProcessed(c) \/ DispatchNextJob(c) \/ MarkBatchProcessed(c)
  \/ MarkBatchFails(c) \/ CatchFailure(c) \/ RecordFailure(c) \/ StoreFailedJob(c)

Next ==
  \/ \E w \in Workers : \/ \E z \in Zaken, k \in Delivered : ReadOpenBatch(w, z, k)
                        \/ IngestStep(w) \/ AbortIngest(w)
  \/ \E b \in Batches : TimerExpires(b) \/ BatchStep(b) \/ DispatchCrash(b)
  \/ FlushExpiredBatches
  \/ \E c \in Chains : JobStep(c) \/ FailureBreaks(c) \/ WorkerCrash(c) \/ RetryFailedJob(c)

Spec == Init /\ [][Next]_vars

\* Time passes, the scheduler runs every minute, and the workers run every job that is
\* on the queue.  Nothing says that notifications arrive, or that anyone retries a job.
Fairness ==
  /\ \A w \in Workers : WF_vars(IngestStep(w))
  /\ \A b \in Batches : WF_vars(TimerExpires(b)) /\ WF_vars(BatchStep(b))
  /\ WF_vars(FlushExpiredBatches)
  /\ \A c \in Chains : WF_vars(JobStep(c))

FairSpec == Spec /\ Fairness

-----------------------------------------------------------------------------
(* Properties. *)

\* Every variable holds values of its type: the rows of the tables and the payloads on
\* the queue have the fields and the statuses that the code reads.
TypeOK ==
  /\ IsTable(notif, Ids, NotificationRow)
  /\ IsTable(batches, Batches, BatchRow)
  /\ IsTable(reading, Workers, Snapshot)
  /\ IsTable(writing, Workers, Transaction)
  /\ IsTable(chain, Chains, ChainRow)
  /\ timer \subseteq Batches /\ building \subseteq Batches
  /\ dispatched \in [Batches -> Nat]
  /\ creations \in [Zaken -> Nat] /\ sent \in [Ids -> Nat]
  /\ lastId \in Nat /\ faults \in Nat /\ retries \in Nat

\* A notification never joins a batch that is already locked, although reading the open
\* batch, linking and locking are steps of different workers: the guarantee of the
\* docblock of getOrCreateBatch.
JoinsOpenBatch ==
  [][\A n \in DOMAIN notif' \ DOMAIN notif : ~batches'[notif'[n].batch].locked]_vars

\* A batch that is marked as processed has handled every notification that got a job,
\* also when jobs were released, failed, retried or run twice.
ProcessedMeansHandled ==
  \A b \in DOMAIN batches : batches[b].status = "processed" => \A n \in Jobs(b) : Handled(n)

\* While a notification is being handled, everything the batch handles before it is
\* done, in every chain there is for the batch: the order of inProcessingOrder.
HandledInOrder ==
  \A c \in DOMAIN chain : chain[c].step \in {"running", "creating", "sent"} =>
    \A n \in chain[c].todo : IsHead(c, n) =>
      \A m \in Jobs(chain[c].batch) : Precedes(notif, m, n) => Handled(m)

\* Two DispatchBatch jobs never both build a chain for a batch: a second chain takes a job
\* that broke off, or a retry.
ChainsOf(b) == {c \in DOMAIN chain : chain[c].batch = b}
OneChainPerBatch ==
  \A b \in Batches :
    Cardinality(ChainsOf(b)) + (IF b \in building THEN 1 ELSE 0) <= 1 + faults + retries

\* Corsa is changed twice for a notification only if a job broke off or was retried: never
\* because of the way jobs are dispatched, released or chained.
RepeatsNeedFaults == \A n \in Ids : sent[n] <= 1 + faults + retries

\* A zaak is created again only by another of its batches, whose chain checked before the
\* first creation was there, or after a job broke off or was retried; never twice for one
\* batch, however often its create:zaak is delivered.  An error of the check is left out here.
CreatedOncePerBatch ==
  MayFail \/ \A z \in Zaken : creations[z] > 1 =>
    creations[z] <= Cardinality({b \in DOMAIN batches : batches[b].zaak = z}) + faults + retries

\* A notification never reaches Corsa after one that comes later in its batch, unless a job
\* broke off or was retried: not by chains that are built twice, not by jobs that are released
\* or fail, and not by what joins the batch while it is dispatched.
NothingOvertaken ==
  \A n \in DOMAIN notif : sent'[n] > sent[n] =>
    \A m \in Jobs(notif[n].batch) : Precedes(notif, n, m) => sent[m] = 0
OvertakingNeedsFaults == [][faults = 0 /\ retries = 0 => NothingOvertaken]_vars

\* A chain is done after a number of steps that is known in advance, which every step of a job
\* brings down, also when the job is released or fails.  Only a job that breaks off sets a chain
\* back or loses it: any other chain leaves the queue with its batch processed, or stays among
\* the failed jobs.  No chain goes round and round.
Rank == [running |-> 1, creating |-> 2, sent |-> 3, queued |-> 4, done |-> 5,
         failing |-> 6, caught |-> 7, recorded |-> 8, failed |-> 9]
StepsLeft(row) ==
  9 * ((MaxTries + 1) * Cardinality(row.todo) + MaxTries - row.attempts) + 9 - Rank[row.step]
ChainsMoveOn ==
  [][/\ \A c \in DOMAIN chain \cap DOMAIN chain' :
          \/ chain'[c] = chain[c] \/ faults' > faults
          \/ StepsLeft(chain'[c]) \in 0..(StepsLeft(chain[c]) - 1)
     /\ \A c \in DOMAIN chain \ DOMAIN chain' :
          faults' > faults \/ batches'[chain[c].batch].status = "processed"]_vars

\* "Een batch die al processed is, wordt nooit failed": whatever other chains of the batch
\* do, it also stays processed.
StaysProcessed ==
  [][\A b \in DOMAIN batches : batches[b].processedAt =>
       batches'[b].processedAt /\ batches'[b].status = "processed"]_vars

\* A batch that is shown as failed can still be finished: a failed job of it can be retried, or
\* a chain of it is on the queue, except for at most one batch per job that broke off; and each
\* of its chains still has everything before it that is not handled, so that the one chain that
\* runs to its end makes the batch processed with nothing left out.
GivenUp(b) == b \in DOMAIN batches /\ batches[b].status = "failed" /\ ChainsOf(b) = {}
FailedCanBeFinished ==
  /\ Cardinality({b \in Batches : GivenUp(b)}) <= faults
  /\ \A c \in DOMAIN chain : batches[chain[c].batch].status = "failed" =>
       \A n \in Jobs(chain[c].batch) \ chain[c].todo : Handled(n)

\* A batch that says processing is being worked on, except for at most one batch per job
\* that broke off: no failure of a job leaves a batch in processing.
Live(c) == chain[c].step # "failed"
Stranded(b) ==
  /\ b \in DOMAIN batches /\ batches[b].status = "processing"
  /\ b \notin building /\ \A c \in ChainsOf(b) : ~Live(c)
StrandedNeedsFault == Cardinality({b \in Batches : Stranded(b)}) <= faults

\* Every notification that was linked to a batch comes to rest: its batch is processed, or
\* shown as failed, or was stranded by a job that broke off.
EverythingSettles ==
  \A n \in Ids : n \in DOMAIN notif ~>
    n \in DOMAIN notif /\ ( \/ batches[notif[n].batch].status \in {"processed", "failed"}
                           \/ Stranded(notif[n].batch) )

(* Why the batch route keeps its promise: an inductive invariant. *)

\* An open transaction has a fresh id, and holds the row of an open batch or a new one.
FreshIds ==
  /\ \A n \in DOMAIN notif : n <= lastId
  /\ \A w \in DOMAIN writing :
       /\ writing[w].id <= lastId /\ writing[w].id \notin DOMAIN notif
       /\ \A v \in DOMAIN writing \ {w} : writing[v].id # writing[w].id
WritersHoldOpenBatches ==
  \A w \in DOMAIN writing :
    writing[w].batch \in DOMAIN batches => ~batches[writing[w].batch].locked

\* Only a batch that is locked is worked on, and only such a batch is processed.
LockedWhenWorkedOn ==
  /\ \A b \in Batches : dispatched[b] > 0 => b \in DOMAIN batches
  /\ \A b \in building : b \in DOMAIN batches /\ batches[b].locked
  /\ \A c \in DOMAIN chain : chain[c].batch \in DOMAIN batches /\ batches[chain[c].batch].locked
  /\ \A b \in DOMAIN batches :
       batches[b].processedAt \/ batches[b].status = "processed" =>
         batches[b].processedAt /\ batches[b].locked /\ batches[b].status = "processed"

\* What a chain has passed is handled, and so is its first job once that is done.
ChainsPassHandled ==
  \A c \in DOMAIN chain :
    /\ chain[c].todo \subseteq Jobs(chain[c].batch)
    /\ \A n \in Jobs(chain[c].batch) \ chain[c].todo : Handled(n)
    /\ chain[c].step = "done" => \A n \in chain[c].todo : IsHead(c, n) => Handled(n)

BatchInv ==
  /\ TypeOK /\ FreshIds /\ WritersHoldOpenBatches /\ LockedWhenWorkedOn
  /\ ChainsPassHandled /\ ProcessedMeansHandled

(* What the documentation says and the code does not do. *)

\* docs/notificaties.md:91, on a processed batch with a notification that is not processed,
\* not failed and not ignored: "hoort dat niet voor te komen" (Batch::isIncomplete).
NeverIncomplete ==
  \A b \in DOMAIN batches : batches[b].status = "processed" =>
    \A n \in Linked(b) : Handled(n) \/ notif[n].failed

\* README.md:9, a create:zaak is "always processed first to ensure the case exists in Corsa
\* before any related data is added": nothing of a zaak is handled while a create:zaak that
\* was received before it is not.
CreateZaakFirst ==
  \A c \in DOMAIN chain : chain[c].step \in {"running", "sent", "done"} =>
    \A n \in chain[c].todo : IsHead(c, n) =>
      \A m \in DOMAIN notif :
        notif[m].kind = "create:zaak" /\ notif[m].zaak = notif[n].zaak /\ m < n => Handled(m)

\* docs/batching_system.md:250, "Dubbel uitvoeren is onschadelijk": a notification of a batch
\* does not reach Corsa after one that comes later in the batch.
NeverOlderAfterNewer == [][NothingOvertaken]_vars
=============================================================================
