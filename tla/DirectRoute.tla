----------------------------- MODULE DirectRoute ----------------------------
(* The direct route: ProcessDocumentDirectly sends one document, waits for   *)
(* it, or moves its notification to the batch of the zaak.  What the Corsa   *)
(* service answers is left open here (DocumentSync is about that).  All      *)
(* notifications are about one zaak, and of its batches only the lock, the   *)
(* chain and the jobs of the notifications that moved are told apart         *)
(* (Batching is about the rest).                                             *)
EXTENDS Tables, Integers, FiniteSets

CONSTANTS
  Notifications, Batches,  \* identifiers
  Jobs,        \* numbers of jobs
  NoBatch,     \* "not linked to a batch"
  MaxErrors,   \* ProcessDocumentDirectly::ERROR_ATTEMPTS
  MaxWaits,    \* the length of ProcessDocumentDirectly::DOCUMENT_WAIT_SECONDS
  MaxFaults,   \* bound on jobs that break off
  MaxRetries   \* bound on failed jobs retried from Horizon

ASSUME ConstantsAssumption ==
  /\ NoBatch \notin Batches
  /\ Jobs \subseteq Nat
  /\ {MaxErrors, MaxWaits, MaxFaults, MaxRetries} \subseteq Nat /\ MaxErrors > 0

VARIABLES
  notif,    \* table notifications: the ones stored on the direct route
  storing,  \* stored, but their job is not on the queue yet
  jobs,     \* the jobs on the queue, being run, or failed
  stage,    \* the batches of the zaak: how far each of them is
  timer,    \* the batches with a timer in the cache
  chained,  \* the notifications that have a job in the chain of their batch
  faults,   \* jobs that broke off so far: their worker died, or the database failed them
  retries   \* failed jobs that were retried so far

batching == <<stage, timer, chained>>
luck     == <<faults, retries>>
vars     == <<notif, storing, jobs, batching, luck>>

\* A link adds a document to the zaak, a change sends a newer version of it.
NotificationRow == [kind: {"link", "change"}, route: {"direct", "batch"},
                    batch: Batches \cup {NoBatch}, processed: BOOLEAN, failed: BOOLEAN]

\* A job: how often it waited for the document, how many temporary errors it had, whether
\* its time to retry has run out, the batch it moved to, and how far it is.
JobRow == [notif: Notifications, waits: 0..MaxWaits, errors: 0..MaxErrors, expired: BOOLEAN,
           batch: Batches \cup {NoBatch},
           step: {"queued", "running", "sent", "moving", "moved", "done",
                  "failing", "recorded", "failed"}]

\* A batch: not there, open, locked by a DispatchBatch job that has yet to build the chain, with
\* a chain on the queue, with a chain that stopped at a failed job, or locked without a chain.
Stages == {"none", "open", "locked", "chained", "stopped", "stranded"}

\* Notifications of the batch route may have made batches before.
Init ==
  /\ notif = Empty /\ storing = {} /\ jobs = Empty
  /\ stage \in [Batches -> {"none", "open"}]
  /\ timer \in SUBSET {b \in Batches : stage[b] = "open"}
  /\ chained = [b \in Batches |-> {}]
  /\ faults = 0 /\ retries = 0

-----------------------------------------------------------------------------
(* Ingest: IngestNotification::storeDirect. *)

StoreDirect(n, k) ==
  /\ n \notin DOMAIN notif
  /\ notif' = Put(notif, n, [kind |-> k, route |-> "direct", batch |-> NoBatch,
                             processed |-> FALSE, failed |-> FALSE])
  /\ storing' = storing \cup {n}
  /\ UNCHANGED <<jobs, batching, luck>>

\* A job gets a key that none has; which one does not matter.
FreeJobs == Jobs \ DOMAIN jobs
NewJobs == {j \in FreeJobs : \A i \in FreeJobs : j <= i}
NewJob(n, waits) == [notif |-> n, waits |-> waits, errors |-> 0, expired |-> FALSE,
                     batch |-> NoBatch, step |-> "queued"]

DispatchDirect(n) ==
  /\ n \in storing
  /\ \E j \in NewJobs : jobs' = Put(jobs, j, NewJob(n, 0))
  /\ storing' = storing \ {n}
  /\ UNCHANGED <<notif, batching, luck>>

\* The worker dies in between; the ingest has one try.
IngestCrash(n) ==
  /\ faults < MaxFaults
  /\ n \in storing
  /\ storing' = storing \ {n}
  /\ faults' = faults + 1
  /\ UNCHANGED <<notif, jobs, batching, retries>>

-----------------------------------------------------------------------------
(* ProcessDocumentDirectly::handle. *)

At(j, step) == j \in DOMAIN jobs /\ jobs[j].step = step
Kind(j) == notif[jobs[j].notif].kind
GoTo(j, step) == jobs' = [jobs EXCEPT ![j].step = step]

\* Variant: a job is taken however late it is.
StartLate(j) ==
  /\ At(j, "queued")
  /\ LET row == notif[jobs[j].notif]
     IN  GoTo(j, IF row.processed \/ row.route # "direct" THEN "done" ELSE "running")
  /\ UNCHANGED <<notif, storing, batching, luck>>
\* After refresh: a notification that is processed, or that moved, is skipped.
StartJob(j) ==
  /\ At(j, "queued") /\ ~jobs[j].expired
  /\ LET row == notif[jobs[j].notif]
     IN  GoTo(j, IF row.processed \/ row.route # "direct" THEN "done" ELSE "running")
  /\ UNCHANGED <<notif, storing, batching, luck>>

\* The job fails for good, and goes on with RecordFailure.
FailJob(j) == GoTo(j, "failing")

\* Another job sends the document: release, which is no error.
DocumentLocked(j) ==
  /\ At(j, "running")
  /\ GoTo(j, "queued")
  /\ UNCHANGED <<notif, storing, batching, luck>>

\* The service throws an error that may pass, or the database does after it: the worker
\* counts the error and tries again, until it is one too many or too late.
TemporaryError(j) ==
  /\ \E step \in {"running", "sent", "moving"} : At(j, step)
  /\ IF jobs[j].errors + 1 >= MaxErrors \/ jobs[j].expired
     THEN FailJob(j)
     ELSE jobs' = [jobs EXCEPT ![j].errors = @ + 1, ![j].step = "queued"]
  /\ UNCHANGED <<notif, storing, batching, luck>>

PermanentError(j) ==
  /\ At(j, "running")
  /\ FailJob(j)
  /\ UNCHANGED <<notif, storing, batching, luck>>

\* Added, AlreadySynced, Updated, AlreadyUpToDate or PlaceholderKept.
DocumentSent(j) ==
  /\ At(j, "running")
  /\ GoTo(j, "sent")
  /\ UNCHANGED <<notif, storing, batching, luck>>

\* A failure that was recorded is cleared; one that another job recorded after this job
\* read the row stays, because a model writes only the columns it changed.
ClearFailure(row) == {[row EXCEPT !.failed = kept] : kept \in {FALSE, row.failed}}

MarkProcessed(j) ==
  /\ At(j, "sent")
  /\ \E row \in ClearFailure(notif[jobs[j].notif]) :
       notif' = [notif EXCEPT ![jobs[j].notif] = [row EXCEPT !.processed = TRUE]]
  /\ GoTo(j, "done")
  /\ UNCHANGED <<storing, batching, luck>>

\* Variants: the new job is not dispatched; the job is released as well; it waits once more.
WaitForgotten(j) == jobs[j].waits < MaxWaits /\ GoTo(j, "done")
WaitAndRelease(j) ==
  /\ jobs[j].waits < MaxWaits
  /\ \E i \in NewJobs :
       jobs' = [Put(jobs, i, NewJob(jobs[j].notif, jobs[j].waits + 1)) EXCEPT ![j].step = "queued"]
WaitOnceMore(j) ==
  /\ jobs[j].waits <= MaxWaits
  /\ \E i \in NewJobs :
       jobs' = [Put(jobs, i, NewJob(jobs[j].notif, jobs[j].waits + 1)) EXCEPT ![j].step = "done"]
\* waitForDocument while there are waits left: a new job that waited once more.
WaitForDocument(j) ==
  /\ jobs[j].waits < MaxWaits
  /\ \E i \in NewJobs :
       jobs' = [Put(jobs, i, NewJob(jobs[j].notif, jobs[j].waits + 1)) EXCEPT ![j].step = "done"]

\* ZaakNotInCorsa for a link, DocumentNotInCorsa for a change, which waits first.
NotInCorsa(j) ==
  /\ At(j, "running")
  /\ \/ /\ Kind(j) = "link" \/ jobs[j].waits = MaxWaits
        /\ GoTo(j, "moving")
     \/ Kind(j) = "change" /\ WaitForDocument(j)
  /\ UNCHANGED <<notif, storing, batching, luck>>

UploadIncomplete(j) ==
  /\ At(j, "running") /\ Kind(j) = "change"
  /\ WaitForDocument(j) \/ (jobs[j].waits = MaxWaits /\ FailJob(j))
  /\ UNCHANGED <<notif, storing, batching, luck>>

-----------------------------------------------------------------------------
(* moveToBatch. *)

\* Variant: a locked batch is taken as well.
AnyBatch(b) == b \in Batches
\* BatchingService::getOrCreateBatch: an open batch, or a new one, also when another transaction
\* that found none made one too.  Batching shows that it is not locked in between.
OpenBatch(b) == stage[b] \in {"open", "none"}

\* The transaction: find the batch, change the route, link the notification and clear a
\* failure.
MoveToBatch(j) ==
  /\ At(j, "moving")
  /\ \E b \in Batches :
       /\ OpenBatch(b)
       /\ stage' = [stage EXCEPT ![b] = IF @ = "none" THEN "open" ELSE @]
       /\ \E row \in ClearFailure(notif[jobs[j].notif]) :
            notif' = [notif EXCEPT ![jobs[j].notif] = [row EXCEPT !.route = "batch", !.batch = b]]
       /\ jobs' = [jobs EXCEPT ![j].batch = b, ![j].step = "moved"]
  /\ UNCHANGED <<storing, timer, chained, luck>>

\* The notification is linked already, so addNotificationToBatch only resets the timer.
StartTimer(j) ==
  /\ At(j, "moved")
  /\ timer' = timer \cup {jobs[j].batch}
  /\ GoTo(j, "done")
  /\ UNCHANGED <<notif, storing, stage, chained, luck>>

-----------------------------------------------------------------------------
(* The queue: a job is deleted when it is done, refused when its time to     *)
(* retry has run out, run again when its worker died, and retried by hand.   *)

DeleteJob(j) ==
  /\ At(j, "done")
  /\ jobs' = Drop(jobs, j)
  /\ UNCHANGED <<notif, storing, batching, luck>>

\* Variant: without retryUntil.
NoTimeLimit(j) == j \in DOMAIN jobs /\ UNCHANGED vars
\* RETRY_MINUTES after the dispatch.
TimeRunsOut(j) ==
  /\ j \in DOMAIN jobs /\ jobs[j].step \notin {"failing", "recorded", "failed"} /\ ~jobs[j].expired
  /\ jobs' = [jobs EXCEPT ![j].expired = TRUE]
  /\ UNCHANGED <<notif, storing, batching, luck>>

RefuseJob(j) ==
  /\ At(j, "queued") /\ jobs[j].expired
  /\ FailJob(j)
  /\ UNCHANGED <<notif, storing, batching, luck>>

\* failed(), after the job was deleted from the queue; then it is stored among the failed jobs.
RecordFailure(j) ==
  /\ At(j, "failing")
  /\ notif' = [notif EXCEPT ![jobs[j].notif].failed = TRUE]
  /\ GoTo(j, "recorded")
  /\ UNCHANGED <<storing, batching, luck>>

StoreFailedJob(j) ==
  /\ At(j, "recorded")
  /\ GoTo(j, "failed")
  /\ UNCHANGED <<notif, storing, batching, luck>>

\* The worker dies in between, and nothing is left of the job; or failed() throws, and the job is
\* stored without it.
FailureBreaks(j) ==
  /\ faults < MaxFaults
  /\ \/ (At(j, "failing") \/ At(j, "recorded")) /\ jobs' = Drop(jobs, j)
     \/ At(j, "failing") /\ GoTo(j, "failed")
  /\ faults' = faults + 1
  /\ UNCHANGED <<notif, storing, batching, retries>>

\* The worker dies, or is stopped for its time, while it runs a job: the queue hands the job out
\* again, or it fails.
WorkerCrash(j) ==
  /\ faults < MaxFaults
  /\ \E step \in {"running", "sent", "moving", "moved", "done"} : At(j, step)
  /\ GoTo(j, "queued") \/ GoTo(j, "failing")
  /\ faults' = faults + 1
  /\ UNCHANGED <<notif, storing, batching, retries>>

\* A copy of the failed job, with the waits it had.
RetryFailedJob(j) ==
  /\ retries < MaxRetries
  /\ At(j, "failed")
  /\ \E i \in NewJobs : jobs' = Put(jobs, i, NewJob(jobs[j].notif, jobs[j].waits))
  /\ retries' = retries + 1
  /\ UNCHANGED <<notif, storing, batching, faults>>

-----------------------------------------------------------------------------
(* The batch route, as far as it concerns a notification that moved.         *)

TimerExpires(b) ==
  /\ b \in timer
  /\ timer' = timer \ {b}
  /\ UNCHANGED <<notif, storing, jobs, stage, chained, luck>>

\* A batch without a timer is dispatched, and its DispatchBatch job locks it.
LockBatch(b) ==
  /\ stage[b] = "open" /\ b \notin timer
  /\ stage' = [stage EXCEPT ![b] = "locked"]
  /\ UNCHANGED <<notif, storing, jobs, timer, chained, luck>>

Linked(b) == {n \in DOMAIN notif : notif[n].batch = b}

\* The same job reads what is linked to the batch and dispatches the chain.
BuildChain(b) ==
  /\ stage[b] = "locked"
  /\ stage' = [stage EXCEPT ![b] = "chained"]
  /\ chained' = [chained EXCEPT ![b] = Linked(b)]
  /\ UNCHANGED <<notif, storing, jobs, timer, luck>>

\* Its worker dies between the lock and the chain; the job has one try.
DispatchCrash(b) ==
  /\ faults < MaxFaults
  /\ stage[b] = "locked"
  /\ stage' = [stage EXCEPT ![b] = "stranded"]
  /\ faults' = faults + 1
  /\ UNCHANGED <<notif, storing, jobs, timer, chained, retries>>

\* The job in the chain processes its notification or skips it.
RunChained(b, n) ==
  /\ stage[b] = "chained" /\ n \in chained[b]
  /\ \E row \in ClearFailure(notif[n]) : notif' = [notif EXCEPT ![n] = [row EXCEPT !.processed = TRUE]]
  /\ chained' = [chained EXCEPT ![b] = @ \ {n}]
  /\ UNCHANGED <<storing, jobs, stage, timer, luck>>

\* The job in the chain fails, and the chain stops with what is left of it, unless there is a
\* second one.
FailChained(b, n) ==
  /\ stage[b] = "chained" /\ n \in chained[b]
  /\ notif' = [notif EXCEPT ![n].failed = TRUE]
  /\ \/ stage' = [stage EXCEPT ![b] = "stopped"]
     \/ faults + retries > 0 /\ UNCHANGED stage
  /\ UNCHANGED <<storing, jobs, timer, chained, luck>>

\* The job of another notification of the batch fails.
StopChain(b) ==
  /\ stage[b] = "chained"
  /\ stage' = [stage EXCEPT ![b] = "stopped"]
  /\ UNCHANGED <<notif, storing, jobs, timer, chained, luck>>

\* A worker dies that runs a job of the chain: jobs of it are run again, or lost.
ChainCrash(b) ==
  /\ faults < MaxFaults
  /\ stage[b] \in {"chained", "stopped"}
  /\ \E next \in {"chained", "stopped"} : stage' = [stage EXCEPT ![b] = next]
  /\ \E left \in SUBSET (chained[b] \cup Linked(b)) : chained' = [chained EXCEPT ![b] = left]
  /\ faults' = faults + 1
  /\ UNCHANGED <<notif, storing, jobs, timer, retries>>

\* The failed job of the chain is retried, with the rest of the chain.
RetryChained(b) ==
  /\ retries < MaxRetries
  /\ stage[b] = "stopped"
  /\ stage' = [stage EXCEPT ![b] = "chained"]
  /\ retries' = retries + 1
  /\ UNCHANGED <<notif, storing, jobs, timer, chained, faults>>

-----------------------------------------------------------------------------
JobStep(j) ==
  \/ StartJob(j) \/ RefuseJob(j) \/ DocumentLocked(j) \/ TemporaryError(j) \/ PermanentError(j)
  \/ DocumentSent(j) \/ MarkProcessed(j) \/ NotInCorsa(j) \/ UploadIncomplete(j)
  \/ MoveToBatch(j) \/ StartTimer(j) \/ DeleteJob(j) \/ RecordFailure(j) \/ StoreFailedJob(j)
BatchStep(b) ==
  \/ LockBatch(b) \/ BuildChain(b)
  \/ \E n \in Notifications : RunChained(b, n) \/ FailChained(b, n)
BatchTrouble(b) == StopChain(b) \/ DispatchCrash(b) \/ ChainCrash(b) \/ RetryChained(b)

Next ==
  \/ \E n \in Notifications : \/ \E k \in {"link", "change"} : StoreDirect(n, k)
                              \/ DispatchDirect(n) \/ IngestCrash(n)
  \/ \E j \in Jobs : JobStep(j) \/ TimeRunsOut(j) \/ FailureBreaks(j) \/ WorkerCrash(j) \/ RetryFailedJob(j)
  \/ \E b \in Batches : TimerExpires(b) \/ BatchStep(b) \/ BatchTrouble(b)

Spec == Init /\ [][Next]_vars

\* Workers run the jobs on the queue, and time passes.
Fairness ==
  /\ \A n \in Notifications : WF_vars(DispatchDirect(n))
  /\ \A j \in Jobs : WF_vars(JobStep(j)) /\ WF_vars(TimeRunsOut(j))
  /\ \A b \in Batches : WF_vars(TimerExpires(b)) /\ WF_vars(BatchStep(b))

FairSpec == Spec /\ Fairness

-----------------------------------------------------------------------------
(* Properties. *)

\* Every variable holds values of its type: a row has one of the routes, and a job counts no
\* more waits and errors than it may have.
TypeOK ==
  /\ IsTable(notif, Notifications, NotificationRow)
  /\ IsTable(jobs, Jobs, JobRow)
  /\ storing \subseteq Notifications
  /\ stage \in [Batches -> Stages]
  /\ timer \subseteq Batches
  /\ chained \in [Batches -> SUBSET Notifications]
  /\ faults \in Nat /\ retries \in Nat

\* A notification that moved is not left behind in a batch that has no job for it: as long as
\* its batch is open or its chain is being built it is there in time, and then it has a job in the
\* chain, also one that stopped, or was handled.  Only a job that broke off leaves notifications
\* behind, and only those of its own batch: not a second move, and not a batch that closes.
LeftBehind(n) ==
  /\ notif[n].route = "batch" /\ ~notif[n].processed /\ ~notif[n].failed
  /\ stage[notif[n].batch] \notin {"open", "locked"} /\ n \notin chained[notif[n].batch]
MovedGetsAJob ==
  Cardinality({b \in Batches : \E n \in Linked(b) : LeftBehind(n)}) <= faults

\* One live job per notification: waiting in a new job, releasing, moving and retrying never
\* make a second one, unless a job broke off or was retried.
LiveJobs(n) ==
  {j \in DOMAIN jobs : jobs[j].notif = n /\ jobs[j].step \notin {"done", "recorded", "failed"}}
OneJobPerNotification ==
  \A n \in Notifications : Cardinality(LiveJobs(n)) <= 1 + faults + retries

\* A notification on the direct route that is not handled has a job or is shown as failed, but
\* for one that was lost when its ingest broke off between the row and the job, or its job
\* before failed() was done.
Lost(n) ==
  /\ notif[n].route = "direct" /\ ~notif[n].processed /\ ~notif[n].failed
  /\ n \notin storing /\ LiveJobs(n) = {}
LostNeedsFault == Cardinality({n \in DOMAIN notif : Lost(n)}) <= faults

\* How much work a job can still be: attempts it may make, and steps of the one it is at.  A job
\* that is late has no attempt after this one.
JobRank == [failed |-> 0, recorded |-> 1, done |-> 1, failing |-> 2, moved |-> 3, sent |-> 4,
            moving |-> 5, running |-> 6, queued |-> 7]
WorkLeft(row) ==
  9 * (MaxErrors - row.errors) + (IF row.expired THEN 0 ELSE 1)
    + (IF row.expired /\ row.step = "queued" THEN 3 ELSE JobRank[row.step])

\* A job has less work left after each of its steps, down to nothing.  It goes back only when it
\* broke off, or as long as its time has not run out, when another job holds the lock.  A job
\* that makes another one ends, and the other one has waited longer; all other new jobs are of
\* an ingest or of a retry by hand.  So its time to retry bounds the releases of a job, and
\* the number of waits bounds the jobs for a document.
Released(j) ==
  ~jobs[j].expired /\ jobs[j].step = "running" /\ jobs'[j] = [jobs[j] EXCEPT !.step = "queued"]
Follows(i, j) ==
  /\ jobs[j].step = "running" /\ jobs'[j].step = "done"
  /\ jobs'[i].notif = jobs[j].notif /\ jobs'[i].waits > jobs[j].waits
JobsMoveOn ==
  [][/\ \A j \in DOMAIN jobs \cap DOMAIN jobs' :
          \/ jobs'[j] = jobs[j] \/ faults' > faults \/ Released(j)
          \/ WorkLeft(jobs'[j]) \in 0..(WorkLeft(jobs[j]) - 1)
     /\ \A i \in DOMAIN jobs' \ DOMAIN jobs :
          \/ jobs'[i].notif \in storing \ storing' \/ retries' > retries
          \/ \E j \in DOMAIN jobs : Follows(i, j)]_vars

\* However long the lock, the upload, the document or Corsa keep it waiting, and also when jobs
\* break off, between moving a notification and starting the timer of its batch too: a direct
\* notification is processed or shown as failed, here or in the batch it moved to; unless the
\* chain of that batch stopped, or it was lost or left behind.
DirectSettles ==
  \A n \in Notifications : n \in DOMAIN notif ~>
    n \in DOMAIN notif /\ ( \/ notif[n].processed \/ notif[n].failed \/ Lost(n) \/ LeftBehind(n)
                           \/ (notif[n].route = "batch" /\ stage[notif[n].batch] = "stopped") )
=============================================================================
