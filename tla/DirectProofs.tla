---------------------------- MODULE DirectProofs ----------------------------
(* Theorems about DirectRoute, for every value of its constants. *)
EXTENDS DirectImplements, TablesProofs, FiniteSetTheorems

Steps == {"queued", "running", "sent", "moving", "moved", "done", "failing", "recorded", "failed"}

\* Jobs and batches refer to rows that exist, and a job that moved its notification did so.
RefersToRows ==
  /\ storing \subseteq DOMAIN notif
  /\ \A j \in DOMAIN jobs : jobs[j].notif \in DOMAIN notif
  /\ \A j \in DOMAIN jobs : jobs[j].step = "moved" =>
       jobs[j].batch \in Batches /\ notif[jobs[j].notif].route = "batch"
  /\ \A n \in DOMAIN notif : notif[n].route = "batch" => notif[n].batch \in Batches

-----------------------------------------------------------------------------
(* What a step does to the two tables. *)

\* A job goes to another step and is otherwise what it was.
LEMMA GoToJobs ==
  ASSUME TypeOK, NEW j \in DOMAIN jobs, NEW step \in Steps, GoTo(j, step)
  PROVE  /\ IsTable(jobs', Jobs, JobRow)
         /\ DOMAIN jobs' = DOMAIN jobs
         /\ \A i \in DOMAIN jobs : i # j => jobs'[i] = jobs[i]
         /\ jobs'[j].notif = jobs[j].notif /\ jobs'[j].batch = jobs[j].batch /\ jobs'[j].step = step
<1>1. DOMAIN jobs \subseteq Jobs /\ jobs \in [DOMAIN jobs -> JobRow]
  BY DEF TypeOK, IsTable
<1>2. jobs' = [jobs EXCEPT ![j] = [jobs[j] EXCEPT !.step = step]]
  BY DEF GoTo
<1>3. /\ [jobs[j] EXCEPT !.step = step] \in JobRow
      /\ [jobs[j] EXCEPT !.step = step].notif = jobs[j].notif
      /\ [jobs[j] EXCEPT !.step = step].batch = jobs[j].batch
      /\ [jobs[j] EXCEPT !.step = step].step = step
  BY <1>1 DEF JobRow, Steps
<1> QED
  BY <1>1, <1>2, <1>3 DEF IsTable

\* A new job is queued, has its notification, and no batch yet.
LEMMA NewJobRow ==
  ASSUME NEW n \in Notifications, NEW waits \in 0..MaxWaits
  PROVE  /\ NewJob(n, waits) \in JobRow
         /\ NewJob(n, waits).notif = n /\ NewJob(n, waits).step = "queued"
BY ConstantsAssumption DEF NewJob, JobRow

\* Clearing a failure leaves it or takes it away, and keeps the rest of the row.
LEMMA ClearedRow ==
  ASSUME NEW row \in NotificationRow, NEW cleared \in ClearFailure(row)
  PROVE  /\ cleared \in NotificationRow
         /\ cleared.kind = row.kind /\ cleared.route = row.route /\ cleared.batch = row.batch
         /\ cleared.processed = row.processed /\ (cleared.failed => row.failed)
BY DEF ClearFailure, NotificationRow

\* One row of notifications changes.
LEMMA RowChanges ==
  ASSUME IsTable(notif, Notifications, NotificationRow), NEW n, NEW row \in NotificationRow,
         notif' = [notif EXCEPT ![n] = row]
  PROVE  /\ IsTable(notif', Notifications, NotificationRow)
         /\ DOMAIN notif' = DOMAIN notif
         /\ \A m \in DOMAIN notif : notif'[m] = IF m = n THEN row ELSE notif[m]
BY DEF IsTable

\* The row of n is the only one that changes.
OnlyRow(n) ==
  /\ n \in DOMAIN notif /\ DOMAIN notif' = DOMAIN notif
  /\ \A m \in DOMAIN notif : m # n => notif'[m] = notif[m]
RowFails(n) ==
  /\ OnlyRow(n)
  /\ notif'[n].failed /\ notif'[n].processed = notif[n].processed
  /\ notif'[n].route = notif[n].route /\ notif'[n].batch = notif[n].batch
RowProcessed(n) ==
  /\ OnlyRow(n)
  /\ notif'[n].processed /\ (notif'[n].failed => notif[n].failed)
  /\ notif'[n].route = notif[n].route /\ notif'[n].batch = notif[n].batch
\* Every row stays on its route and in its batch.
PlacesKept ==
  /\ IsTable(notif', Notifications, NotificationRow)
  /\ DOMAIN notif' = DOMAIN notif
  /\ \A m \in DOMAIN notif : notif'[m].route = notif[m].route /\ notif'[m].batch = notif[m].batch

\* One row becomes processed.
LEMMA ProcessedRow ==
  ASSUME TypeOK, NEW n \in DOMAIN notif, NEW cleared \in ClearFailure(notif[n]),
         notif' = [notif EXCEPT ![n] = [cleared EXCEPT !.processed = TRUE]]
  PROVE  RowProcessed(n) /\ PlacesKept
<1> DEFINE row == [cleared EXCEPT !.processed = TRUE]
<1>1. notif[n] \in NotificationRow
  BY RowOfTable DEF TypeOK
<1>2. /\ cleared \in NotificationRow /\ (cleared.failed => notif[n].failed)
      /\ cleared.route = notif[n].route /\ cleared.batch = notif[n].batch
  BY <1>1, ClearedRow
<1>3. /\ row \in NotificationRow /\ row.processed /\ row.failed = cleared.failed
      /\ row.route = cleared.route /\ row.batch = cleared.batch
  BY <1>2 DEF NotificationRow
<1>4. notif' = [notif EXCEPT ![n] = row]
  OBVIOUS
<1> HIDE DEF row
<1>5. /\ IsTable(notif', Notifications, NotificationRow)
      /\ DOMAIN notif' = DOMAIN notif /\ notif'[n] = row
      /\ \A m \in DOMAIN notif : m # n => notif'[m] = notif[m]
  BY <1>3, <1>4, RowChanges DEF TypeOK
<1> QED
  BY <1>2, <1>3, <1>5 DEF RowProcessed, OnlyRow, PlacesKept

\* A row that is marked as failed.
LEMMA FailedRow ==
  ASSUME TypeOK, NEW n \in DOMAIN notif, notif' = [notif EXCEPT ![n].failed = TRUE]
  PROVE  RowFails(n) /\ PlacesKept
<1> DEFINE row == [notif[n] EXCEPT !.failed = TRUE]
<1>1. notif[n] \in NotificationRow
  BY RowOfTable DEF TypeOK
<1>2. /\ row \in NotificationRow /\ row.failed /\ row.processed = notif[n].processed
      /\ row.route = notif[n].route /\ row.batch = notif[n].batch
  BY <1>1 DEF NotificationRow
<1>3. notif' = [notif EXCEPT ![n] = row]
  OBVIOUS
<1> HIDE DEF row
<1>4. /\ IsTable(notif', Notifications, NotificationRow)
      /\ DOMAIN notif' = DOMAIN notif /\ notif'[n] = row
      /\ \A m \in DOMAIN notif : m # n => notif'[m] = notif[m]
  BY <1>2, <1>3, RowChanges DEF TypeOK
<1> QED
  BY <1>2, <1>4 DEF RowFails, OnlyRow, PlacesKept

\* A change of a row that is not there changes nothing.
LEMMA NoRow ==
  ASSUME TypeOK, NEW n, n \notin DOMAIN notif, NEW row, notif' = [notif EXCEPT ![n] = row]
  PROVE  notif' = notif
BY DEF TypeOK, IsTable

\* What is there when no row changes.
LEMMA SameRows ==
  ASSUME TypeOK, notif' = notif
  PROVE  PlacesKept
BY DEF TypeOK, PlacesKept

\* What the job of a chain does to its row.
LEMMA ChainedRow ==
  ASSUME TypeOK, NEW n, NEW b, RunChained(b, n) \/ FailChained(b, n)
  PROVE  /\ PlacesKept
         /\ RunChained(b, n) => RowProcessed(n) \/ (n \notin DOMAIN notif /\ notif' = notif)
         /\ FailChained(b, n) => RowFails(n) \/ (n \notin DOMAIN notif /\ notif' = notif)
<1>1. CASE n \in DOMAIN notif
  <2>1. ASSUME RunChained(b, n) PROVE PlacesKept /\ RowProcessed(n)
    BY <1>1, <2>1, ProcessedRow DEF RunChained
  <2>2. ASSUME FailChained(b, n) PROVE PlacesKept /\ RowFails(n)
    BY <1>1, <2>2, FailedRow DEF FailChained
  <2> QED
    BY <2>1, <2>2
<1>2. CASE n \notin DOMAIN notif
  <2>1. \E row : notif' = [notif EXCEPT ![n] = row]
    BY DEF RunChained, FailChained
  <2> QED
    BY <1>2, <2>1, NoRow, SameRows
<1> QED
  BY <1>1, <1>2

-----------------------------------------------------------------------------
(* The invariant: types and references. *)

DirectInv == TypeOK /\ RefersToRows

\* At first there are no rows and no jobs.
LEMMA InitDirectInv == Init => DirectInv
<1> SUFFICES ASSUME Init PROVE DirectInv
  OBVIOUS
<1>1. TypeOK
  BY EmptyIsTable DEF Init, TypeOK, Stages
<1>2. DOMAIN notif = {} /\ DOMAIN jobs = {} /\ storing = {}
  BY DEF Init, Empty
<1> QED
  BY <1>1, <1>2 DEF DirectInv, RefersToRows

\* What a job refers to.
RefersToRow(job) ==
  /\ job.notif \in DOMAIN notif
  /\ job.step = "moved" => job.batch \in Batches /\ notif[job.notif].route = "batch"

\* A step of a job that keeps every row in its place.
LEMMA RowsStay ==
  ASSUME DirectInv, PlacesKept, storing' \subseteq storing, UNCHANGED <<stage, timer, chained>>,
         IsTable(jobs', Jobs, JobRow), faults' \in Nat, retries' \in Nat,
         \A j \in DOMAIN jobs' : RefersToRow(jobs'[j])
  PROVE  DirectInv'
<1>1. TypeOK'
  BY DEF DirectInv, TypeOK, PlacesKept
<1>2. RefersToRows'
  BY DEF DirectInv, TypeOK, RefersToRows, RefersToRow, PlacesKept
<1> QED
  BY <1>1, <1>2 DEF DirectInv

\* A step of a batch does so too.
LEMMA BatchesChange ==
  ASSUME DirectInv, PlacesKept, UNCHANGED <<storing, jobs>>, stage' \in [Batches -> Stages],
         timer' \subseteq Batches, chained' \in [Batches -> SUBSET Notifications],
         faults' \in Nat, retries' \in Nat
  PROVE  DirectInv'
<1>1. TypeOK'
  BY DEF DirectInv, TypeOK, PlacesKept
<1>2. RefersToRows'
  BY DEF DirectInv, RefersToRows, PlacesKept
<1> QED
  BY <1>1, <1>2 DEF DirectInv

\* One job moves on, to no step that says its notification moved.
LEMMA OneJobMoves ==
  ASSUME DirectInv, NEW j \in DOMAIN jobs, NEW step \in Steps \ {"moved"}, GoTo(j, step), PlacesKept,
         UNCHANGED <<storing, stage, timer, chained>>, faults' \in Nat, retries' \in Nat
  PROVE  DirectInv'
<1>1. /\ IsTable(jobs', Jobs, JobRow) /\ DOMAIN jobs' = DOMAIN jobs
      /\ \A i \in DOMAIN jobs : i # j => jobs'[i] = jobs[i]
      /\ jobs'[j].notif = jobs[j].notif /\ jobs'[j].step = step
  BY GoToJobs DEF DirectInv
<1>2. \A i \in DOMAIN jobs' : RefersToRow(jobs'[i])
  BY <1>1 DEF DirectInv, RefersToRows, RefersToRow
<1> QED
  BY <1>1, <1>2, RowsStay

\* A job that is new is about a row that exists.
LEMMA NewJobJoins ==
  ASSUME DirectInv, NEW n \in DOMAIN notif, NEW waits \in 0..MaxWaits,
         NEW i \in Jobs \ DOMAIN jobs, jobs' = Put(jobs, i, NewJob(n, waits)),
         UNCHANGED <<notif, stage, timer, chained>>, storing' \subseteq storing,
         faults' \in Nat, retries' \in Nat
  PROVE  DirectInv'
<1>1. NewJob(n, waits) \in JobRow /\ NewJob(n, waits).notif = n /\ NewJob(n, waits).step = "queued"
  BY NewJobRow, RowOfTable DEF DirectInv, TypeOK
<1>2. IsTable(jobs', Jobs, JobRow)
  BY <1>1, PutIsTable DEF DirectInv, TypeOK
<1>3. DOMAIN jobs' = DOMAIN jobs \cup {i} /\ \A j \in DOMAIN jobs' : jobs'[j] = IF j = i THEN NewJob(n, waits) ELSE jobs[j]
  BY DEF Put
<1>4. \A j \in DOMAIN jobs' : RefersToRow(jobs'[j])
  BY <1>1, <1>3 DEF DirectInv, RefersToRows, RefersToRow
<1>5. PlacesKept
  BY SameRows DEF DirectInv
<1> QED
  BY <1>2, <1>4, <1>5, RowsStay

\* A job that waits is replaced by a new one.
LEMMA WaitJobs ==
  ASSUME DirectInv, NEW j \in DOMAIN jobs, WaitForDocument(j)
  PROVE  /\ IsTable(jobs', Jobs, JobRow)
         /\ \E i \in Jobs \ DOMAIN jobs :
              /\ DOMAIN jobs' = DOMAIN jobs \cup {i}
              /\ jobs'[i].notif = jobs[j].notif /\ jobs'[i].step = "queued"
              /\ jobs'[j].notif = jobs[j].notif /\ jobs'[j].step = "done"
              /\ \A k \in DOMAIN jobs : k # j => jobs'[k] = jobs[k]
<1> DEFINE new == NewJob(jobs[j].notif, jobs[j].waits + 1)
           done == [jobs[j] EXCEPT !.step = "done"]
<1>1. jobs[j] \in JobRow /\ DOMAIN jobs \subseteq Jobs /\ jobs \in [DOMAIN jobs -> JobRow]
  BY RowOfTable DEF DirectInv, TypeOK, IsTable
<1>2. jobs[j].notif \in Notifications /\ jobs[j].waits + 1 \in 0..MaxWaits
  BY <1>1, ConstantsAssumption DEF JobRow, WaitForDocument
<1>3. new \in JobRow /\ new.notif = jobs[j].notif /\ new.step = "queued"
  BY <1>2, NewJobRow
<1>4. done \in JobRow /\ done.notif = jobs[j].notif /\ done.step = "done"
  BY <1>1 DEF JobRow
<1>5. PICK i \in Jobs \ DOMAIN jobs : jobs' = [Put(jobs, i, new) EXCEPT ![j].step = "done"]
  BY DEF WaitForDocument, NewJobs, FreeJobs
<1>6. jobs' = [k \in DOMAIN jobs \cup {i} |-> IF k = j THEN done ELSE IF k = i THEN new ELSE jobs[k]]
  BY <1>5 DEF Put
<1> HIDE DEF new, done
<1>7. IsTable(jobs', Jobs, JobRow)
  BY <1>1, <1>3, <1>4, <1>6 DEF IsTable
<1> QED
  BY <1>3, <1>4, <1>6, <1>7

\* A job that waits is done, and makes a new one for the same notification.
LEMMA JobWaits ==
  ASSUME DirectInv, NEW j \in DOMAIN jobs, WaitForDocument(j), UNCHANGED <<notif, storing, batching, luck>>
  PROVE  DirectInv'
<1>1. /\ UNCHANGED <<storing, stage, timer, chained>> /\ PlacesKept /\ faults' \in Nat /\ retries' \in Nat
      /\ IsTable(jobs', Jobs, JobRow)
  BY SameRows, WaitJobs DEF batching, luck, DirectInv, TypeOK
<1>2. \A i \in DOMAIN jobs' : RefersToRow(jobs'[i])
  <2>1. PICK k \in Jobs \ DOMAIN jobs :
          /\ DOMAIN jobs' = DOMAIN jobs \cup {k}
          /\ jobs'[k].notif = jobs[j].notif /\ jobs'[k].step = "queued"
          /\ jobs'[j].notif = jobs[j].notif /\ jobs'[j].step = "done"
          /\ \A l \in DOMAIN jobs : l # j => jobs'[l] = jobs[l]
    BY WaitJobs
  <2> QED
    BY <2>1 DEF DirectInv, RefersToRows, RefersToRow
<1> QED
  BY <1>1, <1>2, RowsStay

\* The document was sent and its notification becomes processed, on whichever route it is now.
LEMMA MarkProcessedKeepsInv ==
  ASSUME DirectInv, NEW j \in Jobs, MarkProcessed(j)
  PROVE  DirectInv' /\ RowProcessed(jobs[j].notif)
<1>1. /\ j \in DOMAIN jobs /\ jobs[j].notif \in DOMAIN notif /\ GoTo(j, "done")
      /\ UNCHANGED <<storing, stage, timer, chained, faults, retries>>
  BY DEF MarkProcessed, At, DirectInv, RefersToRows, batching, luck
<1>2. RowProcessed(jobs[j].notif) /\ PlacesKept
  BY <1>1, ProcessedRow DEF MarkProcessed, DirectInv
<1> QED
  BY <1>1, <1>2, OneJobMoves DEF DirectInv, TypeOK, Steps

\* The job that failed marks its notification.
LEMMA RecordKeepsInv ==
  ASSUME DirectInv, NEW j \in Jobs, RecordFailure(j)
  PROVE  DirectInv' /\ RowFails(jobs[j].notif)
<1>1. /\ j \in DOMAIN jobs /\ jobs[j].notif \in DOMAIN notif /\ GoTo(j, "recorded")
      /\ UNCHANGED <<storing, stage, timer, chained, faults, retries>>
  BY DEF RecordFailure, At, DirectInv, RefersToRows, batching, luck
<1>2. RowFails(jobs[j].notif) /\ PlacesKept
  BY <1>1, FailedRow DEF RecordFailure, DirectInv
<1> QED
  BY <1>1, <1>2, OneJobMoves DEF DirectInv, TypeOK, Steps

\* The row of n moves to a batch that is open, or that is made for it.
RowMoves(n, b) ==
  /\ OnlyRow(n) /\ OpenBatch(b) /\ b \in Batches
  /\ notif'[n].processed = notif[n].processed /\ (notif'[n].failed => notif[n].failed)
  /\ notif'[n].route = "batch" /\ notif'[n].batch = b
  /\ stage' = [stage EXCEPT ![b] = "open"]

\* moveToBatch puts the notification in a batch that is open.
LEMMA MoveToBatchKeepsInv ==
  ASSUME DirectInv, NEW j \in Jobs, MoveToBatch(j)
  PROVE  /\ DirectInv'
         /\ \E b \in Batches : RowMoves(jobs[j].notif, b)
         /\ DOMAIN jobs' = DOMAIN jobs /\ \A i \in DOMAIN jobs : i # j => jobs'[i] = jobs[i]
         /\ jobs'[j].notif = jobs[j].notif /\ jobs'[j].step = "moved"
<1> DEFINE n == jobs[j].notif
<1>1. /\ j \in DOMAIN jobs /\ n \in DOMAIN notif /\ notif[n] \in NotificationRow
      /\ DOMAIN jobs \subseteq Jobs /\ jobs \in [DOMAIN jobs -> JobRow]
  BY RowOfTable DEF MoveToBatch, At, DirectInv, RefersToRows, TypeOK, IsTable
<1>2. PICK b \in Batches :
        /\ OpenBatch(b)
        /\ stage' = [stage EXCEPT ![b] = IF @ = "none" THEN "open" ELSE @]
        /\ \E cleared \in ClearFailure(notif[n]) :
             notif' = [notif EXCEPT ![n] = [cleared EXCEPT !.route = "batch", !.batch = b]]
        /\ jobs' = [jobs EXCEPT ![j].batch = b, ![j].step = "moved"]
  BY DEF MoveToBatch
<1>3. PICK cleared \in ClearFailure(notif[n]) :
        notif' = [notif EXCEPT ![n] = [cleared EXCEPT !.route = "batch", !.batch = b]]
  BY <1>2
<1> DEFINE row == [cleared EXCEPT !.route = "batch", !.batch = b]
           job == [jobs[j] EXCEPT !.batch = b, !.step = "moved"]
<1>4. /\ cleared \in NotificationRow /\ (cleared.failed => notif[n].failed)
      /\ cleared.processed = notif[n].processed
  BY <1>1, ClearedRow
<1>5. /\ row \in NotificationRow /\ row.route = "batch" /\ row.batch = b
      /\ row.failed = cleared.failed /\ row.processed = cleared.processed
  BY <1>4 DEF NotificationRow
<1>6. job \in JobRow /\ job.notif = n /\ job.batch = b /\ job.step = "moved"
  BY <1>1 DEF JobRow
<1>7. notif' = [notif EXCEPT ![n] = row] /\ jobs' = [jobs EXCEPT ![j] = job]
  BY <1>1, <1>2, <1>3
<1> HIDE DEF row, job
<1>8. stage' = [stage EXCEPT ![b] = "open"] /\ stage' \in [Batches -> Stages]
  BY <1>2 DEF OpenBatch, DirectInv, TypeOK, Stages
<1>9. /\ IsTable(notif', Notifications, NotificationRow) /\ DOMAIN notif' = DOMAIN notif
      /\ \A m \in DOMAIN notif : notif'[m] = IF m = n THEN row ELSE notif[m]
  BY <1>5, <1>7, RowChanges DEF DirectInv, TypeOK
<1>10. /\ IsTable(jobs', Jobs, JobRow) /\ DOMAIN jobs' = DOMAIN jobs
       /\ \A i \in DOMAIN jobs : jobs'[i] = IF i = j THEN job ELSE jobs[i]
  BY <1>1, <1>6, <1>7 DEF IsTable
<1>11. UNCHANGED <<storing, timer, chained, faults, retries>>
  BY DEF MoveToBatch, luck
<1>12. TypeOK'
  BY <1>8, <1>9, <1>10, <1>11 DEF DirectInv, TypeOK
<1>13. RefersToRows'
  BY <1>1, <1>5, <1>6, <1>9, <1>10, <1>11 DEF DirectInv, RefersToRows
<1>14. RowMoves(n, b)
  BY <1>1, <1>2, <1>4, <1>5, <1>8, <1>9 DEF RowMoves, OnlyRow
<1> QED
  BY <1>1, <1>6, <1>10, <1>12, <1>13, <1>14 DEF DirectInv

\* A row that is stored is on the direct route.
LEMMA StoreDirectKeepsInv ==
  ASSUME DirectInv, NEW n \in Notifications, NEW k \in {"link", "change"}, StoreDirect(n, k)
  PROVE  DirectInv'
<1> DEFINE row == [kind |-> k, route |-> "direct", batch |-> NoBatch, processed |-> FALSE, failed |-> FALSE]
<1>1. /\ n \notin DOMAIN notif /\ notif' = Put(notif, n, row) /\ storing' = storing \cup {n}
      /\ UNCHANGED <<jobs, stage, timer, chained, faults, retries>>
  BY DEF StoreDirect, batching, luck
<1>2. row \in NotificationRow /\ row.route = "direct"
  BY DEF NotificationRow
<1>3. IsTable(notif', Notifications, NotificationRow)
  BY <1>1, <1>2, PutIsTable DEF DirectInv, TypeOK
<1>4. /\ DOMAIN notif' = DOMAIN notif \cup {n}
      /\ \A m \in DOMAIN notif : notif'[m] = notif[m]
      /\ notif'[n].route = "direct"
  BY <1>1, <1>2 DEF Put
<1> QED
  BY <1>1, <1>3, <1>4 DEF DirectInv, TypeOK, RefersToRows

\* A job that fails for good.
LEMMA JobFails ==
  ASSUME DirectInv, NEW j \in DOMAIN jobs, FailJob(j), UNCHANGED <<notif, storing, batching, luck>>
  PROVE  DirectInv'
BY OneJobMoves, SameRows DEF FailJob, Steps, batching, luck, DirectInv, TypeOK

\* The worker counts an error and tries again.
LEMMA RetryKeepsInv ==
  ASSUME DirectInv, NEW j \in Jobs, TemporaryError(j)
  PROVE  DirectInv'
<1>1. j \in DOMAIN jobs /\ UNCHANGED <<notif, storing, batching, luck>>
  BY DEF TemporaryError, At
<1>2. CASE jobs[j].errors + 1 >= MaxErrors \/ jobs[j].expired
  BY <1>1, <1>2, JobFails DEF TemporaryError
<1>3. CASE ~(jobs[j].errors + 1 >= MaxErrors \/ jobs[j].expired)
  <2> DEFINE job == [jobs[j] EXCEPT !.errors = jobs[j].errors + 1, !.step = "queued"]
  <2>1. jobs[j] \in JobRow /\ DOMAIN jobs \subseteq Jobs /\ jobs \in [DOMAIN jobs -> JobRow]
    BY <1>1, RowOfTable DEF DirectInv, TypeOK, IsTable
  <2>2. jobs' = [jobs EXCEPT ![j] = job]
    BY <1>1, <1>3 DEF TemporaryError
  <2>3. jobs[j].errors + 1 \in 0..MaxErrors
    BY <1>3, <2>1, ConstantsAssumption DEF JobRow
  <2>4. job \in JobRow /\ job.notif = jobs[j].notif /\ job.step = "queued"
    BY <2>1, <2>3 DEF JobRow
  <2> HIDE DEF job
  <2>5. /\ IsTable(jobs', Jobs, JobRow) /\ DOMAIN jobs' = DOMAIN jobs
        /\ \A i \in DOMAIN jobs : jobs'[i] = IF i = j THEN job ELSE jobs[i]
    BY <2>1, <2>2, <2>4 DEF IsTable
  <2>6. UNCHANGED <<notif, storing, stage, timer, chained, faults, retries>>
    BY <1>1 DEF batching, luck
  <2>7. \A i \in DOMAIN jobs' : RefersToRow(jobs'[i])
    BY <1>1, <2>4, <2>5 DEF DirectInv, RefersToRows, RefersToRow
  <2> QED
    BY <2>5, <2>6, <2>7, RowsStay, SameRows DEF DirectInv, TypeOK
<1> QED
  BY <1>2, <1>3

\* A job that waits for its time to run out, or is gone, changes nothing else.
LEMMA TimeRunsOutKeepsInv ==
  ASSUME DirectInv, NEW j \in Jobs, TimeRunsOut(j)
  PROVE  DirectInv'
<1> DEFINE job == [jobs[j] EXCEPT !.expired = TRUE]
<1>1. /\ j \in DOMAIN jobs /\ jobs[j] \in JobRow
      /\ DOMAIN jobs \subseteq Jobs /\ jobs \in [DOMAIN jobs -> JobRow]
  BY RowOfTable DEF TimeRunsOut, DirectInv, TypeOK, IsTable
<1>2. jobs' = [jobs EXCEPT ![j] = job]
      /\ UNCHANGED <<notif, storing, stage, timer, chained, faults, retries>>
  BY <1>1 DEF TimeRunsOut, batching, luck
<1>3. /\ job \in JobRow /\ job.notif = jobs[j].notif /\ job.step = jobs[j].step
      /\ job.batch = jobs[j].batch
  BY <1>1 DEF JobRow
<1> HIDE DEF job
<1>4. /\ IsTable(jobs', Jobs, JobRow) /\ DOMAIN jobs' = DOMAIN jobs
      /\ \A i \in DOMAIN jobs : jobs'[i] = IF i = j THEN job ELSE jobs[i]
  BY <1>1, <1>2, <1>3 DEF IsTable
<1>5. \A i \in DOMAIN jobs' : RefersToRow(jobs'[i])
  BY <1>1, <1>3, <1>4 DEF DirectInv, RefersToRows, RefersToRow
<1> QED
  BY <1>2, <1>4, <1>5, RowsStay, SameRows DEF DirectInv, TypeOK

\* A job that is gone takes its references with it.
LEMMA DropKeepsInv ==
  ASSUME DirectInv, NEW j \in Jobs, jobs' = Drop(jobs, j),
         UNCHANGED <<notif, storing, stage, timer, chained>>, faults' \in Nat, retries' \in Nat
  PROVE  DirectInv'
<1>1. IsTable(jobs', Jobs, JobRow)
  BY DropIsTable DEF DirectInv, TypeOK
<1>2. DOMAIN jobs' \subseteq DOMAIN jobs /\ \A i \in DOMAIN jobs' : jobs'[i] = jobs[i]
  BY DEF Drop
<1>3. \A i \in DOMAIN jobs' : RefersToRow(jobs'[i])
  BY <1>2 DEF DirectInv, RefersToRows, RefersToRow
<1> QED
  BY <1>1, <1>3, RowsStay, SameRows DEF DirectInv

\* The steps of a job that are not about its waits, errors or batch only move it on.
LEMMA JobStepKeepsInv ==
  ASSUME DirectInv, NEW j \in Jobs, JobStep(j)
  PROVE  DirectInv'
<1>n. faults \in Nat /\ retries \in Nat /\ (notif' = notif => PlacesKept)
  BY SameRows DEF DirectInv, TypeOK
<1>1. CASE StartJob(j)
  <2>1. j \in DOMAIN jobs /\ UNCHANGED <<notif, storing, stage, timer, chained, faults, retries>>
    BY <1>1 DEF StartJob, At, batching, luck
  <2>2. PICK step \in Steps \ {"moved"} : GoTo(j, step)
    BY <1>1 DEF StartJob, Steps
  <2> QED
    BY <1>n, <2>1, <2>2, OneJobMoves
<1>2. CASE DocumentLocked(j) \/ DocumentSent(j) \/ StoreFailedJob(j)
  <2>1. j \in DOMAIN jobs /\ UNCHANGED <<notif, storing, stage, timer, chained, faults, retries>>
    BY <1>2 DEF DocumentLocked, DocumentSent, StoreFailedJob, At, batching, luck
  <2>2. PICK step \in Steps \ {"moved"} : GoTo(j, step)
    BY <1>2 DEF DocumentLocked, DocumentSent, StoreFailedJob, Steps
  <2> QED
    BY <1>n, <2>1, <2>2, OneJobMoves
<1>3. CASE RefuseJob(j) \/ PermanentError(j)
  BY <1>3, JobFails DEF RefuseJob, PermanentError, At
<1>4. CASE TemporaryError(j)
  BY <1>4, RetryKeepsInv
<1>5. CASE MarkProcessed(j)
  BY <1>5, MarkProcessedKeepsInv
<1>6. CASE NotInCorsa(j) \/ UploadIncomplete(j)
  <2>1. j \in DOMAIN jobs /\ UNCHANGED <<notif, storing, batching, luck>>
        /\ (WaitForDocument(j) \/ GoTo(j, "moving") \/ FailJob(j))
    BY <1>6 DEF NotInCorsa, UploadIncomplete, At
  <2>2. CASE WaitForDocument(j)
    BY <2>1, <2>2, JobWaits
  <2>3. CASE GoTo(j, "moving")
    <3>1. UNCHANGED <<notif, storing, stage, timer, chained, faults, retries>>
      BY <2>1 DEF batching, luck
    <3> QED
      BY <1>n, <2>1, <2>3, <3>1, OneJobMoves DEF Steps
  <2>4. CASE FailJob(j)
    BY <2>1, <2>4, JobFails
  <2> QED
    BY <2>1, <2>2, <2>3, <2>4
<1>7. CASE RecordFailure(j)
  BY <1>7, RecordKeepsInv
<1>8. CASE MoveToBatch(j)
  BY <1>8, MoveToBatchKeepsInv
<1>9. CASE StartTimer(j)
  <2>1. /\ j \in DOMAIN jobs /\ GoTo(j, "done") /\ timer' = timer \cup {jobs[j].batch}
        /\ UNCHANGED <<notif, storing, stage, chained, faults, retries>>
    BY <1>9 DEF StartTimer, At, luck
  <2>2. timer' \subseteq Batches
    BY <1>9, <2>1 DEF StartTimer, At, DirectInv, TypeOK, RefersToRows
  <2>3. /\ IsTable(jobs', Jobs, JobRow) /\ DOMAIN jobs' = DOMAIN jobs
        /\ \A i \in DOMAIN jobs : i # j => jobs'[i] = jobs[i]
        /\ jobs'[j].notif = jobs[j].notif /\ jobs'[j].step = "done"
    BY <2>1, GoToJobs DEF DirectInv, Steps
  <2> QED
    BY <2>1, <2>2, <2>3 DEF DirectInv, TypeOK, RefersToRows
<1>10. CASE DeleteJob(j)
  BY <1>n, <1>10, DropKeepsInv DEF DeleteJob, batching, luck
<1> QED
  BY <1>1, <1>2, <1>3, <1>4, <1>5, <1>6, <1>7, <1>8, <1>9, <1>10 DEF JobStep

\* So does what a fault or a retry does to it.
LEMMA JobTroubleKeepsInv ==
  ASSUME DirectInv, NEW j \in Jobs, FailureBreaks(j) \/ WorkerCrash(j) \/ RetryFailedJob(j)
  PROVE  DirectInv'
<1>1. /\ j \in DOMAIN jobs /\ UNCHANGED <<notif, storing, stage, timer, chained>>
      /\ faults' \in Nat /\ retries' \in Nat /\ PlacesKept
  BY SameRows DEF FailureBreaks, WorkerCrash, RetryFailedJob, At, batching, DirectInv, TypeOK
<1>2. CASE FailureBreaks(j)
  <2>1. CASE jobs' = Drop(jobs, j)
    BY <1>1, <2>1, DropKeepsInv
  <2>2. CASE GoTo(j, "failed")
    BY <1>1, <2>2, OneJobMoves DEF Steps
  <2> QED
    BY <1>2, <2>1, <2>2 DEF FailureBreaks
<1>3. CASE WorkerCrash(j)
  <2>1. PICK step \in Steps \ {"moved"} : GoTo(j, step)
    BY <1>3 DEF WorkerCrash, Steps
  <2> QED
    BY <1>1, <2>1, OneJobMoves
<1>4. CASE RetryFailedJob(j)
  <2>1. jobs[j].notif \in DOMAIN notif /\ jobs[j].waits \in 0..MaxWaits
    <3>1. jobs[j] \in JobRow
      BY <1>1, RowOfTable DEF DirectInv, TypeOK
    <3> QED
      BY <1>1, <3>1 DEF DirectInv, RefersToRows, JobRow
  <2>2. PICK i \in Jobs \ DOMAIN jobs : jobs' = Put(jobs, i, NewJob(jobs[j].notif, jobs[j].waits))
    BY <1>4 DEF RetryFailedJob, NewJobs, FreeJobs
  <2> QED
    BY <1>1, <2>1, <2>2, NewJobJoins
<1> QED
  BY <1>2, <1>3, <1>4

\* A batch only changes its stage, its timer and its chain, and the rows its chain handles.
LEMMA BatchKeepsInv ==
  ASSUME DirectInv, NEW b \in Batches, TimerExpires(b) \/ BatchStep(b) \/ BatchTrouble(b)
  PROVE  DirectInv' /\ UNCHANGED <<storing, jobs>>
<1>1. /\ TypeOK /\ stage \in [Batches -> Stages] /\ timer \subseteq Batches
      /\ chained \in [Batches -> SUBSET Notifications] /\ faults \in Nat /\ retries \in Nat
  BY DEF DirectInv, TypeOK
<1>2. Linked(b) \subseteq Notifications
  BY DEF Linked, DirectInv, TypeOK, IsTable
<1>3. notif' = notif => PlacesKept
  BY <1>1, SameRows
<1>4. CASE TimerExpires(b)
  BY <1>1, <1>3, <1>4, BatchesChange DEF TimerExpires, luck
<1>5. CASE LockBatch(b) \/ StopChain(b)
  <2>1. UNCHANGED <<notif, storing, jobs, timer, chained, faults, retries>> /\ stage' \in [Batches -> Stages]
    BY <1>1, <1>5 DEF LockBatch, StopChain, Stages, luck
  <2> QED
    BY <1>1, <1>3, <2>1, BatchesChange
<1>6. CASE BuildChain(b)
  <2>1. /\ UNCHANGED <<notif, storing, jobs, timer, faults, retries>> /\ stage' \in [Batches -> Stages]
        /\ chained' \in [Batches -> SUBSET Notifications]
    BY <1>1, <1>2, <1>6 DEF BuildChain, Stages, luck
  <2> QED
    BY <1>1, <1>3, <2>1, BatchesChange
<1>7. CASE DispatchCrash(b) \/ RetryChained(b)
  <2>1. /\ UNCHANGED <<notif, storing, jobs, timer, chained>> /\ stage' \in [Batches -> Stages]
        /\ faults' \in Nat /\ retries' \in Nat
    BY <1>1, <1>7 DEF DispatchCrash, RetryChained, Stages
  <2> QED
    BY <1>1, <1>3, <2>1, BatchesChange
<1>8. CASE ChainCrash(b)
  <2>1. UNCHANGED <<notif, storing, jobs, timer, retries>> /\ faults' \in Nat
    BY <1>1, <1>8 DEF ChainCrash
  <2>2. stage' \in [Batches -> Stages]
    BY <1>1, <1>8 DEF ChainCrash, Stages
  <2>3. chained' \in [Batches -> SUBSET Notifications]
    <3>1. PICK left \in SUBSET (chained[b] \cup Linked(b)) : chained' = [chained EXCEPT ![b] = left]
      BY <1>8 DEF ChainCrash
    <3>2. left \in SUBSET Notifications
      BY <1>1, <1>2
    <3> QED
      BY <1>1, <3>1, <3>2
  <2> QED
    BY <1>1, <1>3, <2>1, <2>2, <2>3, BatchesChange
<1>9. ASSUME NEW n \in Notifications, RunChained(b, n) \/ FailChained(b, n)
      PROVE  DirectInv' /\ UNCHANGED <<storing, jobs>>
  <2>1. UNCHANGED <<storing, jobs, timer, faults, retries>> /\ PlacesKept
    BY <1>1, <1>9, ChainedRow DEF RunChained, FailChained, luck
  <2>2. stage' \in [Batches -> Stages] /\ chained' \in [Batches -> SUBSET Notifications]
    BY <1>1, <1>9 DEF RunChained, FailChained, Stages
  <2> QED
    BY <1>1, <2>1, <2>2, BatchesChange
<1> QED
  BY <1>4, <1>5, <1>6, <1>7, <1>8, <1>9 DEF BatchStep, BatchTrouble

\* The invariant is inductive.
LEMMA StepDirectInv == DirectInv /\ [Next]_vars => DirectInv'
<1> SUFFICES ASSUME DirectInv, [Next]_vars PROVE DirectInv'
  OBVIOUS
<1>1. ASSUME NEW n \in Notifications, NEW k \in {"link", "change"}, StoreDirect(n, k) PROVE DirectInv'
  BY <1>1, StoreDirectKeepsInv
<1>2. ASSUME NEW n \in Notifications, DispatchDirect(n) PROVE DirectInv'
  <2>1. /\ n \in DOMAIN notif /\ storing' \subseteq storing
        /\ UNCHANGED <<notif, stage, timer, chained, faults, retries>>
    BY <1>2 DEF DispatchDirect, batching, luck, DirectInv, RefersToRows
  <2>2. PICK i \in Jobs \ DOMAIN jobs : jobs' = Put(jobs, i, NewJob(n, 0))
    BY <1>2 DEF DispatchDirect, NewJobs, FreeJobs
  <2> QED
    BY <2>1, <2>2, NewJobJoins, ConstantsAssumption DEF DirectInv, TypeOK
<1>3. ASSUME NEW n \in Notifications, IngestCrash(n) PROVE DirectInv'
  BY <1>3 DEF IngestCrash, batching, DirectInv, TypeOK, RefersToRows
<1>4. ASSUME NEW j \in Jobs, JobStep(j) PROVE DirectInv'
  BY <1>4, JobStepKeepsInv
<1>5. ASSUME NEW j \in Jobs, TimeRunsOut(j) PROVE DirectInv'
  BY <1>5, TimeRunsOutKeepsInv
<1>6. ASSUME NEW j \in Jobs, FailureBreaks(j) \/ WorkerCrash(j) \/ RetryFailedJob(j) PROVE DirectInv'
  BY <1>6, JobTroubleKeepsInv
<1>7. ASSUME NEW b \in Batches, TimerExpires(b) \/ BatchStep(b) \/ BatchTrouble(b) PROVE DirectInv'
  BY <1>7, BatchKeepsInv
<1>8. CASE UNCHANGED vars
  BY <1>8 DEF vars, batching, luck, DirectInv, TypeOK, RefersToRows
<1> QED
  BY <1>1, <1>2, <1>3, <1>4, <1>5, <1>6, <1>7, <1>8 DEF Next

\* The invariant holds in every state.
LEMMA DirectInvHolds == Spec => []DirectInv
BY InitDirectInv, StepDirectInv, PTL DEF Spec

\* A job counts no more waits and errors than the code allows, and every reference is to a
\* row, a batch or a job that may exist.
THEOREM DirectTypesHold == Spec => []TypeOK
<1>1. DirectInv => TypeOK
  BY DEF DirectInv
<1> QED
  BY <1>1, DirectInvHolds, PTL

-----------------------------------------------------------------------------
(* Counting the jobs of a notification, and the notifications without one. *)

IsLive(job) == job.step \notin {"done", "recorded", "failed"}
Settled(row) == row.processed \/ row.failed \/ row.route = "batch"

LostRows == {n \in DOMAIN notif : Lost(n)}

\* The tables are finite; a row that waits for its job counts as one.
CountInv ==
  /\ IsFiniteSet(DOMAIN notif) /\ IsFiniteSet(DOMAIN jobs)
  /\ \A n \in Notifications :
       Cardinality(LiveJobs(n)) + (IF n \in storing THEN 1 ELSE 0) <= 1 + faults + retries
  /\ Cardinality(LostRows) <= faults

\* Job j is the only one that changes, and it stops only when its row is settled.
OnlyJob(j) ==
  /\ DOMAIN jobs' \subseteq DOMAIN jobs
  /\ \A i \in DOMAIN jobs : i # j => i \in DOMAIN jobs' /\ jobs'[i] = jobs[i]
  /\ j \in DOMAIN jobs' => jobs'[j].notif = jobs[j].notif /\ (IsLive(jobs'[j]) => IsLive(jobs[j]))
  /\ IsLive(jobs[j]) => (j \in DOMAIN jobs' /\ IsLive(jobs'[j])) \/ Settled(notif'[jobs[j].notif])

\* Job j ends and job i takes its place.
Replaced(j, i) ==
  /\ DOMAIN jobs' = DOMAIN jobs \cup {i} /\ i \notin DOMAIN jobs
  /\ \A k \in DOMAIN jobs : k # j => jobs'[k] = jobs[k]
  /\ jobs'[i].notif = jobs[j].notif /\ jobs'[j].notif = jobs[j].notif
  /\ IsLive(jobs[j]) /\ IsLive(jobs'[i]) /\ ~IsLive(jobs'[j])

\* A row stays as it is, or becomes settled.
RowsSettle ==
  /\ DOMAIN notif' = DOMAIN notif
  /\ \A n \in DOMAIN notif : notif'[n] = notif[n] \/ Settled(notif'[n])

-----------------------------------------------------------------------------
(* What the steps of a job do, seen from its notification. *)

\* A job that goes to another step ends only when its row is settled.
LEMMA GoToLive ==
  ASSUME DirectInv, NEW j \in DOMAIN jobs, NEW step \in Steps, GoTo(j, step), RowsSettle,
         step \notin {"done", "recorded", "failed"} => IsLive(jobs[j]),
         step \in {"done", "recorded", "failed"} => ~IsLive(jobs[j]) \/ Settled(notif'[jobs[j].notif])
  PROVE  OnlyJob(j)
<1>1. /\ DOMAIN jobs' = DOMAIN jobs
      /\ \A i \in DOMAIN jobs : i # j => jobs'[i] = jobs[i]
      /\ jobs'[j].notif = jobs[j].notif /\ jobs'[j].step = step
  BY GoToJobs DEF DirectInv
<1> QED
  BY <1>1 DEF OnlyJob, IsLive

\* A job that fails for good is live until its failure is recorded.
LEMMA FailLive ==
  ASSUME DirectInv, NEW j \in DOMAIN jobs, IsLive(jobs[j]), FailJob(j), UNCHANGED notif
  PROVE  OnlyJob(j) /\ RowsSettle
<1>1. RowsSettle
  BY DEF RowsSettle
<1>2. "failing" \in Steps /\ "failing" \notin {"done", "recorded", "failed"} /\ GoTo(j, "failing")
  BY DEF Steps, FailJob
<1> QED
  BY <1>1, <1>2, GoToLive

\* A job that waits is replaced by one other.
LEMMA WaitReplaces ==
  ASSUME DirectInv, NEW j \in DOMAIN jobs, IsLive(jobs[j]), WaitForDocument(j), UNCHANGED notif
  PROVE  RowsSettle /\ \E i \in Jobs \ DOMAIN jobs : Replaced(j, i)
<1>1. PICK i \in Jobs \ DOMAIN jobs :
        /\ DOMAIN jobs' = DOMAIN jobs \cup {i}
        /\ jobs'[i].notif = jobs[j].notif /\ jobs'[i].step = "queued"
        /\ jobs'[j].notif = jobs[j].notif /\ jobs'[j].step = "done"
        /\ \A k \in DOMAIN jobs : k # j => jobs'[k] = jobs[k]
  BY WaitJobs
<1>2. Replaced(j, i)
  BY <1>1 DEF Replaced, IsLive
<1>3. RowsSettle
  BY DEF RowsSettle
<1> QED
  BY <1>2, <1>3

\* A job that marks its notification, either way, settles it.
LEMMA MarkSettles ==
  ASSUME DirectInv, NEW j \in Jobs, MarkProcessed(j) \/ RecordFailure(j)
  PROVE  OnlyJob(j) /\ RowsSettle
<1>1. j \in DOMAIN jobs
  BY DEF MarkProcessed, RecordFailure, At
<1>2. RowProcessed(jobs[j].notif) \/ RowFails(jobs[j].notif)
  BY MarkProcessedKeepsInv, RecordKeepsInv
<1>3. RowsSettle /\ Settled(notif'[jobs[j].notif])
  BY <1>2 DEF RowProcessed, RowFails, OnlyRow, RowsSettle, Settled
<1>4. PICK step \in {"done", "recorded"} : GoTo(j, step)
  BY DEF MarkProcessed, RecordFailure
<1>5. step \in Steps /\ step \in {"done", "recorded", "failed"}
  BY DEF Steps
<1> QED
  BY <1>1, <1>3, <1>4, <1>5, GoToLive

\* A job that moves its notification changes no other job.
LEMMA MoveSettles ==
  ASSUME DirectInv, NEW j \in Jobs, MoveToBatch(j)
  PROVE  OnlyJob(j) /\ RowsSettle
<1>1. PICK b \in Batches : RowMoves(jobs[j].notif, b)
  BY MoveToBatchKeepsInv
<1>2. /\ DOMAIN jobs' = DOMAIN jobs
      /\ \A i \in DOMAIN jobs : i # j => jobs'[i] = jobs[i]
      /\ jobs'[j].notif = jobs[j].notif /\ jobs'[j].step = "moved"
  BY MoveToBatchKeepsInv
<1>3. j \in DOMAIN jobs /\ jobs[j].step = "moving"
  BY DEF MoveToBatch, At
<1>4. RowsSettle
  BY <1>1 DEF RowMoves, OnlyRow, RowsSettle, Settled
<1> QED
  BY <1>2, <1>3, <1>4 DEF OnlyJob, IsLive

\* An error that is counted, or time that passes, changes the job only.
LEMMA ErrorOnly ==
  ASSUME DirectInv, NEW j \in Jobs, TemporaryError(j)
  PROVE  OnlyJob(j) /\ RowsSettle
<1>1. /\ j \in DOMAIN jobs /\ jobs \in [DOMAIN jobs -> JobRow] /\ jobs[j] \in JobRow
      /\ jobs[j].step \in {"running", "sent", "moving"} /\ UNCHANGED notif
  BY RowOfTable DEF TemporaryError, At, DirectInv, TypeOK, IsTable
<1>2. CASE FailJob(j)
  BY <1>1, <1>2, FailLive DEF IsLive
<1> DEFINE job == [jobs[j] EXCEPT !.errors = jobs[j].errors + 1, !.step = "queued"]
<1>3. CASE jobs' = [jobs EXCEPT ![j] = job]
  <2>1. job.notif = jobs[j].notif /\ job.step = "queued"
    BY <1>1 DEF JobRow
  <2> HIDE DEF job
  <2>2. /\ DOMAIN jobs' = DOMAIN jobs
        /\ \A i \in DOMAIN jobs : i # j => jobs'[i] = jobs[i]
        /\ jobs'[j].notif = jobs[j].notif /\ jobs'[j].step = "queued"
    BY <1>1, <1>3, <2>1
  <2> QED
    BY <1>1, <1>3, <2>2 DEF OnlyJob, RowsSettle, IsLive
<1>4. FailJob(j) \/ jobs' = [jobs EXCEPT ![j] = job]
  BY <1>1 DEF TemporaryError
<1> QED
  BY <1>2, <1>3, <1>4

\* That the time to retry is over changes no other job and no row.
LEMMA TimeOnly ==
  ASSUME DirectInv, NEW j \in Jobs, TimeRunsOut(j)
  PROVE  OnlyJob(j) /\ RowsSettle
<1> DEFINE job == [jobs[j] EXCEPT !.expired = TRUE]
<1>1. j \in DOMAIN jobs /\ jobs \in [DOMAIN jobs -> JobRow] /\ jobs[j] \in JobRow
  BY RowOfTable DEF TimeRunsOut, DirectInv, TypeOK, IsTable
<1>2. jobs' = [jobs EXCEPT ![j] = job] /\ UNCHANGED notif
  BY <1>1 DEF TimeRunsOut
<1>3. job.notif = jobs[j].notif /\ job.step = jobs[j].step
  BY <1>1 DEF JobRow
<1> HIDE DEF job
<1>4. /\ DOMAIN jobs' = DOMAIN jobs
      /\ \A i \in DOMAIN jobs : i # j => jobs'[i] = jobs[i]
      /\ jobs'[j].notif = jobs[j].notif /\ jobs'[j].step = jobs[j].step
  BY <1>1, <1>2, <1>3
<1> QED
  BY <1>1, <1>2, <1>4 DEF OnlyJob, RowsSettle, IsLive

\* A batch leaves the jobs alone, and settles a row or leaves all of them as they are.
LEMMA BatchSettles ==
  ASSUME DirectInv, NEW b \in Batches, TimerExpires(b) \/ BatchStep(b) \/ BatchTrouble(b)
  PROVE  RowsSettle /\ UNCHANGED <<jobs, storing>>
<1>1. notif' = notif => RowsSettle
  BY DEF RowsSettle
<1>2. ASSUME NEW n \in Notifications, RunChained(b, n) \/ FailChained(b, n) PROVE RowsSettle
  <2>1. RowProcessed(n) \/ RowFails(n) \/ notif' = notif
    BY <1>2, ChainedRow DEF DirectInv
  <2> QED
    BY <1>1, <2>1 DEF RowProcessed, RowFails, OnlyRow, RowsSettle, Settled
<1>3. notif' = notif \/ \E n \in Notifications : RunChained(b, n) \/ FailChained(b, n)
  BY DEF TimerExpires, BatchStep, BatchTrouble, LockBatch, BuildChain, StopChain, DispatchCrash, ChainCrash, RetryChained
<1> QED
  BY <1>1, <1>2, <1>3, BatchKeepsInv

\* Whatever a job does, it changes itself only or is replaced by one other.
LEMMA JobStepEffect ==
  ASSUME DirectInv, NEW j \in Jobs, JobStep(j)
  PROVE  /\ RowsSettle
         /\ OnlyJob(j) \/ \E i \in Jobs \ DOMAIN jobs : Replaced(j, i)
         /\ j \in DOMAIN jobs
         /\ UNCHANGED <<storing, faults, retries>>
<1>0. j \in DOMAIN jobs /\ (notif' = notif => RowsSettle)
  BY DEF JobStep, StartJob, RefuseJob, DocumentLocked, TemporaryError, PermanentError, DocumentSent,
         MarkProcessed, NotInCorsa, UploadIncomplete, MoveToBatch, StartTimer, DeleteJob, RecordFailure,
         StoreFailedJob, At, RowsSettle
<1>1. UNCHANGED <<storing, faults, retries>>
  BY DEF JobStep, StartJob, RefuseJob, DocumentLocked, TemporaryError, PermanentError, DocumentSent,
         MarkProcessed, NotInCorsa, UploadIncomplete, MoveToBatch, StartTimer, DeleteJob, RecordFailure,
         StoreFailedJob, batching, luck
<1>2. CASE StartJob(j)
  <2>1. /\ IsLive(jobs[j]) /\ UNCHANGED notif
        /\ LET row == notif[jobs[j].notif]
           IN  GoTo(j, IF row.processed \/ row.route # "direct" THEN "done" ELSE "running")
    BY <1>2 DEF StartJob, At, IsLive
  <2>2. notif[jobs[j].notif] \in NotificationRow
    BY <1>0, RowOfTable DEF DirectInv, RefersToRows, TypeOK
  <2>3. notif[jobs[j].notif].route \in {"direct", "batch"}
    BY <2>2 DEF NotificationRow
  <2>4. ASSUME GoTo(j, "running") PROVE OnlyJob(j)
    <3>1. "running" \in Steps /\ "running" \notin {"done", "recorded", "failed"}
      BY DEF Steps
    <3> QED
      BY <1>0, <2>1, <2>4, <3>1, GoToLive
  <2>5. ASSUME GoTo(j, "done"), Settled(notif[jobs[j].notif]) PROVE OnlyJob(j)
    <3>1. "done" \in Steps /\ "done" \in {"done", "recorded", "failed"}
      BY DEF Steps
    <3> QED
      BY <1>0, <2>1, <2>5, <3>1, GoToLive
  <2>6. GoTo(j, "running") \/ (GoTo(j, "done") /\ Settled(notif[jobs[j].notif]))
    BY <2>1, <2>3 DEF Settled
  <2> QED
    BY <1>0, <1>1, <2>1, <2>4, <2>5, <2>6
<1>3. CASE DocumentLocked(j) \/ DocumentSent(j)
  <2>1. /\ IsLive(jobs[j]) /\ UNCHANGED notif
        /\ \E step \in Steps \ {"done", "recorded", "failed"} : GoTo(j, step)
    BY <1>3 DEF DocumentLocked, DocumentSent, At, IsLive, Steps
  <2> QED
    BY <1>0, <1>1, <2>1, GoToLive
<1>4. CASE RefuseJob(j) \/ PermanentError(j)
  BY <1>0, <1>1, <1>4, FailLive DEF RefuseJob, PermanentError, At, IsLive
<1>5. CASE TemporaryError(j)
  BY <1>0, <1>1, <1>5, ErrorOnly
<1>6. CASE MarkProcessed(j) \/ RecordFailure(j)
  BY <1>0, <1>1, <1>6, MarkSettles
<1>7. CASE NotInCorsa(j) \/ UploadIncomplete(j)
  <2>1. /\ IsLive(jobs[j]) /\ UNCHANGED notif
        /\ WaitForDocument(j) \/ GoTo(j, "moving") \/ FailJob(j)
    BY <1>7 DEF NotInCorsa, UploadIncomplete, At, IsLive
  <2>2. CASE WaitForDocument(j)
    BY <1>0, <1>1, <2>1, <2>2, WaitReplaces
  <2>3. CASE GoTo(j, "moving")
    <3>1. "moving" \in Steps /\ "moving" \notin {"done", "recorded", "failed"}
      BY DEF Steps
    <3> QED
      BY <1>0, <1>1, <2>1, <2>3, <3>1, GoToLive
  <2>4. CASE FailJob(j)
    BY <1>0, <1>1, <2>1, <2>4, FailLive
  <2> QED
    BY <2>1, <2>2, <2>3, <2>4
<1>8. CASE MoveToBatch(j)
  BY <1>0, <1>1, <1>8, MoveSettles
<1>9. CASE StartTimer(j)
  <2>1. GoTo(j, "done") /\ UNCHANGED notif /\ notif[jobs[j].notif].route = "batch"
    BY <1>0, <1>9 DEF StartTimer, At, DirectInv, RefersToRows
  <2>2. "done" \in Steps /\ Settled(notif'[jobs[j].notif])
    BY <2>1 DEF Steps, Settled
  <2> QED
    BY <1>0, <1>1, <2>1, <2>2, GoToLive
<1>10. CASE StoreFailedJob(j)
  <2>1. GoTo(j, "failed") /\ UNCHANGED notif /\ ~IsLive(jobs[j]) /\ "failed" \in Steps
    BY <1>10 DEF StoreFailedJob, At, IsLive, Steps
  <2> QED
    BY <1>0, <1>1, <2>1, GoToLive
<1>11. CASE DeleteJob(j)
  <2>1. jobs[j].step = "done" /\ jobs' = Drop(jobs, j) /\ UNCHANGED notif
    BY <1>11 DEF DeleteJob, At
  <2>2. DOMAIN jobs' = DOMAIN jobs \ {j} /\ \A i \in DOMAIN jobs : i # j => jobs'[i] = jobs[i]
    BY <2>1 DEF Drop
  <2> QED
    BY <1>0, <1>1, <2>1, <2>2 DEF OnlyJob, IsLive
<1> QED
  BY <1>2, <1>3, <1>4, <1>5, <1>6, <1>7, <1>8, <1>9, <1>10, <1>11 DEF JobStep

-----------------------------------------------------------------------------
(* What that means for the counts. *)

\* A part of a set of live jobs is not larger.
LEMMA LiveFinite ==
  ASSUME CountInv, NEW n
  PROVE  IsFiniteSet(LiveJobs(n)) /\ Cardinality(LiveJobs(n)) \in Nat
<1>1. LiveJobs(n) \in SUBSET DOMAIN jobs
  BY DEF LiveJobs
<1> QED
  BY <1>1, FS_Subset, FS_CardinalityType DEF CountInv

\* The rows that lost their job can be counted.
LEMMA LostFinite ==
  ASSUME CountInv
  PROVE  IsFiniteSet(LostRows) /\ Cardinality(LostRows) \in Nat
<1>1. LostRows \in SUBSET DOMAIN notif
  BY DEF LostRows
<1> QED
  BY <1>1, FS_Subset, FS_CardinalityType DEF CountInv

\* A step of one job adds no live job and loses no row.
LEMMA OnlyJobCounts ==
  ASSUME DirectInv, CountInv, NEW j \in DOMAIN jobs, OnlyJob(j), RowsSettle, storing' = storing
  PROVE  /\ IsFiniteSet(DOMAIN jobs')
         /\ \A n : Cardinality(LiveJobs(n)') <= Cardinality(LiveJobs(n))
         /\ LostRows' \subseteq LostRows
<1>1. IsFiniteSet(DOMAIN jobs')
  BY FS_Subset DEF CountInv, OnlyJob
<1>2. ASSUME NEW n PROVE LiveJobs(n)' \in SUBSET LiveJobs(n)
  BY DEF LiveJobs, OnlyJob, IsLive
<1>3. ASSUME NEW n PROVE Cardinality(LiveJobs(n)') <= Cardinality(LiveJobs(n))
  BY <1>2, LiveFinite, FS_Subset
<1>4. ASSUME NEW n \in LostRows' PROVE n \in LostRows
  <2>1. n \in DOMAIN notif /\ Lost(n)'
    BY <1>4 DEF LostRows, RowsSettle
  <2>2. notif'[n] = notif[n] /\ ~Settled(notif'[n])
    BY <2>1 DEF Lost, RowsSettle, Settled
  <2>3. ASSUME NEW k \in LiveJobs(n) PROVE FALSE
    <3>1. k \in DOMAIN jobs /\ jobs[k].notif = n /\ IsLive(jobs[k])
      BY DEF LiveJobs, IsLive
    <3>2. k \in DOMAIN jobs' /\ jobs'[k].notif = n /\ IsLive(jobs'[k])
      BY <2>2, <3>1 DEF OnlyJob
    <3> QED
      BY <2>1, <3>2 DEF Lost, LiveJobs, IsLive
  <2> QED
    BY <2>1, <2>2, <2>3 DEF Lost, LostRows
<1> QED
  BY <1>1, <1>3, <1>4

\* A job that is replaced leaves as many live jobs as there were, and loses no row.
LEMMA ReplacedCounts ==
  ASSUME DirectInv, CountInv, NEW j \in DOMAIN jobs, NEW i \in Jobs \ DOMAIN jobs, Replaced(j, i),
         RowsSettle, storing' = storing
  PROVE  /\ IsFiniteSet(DOMAIN jobs')
         /\ \A n : Cardinality(LiveJobs(n)') <= Cardinality(LiveJobs(n))
         /\ LostRows' \subseteq LostRows
<1>1. IsFiniteSet(DOMAIN jobs')
  BY FS_AddElement DEF CountInv, Replaced
<1>2. ASSUME NEW n PROVE Cardinality(LiveJobs(n)') <= Cardinality(LiveJobs(n))
  <2>1. CASE n = jobs[j].notif
    <3>1. /\ LiveJobs(n)' = (LiveJobs(n) \ {j}) \cup {i}
          /\ j \in LiveJobs(n) /\ i \notin LiveJobs(n) \ {j}
      BY <2>1 DEF LiveJobs, Replaced, IsLive
    <3>2. /\ IsFiniteSet(LiveJobs(n) \ {j})
          /\ Cardinality(LiveJobs(n) \ {j}) = Cardinality(LiveJobs(n)) - 1
      BY <3>1, LiveFinite, FS_RemoveElement
    <3>3. Cardinality((LiveJobs(n) \ {j}) \cup {i}) = Cardinality(LiveJobs(n) \ {j}) + 1
      BY <3>1, <3>2, FS_AddElement
    <3> QED
      BY <3>1, <3>2, <3>3, LiveFinite
  <2>2. CASE n # jobs[j].notif
    <3>1. LiveJobs(n)' = LiveJobs(n)
      BY <2>2 DEF LiveJobs, Replaced, IsLive
    <3> QED
      BY <3>1, LiveFinite
  <2> QED
    BY <2>1, <2>2
<1>3. ASSUME NEW n \in LostRows' PROVE n \in LostRows
  <2>1. n \in DOMAIN notif /\ Lost(n)'
    BY <1>3 DEF LostRows, RowsSettle
  <2>2. notif'[n] = notif[n]
    BY <2>1 DEF Lost, RowsSettle, Settled
  <2>3. ASSUME NEW k \in LiveJobs(n) PROVE FALSE
    <3>1. k \in DOMAIN jobs /\ jobs[k].notif = n /\ IsLive(jobs[k])
      BY DEF LiveJobs, IsLive
    <3>2. CASE k = j
      BY <2>1, <3>1, <3>2 DEF Replaced, Lost, LiveJobs, IsLive
    <3>3. CASE k # j
      BY <2>1, <3>1, <3>3 DEF Replaced, Lost, LiveJobs, IsLive
    <3> QED
      BY <3>2, <3>3
  <2> QED
    BY <2>1, <2>2, <2>3 DEF Lost, LostRows
<1> QED
  BY <1>1, <1>2, <1>3

\* The counts after a step that makes no new live job and loses no notification.
LEMMA CountsKept ==
  ASSUME DirectInv, CountInv, IsFiniteSet(DOMAIN notif'), IsFiniteSet(DOMAIN jobs'),
         \A n \in Notifications : Cardinality(LiveJobs(n)') <= Cardinality(LiveJobs(n)),
         LostRows' \subseteq LostRows,
         storing' = storing, faults' = faults, retries' = retries
  PROVE  CountInv'
<1>1. Cardinality(LostRows') <= Cardinality(LostRows)
  BY LostFinite, FS_Subset
<1>2. Cardinality(LostRows') <= faults
  <2>1. IsFiniteSet(LostRows') /\ Cardinality(LostRows') \in Nat
    BY LostFinite, FS_Subset, FS_CardinalityType
  <2> QED
    BY <1>1, <2>1, LostFinite DEF CountInv, DirectInv, TypeOK
<1>3. ASSUME NEW n \in Notifications
      PROVE  Cardinality(LiveJobs(n)') + (IF n \in storing THEN 1 ELSE 0) <= 1 + faults + retries
  <2>1. IsFiniteSet(LiveJobs(n)') /\ Cardinality(LiveJobs(n)') \in Nat
    <3>1. LiveJobs(n)' \in SUBSET DOMAIN jobs'
      BY DEF LiveJobs
    <3> QED
      BY <3>1, FS_Subset, FS_CardinalityType
  <2>2. Cardinality(LiveJobs(n)') <= Cardinality(LiveJobs(n))
    OBVIOUS
  <2> QED
    BY <2>1, <2>2, LiveFinite DEF CountInv, DirectInv, TypeOK
<1> QED
  BY <1>2, <1>3 DEF CountInv

\* A step that leaves the jobs alone only settles rows.
LEMMA RowsCount ==
  ASSUME DirectInv, CountInv, RowsSettle, UNCHANGED <<jobs, storing, faults, retries>>
  PROVE  CountInv'
<1>1. ASSUME NEW n \in LostRows' PROVE n \in LostRows
  <2>1. n \in DOMAIN notif /\ Lost(n)'
    BY <1>1 DEF LostRows, RowsSettle
  <2>2. notif'[n] = notif[n]
    BY <2>1 DEF Lost, RowsSettle, Settled
  <2> QED
    BY <2>1, <2>2 DEF Lost, LostRows, LiveJobs
<1>2. \A n \in Notifications : LiveJobs(n)' = LiveJobs(n)
  BY DEF LiveJobs
<1>3. \A n \in Notifications : Cardinality(LiveJobs(n)') <= Cardinality(LiveJobs(n))
  BY <1>2, LiveFinite
<1>4. IsFiniteSet(DOMAIN notif') /\ IsFiniteSet(DOMAIN jobs')
  BY DEF CountInv, RowsSettle
<1> QED
  BY <1>1, <1>3, <1>4, CountsKept

\* The steps of a job keep the counts.
LEMMA JobStepCounts ==
  ASSUME DirectInv, CountInv, NEW j \in Jobs, JobStep(j)
  PROVE  CountInv'
<1>1. /\ j \in DOMAIN jobs /\ RowsSettle /\ UNCHANGED <<storing, faults, retries>>
      /\ OnlyJob(j) \/ \E i \in Jobs \ DOMAIN jobs : Replaced(j, i)
  BY JobStepEffect
<1>2. /\ IsFiniteSet(DOMAIN jobs')
      /\ \A n : Cardinality(LiveJobs(n)') <= Cardinality(LiveJobs(n))
      /\ LostRows' \subseteq LostRows
  BY <1>1, OnlyJobCounts, ReplacedCounts
<1>3. IsFiniteSet(DOMAIN notif')
  BY <1>1 DEF RowsSettle, CountInv
<1> QED
  BY <1>1, <1>2, <1>3, CountsKept

-----------------------------------------------------------------------------
(* The steps that may add a live job or lose a notification. *)

\* A row that is stored has no job, and waits for one.
LEMMA StoreDirectCounts ==
  ASSUME DirectInv, CountInv, NEW n \in Notifications, NEW k \in {"link", "change"}, StoreDirect(n, k)
  PROVE  CountInv'
<1>1. /\ n \notin DOMAIN notif /\ storing' = storing \cup {n}
      /\ UNCHANGED <<jobs, faults, retries>>
  BY DEF StoreDirect, luck
<1>2. DOMAIN notif' = DOMAIN notif \cup {n} /\ \A m \in DOMAIN notif : notif'[m] = notif[m]
  BY DEF StoreDirect, Put
<1>3. IsFiniteSet(DOMAIN notif')
  BY <1>2, FS_AddElement DEF CountInv
<1>4. LostRows' \subseteq LostRows
  BY <1>1, <1>2 DEF LostRows, Lost, LiveJobs
<1>5. Cardinality(LostRows') <= faults'
  <2>1. Cardinality(LostRows') <= Cardinality(LostRows) /\ Cardinality(LostRows') \in Nat
    BY <1>4, LostFinite, FS_Subset, FS_CardinalityType
  <2> QED
    BY <1>1, <2>1, LostFinite DEF CountInv, DirectInv, TypeOK
<1>6. ASSUME NEW m \in Notifications
      PROVE  Cardinality(LiveJobs(m)') + (IF m \in storing' THEN 1 ELSE 0) <= 1 + faults' + retries'
  <2>1. LiveJobs(m)' = LiveJobs(m)
    BY <1>1 DEF LiveJobs
  <2>2. CASE m = n
    <3>1. LiveJobs(m) = {}
      BY <1>1, <2>2 DEF LiveJobs, DirectInv, RefersToRows
    <3>2. Cardinality(LiveJobs(m)) = 0
      BY <3>1, FS_EmptySet
    <3> QED
      BY <1>1, <2>1, <3>2 DEF DirectInv, TypeOK
  <2>3. CASE m # n
    BY <1>1, <2>1, <2>3 DEF CountInv
  <2> QED
    BY <2>2, <2>3
<1> QED
  BY <1>1, <1>3, <1>5, <1>6 DEF CountInv

\* The job takes the place of the row that waited for it.
LEMMA DispatchCounts ==
  ASSUME DirectInv, CountInv, NEW n \in Notifications, DispatchDirect(n)
  PROVE  CountInv'
<1>1. n \in storing /\ storing' = storing \ {n} /\ UNCHANGED <<notif, faults, retries>>
  BY DEF DispatchDirect, luck
<1>2. PICK i \in Jobs \ DOMAIN jobs : jobs' = Put(jobs, i, NewJob(n, 0))
  BY DEF DispatchDirect, NewJobs, FreeJobs
<1>3. /\ DOMAIN jobs' = DOMAIN jobs \cup {i}
      /\ \A k \in DOMAIN jobs : jobs'[k] = jobs[k]
      /\ jobs'[i].notif = n /\ jobs'[i].step = "queued"
  BY <1>2 DEF Put, NewJob
<1>4. IsFiniteSet(DOMAIN jobs') /\ IsFiniteSet(DOMAIN notif')
  BY <1>1, <1>3, FS_AddElement DEF CountInv
<1>5. LiveJobs(n)' = LiveJobs(n) \cup {i} /\ i \notin LiveJobs(n)
  BY <1>2, <1>3 DEF LiveJobs
<1>6. ASSUME NEW m, m # n PROVE LiveJobs(m)' = LiveJobs(m)
  BY <1>2, <1>3, <1>6 DEF LiveJobs
<1>7. LostRows' \subseteq LostRows
  <2>1. ASSUME NEW m \in LostRows' PROVE m \in LostRows
    <3>1. m # n
      BY <1>5, <2>1 DEF LostRows, Lost
    <3> QED
      BY <1>1, <1>6, <2>1, <3>1 DEF LostRows, Lost
  <2> QED
    BY <2>1
<1>8. Cardinality(LostRows') <= faults'
  <2>1. Cardinality(LostRows') <= Cardinality(LostRows) /\ Cardinality(LostRows') \in Nat
    BY <1>7, LostFinite, FS_Subset, FS_CardinalityType
  <2> QED
    BY <1>1, <2>1, LostFinite DEF CountInv, DirectInv, TypeOK
<1>9. Cardinality(LiveJobs(n)') = Cardinality(LiveJobs(n)) + 1
  BY <1>5, LiveFinite, FS_AddElement
<1>10. ASSUME NEW m \in Notifications
       PROVE  Cardinality(LiveJobs(m)') + (IF m \in storing' THEN 1 ELSE 0) <= 1 + faults' + retries'
  <2>1. CASE m = n
    <3>1. Cardinality(LiveJobs(n)) + 1 <= 1 + faults + retries
      BY <1>1 DEF CountInv
    <3> QED
      BY <1>1, <1>9, <2>1, <3>1, LiveFinite
  <2>2. CASE m # n
    BY <1>1, <1>6, <2>2 DEF CountInv
  <2> QED
    BY <2>1, <2>2
<1> QED
  BY <1>4, <1>8, <1>10 DEF CountInv

\* A job that breaks off, or never came to be, loses one row at most, for one fault.
LEMMA OneRowLost ==
  ASSUME DirectInv, CountInv, NEW n \in Notifications, UNCHANGED <<notif, retries>>, faults' = faults + 1,
         IsFiniteSet(DOMAIN jobs'), storing' \subseteq storing,
         \A m : LiveJobs(m)' \subseteq LiveJobs(m),
         \A m : m # n => LiveJobs(m)' = LiveJobs(m) /\ (m \in storing => m \in storing')
  PROVE  CountInv'
<1>1. faults \in Nat /\ retries \in Nat
  BY DEF DirectInv, TypeOK
<1>2. LostRows' \in SUBSET (LostRows \cup {n})
  BY DEF LostRows, Lost
<1>3. Cardinality(LostRows') <= faults'
  <2>1. /\ IsFiniteSet(LostRows \cup {n})
        /\ Cardinality(LostRows \cup {n}) <= Cardinality(LostRows) + 1
        /\ Cardinality(LostRows \cup {n}) \in Nat
    BY LostFinite, FS_AddElement, FS_CardinalityType
  <2>2. Cardinality(LostRows') <= Cardinality(LostRows \cup {n}) /\ Cardinality(LostRows') \in Nat
    BY <1>2, <2>1, FS_Subset, FS_CardinalityType
  <2>3. Cardinality(LostRows) <= faults
    BY DEF CountInv
  <2> QED
    BY <1>1, <2>1, <2>2, <2>3, LostFinite
<1>4. ASSUME NEW m \in Notifications
      PROVE  Cardinality(LiveJobs(m)') + (IF m \in storing' THEN 1 ELSE 0) <= 1 + faults' + retries'
  <2>1. Cardinality(LiveJobs(m)') <= Cardinality(LiveJobs(m)) /\ Cardinality(LiveJobs(m)') \in Nat
    <3>1. LiveJobs(m)' \in SUBSET LiveJobs(m)
      OBVIOUS
    <3> QED
      BY <3>1, LiveFinite, FS_Subset, FS_CardinalityType
  <2>2. Cardinality(LiveJobs(m)) + (IF m \in storing THEN 1 ELSE 0) <= 1 + faults + retries
    BY DEF CountInv
  <2>3. (IF m \in storing' THEN 1 ELSE 0) <= (IF m \in storing THEN 1 ELSE 0)
    OBVIOUS
  <2>4. Cardinality(LiveJobs(m)) \in Nat
    BY LiveFinite
  <2> QED
    BY <1>1, <2>1, <2>2, <2>3, <2>4
<1> QED
  BY <1>3, <1>4 DEF CountInv

\* An ingest that breaks off before it made the job.
LEMMA IngestCrashCounts ==
  ASSUME DirectInv, CountInv, NEW n \in Notifications, IngestCrash(n)
  PROVE  CountInv'
<1>1. /\ storing' = storing \ {n} /\ faults' = faults + 1
      /\ UNCHANGED <<notif, jobs, retries>>
  BY DEF IngestCrash
<1>2. \A m : LiveJobs(m)' = LiveJobs(m)
  BY <1>1 DEF LiveJobs
<1>3. IsFiniteSet(DOMAIN jobs')
  BY <1>1 DEF CountInv
<1> QED
  BY <1>1, <1>2, <1>3, OneRowLost

\* A job of which nothing is left before its failure was recorded.
LEMMA FailureBreaksCounts ==
  ASSUME DirectInv, CountInv, NEW j \in Jobs, FailureBreaks(j)
  PROVE  CountInv'
<1>1. /\ j \in DOMAIN jobs /\ jobs[j].step \in {"failing", "recorded"} /\ faults' = faults + 1
      /\ UNCHANGED <<notif, storing, retries>>
      /\ jobs' = Drop(jobs, j) \/ GoTo(j, "failed")
  BY DEF FailureBreaks, At
<1>2. /\ DOMAIN jobs' \in SUBSET DOMAIN jobs
      /\ \A i \in DOMAIN jobs : i # j => i \in DOMAIN jobs' /\ jobs'[i] = jobs[i]
      /\ j \in DOMAIN jobs' => jobs'[j].step = "failed"
  <2>1. CASE jobs' = Drop(jobs, j)
    BY <2>1 DEF Drop
  <2>2. CASE GoTo(j, "failed")
    BY <1>1, <2>2, GoToJobs DEF DirectInv, Steps
  <2> QED
    BY <1>1, <2>1, <2>2
<1>3. jobs[j].notif \in Notifications
  BY <1>1 DEF DirectInv, RefersToRows, TypeOK, IsTable
<1>4. ASSUME NEW m
      PROVE  LiveJobs(m)' \subseteq LiveJobs(m) /\ (m # jobs[j].notif => LiveJobs(m)' = LiveJobs(m))
  BY <1>2 DEF LiveJobs
<1>5. IsFiniteSet(DOMAIN jobs')
  BY <1>2, FS_Subset DEF CountInv
<1> QED
  BY <1>1, <1>3, <1>4, <1>5, OneRowLost

\* A job that breaks off, or a failed job that is retried, brings back one live job at most.
LEMMA OneMoreJob ==
  ASSUME DirectInv, CountInv, NEW j, UNCHANGED <<notif, storing>>, IsFiniteSet(DOMAIN jobs'),
         \A m \in Notifications : LiveJobs(m) \subseteq LiveJobs(m)' /\ LiveJobs(m)' \subseteq LiveJobs(m) \cup {j},
         \/ faults' = faults + 1 /\ retries' = retries
         \/ faults' = faults /\ retries' = retries + 1
  PROVE  CountInv'
<1>1. faults \in Nat /\ retries \in Nat /\ DOMAIN notif \subseteq Notifications
  BY DEF DirectInv, TypeOK, IsTable
<1>2. ASSUME NEW n \in Notifications
      PROVE  Cardinality(LiveJobs(n)') + (IF n \in storing' THEN 1 ELSE 0) <= 1 + faults' + retries'
  <2>0. IsFiniteSet(LiveJobs(n)) /\ Cardinality(LiveJobs(n)) \in Nat /\ storing' = storing
    BY LiveFinite
  <2>1. /\ IsFiniteSet(LiveJobs(n) \cup {j})
        /\ Cardinality(LiveJobs(n) \cup {j}) =
             IF j \in LiveJobs(n) THEN Cardinality(LiveJobs(n)) ELSE Cardinality(LiveJobs(n)) + 1
    BY <2>0, FS_AddElement
  <2>2. LiveJobs(n)' \in SUBSET (LiveJobs(n) \cup {j})
    OBVIOUS
  <2>3. Cardinality(LiveJobs(n)') <= Cardinality(LiveJobs(n) \cup {j}) /\ Cardinality(LiveJobs(n)') \in Nat
    BY <2>1, <2>2, FS_Subset, FS_CardinalityType
  <2>4. Cardinality(LiveJobs(n)) + (IF n \in storing THEN 1 ELSE 0) <= 1 + faults + retries
    BY DEF CountInv
  <2>5. Cardinality(LiveJobs(n)') <= Cardinality(LiveJobs(n)) + 1
    BY <2>0, <2>1, <2>3
  <2>6. (IF n \in storing' THEN 1 ELSE 0) = (IF n \in storing THEN 1 ELSE 0)
    BY <2>0
  <2>7. 1 + faults' + retries' = (1 + faults + retries) + 1
    BY <1>1
  <2> QED
    BY <1>1, <2>0, <2>3, <2>4, <2>5, <2>6, <2>7
<1>3. LostRows' \in SUBSET LostRows
  BY <1>1 DEF LostRows, Lost
<1>4. Cardinality(LostRows') <= Cardinality(LostRows) /\ Cardinality(LostRows') \in Nat
  BY <1>3, LostFinite, FS_Subset, FS_CardinalityType
<1>5. Cardinality(LostRows') <= faults'
  BY <1>1, <1>4, LostFinite DEF CountInv
<1> QED
  BY <1>2, <1>5 DEF CountInv

\* Trouble with a batch leaves rows and jobs alone.
LEMMA TroubleCounts ==
  ASSUME DirectInv, CountInv, UNCHANGED <<notif, jobs, storing>>,
         \/ faults' = faults + 1 /\ retries' = retries
         \/ faults' = faults /\ retries' = retries + 1
  PROVE  CountInv'
<1>1. \A n : LiveJobs(n)' = LiveJobs(n)
  BY DEF LiveJobs
<1>2. IsFiniteSet(DOMAIN jobs')
  BY DEF CountInv
<1> QED
  BY <1>1, <1>2, OneMoreJob

-----------------------------------------------------------------------------
\* At first there is nothing to count.
LEMMA InitCountInv == Init => CountInv
<1> SUFFICES ASSUME Init PROVE CountInv
  OBVIOUS
<1>1. notif = Empty /\ jobs = Empty /\ storing = {} /\ faults = 0 /\ retries = 0
  BY DEF Init
<1>2. DOMAIN notif = {} /\ DOMAIN jobs = {}
  BY <1>1 DEF Empty
<1>3. LostRows = {} /\ \A n : LiveJobs(n) = {}
  BY <1>2 DEF LostRows, LiveJobs
<1>4. IsFiniteSet({}) /\ Cardinality({}) = 0
  BY FS_EmptySet
<1>5. \A n \in Notifications : Cardinality(LiveJobs(n)) = 0
  BY <1>3, <1>4
<1> QED
  BY <1>1, <1>2, <1>3, <1>4, <1>5 DEF CountInv

\* The counts are kept by every step.
LEMMA StepCountInv == DirectInv /\ CountInv /\ [Next]_vars => CountInv'
<1> SUFFICES ASSUME DirectInv, CountInv, [Next]_vars PROVE CountInv'
  OBVIOUS
<1>1. ASSUME NEW n \in Notifications, NEW k \in {"link", "change"}, StoreDirect(n, k) PROVE CountInv'
  BY <1>1, StoreDirectCounts
<1>2. ASSUME NEW n \in Notifications, DispatchDirect(n) PROVE CountInv'
  BY <1>2, DispatchCounts
<1>3. ASSUME NEW n \in Notifications, IngestCrash(n) PROVE CountInv'
  BY <1>3, IngestCrashCounts
<1>4. ASSUME NEW j \in Jobs, JobStep(j) PROVE CountInv'
  BY <1>4, JobStepCounts
<1>5. ASSUME NEW j \in Jobs, TimeRunsOut(j) PROVE CountInv'
  <2>1. j \in DOMAIN jobs /\ UNCHANGED <<notif, storing, faults, retries>>
    BY <1>5 DEF TimeRunsOut, luck
  <2>2. OnlyJob(j) /\ RowsSettle
    BY <1>5, TimeOnly
  <2>3. IsFiniteSet(DOMAIN notif')
    BY <2>1 DEF CountInv
  <2>4. /\ IsFiniteSet(DOMAIN jobs')
        /\ \A n : Cardinality(LiveJobs(n)') <= Cardinality(LiveJobs(n))
        /\ LostRows' \subseteq LostRows
    BY <2>1, <2>2, OnlyJobCounts
  <2> QED
    BY <2>1, <2>3, <2>4, CountsKept
<1>6. ASSUME NEW j \in Jobs, WorkerCrash(j) PROVE CountInv'
  <2>1. /\ j \in DOMAIN jobs /\ (GoTo(j, "queued") \/ GoTo(j, "failing"))
        /\ jobs[j].step \notin {"recorded", "failed"} /\ faults' = faults + 1
        /\ UNCHANGED <<notif, storing, retries>>
    BY <1>6 DEF WorkerCrash, At
  <2>2. /\ DOMAIN jobs' = DOMAIN jobs
        /\ \A i \in DOMAIN jobs : i # j => jobs'[i] = jobs[i]
        /\ jobs'[j].notif = jobs[j].notif /\ jobs'[j].step \in {"queued", "failing"}
    BY <2>1, GoToJobs DEF DirectInv, Steps
  <2>3. \A n \in Notifications : LiveJobs(n) \subseteq LiveJobs(n)' /\ LiveJobs(n)' \subseteq LiveJobs(n) \cup {j}
    BY <2>1, <2>2 DEF LiveJobs
  <2>4. IsFiniteSet(DOMAIN jobs')
    BY <2>2 DEF CountInv
  <2> QED
    BY <2>1, <2>3, <2>4, OneMoreJob
<1>7. ASSUME NEW j \in Jobs, RetryFailedJob(j) PROVE CountInv'
  <2>1. retries' = retries + 1 /\ UNCHANGED <<notif, storing, faults>>
    BY <1>7 DEF RetryFailedJob
  <2>2. PICK i \in Jobs \ DOMAIN jobs : jobs' = Put(jobs, i, NewJob(jobs[j].notif, jobs[j].waits))
    BY <1>7 DEF RetryFailedJob, NewJobs, FreeJobs
  <2>3. DOMAIN jobs' = DOMAIN jobs \cup {i} /\ \A k \in DOMAIN jobs : jobs'[k] = jobs[k]
    BY <2>2 DEF Put
  <2>4. \A n \in Notifications : LiveJobs(n) \subseteq LiveJobs(n)' /\ LiveJobs(n)' \subseteq LiveJobs(n) \cup {i}
    BY <2>3 DEF LiveJobs
  <2>5. IsFiniteSet(DOMAIN jobs')
    BY <2>3, FS_AddElement DEF CountInv
  <2> QED
    BY <2>1, <2>4, <2>5, OneMoreJob
<1>8. ASSUME NEW j \in Jobs, FailureBreaks(j) PROVE CountInv'
  BY <1>8, FailureBreaksCounts
<1>9. ASSUME NEW b \in Batches, TimerExpires(b) \/ BatchStep(b) \/ BatchTrouble(b) PROVE CountInv'
  <2>1. RowsSettle /\ UNCHANGED <<jobs, storing>>
    BY <1>9, BatchSettles
  <2>2. CASE UNCHANGED <<faults, retries>>
    BY <2>1, <2>2, RowsCount
  <2>3. CASE faults' = faults + 1 /\ UNCHANGED <<notif, retries>>
    BY <2>1, <2>3, TroubleCounts
  <2>4. CASE retries' = retries + 1 /\ UNCHANGED <<notif, faults>>
    BY <2>1, <2>4, TroubleCounts
  <2> QED
    BY <1>9, <2>2, <2>3, <2>4 DEF TimerExpires, BatchStep, BatchTrouble, LockBatch, BuildChain, RunChained, FailChained,
      StopChain, DispatchCrash, ChainCrash, RetryChained, luck
<1>10. CASE UNCHANGED vars
  BY <1>10, RowsCount DEF vars, luck, RowsSettle
<1> QED
  BY <1>1, <1>2, <1>3, <1>4, <1>5, <1>6, <1>7, <1>8, <1>9, <1>10 DEF Next

\* The counts hold in every state.
LEMMA CountInvHolds == Spec => []CountInv
BY InitCountInv, StepCountInv, DirectInvHolds, PTL DEF Spec

\* Waiting in a new job, releasing, moving and failing never leave a notification with a
\* second live job: each job more than one is a job that broke off or a retry by hand.
THEOREM OneJobHolds == Spec => []OneJobPerNotification
<1>1. DirectInv /\ CountInv => OneJobPerNotification
  <2> SUFFICES ASSUME DirectInv, CountInv, NEW n \in Notifications
               PROVE  Cardinality(LiveJobs(n)) <= 1 + faults + retries
    BY DEF OneJobPerNotification
  <2>1. Cardinality(LiveJobs(n)) + (IF n \in storing THEN 1 ELSE 0) <= 1 + faults + retries
    BY DEF CountInv
  <2> QED
    BY <2>1, LiveFinite DEF DirectInv, TypeOK
<1> QED
  BY <1>1, DirectInvHolds, CountInvHolds, PTL

\* Only an ingest that breaks off between the row and the job of a direct notification, or a job
\* that breaks off before failed() was done, loses it: one that waits, moves or fails always has
\* its job, or is shown as failed.
THEOREM LostNeedsFaultHolds == Spec => []LostNeedsFault
<1>1. CountInv => LostNeedsFault
  BY DEF CountInv, LostRows, LostNeedsFault
<1> QED
  BY <1>1, CountInvHolds, PTL

-----------------------------------------------------------------------------
(* What a job does to a row, and to itself.                                  *)

\* A job that may still settle its notification.
Active(job) == job.step \in {"queued", "running", "sent", "moving", "failing"}

\* The rows stay, and a job is only active for a notification that had an active job.
RowsWait ==
  /\ UNCHANGED <<notif, stage, chained>>
  /\ \A i \in DOMAIN jobs' : Active(jobs'[i]) =>
       \E k \in DOMAIN jobs : Active(jobs[k]) /\ jobs'[i].notif = jobs[k].notif
\* Active job j is over, and no other job changes.
JobOver(j) ==
  /\ Active(jobs[j]) /\ ~Active(jobs'[j]) /\ UNCHANGED chained
  /\ DOMAIN jobs' = DOMAIN jobs /\ \A i \in DOMAIN jobs : i # j => jobs'[i] = jobs[i]
RowSettles(n) ==
  \/ UNCHANGED stage /\ (RowFails(n) \/ RowProcessed(n))
  \/ \E b \in Batches : RowMoves(n, b)

\* A job that goes on changes no row.
LEMMA GoOnWaits ==
  ASSUME DirectInv, NEW j \in DOMAIN jobs, NEW step \in Steps, GoTo(j, step),
         UNCHANGED <<notif, stage, chained>>, Active(jobs[j]) \/ step \in {"done", "failed"}
  PROVE  RowsWait
<1>1. /\ DOMAIN jobs' = DOMAIN jobs /\ jobs'[j].notif = jobs[j].notif /\ jobs'[j].step = step
      /\ \A i \in DOMAIN jobs : i # j => jobs'[i] = jobs[i]
  BY GoToJobs DEF DirectInv
<1> QED
  BY <1>1 DEF RowsWait, Active

\* A job that waits in a new job changes no row.
LEMMA WaitWaits ==
  ASSUME DirectInv, NEW j \in DOMAIN jobs, Active(jobs[j]), WaitForDocument(j),
         UNCHANGED <<notif, stage, chained>>
  PROVE  RowsWait
<1>1. PICK i \in Jobs \ DOMAIN jobs :
        /\ DOMAIN jobs' = DOMAIN jobs \cup {i}
        /\ jobs'[i].notif = jobs[j].notif /\ jobs'[i].step = "queued"
        /\ jobs'[j].notif = jobs[j].notif /\ jobs'[j].step = "done"
        /\ \A k \in DOMAIN jobs : k # j => jobs'[k] = jobs[k]
  BY WaitJobs
<1> QED
  BY <1>1 DEF RowsWait, Active

\* The job that sent its document, or that failed for good, settles its row.
LEMMA MarkSettlesRow ==
  ASSUME DirectInv, NEW j \in Jobs, MarkProcessed(j) \/ RecordFailure(j)
  PROVE  JobOver(j) /\ RowSettles(jobs[j].notif)
<1>1. /\ j \in DOMAIN jobs /\ jobs[j].step \in {"sent", "failing"} /\ UNCHANGED <<stage, chained>>
  BY DEF MarkProcessed, RecordFailure, At, batching
<1>2. RowProcessed(jobs[j].notif) \/ RowFails(jobs[j].notif)
  BY MarkProcessedKeepsInv, RecordKeepsInv
<1>3. PICK step \in {"done", "recorded"} : GoTo(j, step)
  BY DEF MarkProcessed, RecordFailure
<1>4. step \in Steps
  BY DEF Steps
<1>5. /\ DOMAIN jobs' = DOMAIN jobs /\ jobs'[j].step = step
      /\ \A i \in DOMAIN jobs : i # j => jobs'[i] = jobs[i]
  BY <1>1, <1>3, <1>4, GoToJobs DEF DirectInv
<1> QED
  BY <1>1, <1>2, <1>5 DEF JobOver, RowSettles, Active

\* So does the job that moves its notification.
LEMMA MoveSettlesRow ==
  ASSUME DirectInv, NEW j \in Jobs, MoveToBatch(j)
  PROVE  JobOver(j) /\ RowSettles(jobs[j].notif)
<1>1. jobs[j].step = "moving" /\ UNCHANGED chained
  BY DEF MoveToBatch, At
<1> QED
  BY <1>1, MoveToBatchKeepsInv DEF JobOver, RowSettles, Active

\* Whatever an active job does, its row stays or is settled by it.
LEMMA JobSteps ==
  ASSUME DirectInv, NEW j \in Jobs, JobStep(j)
  PROVE  /\ j \in DOMAIN jobs /\ UNCHANGED <<storing, faults, retries>>
         /\ RowsWait \/ (JobOver(j) /\ RowSettles(jobs[j].notif))
<1>0. j \in DOMAIN jobs /\ UNCHANGED <<storing, faults, retries>>
  BY JobStepEffect
<1>1. CASE StartJob(j) \/ DocumentLocked(j) \/ DocumentSent(j) \/ RefuseJob(j) \/ PermanentError(j)
  <2>1. /\ \E step \in Steps : GoTo(j, step)
        /\ Active(jobs[j]) /\ UNCHANGED <<notif, stage, chained>>
    BY <1>1 DEF StartJob, DocumentLocked, DocumentSent, RefuseJob, PermanentError, FailJob, At, Active, Steps, batching
  <2> QED
    BY <1>0, <2>1, GoOnWaits
<1>2. CASE TemporaryError(j)
  <2> DEFINE job == [jobs[j] EXCEPT !.errors = jobs[j].errors + 1, !.step = "queued"]
  <2>1. /\ Active(jobs[j]) /\ UNCHANGED <<notif, stage, chained>>
        /\ jobs \in [DOMAIN jobs -> JobRow]
        /\ FailJob(j) \/ jobs' = [jobs EXCEPT ![j] = job]
    BY <1>0, <1>2 DEF TemporaryError, At, Active, batching, DirectInv, TypeOK, IsTable
  <2>2. CASE FailJob(j)
    BY <1>0, <2>1, <2>2, GoOnWaits DEF FailJob, Steps
  <2>3. CASE jobs' = [jobs EXCEPT ![j] = job]
    <3>1. job.notif = jobs[j].notif
      BY <1>0, <2>1 DEF JobRow
    <3> HIDE DEF job
    <3>2. DOMAIN jobs' = DOMAIN jobs /\ \A i \in DOMAIN jobs : jobs'[i] = IF i = j THEN job ELSE jobs[i]
      BY <2>3
    <3> QED
      BY <1>0, <2>1, <2>3, <3>1, <3>2 DEF RowsWait
  <2> QED
    BY <2>1, <2>2, <2>3
<1>3. CASE MarkProcessed(j) \/ RecordFailure(j)
  BY <1>0, <1>3, MarkSettlesRow
<1>4. CASE NotInCorsa(j) \/ UploadIncomplete(j)
  <2>1. /\ Active(jobs[j]) /\ UNCHANGED <<notif, stage, chained>>
        /\ WaitForDocument(j) \/ FailJob(j) \/ GoTo(j, "moving")
    BY <1>4 DEF NotInCorsa, UploadIncomplete, At, Active, batching
  <2>2. CASE WaitForDocument(j)
    BY <1>0, <2>1, <2>2, WaitWaits
  <2>3. CASE FailJob(j) \/ GoTo(j, "moving")
    <3>1. \E step \in Steps : GoTo(j, step)
      BY <2>3 DEF FailJob, Steps
    <3> QED
      BY <1>0, <2>1, <3>1, GoOnWaits
  <2> QED
    BY <2>1, <2>2, <2>3
<1>5. CASE MoveToBatch(j)
  BY <1>0, <1>5, MoveSettlesRow
<1>6. CASE StartTimer(j) \/ StoreFailedJob(j)
  <2>1. (GoTo(j, "done") \/ GoTo(j, "failed")) /\ UNCHANGED <<notif, stage, chained>>
    BY <1>6 DEF StartTimer, StoreFailedJob, batching
  <2>2. PICK step \in {"done", "failed"} : GoTo(j, step)
    BY <2>1
  <2>3. step \in Steps
    BY DEF Steps
  <2> QED
    BY <1>0, <2>1, <2>2, <2>3, GoOnWaits
<1>7. CASE DeleteJob(j)
  BY <1>0, <1>7 DEF DeleteJob, Drop, RowsWait, batching
<1> QED
  BY <1>1, <1>2, <1>3, <1>4, <1>5, <1>6, <1>7 DEF JobStep

-----------------------------------------------------------------------------
(* The batches in which a notification is left behind.                       *)

LeftBatches == {b \in Batches : \E n \in Linked(b) : LeftBehind(n)}

LeftInv == IsFiniteSet(LeftBatches) /\ Cardinality(LeftBatches) <= faults

\* A row that is left behind after a step was so before it.
NoneLeft == \A n \in DOMAIN notif' : LeftBehind(n)' =>
  n \in DOMAIN notif /\ LeftBehind(n) /\ notif'[n].batch = notif[n].batch

\* Then so were its batch and those of all others.
LEMMA NoneLeftBatches ==
  ASSUME NoneLeft
  PROVE  LeftBatches' \subseteq LeftBatches
BY DEF NoneLeft, LeftBatches, Linked

\* A row that is settled is not left behind, and a batch it moves to is open.
LEMMA SettledNotLeft ==
  ASSUME DirectInv, NEW n, RowSettles(n), UNCHANGED chained
  PROVE  NoneLeft
<1>1. stage \in [Batches -> Stages] /\ \A m \in DOMAIN notif : notif[m].route = "batch" => notif[m].batch \in Batches
  BY DEF DirectInv, TypeOK, RefersToRows
<1>2. CASE UNCHANGED stage /\ (RowFails(n) \/ RowProcessed(n))
  BY <1>2 DEF RowFails, RowProcessed, OnlyRow, NoneLeft, LeftBehind
<1>3. ASSUME NEW b \in Batches, RowMoves(n, b) PROVE NoneLeft
  <2>1. \A m \in DOMAIN notif : m # n => notif'[m] = notif[m]
    BY <1>3 DEF RowMoves, OnlyRow
  <2>2. DOMAIN notif' = DOMAIN notif /\ notif'[n].batch = b /\ stage' = [stage EXCEPT ![b] = "open"]
    BY <1>3 DEF RowMoves, OnlyRow
  <2>3. ~LeftBehind(n)'
    BY <1>1, <2>2 DEF LeftBehind
  <2>4. ASSUME NEW m \in DOMAIN notif, m # n, LeftBehind(m)' PROVE LeftBehind(m)
    BY <1>1, <2>1, <2>2, <2>4 DEF LeftBehind
  <2> QED
    BY <2>1, <2>2, <2>3, <2>4 DEF NoneLeft
<1> QED
  BY <1>2, <1>3 DEF RowSettles

\* A step of a job leaves nothing behind.
LEMMA JobLeavesNone ==
  ASSUME DirectInv, NEW j \in Jobs, JobStep(j)
  PROVE  NoneLeft
<1>1. CASE RowsWait
  BY <1>1 DEF RowsWait, NoneLeft, LeftBehind
<1>2. CASE JobOver(j) /\ RowSettles(jobs[j].notif)
  BY <1>2, SettledNotLeft DEF JobOver
<1> QED
  BY <1>1, <1>2, JobSteps

\* A step of a batch leaves nothing behind: its chain is built from all that is linked to it, and
\* a job of the chain that is through with its notification has settled it.
LEMMA BatchLeavesNone ==
  ASSUME DirectInv, NEW b \in Batches,
         TimerExpires(b) \/ BatchStep(b) \/ StopChain(b) \/ RetryChained(b)
  PROVE  NoneLeft
<1>1. /\ stage \in [Batches -> Stages] /\ chained \in [Batches -> SUBSET Notifications] /\ TypeOK
      /\ \A m \in DOMAIN notif : notif[m].route = "batch" => notif[m].batch \in Batches
      /\ DOMAIN notif \subseteq Notifications
  BY DEF DirectInv, TypeOK, RefersToRows, IsTable
<1>2. CASE TimerExpires(b)
  BY <1>2 DEF TimerExpires, NoneLeft, LeftBehind
<1>3. CASE LockBatch(b)
  BY <1>1, <1>3 DEF LockBatch, NoneLeft, LeftBehind
<1>4. CASE StopChain(b) \/ RetryChained(b)
  BY <1>1, <1>4 DEF StopChain, RetryChained, NoneLeft, LeftBehind
<1>5. CASE BuildChain(b)
  <2>1. /\ stage' = [stage EXCEPT ![b] = "chained"] /\ chained' = [chained EXCEPT ![b] = Linked(b)]
        /\ UNCHANGED notif
    BY <1>5 DEF BuildChain
  <2>2. ASSUME NEW n \in DOMAIN notif, LeftBehind(n)' PROVE notif[n].batch # b
    BY <1>1, <2>1, <2>2 DEF LeftBehind, Linked
  <2> QED
    BY <1>1, <2>1, <2>2 DEF NoneLeft, LeftBehind
<1>6. ASSUME NEW n \in Notifications, RunChained(b, n) PROVE NoneLeft
  <2>1. UNCHANGED stage /\ chained' = [chained EXCEPT ![b] = chained[b] \ {n}]
    BY <1>6 DEF RunChained
  <2>2. RowProcessed(n) \/ (n \notin DOMAIN notif /\ notif' = notif)
    BY <1>1, <1>6, ChainedRow
  <2>3. DOMAIN notif' = DOMAIN notif /\ \A m \in DOMAIN notif : m # n => notif'[m] = notif[m]
    BY <2>2 DEF RowProcessed, OnlyRow
  <2>4. ASSUME NEW m \in DOMAIN notif, LeftBehind(m)' PROVE m # n /\ LeftBehind(m)
    <3>1. m # n
      BY <2>2, <2>4 DEF RowProcessed, LeftBehind
    <3> QED
      BY <1>1, <2>1, <2>3, <2>4, <3>1 DEF LeftBehind
  <2> QED
    BY <2>3, <2>4 DEF NoneLeft
<1>7. ASSUME NEW n \in Notifications, FailChained(b, n) PROVE NoneLeft
  <2>1. /\ UNCHANGED chained /\ stage[b] = "chained"
        /\ stage' = [stage EXCEPT ![b] = "stopped"] \/ UNCHANGED stage
    BY <1>7 DEF FailChained
  <2>2. RowFails(n) \/ (n \notin DOMAIN notif /\ notif' = notif)
    BY <1>1, <1>7, ChainedRow
  <2>3. DOMAIN notif' = DOMAIN notif /\ \A m \in DOMAIN notif : m # n => notif'[m] = notif[m]
    BY <2>2 DEF RowFails, OnlyRow
  <2>4. ASSUME NEW m \in DOMAIN notif, LeftBehind(m)' PROVE m # n /\ LeftBehind(m)
    <3>1. m # n
      BY <2>2, <2>4 DEF RowFails, LeftBehind
    <3> QED
      BY <1>1, <2>1, <2>3, <2>4, <3>1 DEF LeftBehind
  <2> QED
    BY <2>3, <2>4 DEF NoneLeft
<1> QED
  BY <1>2, <1>3, <1>4, <1>5, <1>6, <1>7 DEF BatchStep

\* A job of a batch that breaks off leaves notifications of that batch behind, and of no other.
LEMMA CrashLeavesOne ==
  ASSUME DirectInv, NEW b \in Batches, DispatchCrash(b) \/ ChainCrash(b)
  PROVE  LeftBatches' \subseteq LeftBatches \cup {b} /\ faults' = faults + 1
<1>1. UNCHANGED notif /\ faults' = faults + 1
  BY DEF DispatchCrash, ChainCrash
<1>2. \A a \in Batches : a # b => stage'[a] = stage[a] /\ chained'[a] = chained[a]
  BY DEF DispatchCrash, ChainCrash, DirectInv, TypeOK
<1>3. ASSUME NEW a \in LeftBatches', a # b PROVE a \in LeftBatches
  BY <1>1, <1>2, <1>3 DEF LeftBatches, Linked, LeftBehind
<1> QED
  BY <1>1, <1>3

\* At first nothing is left behind.
LEMMA InitLeftInv == Init => LeftInv
<1> SUFFICES ASSUME Init PROVE LeftInv
  OBVIOUS
<1>1. DOMAIN notif = {} /\ faults = 0
  BY DEF Init, Empty
<1>2. LeftBatches = {}
  BY <1>1 DEF LeftBatches, Linked
<1> QED
  BY <1>1, <1>2, FS_EmptySet DEF LeftInv

\* Each step leaves notifications behind in one more batch at most, and then a job broke off.
LEMMA StepLeftInv == DirectInv /\ LeftInv /\ [Next]_vars => LeftInv'
<1> SUFFICES ASSUME DirectInv, LeftInv, [Next]_vars PROVE LeftInv'
  OBVIOUS
<1>n. faults \in Nat
  BY DEF DirectInv, TypeOK
<1>1. ASSUME NoneLeft, faults' \in {faults, faults + 1} PROVE LeftInv'
  <2>1. LeftBatches' \in SUBSET LeftBatches
    BY <1>1, NoneLeftBatches
  <2>2. IsFiniteSet(LeftBatches') /\ Cardinality(LeftBatches') <= Cardinality(LeftBatches)
    BY <2>1, FS_Subset DEF LeftInv
  <2>3. Cardinality(LeftBatches') \in Nat /\ Cardinality(LeftBatches) \in Nat /\ Cardinality(LeftBatches) <= faults
    BY <2>2, FS_CardinalityType DEF LeftInv
  <2> QED
    BY <1>n, <1>1, <2>2, <2>3 DEF LeftInv
<1>2. ASSUME NEW b \in Batches, DispatchCrash(b) \/ ChainCrash(b) PROVE LeftInv'
  <2>1. LeftBatches' \in SUBSET (LeftBatches \cup {b}) /\ faults' = faults + 1
    BY <1>2, CrashLeavesOne
  <2>2. /\ IsFiniteSet(LeftBatches \cup {b})
        /\ Cardinality(LeftBatches \cup {b}) <= Cardinality(LeftBatches) + 1
        /\ Cardinality(LeftBatches) \in Nat
    <3>1. IsFiniteSet(LeftBatches) /\ Cardinality(LeftBatches) \in Nat
      BY FS_CardinalityType DEF LeftInv
    <3>2. /\ IsFiniteSet(LeftBatches \cup {b})
          /\ Cardinality(LeftBatches \cup {b}) =
               IF b \in LeftBatches THEN Cardinality(LeftBatches) ELSE Cardinality(LeftBatches) + 1
      BY <3>1, FS_AddElement
    <3> QED
      BY <3>1, <3>2
  <2>3. IsFiniteSet(LeftBatches') /\ Cardinality(LeftBatches') <= Cardinality(LeftBatches \cup {b})
    BY <2>1, <2>2, FS_Subset
  <2>4. /\ Cardinality(LeftBatches') \in Nat /\ Cardinality(LeftBatches \cup {b}) \in Nat
        /\ Cardinality(LeftBatches) <= faults
    BY <2>2, <2>3, FS_CardinalityType DEF LeftInv
  <2> QED
    BY <1>n, <2>1, <2>2, <2>3, <2>4 DEF LeftInv
<1>3. ASSUME UNCHANGED <<notif, stage, chained>>, faults' \in {faults, faults + 1} PROVE LeftInv'
  <2>1. NoneLeft
    BY <1>3 DEF NoneLeft, LeftBehind
  <2> QED
    BY <1>1, <1>3, <2>1
<1>4. ASSUME NEW n \in Notifications, NEW k \in {"link", "change"}, StoreDirect(n, k) PROVE LeftInv'
  <2> DEFINE row == [kind |-> k, route |-> "direct", batch |-> NoBatch, processed |-> FALSE, failed |-> FALSE]
  <2>1. notif' = Put(notif, n, row) /\ n \notin DOMAIN notif /\ UNCHANGED <<stage, chained, faults>>
    BY <1>4 DEF StoreDirect, batching, luck
  <2>2. row.route = "direct"
    OBVIOUS
  <2> HIDE DEF row
  <2>3. /\ DOMAIN notif' = DOMAIN notif \cup {n} /\ notif'[n] = row
        /\ \A m \in DOMAIN notif : notif'[m] = notif[m]
    BY <2>1 DEF Put
  <2>4. NoneLeft
    BY <2>1, <2>2, <2>3 DEF NoneLeft, LeftBehind
  <2> QED
    BY <1>1, <2>1, <2>4
<1>5. ASSUME NEW n \in Notifications, DispatchDirect(n) \/ IngestCrash(n) PROVE LeftInv'
  BY <1>3, <1>5 DEF DispatchDirect, IngestCrash, batching, luck
<1>6. ASSUME NEW j \in Jobs, JobStep(j) PROVE LeftInv'
  BY <1>1, <1>6, JobLeavesNone, JobSteps
<1>7. ASSUME NEW j \in Jobs, TimeRunsOut(j) \/ FailureBreaks(j) \/ WorkerCrash(j) \/ RetryFailedJob(j) PROVE LeftInv'
  BY <1>3, <1>7 DEF TimeRunsOut, FailureBreaks, WorkerCrash, RetryFailedJob, batching, luck
<1>8. ASSUME NEW b \in Batches, TimerExpires(b) \/ BatchStep(b) \/ StopChain(b) \/ RetryChained(b) PROVE LeftInv'
  <2>1. UNCHANGED faults
    BY <1>8 DEF TimerExpires, BatchStep, LockBatch, BuildChain, RunChained, FailChained, StopChain, RetryChained, luck
  <2> QED
    BY <1>1, <1>8, <2>1, BatchLeavesNone
<1>9. CASE UNCHANGED vars
  BY <1>3, <1>9 DEF vars, batching, luck
<1> QED
  BY <1>2, <1>4, <1>5, <1>6, <1>7, <1>8, <1>9 DEF Next, BatchTrouble

\* moveToBatch links a notification to a batch that is open, and what is linked to a batch gets a
\* job in its chain: whichever jobs move notifications, as many batches at most have one that is
\* left behind as there were jobs that broke off.
THEOREM MovedGetsAJobHolds == Spec => []MovedGetsAJob
<1>1. LeftInv => MovedGetsAJob
  BY DEF LeftInv, LeftBatches, MovedGetsAJob
<1>2. Spec => []LeftInv
  BY InitLeftInv, StepLeftInv, DirectInvHolds, PTL DEF Spec
<1> QED
  BY <1>1, <1>2, PTL

-----------------------------------------------------------------------------
(* What holds as long as no job broke off and nothing was retried.           *)

Quiet == faults = 0 /\ retries = 0

\* Rows and batches agree on what moved.
PlacesAgree ==
  /\ \A n \in DOMAIN notif :
       /\ notif[n].route = "direct" => notif[n].batch = NoBatch
       /\ notif[n].route = "batch" => stage[notif[n].batch] # "none"
  /\ \A b \in Batches : chained[b] \subseteq DOMAIN notif

\* The batch of n has still to handle it, and may do so without a retry.
ToDo(n) ==
  LET b == notif[n].batch IN stage[b] \in {"open", "locked"} \/ (stage[b] = "chained" /\ n \in chained[b])

\* What is going to be settled, by an ingest, a job or a batch, is not settled yet.
NothingTwice ==
  /\ \A n \in storing : ~Settled(notif[n])
  /\ \A j \in DOMAIN jobs : Active(jobs[j]) => ~Settled(notif[jobs[j].notif])
  /\ \A b \in Batches : \A n \in chained[b] :
       n \in DOMAIN notif /\ notif[n].route = "batch" /\ notif[n].batch = b /\ stage[b] \in {"chained", "stopped"}
  /\ \A n \in DOMAIN notif : notif[n].route = "batch" /\ ToDo(n) => ~notif[n].processed /\ ~notif[n].failed

QuietInv == DirectInv /\ CountInv /\ PlacesAgree /\ (Quiet => NothingTwice)

\* Then a notification has one active job at most, and none while its ingest stores it.
LEMMA OneActive ==
  ASSUME QuietInv, Quiet, NEW i \in DOMAIN jobs, NEW j \in DOMAIN jobs, Active(jobs[i]), Active(jobs[j]),
         jobs[i].notif = jobs[j].notif
  PROVE  i = j /\ jobs[i].notif \notin storing
<1> DEFINE n == jobs[i].notif
<1>1. n \in Notifications
  BY DEF QuietInv, DirectInv, RefersToRows, TypeOK, IsTable
<1>2. IsFiniteSet(LiveJobs(n)) /\ Cardinality(LiveJobs(n)) \in Nat
  BY LiveFinite DEF QuietInv
<1>3. {i, j} \subseteq LiveJobs(n)
  BY DEF LiveJobs, Active
<1>4. Cardinality(LiveJobs(n)) + (IF n \in storing THEN 1 ELSE 0) <= 1
  BY <1>1 DEF QuietInv, CountInv, Quiet
<1>5. Cardinality(LiveJobs(n)) # 0
  BY <1>2, <1>3, FS_EmptySet
<1>6. n \notin storing /\ Cardinality(LiveJobs(n)) = 1
  BY <1>2, <1>4, <1>5
<1>7. \E x : LiveJobs(n) = {x}
  BY <1>2, <1>6, FS_Singleton
<1> QED
  BY <1>3, <1>6, <1>7

\* Rows that stay keep their places.
LEMMA PlacesStay ==
  ASSUME PlacesAgree, UNCHANGED <<notif, stage, chained>>
  PROVE  PlacesAgree'
BY DEF PlacesAgree

\* A job that goes on keeps what holds in quiet times.
LEMMA WaitKeepsQuiet ==
  ASSUME DirectInv, NothingTwice, RowsWait, UNCHANGED storing
  PROVE  NothingTwice'
<1>1. UNCHANGED <<notif, stage, chained, storing>>
  BY DEF RowsWait
<1>2. ASSUME NEW i \in DOMAIN jobs', Active(jobs'[i])
      PROVE  ~Settled(notif[jobs'[i].notif])
  BY <1>2 DEF RowsWait, NothingTwice
<1> QED
  BY <1>1, <1>2 DEF NothingTwice, Active, ToDo

\* A row that is settled by its only job keeps it, too.
LEMMA SettleKeepsPlaces ==
  ASSUME DirectInv, PlacesAgree, NEW n \in DOMAIN notif, RowSettles(n), UNCHANGED chained
  PROVE  PlacesAgree'
<1>1. stage \in [Batches -> Stages]
      /\ \A m \in DOMAIN notif : notif[m].route = "batch" => notif[m].batch \in Batches
  BY DEF DirectInv, TypeOK, RefersToRows
<1>2. CASE UNCHANGED stage /\ (RowFails(n) \/ RowProcessed(n))
  BY <1>2 DEF PlacesAgree, RowFails, RowProcessed, OnlyRow
<1>3. ASSUME NEW b \in Batches, RowMoves(n, b) PROVE PlacesAgree'
  BY <1>1, <1>3 DEF PlacesAgree, RowMoves, OnlyRow
<1> QED
  BY <1>2, <1>3 DEF RowSettles

\* In quiet times a job settles a row that was not settled, and no other job is about it.
LEMMA SettleKeepsQuiet ==
  ASSUME QuietInv, Quiet, UNCHANGED storing, NEW j \in DOMAIN jobs, JobOver(j),
         RowSettles(jobs[j].notif)
  PROVE  NothingTwice'
<1> DEFINE n == jobs[j].notif
<1>0. /\ NothingTwice /\ n \in DOMAIN notif /\ ~Settled(notif[n]) /\ n \notin storing
      /\ storing \subseteq DOMAIN notif /\ notif[n].route = "direct" /\ UNCHANGED <<storing, chained>>
      /\ stage \in [Batches -> Stages]
  <2>1. NothingTwice /\ n \in DOMAIN notif /\ storing \subseteq DOMAIN notif /\ stage \in [Batches -> Stages]
    BY DEF QuietInv, DirectInv, RefersToRows, TypeOK
  <2>2. notif[n] \in NotificationRow
    BY <2>1, RowOfTable DEF QuietInv, DirectInv, TypeOK
  <2> QED
    BY <2>1, <2>2, OneActive DEF JobOver, NothingTwice, Settled, NotificationRow
<1>1. \A m \in DOMAIN notif : m # n => notif'[m] = notif[m]
  BY DEF RowSettles, RowFails, RowProcessed, RowMoves, OnlyRow
<1>2. DOMAIN notif' = DOMAIN notif
  BY DEF RowSettles, RowFails, RowProcessed, RowMoves, OnlyRow
<1>3. \A m \in storing : ~Settled(notif'[m])
  BY <1>0, <1>1 DEF NothingTwice
<1>4. ASSUME NEW i \in DOMAIN jobs', Active(jobs'[i]) PROVE ~Settled(notif'[jobs'[i].notif])
  <2>1. i # j /\ i \in DOMAIN jobs /\ jobs'[i] = jobs[i]
    BY <1>4 DEF JobOver
  <2>2. jobs[i].notif # n
    BY <1>4, <2>1, OneActive DEF JobOver
  <2>3. jobs[i].notif \in DOMAIN notif
    BY <2>1 DEF QuietInv, DirectInv, RefersToRows
  <2> QED
    BY <1>0, <1>1, <1>4, <2>1, <2>2, <2>3 DEF NothingTwice
<1>5. \A b \in Batches : n \notin chained[b]
  BY <1>0 DEF NothingTwice
<1>6. \A b \in Batches : stage'[b] = stage[b] \/ (stage[b] \in {"none", "open"} /\ stage'[b] = "open")
  BY <1>0 DEF RowSettles, RowMoves, OpenBatch
<1>7. ASSUME NEW b \in Batches, NEW m \in chained'[b]
      PROVE  /\ m \in DOMAIN notif' /\ notif'[m].route = "batch" /\ notif'[m].batch = b
             /\ stage'[b] \in {"chained", "stopped"}
  <2>1. /\ m \in chained[b] /\ m \in DOMAIN notif /\ notif[m].route = "batch" /\ notif[m].batch = b
        /\ stage[b] \in {"chained", "stopped"}
    BY <1>0, <1>7 DEF NothingTwice
  <2>2. m # n /\ stage'[b] = stage[b]
    BY <1>5, <1>6, <2>1
  <2> QED
    BY <1>1, <1>2, <2>1, <2>2
<1>8. ASSUME NEW m \in DOMAIN notif', notif'[m].route = "batch", ToDo(m)'
      PROVE  ~notif'[m].processed /\ ~notif'[m].failed
  <2>1. CASE m = n
    <3>1. ~(RowFails(n) \/ RowProcessed(n))
      BY <1>0, <1>8, <2>1 DEF RowFails, RowProcessed
    <3> QED
      BY <1>0, <2>1, <3>1 DEF RowSettles, RowMoves, Settled
  <2>2. CASE m # n
    <3>1. /\ m \in DOMAIN notif /\ notif'[m] = notif[m] /\ notif[m].batch \in Batches
          /\ stage[notif[m].batch] # "none" /\ notif[m].route = "batch"
      BY <1>1, <1>2, <1>8, <2>2 DEF QuietInv, DirectInv, RefersToRows, PlacesAgree
    <3>2. ToDo(m)
      BY <1>0, <1>6, <1>8, <3>1 DEF ToDo
    <3> QED
      BY <1>0, <3>1, <3>2 DEF NothingTwice
  <2> QED
    BY <2>1, <2>2
<1> QED
  BY <1>0, <1>3, <1>4, <1>7, <1>8 DEF NothingTwice

\* What a batch does keeps the places, too.
LEMMA BatchKeepsPlaces ==
  ASSUME DirectInv, PlacesAgree, NEW b \in Batches, BatchStep(b) \/ BatchTrouble(b)
  PROVE  PlacesAgree'
<1>1. /\ stage \in [Batches -> Stages] /\ chained \in [Batches -> SUBSET Notifications] /\ TypeOK
      /\ \A m \in DOMAIN notif : notif[m].route = "batch" => notif[m].batch \in Batches
      /\ \A a \in Batches : chained[a] \subseteq DOMAIN notif
  BY DEF DirectInv, TypeOK, RefersToRows, PlacesAgree
<1>2. PlacesKept
  <2>1. \A n \in Notifications : RunChained(b, n) \/ FailChained(b, n) => PlacesKept
    BY <1>1, ChainedRow
  <2> QED
    BY <1>1, <2>1, SameRows DEF BatchStep, BatchTrouble, LockBatch, BuildChain, StopChain, DispatchCrash,
      ChainCrash, RetryChained
<1>3. \A a \in Batches : stage[a] # "none" => stage'[a] # "none"
  BY <1>1 DEF BatchStep, BatchTrouble, LockBatch, BuildChain, RunChained, FailChained, StopChain, DispatchCrash,
    ChainCrash, RetryChained
<1>4. ASSUME NEW a \in Batches PROVE chained'[a] \subseteq DOMAIN notif
  <2>1. chained'[a] \subseteq chained[a] \cup Linked(b)
    BY <1>1 DEF BatchStep, BatchTrouble, LockBatch, BuildChain, RunChained, FailChained, StopChain, DispatchCrash,
      ChainCrash, RetryChained
  <2> QED
    BY <1>1, <2>1 DEF Linked
<1> QED
  BY <1>1, <1>2, <1>3, <1>4 DEF PlacesKept, PlacesAgree

\* In quiet times the chain of a batch handles what it was built from, and each of it once.
LEMMA BatchKeepsQuiet ==
  ASSUME QuietInv, Quiet, NEW b \in Batches, BatchStep(b) \/ StopChain(b)
  PROVE  NothingTwice'
<1>t. /\ stage \in [Batches -> Stages] /\ chained \in [Batches -> SUBSET Notifications]
      /\ TypeOK /\ PlacesAgree /\ NothingTwice
      /\ \A m \in DOMAIN notif : notif[m].route = "batch" => notif[m].batch \in Batches
      /\ storing \subseteq DOMAIN notif /\ \A j \in DOMAIN jobs : jobs[j].notif \in DOMAIN notif
      /\ \A m \in DOMAIN notif : notif[m].route \in {"direct", "batch"}
  <2>1. ASSUME NEW m \in DOMAIN notif PROVE notif[m].route \in {"direct", "batch"}
    <3>1. notif[m] \in NotificationRow
      BY RowOfTable DEF QuietInv, DirectInv, TypeOK
    <3> QED
      BY <3>1 DEF NotificationRow
  <2> QED
    BY <2>1 DEF QuietInv, DirectInv, TypeOK, RefersToRows
<1>1. CASE LockBatch(b) \/ StopChain(b)
  <2>1. /\ \/ stage[b] = "open" /\ stage' = [stage EXCEPT ![b] = "locked"]
           \/ stage[b] = "chained" /\ stage' = [stage EXCEPT ![b] = "stopped"]
        /\ UNCHANGED <<notif, storing, jobs, chained>>
    BY <1>1 DEF LockBatch, StopChain
  <2>2. \A n \in DOMAIN notif : notif[n].route = "batch" /\ ToDo(n)' => ToDo(n)
    BY <1>t, <2>1 DEF ToDo
  <2>3. \A a \in Batches : stage[a] \in {"chained", "stopped"} => stage'[a] \in {"chained", "stopped"}
    BY <1>t, <2>1
  <2> QED
    BY <1>t, <2>1, <2>2, <2>3 DEF NothingTwice, Active, Settled
<1>2. CASE BuildChain(b)
  <2>1. /\ stage[b] = "locked" /\ stage' = [stage EXCEPT ![b] = "chained"]
        /\ chained' = [chained EXCEPT ![b] = Linked(b)]
        /\ UNCHANGED <<notif, storing, jobs>>
    BY <1>2 DEF BuildChain
  <2>2. ASSUME NEW n \in Linked(b) PROVE n \in DOMAIN notif /\ notif[n].route = "batch" /\ notif[n].batch = b
    BY <1>t, <2>2, ConstantsAssumption DEF PlacesAgree, Linked
  <2>3. ASSUME NEW a \in Batches, NEW n \in chained'[a]
        PROVE  n \in DOMAIN notif /\ notif[n].route = "batch" /\ notif[n].batch = a /\ stage'[a] \in {"chained", "stopped"}
    BY <1>t, <2>1, <2>2, <2>3 DEF NothingTwice
  <2>4. \A n \in DOMAIN notif : notif[n].route = "batch" /\ ToDo(n)' => ToDo(n)
    BY <1>t, <2>1 DEF ToDo
  <2> QED
    BY <1>t, <2>1, <2>3, <2>4 DEF NothingTwice, Active, Settled
<1>3. ASSUME NEW n \in Notifications, RunChained(b, n) \/ FailChained(b, n)
      PROVE  NothingTwice'
  <2>1. /\ stage[b] = "chained" /\ n \in chained[b] /\ UNCHANGED <<storing, jobs>>
        /\ \/ chained' = [chained EXCEPT ![b] = chained[b] \ {n}] /\ UNCHANGED stage
           \/ chained' = chained /\ stage' = [stage EXCEPT ![b] = "stopped"]
    BY <1>3 DEF RunChained, FailChained, Quiet
  <2>2. n \in DOMAIN notif /\ notif[n].route = "batch" /\ notif[n].batch = b
    BY <1>t, <2>1 DEF NothingTwice
  <2>3. /\ OnlyRow(n) /\ notif'[n].route = notif[n].route /\ notif'[n].batch = notif[n].batch
    BY <1>3, <1>t, <2>2, ChainedRow DEF RowFails, RowProcessed
  <2>4. \A m \in DOMAIN notif : m # n => notif'[m] = notif[m]
    BY <2>3 DEF OnlyRow
  <2>5. Settled(notif[n])
    BY <2>2 DEF Settled
  <2>6. \A m \in storing : ~Settled(notif'[m])
    BY <1>t, <2>4, <2>5 DEF NothingTwice
  <2>7. \A j \in DOMAIN jobs : Active(jobs[j]) => ~Settled(notif'[jobs[j].notif])
    BY <1>t, <2>4, <2>5 DEF NothingTwice
  <2>8. \A a \in Batches :
          /\ chained'[a] \subseteq chained[a]
          /\ (stage[a] \in {"chained", "stopped"} => stage'[a] \in {"chained", "stopped"})
          /\ (stage'[a] = stage[a] \/ stage'[a] = "stopped")
    BY <1>t, <2>1
  <2>9. ASSUME NEW a \in Batches, NEW m \in chained'[a]
        PROVE  /\ m \in DOMAIN notif' /\ notif'[m].route = "batch" /\ notif'[m].batch = a
               /\ stage'[a] \in {"chained", "stopped"}
    <3>1. /\ m \in DOMAIN notif /\ notif[m].route = "batch" /\ notif[m].batch = a
          /\ stage[a] \in {"chained", "stopped"}
      BY <1>t, <2>8, <2>9 DEF NothingTwice
    <3>2. m \in DOMAIN notif' /\ notif'[m].route = notif[m].route /\ notif'[m].batch = notif[m].batch
      BY <2>3, <2>4, <3>1 DEF OnlyRow
    <3> QED
      BY <2>8, <3>1, <3>2
  <2>10. ASSUME NEW m \in DOMAIN notif', notif'[m].route = "batch", ToDo(m)'
         PROVE  ~notif'[m].processed /\ ~notif'[m].failed
    <3>1. m # n
      BY <1>t, <2>1, <2>2, <2>3, <2>10 DEF ToDo
    <3>2. m \in DOMAIN notif /\ notif'[m] = notif[m]
      BY <2>3, <2>4, <2>10, <3>1 DEF OnlyRow
    <3>3. notif[m].batch \in Batches /\ notif[m].route = "batch"
      BY <1>t, <2>10, <3>2
    <3>4. ToDo(m)
      BY <2>8, <2>10, <3>2, <3>3 DEF ToDo
    <3> QED
      BY <1>t, <3>2, <3>3, <3>4 DEF NothingTwice
  <2> QED
    BY <2>1, <2>6, <2>7, <2>9, <2>10 DEF NothingTwice, Active
<1> QED
  BY <1>1, <1>2, <1>3 DEF BatchStep

\* What holds in quiet times is inductive, together with the counts.
LEMMA StepQuietInv == QuietInv /\ [Next]_vars => QuietInv'
<1> SUFFICES ASSUME QuietInv, [Next]_vars
             PROVE  PlacesAgree' /\ (Quiet' => NothingTwice')
  BY StepDirectInv, StepCountInv DEF QuietInv
<1>t. /\ DirectInv /\ TypeOK /\ PlacesAgree /\ faults \in Nat /\ retries \in Nat
      /\ DOMAIN notif \subseteq Notifications
      /\ storing \subseteq DOMAIN notif /\ \A j \in DOMAIN jobs : jobs[j].notif \in DOMAIN notif
  BY DEF QuietInv, DirectInv, TypeOK, RefersToRows, IsTable
<1>1. ASSUME NEW n \in Notifications, NEW k \in {"link", "change"}, StoreDirect(n, k)
      PROVE  PlacesAgree' /\ (Quiet' => NothingTwice')
  <2> DEFINE row == [kind |-> k, route |-> "direct", batch |-> NoBatch, processed |-> FALSE, failed |-> FALSE]
  <2>1. /\ n \notin DOMAIN notif /\ notif' = Put(notif, n, row) /\ storing' = storing \cup {n}
        /\ UNCHANGED <<jobs, stage, chained, faults, retries>>
    BY <1>1 DEF StoreDirect, batching, luck
  <2>2. row.route = "direct" /\ row.batch = NoBatch /\ ~Settled(row)
    BY DEF Settled
  <2> HIDE DEF row
  <2>3. /\ DOMAIN notif' = DOMAIN notif \cup {n} /\ notif'[n] = row
        /\ \A m \in DOMAIN notif : notif'[m] = notif[m]
    BY <2>1 DEF Put
  <2>4. PlacesAgree'
    BY <1>t, <2>1, <2>2, <2>3 DEF PlacesAgree
  <2>5. ASSUME NothingTwice PROVE NothingTwice'
    BY <1>t, <2>1, <2>2, <2>3, <2>5 DEF NothingTwice, Active, ToDo
  <2> QED
    BY <2>1, <2>4, <2>5 DEF QuietInv, Quiet
<1>2. ASSUME NEW n \in Notifications, DispatchDirect(n) PROVE PlacesAgree' /\ (Quiet' => NothingTwice')
  <2>1. /\ n \in storing /\ storing' = storing \ {n} /\ n \in DOMAIN notif
        /\ UNCHANGED <<notif, stage, chained, faults, retries>>
    BY <1>2, <1>t DEF DispatchDirect, batching, luck
  <2>2. PICK i \in Jobs \ DOMAIN jobs : jobs' = Put(jobs, i, NewJob(n, 0))
    BY <1>2 DEF DispatchDirect, NewJobs, FreeJobs
  <2>3. NewJob(n, 0).notif = n
    BY <1>2, NewJobRow, ConstantsAssumption
  <2>4. DOMAIN jobs' = DOMAIN jobs \cup {i}
        /\ \A j \in DOMAIN jobs' : jobs'[j] = IF j = i THEN NewJob(n, 0) ELSE jobs[j]
    BY <2>2 DEF Put
  <2>5. ASSUME NothingTwice PROVE NothingTwice'
    BY <2>1, <2>3, <2>4, <2>5 DEF NothingTwice, Active, ToDo
  <2> QED
    BY <1>t, <2>1, <2>5, PlacesStay DEF QuietInv, Quiet
<1>3. ASSUME faults' = faults + 1 \/ retries' = retries + 1, UNCHANGED <<notif, stage, chained>>
      PROVE  PlacesAgree' /\ (Quiet' => NothingTwice')
  BY <1>t, <1>3, PlacesStay DEF Quiet
<1>4. ASSUME NEW j \in Jobs, JobStep(j) PROVE PlacesAgree' /\ (Quiet' => NothingTwice')
  <2>1. /\ j \in DOMAIN jobs /\ UNCHANGED <<storing, faults, retries>>
        /\ RowsWait \/ (JobOver(j) /\ RowSettles(jobs[j].notif))
    BY <1>4, <1>t, JobSteps
  <2>2. CASE RowsWait
    <3>1. PlacesAgree'
      BY <1>t, <2>2, PlacesStay DEF RowsWait
    <3> QED
      BY <1>t, <2>1, <2>2, <3>1, WaitKeepsQuiet DEF QuietInv, Quiet
  <2>3. CASE JobOver(j) /\ RowSettles(jobs[j].notif)
    <3>1. PlacesAgree'
      BY <1>t, <2>1, <2>3, SettleKeepsPlaces DEF JobOver, QuietInv, DirectInv, RefersToRows
    <3>2. Quiet => NothingTwice'
      BY <2>1, <2>3, SettleKeepsQuiet
    <3> QED
      BY <2>1, <3>1, <3>2 DEF Quiet
  <2> QED
    BY <2>1, <2>2, <2>3
<1>5. ASSUME NEW j \in Jobs, TimeRunsOut(j) PROVE PlacesAgree' /\ (Quiet' => NothingTwice')
  <2> DEFINE job == [jobs[j] EXCEPT !.expired = TRUE]
  <2>1. /\ j \in DOMAIN jobs /\ jobs' = [jobs EXCEPT ![j] = job]
        /\ UNCHANGED <<notif, storing, stage, chained, faults, retries>> /\ jobs[j] \in JobRow
    BY <1>5, <1>t, RowOfTable DEF TimeRunsOut, batching, luck, TypeOK
  <2>2. job.notif = jobs[j].notif /\ job.step = jobs[j].step
    BY <2>1 DEF JobRow
  <2> HIDE DEF job
  <2>3. DOMAIN jobs' = DOMAIN jobs /\ \A i \in DOMAIN jobs : jobs'[i] = IF i = j THEN job ELSE jobs[i]
    BY <2>1
  <2>4. RowsWait
    BY <2>1, <2>2, <2>3 DEF RowsWait, Active
  <2>5. PlacesAgree'
    BY <1>t, <2>1, PlacesStay
  <2> QED
    BY <1>t, <2>1, <2>4, <2>5, WaitKeepsQuiet DEF QuietInv, Quiet
<1>6. ASSUME NEW b \in Batches, BatchStep(b) \/ BatchTrouble(b) PROVE PlacesAgree' /\ (Quiet' => NothingTwice')
  <2>1. PlacesAgree'
    BY <1>6, <1>t, BatchKeepsPlaces
  <2>2. CASE BatchStep(b) \/ StopChain(b)
    <3>1. UNCHANGED <<faults, retries>>
      BY <2>2 DEF BatchStep, LockBatch, BuildChain, RunChained, FailChained, StopChain, luck
    <3> QED
      BY <2>1, <2>2, <3>1, BatchKeepsQuiet DEF Quiet
  <2>3. CASE DispatchCrash(b) \/ ChainCrash(b) \/ RetryChained(b)
    <3>1. faults' = faults + 1 \/ retries' = retries + 1
      BY <2>3 DEF DispatchCrash, ChainCrash, RetryChained
    <3> QED
      BY <1>t, <2>1, <3>1 DEF Quiet
  <2> QED
    BY <1>6, <2>2, <2>3 DEF BatchTrouble
<1>7. ASSUME UNCHANGED <<notif, storing, jobs, stage, chained, faults, retries>>
      PROVE  PlacesAgree' /\ (Quiet' => NothingTwice')
  <2>1. PlacesAgree'
    BY <1>t, <1>7, PlacesStay
  <2> QED
    BY <1>7, <2>1 DEF QuietInv, Quiet, NothingTwice, ToDo
<1>8. ASSUME NEW n \in Notifications, IngestCrash(n) PROVE PlacesAgree' /\ (Quiet' => NothingTwice')
  BY <1>3, <1>8 DEF IngestCrash, batching
<1>9. ASSUME NEW j \in Jobs, FailureBreaks(j) \/ WorkerCrash(j) \/ RetryFailedJob(j)
      PROVE  PlacesAgree' /\ (Quiet' => NothingTwice')
  BY <1>3, <1>9 DEF FailureBreaks, WorkerCrash, RetryFailedJob, batching
<1>10. ASSUME NEW b \in Batches, TimerExpires(b) PROVE PlacesAgree' /\ (Quiet' => NothingTwice')
  BY <1>7, <1>10 DEF TimerExpires, luck
<1>11. CASE UNCHANGED vars
  BY <1>7, <1>11 DEF vars, batching, luck
<1> QED
  BY <1>1, <1>2, <1>4, <1>5, <1>6, <1>8, <1>9, <1>10, <1>11 DEF Next

\* At first nothing is stored.
LEMMA InitQuietInv == Init => QuietInv
<1> SUFFICES ASSUME Init PROVE QuietInv
  OBVIOUS
<1>1. DOMAIN notif = {} /\ DOMAIN jobs = {} /\ storing = {} /\ \A b \in Batches : chained[b] = {}
  BY DEF Init, Empty
<1> QED
  BY <1>1, InitDirectInv, InitCountInv DEF QuietInv, PlacesAgree, NothingTwice

-----------------------------------------------------------------------------
(* Every step is one of the promise, or changes nothing it is about.         *)

Place == [n \in DOMAIN notif |-> notif[n].batch]
Processed == {n \in DOMAIN notif : notif[n].processed}
Failed == {n \in DOMAIN notif : notif[n].failed}
PStage == [b \in Batches |-> PromiseStage(stage[b])]

\* What the promise sees of a batch that goes to another stage.
LEMMA StageSeen ==
  ASSUME TypeOK, NEW b \in Batches, NEW s, stage' = [stage EXCEPT ![b] = s]
  PROVE  PStage' = [PStage EXCEPT ![b] = PromiseStage(s)]
<1>1. DOMAIN stage = Batches
  BY DEF TypeOK
<1>2. \A a \in Batches : stage'[a] = IF a = b THEN s ELSE stage[a]
  BY <1>1
<1>3. \A a \in Batches : PStage[a] = PromiseStage(stage[a]) /\ PStage'[a] = PromiseStage(stage'[a])
  BY DEF PStage
<1>4. ASSUME NEW a \in Batches PROVE PStage'[a] = IF a = b THEN PromiseStage(s) ELSE PStage[a]
  <2>1. CASE a = b
    <3>1. stage'[a] = s
      BY <1>2, <2>1
    <3> QED
      BY <1>3, <2>1, <3>1
  <2>2. CASE a # b
    <3>1. stage'[a] = stage[a]
      BY <1>2, <2>2
    <3> QED
      BY <1>3, <2>2, <3>1
  <2> QED
    BY <2>1, <2>2
<1>5. PStage = [a \in Batches |-> PStage[a]] /\ PStage' = [a \in Batches |-> PStage'[a]]
  BY DEF PStage
<1> QED
  BY <1>4, <1>5

\* What the promise calls the stages.
LEMMA StageNames ==
  ASSUME TypeOK, NEW b \in Batches
  PROVE  /\ (stage[b] = "none" => PStage[b] = "none")
         /\ (stage[b] = "open" => PStage[b] = "open")
         /\ (stage[b] = "locked" => PStage[b] = "closed")
         /\ (stage[b] \in {"chained", "stopped", "stranded"} => PStage[b] = "working")
BY DEF PStage, PromiseStage

\* At first nothing was accepted, and no batch is closed.
LEMMA InitPromise == Init => Promise!Init
<1> SUFFICES ASSUME Init PROVE Promise!Init
  OBVIOUS
<1>1. DOMAIN notif = {} /\ faults + retries = 0
  BY DEF Init, Empty
<1>2. /\ [n \in DOMAIN notif |-> notif[n].batch] = [n \in {} |-> NoBatch]
      /\ {n \in DOMAIN notif : notif[n].processed} = {} /\ {n \in DOMAIN notif : notif[n].failed} = {}
  BY <1>1
<1>3. [b \in Batches |-> PromiseStage(stage[b])] \in [Batches -> {"none", "open"}]
  <2>1. \A b \in Batches : stage[b] \in {"none", "open"}
    BY DEF Init
  <2>2. \A b \in Batches : PromiseStage(stage[b]) \in {"none", "open"}
    BY <2>1 DEF PromiseStage
  <2> QED
    BY <2>2
<1> QED
  BY <1>1, <1>2, <1>3 DEF Init, Promise!Init

\* A batch whose chain stops or goes on is working before and after.
LEMMA WorkingStays ==
  ASSUME TypeOK, NEW b \in Batches, stage[b] \in {"chained", "stopped"},
         UNCHANGED stage \/ \E s \in {"chained", "stopped"} : stage' = [stage EXCEPT ![b] = s]
  PROVE  PStage' = PStage
<1>1. CASE UNCHANGED stage
  BY <1>1 DEF PStage
<1>2. ASSUME NEW s \in {"chained", "stopped"}, stage' = [stage EXCEPT ![b] = s] PROVE PStage' = PStage
  <2>1. PStage' = [PStage EXCEPT ![b] = PromiseStage(s)] /\ PStage[b] = "working"
    BY <1>2, StageSeen, StageNames
  <2>2. PromiseStage(s) = "working"
    BY DEF PromiseStage
  <2> QED
    BY <2>1, <2>2 DEF PStage
<1> QED
  BY <1>1, <1>2

\* What moved to a batch is what is linked to it.
LEMMA MovedIsLinked == ASSUME NEW b PROVE Promise!MovedTo(b) = Linked(b)
BY DEF Promise!MovedTo, Linked

\* What the promise sees when one row changes and the route stays.
LEMMA RowSeen ==
  ASSUME NEW n, OnlyRow(n), notif'[n].batch = notif[n].batch
  PROVE  /\ Place' = Place
         /\ Processed' = IF notif'[n].processed THEN Processed \cup {n} ELSE Processed \ {n}
         /\ Failed' = IF notif'[n].failed THEN Failed \cup {n} ELSE Failed \ {n}
BY DEF OnlyRow, Place, Processed, Failed

\* A failure that was recorded is cleared, or stays.
LEMMA FailureClears ==
  ASSUME NEW n, Failed' = IF notif'[n].failed THEN Failed \cup {n} ELSE Failed \ {n},
         n \in DOMAIN notif, notif'[n].failed => notif[n].failed
  PROVE  Failed' \in {Failed, Failed \ {n}}
BY DEF Failed

\* A job that is active is about a notification that may still be settled.
LEMMA ActiveOnRoute ==
  ASSUME QuietInv, NEW j \in DOMAIN jobs, Active(jobs[j])
  PROVE  Promise!OnDirectRoute(jobs[j].notif)
<1> DEFINE n == jobs[j].notif
<1>1. n \in DOMAIN notif /\ notif[n] \in NotificationRow
  BY RowOfTable DEF QuietInv, DirectInv, RefersToRows, TypeOK
<1>2. ASSUME faults + retries = 0
      PROVE  ~notif[n].processed /\ ~notif[n].failed /\ notif[n].batch = NoBatch
  <2>1. Quiet
    BY <1>2 DEF QuietInv, DirectInv, TypeOK, Quiet
  <2>2. ~Settled(notif[n])
    BY <2>1 DEF QuietInv, NothingTwice
  <2> QED
    BY <1>1, <2>2 DEF Settled, QuietInv, PlacesAgree, NotificationRow
<1> QED
  BY <1>1, <1>2 DEF Promise!OnDirectRoute, Promise!Fresh

\* The row of such a notification is settled as the promise says.
LEMMA SettlePromise ==
  ASSUME TypeOK, NEW n \in DOMAIN notif, n \in Notifications, Promise!OnDirectRoute(n), RowSettles(n),
         UNCHANGED <<chained, faults, retries>>
  PROVE  Promise!Next
<1>0. UNCHANGED stage => PStage' = PStage
  BY DEF PStage
<1>1. CASE RowFails(n) /\ UNCHANGED stage
  <2>1. Place' = Place /\ Processed' = Processed /\ Failed' = Failed \cup {n}
    BY <1>1, RowSeen DEF RowFails, Processed
  <2>2. Promise!Fail(n)
    BY <1>0, <1>1, <2>1 DEF Promise!Fail, PStage, Place, Processed, Failed
  <2> QED
    BY <2>2 DEF Promise!Next
<1>2. CASE RowProcessed(n) /\ UNCHANGED stage
  <2>1. Place' = Place /\ Processed' = Processed \cup {n} /\ Failed' \in {Failed, Failed \ {n}}
    BY <1>2, RowSeen, FailureClears DEF RowProcessed
  <2>2. Promise!Process(n)
    BY <1>0, <1>2, <2>1 DEF Promise!Process, Promise!Clears, PStage, Place, Processed, Failed
  <2> QED
    BY <2>2 DEF Promise!Next
<1>3. ASSUME NEW b \in Batches, RowMoves(n, b) PROVE Promise!Next
  <2>1. Place' = [Place EXCEPT ![n] = b] /\ Processed' = Processed
    BY <1>3 DEF RowMoves, OnlyRow, Place, Processed
  <2>2. Failed' = IF notif'[n].failed THEN Failed \cup {n} ELSE Failed \ {n}
    BY <1>3 DEF RowMoves, OnlyRow, Failed
  <2>3. Failed' \in {Failed, Failed \ {n}}
    BY <1>3, <2>2, FailureClears DEF RowMoves
  <2>4. PStage[b] \in {"open", "none"} /\ PStage' = [PStage EXCEPT ![b] = "open"]
    BY <1>3, StageNames, StageSeen DEF RowMoves, OpenBatch, PromiseStage
  <2>5. Promise!Move(n, b)
    BY <1>3, <2>1, <2>3, <2>4 DEF RowMoves, Promise!Move, Promise!Clears, PStage, Place, Processed, Failed
  <2> QED
    BY <2>5 DEF Promise!Next
<1> QED
  BY <1>1, <1>2, <1>3 DEF RowSettles

\* The chain of a batch handles what the batch owes.
LEMMA ChainedPromise ==
  ASSUME QuietInv, NEW b \in Batches, NEW n \in Notifications, RunChained(b, n) \/ FailChained(b, n)
  PROVE  Promise!Next
<1>1. /\ n \in chained[b] /\ stage[b] = "chained"
      /\ UNCHANGED <<faults, retries>> /\ TypeOK /\ faults \in Nat /\ retries \in Nat
  BY DEF RunChained, FailChained, luck, QuietInv, DirectInv, TypeOK
<1>2. n \in DOMAIN notif
  BY <1>1 DEF QuietInv, PlacesAgree
<1>3. Promise!Fresh(n)
  <2>1. ASSUME faults + retries = 0 PROVE ~notif[n].processed /\ ~notif[n].failed
    <3>1. Quiet /\ NothingTwice
      BY <1>1, <2>1 DEF QuietInv, Quiet
    <3>2. notif[n].route = "batch" /\ ToDo(n)
      BY <1>1, <3>1 DEF NothingTwice, ToDo
    <3> QED
      BY <1>2, <3>1, <3>2 DEF NothingTwice
  <2> QED
    BY <1>2, <2>1 DEF Promise!Fresh
<1>4. ASSUME RunChained(b, n) PROVE Promise!Next
  <2>1. RowProcessed(n) /\ UNCHANGED stage /\ chained' = [chained EXCEPT ![b] = chained[b] \ {n}]
    BY <1>1, <1>2, <1>4, ChainedRow DEF RunChained
  <2>2. Place' = Place /\ Processed' = Processed \cup {n} /\ Failed' \in {Failed, Failed \ {n}}
    BY <1>2, <2>1, RowSeen, FailureClears DEF RowProcessed
  <2>3. PStage' = PStage
    BY <2>1 DEF PStage
  <2>4. Promise!Handle(b, n)
    BY <1>1, <1>3, <2>1, <2>2, <2>3 DEF Promise!Handle, Promise!Clears, PStage, Place, Processed, Failed
  <2> QED
    BY <2>4 DEF Promise!Next
<1>5. ASSUME FailChained(b, n) PROVE Promise!Next
  <2>1. /\ RowFails(n) /\ UNCHANGED chained
        /\ UNCHANGED stage \/ stage' = [stage EXCEPT ![b] = "stopped"]
    BY <1>1, <1>2, <1>5, ChainedRow DEF FailChained
  <2>2. Place' = Place /\ Processed' = Processed /\ Failed' = Failed \cup {n}
    <3>1. /\ Place' = Place /\ Failed' = Failed \cup {n}
          /\ Processed' = IF notif[n].processed THEN Processed \cup {n} ELSE Processed \ {n}
      BY <2>1, RowSeen DEF RowFails
    <3>2. n \in Processed <=> notif[n].processed
      BY <1>2 DEF Processed
    <3> QED
      BY <3>1, <3>2
  <2>3. PStage' = PStage
    BY <1>1, <2>1, WorkingStays
  <2>4. Promise!HandleFails(b, n)
    BY <1>1, <1>3, <2>1, <2>2, <2>3 DEF Promise!HandleFails, PStage, Place, Processed, Failed
  <2> QED
    BY <2>4 DEF Promise!Next
<1> QED
  BY <1>4, <1>5

\* A batch that is locked takes on what moved to it; one that stops keeps what it has.
LEMMA BatchPromise ==
  ASSUME QuietInv, NEW b \in Batches, LockBatch(b) \/ BuildChain(b) \/ BatchTrouble(b)
  PROVE  Promise!Next \/ UNCHANGED Promise!vars
<1>1. TypeOK /\ faults \in Nat /\ retries \in Nat
  BY DEF QuietInv, DirectInv, TypeOK
<1>2. CASE LockBatch(b)
  <2>1. /\ stage[b] = "open" /\ stage' = [stage EXCEPT ![b] = "locked"]
        /\ UNCHANGED <<notif, chained, faults, retries>>
    BY <1>2 DEF LockBatch, luck
  <2>2. PStage[b] = "open" /\ PStage' = [PStage EXCEPT ![b] = "closed"]
    BY <1>1, <2>1, StageNames, StageSeen DEF PromiseStage
  <2>3. Promise!Close(b)
    BY <2>1, <2>2 DEF Promise!Close, PStage
  <2> QED
    BY <2>3 DEF Promise!Next
<1>3. CASE BuildChain(b)
  <2>1. /\ stage[b] = "locked" /\ stage' = [stage EXCEPT ![b] = "chained"]
        /\ chained' = [chained EXCEPT ![b] = Linked(b)]
        /\ UNCHANGED <<notif, faults, retries>>
    BY <1>3 DEF BuildChain, luck
  <2>2. PStage[b] = "closed" /\ PStage' = [PStage EXCEPT ![b] = "working"]
    BY <1>1, <2>1, StageNames, StageSeen DEF PromiseStage
  <2>3. Promise!TakeOn(b)
    BY <2>1, <2>2, MovedIsLinked DEF Promise!TakeOn, PStage
  <2> QED
    BY <2>3 DEF Promise!Next
<1>4. CASE StopChain(b)
  <2>1. /\ stage[b] = "chained" /\ stage' = [stage EXCEPT ![b] = "stopped"]
        /\ UNCHANGED <<notif, chained, faults, retries>>
    BY <1>4 DEF StopChain, luck
  <2>2. PStage' = PStage
    BY <1>1, <2>1, WorkingStays
  <2> QED
    BY <2>1, <2>2 DEF Promise!vars, PStage
<1>5. CASE RetryChained(b)
  <2>1. /\ stage[b] = "stopped" /\ stage' = [stage EXCEPT ![b] = "chained"]
        /\ UNCHANGED <<notif, chained, faults>> /\ retries' = retries + 1
    BY <1>5 DEF RetryChained
  <2>2. PStage' = PStage
    BY <1>1, <2>1, WorkingStays
  <2>3. Promise!Trouble
    BY <1>1, <2>1, <2>2 DEF Promise!Trouble, PStage
  <2> QED
    BY <2>3 DEF Promise!Next
<1>6. CASE DispatchCrash(b) \/ ChainCrash(b)
  <2>1. PICK next \in {"chained", "stopped", "stranded"}, left \in SUBSET (chained[b] \cup Linked(b)) :
             /\ stage[b] \in {"locked", "chained", "stopped"} /\ stage' = [stage EXCEPT ![b] = next]
             /\ chained' = [chained EXCEPT ![b] = left]
             /\ UNCHANGED <<notif, retries>> /\ faults' = faults + 1
    <3>1. ASSUME DispatchCrash(b)
          PROVE  chained' = [chained EXCEPT ![b] = chained[b]]
      BY <1>1, <3>1 DEF DispatchCrash, TypeOK
    <3> QED
      BY <1>6, <3>1 DEF DispatchCrash, ChainCrash
  <2>2. PStage[b] \in {"closed", "working"} /\ PStage' = [PStage EXCEPT ![b] = "working"]
    BY <1>1, <2>1, StageNames, StageSeen DEF PromiseStage
  <2>3. left \in SUBSET (chained[b] \cup Promise!MovedTo(b))
    BY <2>1, MovedIsLinked
  <2>4. Place' = Place /\ Processed' = Processed /\ Failed' = Failed
    BY <2>1 DEF Place, Processed, Failed
  <2>5. faults' + retries' = faults + retries + 1
    BY <1>1, <2>1
  <2>6. Promise!Trouble
    BY <2>1, <2>2, <2>3, <2>4, <2>5 DEF Promise!Trouble, PStage, Place, Processed, Failed
  <2> QED
    BY <2>6 DEF Promise!Next
<1> QED
  BY <1>2, <1>3, <1>4, <1>5, <1>6 DEF BatchTrouble

\* A job does what the promise lets it do.
LEMMA JobPromise ==
  ASSUME QuietInv, NEW j \in Jobs, JobStep(j)
  PROVE  Promise!Next \/ UNCHANGED Promise!vars
<1>1. /\ j \in DOMAIN jobs /\ UNCHANGED <<storing, faults, retries>>
      /\ RowsWait \/ (JobOver(j) /\ RowSettles(jobs[j].notif))
  BY JobSteps DEF QuietInv
<1>2. CASE RowsWait
  BY <1>1, <1>2 DEF RowsWait, Promise!vars
<1>3. CASE JobOver(j) /\ RowSettles(jobs[j].notif)
  <2>1. /\ jobs[j].notif \in DOMAIN notif /\ jobs[j].notif \in Notifications /\ TypeOK
        /\ UNCHANGED chained
    BY <1>1, <1>3 DEF JobOver, QuietInv, DirectInv, RefersToRows, TypeOK, IsTable
  <2>2. Promise!OnDirectRoute(jobs[j].notif)
    BY <1>1, <1>3, ActiveOnRoute DEF JobOver
  <2> QED
    BY <1>1, <1>3, <2>1, <2>2, SettlePromise
<1> QED
  BY <1>1, <1>2, <1>3

\* Every step is a step of the promise, or a stutter.
LEMMA StepPromise == QuietInv /\ [Next]_vars => [Promise!Next]_Promise!vars
<1> SUFFICES ASSUME QuietInv, [Next]_vars PROVE Promise!Next \/ UNCHANGED Promise!vars
  OBVIOUS
<1>t. faults \in Nat /\ retries \in Nat
  BY DEF QuietInv, DirectInv, TypeOK
<1>1. ASSUME UNCHANGED <<notif, stage, chained, faults, retries>> PROVE UNCHANGED Promise!vars
  BY <1>1 DEF Promise!vars, PStage
<1>2. ASSUME NEW n \in Notifications, NEW k \in {"link", "change"}, StoreDirect(n, k)
      PROVE  Promise!Next
  <2> DEFINE row == [kind |-> k, route |-> "direct", batch |-> NoBatch, processed |-> FALSE, failed |-> FALSE]
  <2>1. /\ n \notin DOMAIN notif /\ notif' = Put(notif, n, row)
        /\ UNCHANGED <<stage, chained, faults, retries>>
    BY <1>2 DEF StoreDirect, batching, luck
  <2>2. row.batch = NoBatch /\ ~row.processed /\ ~row.failed
    OBVIOUS
  <2> HIDE DEF row
  <2>3. /\ DOMAIN notif' = DOMAIN notif \cup {n} /\ notif'[n] = row
        /\ \A m \in DOMAIN notif : notif'[m] = notif[m]
    BY <2>1 DEF Put
  <2>4. /\ Place' = [m \in DOMAIN Place \cup {n} |-> IF m = n THEN NoBatch ELSE Place[m]]
        /\ n \notin DOMAIN Place
    BY <2>1, <2>2, <2>3 DEF Place
  <2>5. Processed' = Processed /\ Failed' = Failed
    BY <2>1, <2>2, <2>3 DEF Processed, Failed
  <2>6. Promise!Accept(n)
    BY <2>1, <2>4, <2>5 DEF Promise!Accept, Place, Processed, Failed
  <2> QED
    BY <2>6 DEF Promise!Next
<1>3. ASSUME UNCHANGED <<notif, stage, chained>>,
             \/ faults' = faults + 1 /\ retries' = retries
             \/ retries' = retries + 1 /\ faults' = faults
      PROVE  Promise!Next
  <2>1. Promise!Trouble
    BY <1>t, <1>3 DEF Promise!Trouble
  <2> QED
    BY <2>1 DEF Promise!Next
<1>5. ASSUME NEW n \in Notifications, DispatchDirect(n) PROVE UNCHANGED Promise!vars
  BY <1>1, <1>5 DEF DispatchDirect, batching, luck
<1>6. ASSUME NEW n \in Notifications, IngestCrash(n) PROVE Promise!Next
  BY <1>3, <1>6 DEF IngestCrash, batching
<1>7. ASSUME NEW j \in Jobs, FailureBreaks(j) \/ WorkerCrash(j) \/ RetryFailedJob(j)
      PROVE  Promise!Next
  BY <1>3, <1>7 DEF FailureBreaks, WorkerCrash, RetryFailedJob, batching
<1>8. ASSUME NEW j \in Jobs, TimeRunsOut(j) PROVE UNCHANGED Promise!vars
  BY <1>1, <1>8 DEF TimeRunsOut, batching, luck
<1>9. ASSUME NEW b \in Batches, TimerExpires(b) PROVE UNCHANGED Promise!vars
  BY <1>1, <1>9 DEF TimerExpires, luck
<1>10. CASE UNCHANGED vars
  BY <1>1, <1>10 DEF vars, batching, luck
<1> QED
  BY <1>2, <1>5, <1>6, <1>7, <1>8, <1>9, <1>10, JobPromise, ChainedPromise, BatchPromise DEF Next, BatchStep

\* The direct route implements its promise: a document is sent, given up or moved once as long
\* as no job broke off and nothing was retried, whatever its jobs wait for.  A batch that is locked
\* gets nothing more, and takes on all that moved to it, unless a job breaks off in between.
THEOREM DirectKeepsPromise == Spec => KeepsPromise
<1>1. Spec => []QuietInv
  BY InitQuietInv, StepQuietInv, PTL DEF Spec
<1> QED
  BY <1>1, InitPromise, StepPromise, PTL DEF Spec, KeepsPromise, Promise!Spec

-----------------------------------------------------------------------------
(* The work that a job has left.                                             *)

\* What the property says of the jobs that stay, and of those that are new.
OldMoveOn ==
  \A j \in DOMAIN jobs \cap DOMAIN jobs' :
    \/ jobs'[j] = jobs[j] \/ faults' > faults \/ Released(j)
    \/ WorkLeft(jobs'[j]) \in 0..(WorkLeft(jobs[j]) - 1)
NewAccounted ==
  \A i \in DOMAIN jobs' \ DOMAIN jobs :
    \/ jobs'[i].notif \in storing \ storing' \/ retries' > retries
    \/ \E j \in DOMAIN jobs : Follows(i, j)

\* One step on within an attempt, or the next attempt after an error that may pass.
WithinAttempt(old, new) ==
  /\ new.errors = old.errors /\ new.step # "queued" /\ JobRank[new.step] < JobRank[old.step]
  /\ (old.step = "queued" /\ old.expired => new.step = "failing")
NextAttempt(old, new) ==
  /\ new.errors = old.errors + 1 /\ new.step = "queued"
  /\ ~old.expired /\ old.step \in {"running", "sent", "moving"}

\* Both bring down the work that is left, which is a natural number.
LEMMA WorkGoesDown ==
  ASSUME NEW old \in JobRow, NEW new \in JobRow, new.expired = old.expired,
         WithinAttempt(old, new) \/ NextAttempt(old, new)
  PROVE  WorkLeft(new) \in 0..(WorkLeft(old) - 1)
<1> DEFINE Rank(row) == IF row.expired /\ row.step = "queued" THEN 3 ELSE JobRank[row.step]
           Late(row) == IF row.expired THEN 0 ELSE 1
<1>1. /\ MaxErrors \in Nat /\ old.errors \in 0..MaxErrors /\ new.errors \in 0..MaxErrors
      /\ old.step \in Steps /\ new.step \in Steps /\ old.expired \in BOOLEAN
  BY ConstantsAssumption DEF JobRow, Steps
<1>2. Late(new) = Late(old) /\ Late(old) \in 0..1
  BY <1>1
<1>3. Rank(old) \in 0..7 /\ Rank(new) \in 0..7
  BY <1>1 DEF Steps, JobRank
<1>4. \/ new.errors = old.errors /\ Rank(new) < Rank(old)
      \/ new.errors = old.errors + 1 /\ Rank(new) < Rank(old) + 9
  <2>1. CASE WithinAttempt(old, new)
    <3>1. Rank(new) = JobRank[new.step]
      BY <2>1 DEF WithinAttempt
    <3>2. CASE old.step = "queued" /\ old.expired
      BY <2>1, <3>1, <3>2 DEF WithinAttempt, JobRank
    <3>3. CASE ~(old.step = "queued" /\ old.expired)
      BY <2>1, <3>1, <3>3 DEF WithinAttempt
    <3> QED
      BY <3>2, <3>3
  <2>2. CASE NextAttempt(old, new)
    BY <1>3, <2>2 DEF NextAttempt
  <2> QED
    BY <2>1, <2>2
<1>5. /\ WorkLeft(old) = 9 * (MaxErrors - old.errors) + Late(old) + Rank(old)
      /\ WorkLeft(new) = 9 * (MaxErrors - new.errors) + Late(new) + Rank(new)
  BY DEF WorkLeft
<1> HIDE DEF Rank, Late
<1> QED
  BY <1>1, <1>2, <1>3, <1>4, <1>5

\* A job of which only the step changes.
LEMMA GoOnDown ==
  ASSUME TypeOK, NEW j \in DOMAIN jobs, NEW step \in Steps \ {"queued"}, GoTo(j, step),
         JobRank[step] < JobRank[jobs[j].step],
         jobs[j].step = "queued" /\ jobs[j].expired => step = "failing"
  PROVE  OldMoveOn /\ NewAccounted
<1> DEFINE new == [jobs[j] EXCEPT !.step = step]
<1>1. jobs[j] \in JobRow /\ jobs \in [DOMAIN jobs -> JobRow]
  BY RowOfTable DEF TypeOK, IsTable
<1>2. jobs' = [jobs EXCEPT ![j] = new]
  BY DEF GoTo
<1>3. /\ new \in JobRow /\ new.expired = jobs[j].expired /\ new.errors = jobs[j].errors
      /\ new.step = step
  BY <1>1 DEF JobRow, Steps
<1> HIDE DEF new
<1>4. WithinAttempt(jobs[j], new)
  BY <1>3 DEF WithinAttempt
<1>5. WorkLeft(new) \in 0..(WorkLeft(jobs[j]) - 1)
  BY <1>1, <1>3, <1>4, WorkGoesDown
<1>6. DOMAIN jobs' = DOMAIN jobs /\ \A i \in DOMAIN jobs : jobs'[i] = IF i = j THEN new ELSE jobs[i]
  BY <1>2
<1> QED
  BY <1>5, <1>6 DEF OldMoveOn, NewAccounted

\* A job that waits ends, and the one that follows has waited once more.
LEMMA WaitDown ==
  ASSUME TypeOK, NEW j \in Jobs, At(j, "running"), WaitForDocument(j)
  PROVE  OldMoveOn /\ NewAccounted
<1> DEFINE done == [jobs[j] EXCEPT !.step = "done"]
           new == NewJob(jobs[j].notif, jobs[j].waits + 1)
<1>1. /\ j \in DOMAIN jobs /\ jobs[j].step = "running"
      /\ jobs[j] \in JobRow /\ jobs \in [DOMAIN jobs -> JobRow]
  BY RowOfTable DEF At, TypeOK, IsTable
<1>2. /\ done \in JobRow /\ done.expired = jobs[j].expired /\ done.errors = jobs[j].errors
      /\ done.step = "done"
  BY <1>1 DEF JobRow
<1>3. new.notif = jobs[j].notif /\ new.waits > jobs[j].waits
  BY <1>1, ConstantsAssumption DEF NewJob, JobRow
<1>4. PICK i \in Jobs \ DOMAIN jobs : jobs' = [Put(jobs, i, new) EXCEPT ![j].step = "done"]
  BY DEF WaitForDocument, NewJobs, FreeJobs
<1>5. jobs' = [k \in DOMAIN jobs \cup {i} |-> IF k = j THEN done ELSE IF k = i THEN new ELSE jobs[k]]
  BY <1>1, <1>4 DEF Put
<1> HIDE DEF done, new
<1>6. WithinAttempt(jobs[j], done)
  BY <1>1, <1>2 DEF WithinAttempt, JobRank
<1>7. WorkLeft(done) \in 0..(WorkLeft(jobs[j]) - 1)
  BY <1>1, <1>2, <1>6, WorkGoesDown
<1>8. OldMoveOn
  BY <1>5, <1>7 DEF OldMoveOn
<1>9. Follows(i, j)
  BY <1>1, <1>2, <1>3, <1>5 DEF Follows
<1>10. NewAccounted
  BY <1>1, <1>5, <1>9 DEF NewAccounted
<1> QED
  BY <1>8, <1>10

\* A job that is tried again has used up one error.
LEMMA ErrorDown ==
  ASSUME TypeOK, NEW j \in Jobs, TemporaryError(j)
  PROVE  OldMoveOn /\ NewAccounted
<1>1. /\ j \in DOMAIN jobs /\ jobs[j].step \in {"running", "sent", "moving"}
      /\ jobs[j] \in JobRow /\ jobs \in [DOMAIN jobs -> JobRow]
  BY RowOfTable DEF TemporaryError, At, TypeOK, IsTable
<1>2. CASE FailJob(j)
  BY <1>1, <1>2, GoOnDown DEF FailJob, JobRank, Steps
<1>3. CASE ~(jobs[j].errors + 1 >= MaxErrors \/ jobs[j].expired)
  <2> DEFINE new == [jobs[j] EXCEPT !.errors = @ + 1, !.step = "queued"]
  <2>1. jobs' = [jobs EXCEPT ![j] = new]
    BY <1>1, <1>3 DEF TemporaryError
  <2>e. jobs[j].errors + 1 \in 0..MaxErrors
    BY <1>1, <1>3, ConstantsAssumption DEF JobRow
  <2>2. /\ new \in JobRow /\ new.expired = jobs[j].expired /\ new.errors = jobs[j].errors + 1
        /\ new.step = "queued"
    BY <1>1, <2>e DEF JobRow
  <2> HIDE DEF new
  <2>3. NextAttempt(jobs[j], new)
    BY <1>1, <1>3, <2>2 DEF NextAttempt
  <2>4. WorkLeft(new) \in 0..(WorkLeft(jobs[j]) - 1)
    BY <1>1, <2>2, <2>3, WorkGoesDown
  <2>5. DOMAIN jobs' = DOMAIN jobs /\ \A i \in DOMAIN jobs : jobs'[i] = IF i = j THEN new ELSE jobs[i]
    BY <2>1
  <2> QED
    BY <2>4, <2>5 DEF OldMoveOn, NewAccounted
<1> QED
  BY <1>2, <1>3 DEF TemporaryError

\* Time that runs out takes the attempts away that are not needed for this one.
LEMMA TimeDown ==
  ASSUME TypeOK, NEW j \in Jobs, TimeRunsOut(j)
  PROVE  OldMoveOn /\ NewAccounted
<1> DEFINE new == [jobs[j] EXCEPT !.expired = TRUE]
<1>1. /\ j \in DOMAIN jobs /\ ~jobs[j].expired /\ jobs' = [jobs EXCEPT ![j] = new]
      /\ jobs[j] \in JobRow /\ jobs \in [DOMAIN jobs -> JobRow]
  BY RowOfTable DEF TimeRunsOut, TypeOK, IsTable
<1>2. /\ new.expired /\ new.step = jobs[j].step /\ new.errors = jobs[j].errors
      /\ jobs[j].step \in Steps /\ MaxErrors - jobs[j].errors \in Nat
  BY <1>1, ConstantsAssumption DEF JobRow, Steps
<1> HIDE DEF new
<1>3. JobRank[jobs[j].step] \in 0..7 /\ (jobs[j].step = "queued" => JobRank[jobs[j].step] = 7)
  BY <1>2 DEF JobRank, Steps
<1>4. WorkLeft(new) \in 0..(WorkLeft(jobs[j]) - 1)
  BY <1>1, <1>2, <1>3 DEF WorkLeft
<1>5. DOMAIN jobs' = DOMAIN jobs /\ \A i \in DOMAIN jobs : jobs'[i] = IF i = j THEN new ELSE jobs[i]
  BY <1>1
<1> QED
  BY <1>4, <1>5 DEF OldMoveOn, NewAccounted

\* A job that finds the lock taken is released, or, if it is late, comes nearer to its end.
LEMMA ReleaseDown ==
  ASSUME TypeOK, NEW j \in Jobs, DocumentLocked(j)
  PROVE  OldMoveOn /\ NewAccounted
<1> DEFINE new == [jobs[j] EXCEPT !.step = "queued"]
<1>1. /\ j \in DOMAIN jobs /\ jobs[j].step = "running" /\ jobs' = [jobs EXCEPT ![j] = new]
      /\ jobs[j] \in JobRow /\ jobs \in [DOMAIN jobs -> JobRow]
  BY RowOfTable DEF DocumentLocked, At, GoTo, TypeOK, IsTable
<1>2. /\ new.expired = jobs[j].expired /\ new.step = "queued" /\ new.errors = jobs[j].errors
      /\ MaxErrors - jobs[j].errors \in Nat
  BY <1>1, ConstantsAssumption DEF JobRow
<1>3. jobs[j].expired \/ Released(j)
  BY <1>1 DEF Released
<1> HIDE DEF new
<1>4. jobs[j].expired => WorkLeft(new) \in 0..(WorkLeft(jobs[j]) - 1)
  BY <1>1, <1>2 DEF WorkLeft, JobRank
<1>5. DOMAIN jobs' = DOMAIN jobs /\ \A i \in DOMAIN jobs : jobs'[i] = IF i = j THEN new ELSE jobs[i]
  BY <1>1
<1> QED
  BY <1>3, <1>4, <1>5 DEF OldMoveOn, NewAccounted

\* The move to a batch also remembers the batch.
LEMMA MoveDown ==
  ASSUME TypeOK, NEW j \in Jobs, MoveToBatch(j)
  PROVE  OldMoveOn /\ NewAccounted
<1>1. PICK b \in Batches : jobs' = [jobs EXCEPT ![j].batch = b, ![j].step = "moved"]
  BY DEF MoveToBatch
<1> DEFINE new == [jobs[j] EXCEPT !.batch = b, !.step = "moved"]
<1>2. /\ j \in DOMAIN jobs /\ jobs[j].step = "moving" /\ jobs' = [jobs EXCEPT ![j] = new]
      /\ jobs[j] \in JobRow /\ jobs \in [DOMAIN jobs -> JobRow]
  BY <1>1, RowOfTable DEF MoveToBatch, At, TypeOK, IsTable
<1>3. /\ new \in JobRow /\ new.expired = jobs[j].expired /\ new.errors = jobs[j].errors
      /\ new.step = "moved"
  BY <1>2 DEF JobRow
<1> HIDE DEF new
<1>4. WithinAttempt(jobs[j], new)
  BY <1>2, <1>3 DEF WithinAttempt, JobRank
<1>5. WorkLeft(new) \in 0..(WorkLeft(jobs[j]) - 1)
  BY <1>2, <1>3, <1>4, WorkGoesDown
<1>6. DOMAIN jobs' = DOMAIN jobs /\ \A i \in DOMAIN jobs : jobs'[i] = IF i = j THEN new ELSE jobs[i]
  BY <1>2
<1> QED
  BY <1>5, <1>6 DEF OldMoveOn, NewAccounted

\* Each step of a job brings its work down.
LEMMA JobStepDown ==
  ASSUME TypeOK, NEW j \in Jobs, JobStep(j)
  PROVE  OldMoveOn /\ NewAccounted
<1>1. CASE StartJob(j)
  <2>1. j \in DOMAIN jobs /\ jobs[j].step = "queued" /\ ~jobs[j].expired
    BY <1>1 DEF StartJob, At
  <2>2. GoTo(j, "done") \/ GoTo(j, "running")
    BY <1>1 DEF StartJob
  <2> QED
    BY <2>1, <2>2, GoOnDown DEF JobRank, Steps
<1>2. CASE RefuseJob(j) \/ PermanentError(j)
  BY <1>2, GoOnDown DEF RefuseJob, PermanentError, FailJob, At, JobRank, Steps
<1>3. CASE DocumentSent(j) \/ MarkProcessed(j) \/ StartTimer(j)
  BY <1>3, GoOnDown DEF DocumentSent, MarkProcessed, StartTimer, At, JobRank, Steps
<1>4. CASE NotInCorsa(j) \/ UploadIncomplete(j)
  <2>1. At(j, "running") /\ j \in DOMAIN jobs /\ jobs[j].step = "running"
    BY <1>4 DEF NotInCorsa, UploadIncomplete, At
  <2>2. CASE GoTo(j, "moving") \/ FailJob(j)
    BY <2>1, <2>2, GoOnDown DEF FailJob, JobRank, Steps
  <2> QED
    BY <1>4, <2>1, <2>2, WaitDown DEF NotInCorsa, UploadIncomplete
<1>5. CASE RecordFailure(j) \/ StoreFailedJob(j)
  BY <1>5, GoOnDown DEF RecordFailure, StoreFailedJob, At, JobRank, Steps
<1>6. CASE DeleteJob(j)
  BY <1>6 DEF DeleteJob, Drop, OldMoveOn, NewAccounted
<1> QED
  BY <1>1, <1>2, <1>3, <1>4, <1>5, <1>6, ReleaseDown, ErrorDown, MoveDown, TimeDown DEF JobStep

\* A new job is of an ingest or a retry, when it does not follow another job.
LEMMA NewJobAccounted ==
  ASSUME NEW n, NEW waits, NEW i \in Jobs \ DOMAIN jobs, jobs' = Put(jobs, i, NewJob(n, waits)),
         n \in storing \ storing' \/ retries' > retries
  PROVE  OldMoveOn /\ NewAccounted
<1>1. /\ DOMAIN jobs' = DOMAIN jobs \cup {i} /\ jobs'[i] = NewJob(n, waits)
      /\ \A j \in DOMAIN jobs : jobs'[j] = jobs[j]
  BY DEF Put
<1>2. jobs'[i].notif = n
  BY <1>1 DEF NewJob
<1> QED
  BY <1>1, <1>2 DEF OldMoveOn, NewAccounted

\* The work for a document comes to an end, but for jobs that are released while their time
\* lasts: whatever Corsa, the lock or the register answer, no job goes round and round.
THEOREM JobsMoveOnHolds == Spec => JobsMoveOn
<1>1. ASSUME TypeOK, Next PROVE OldMoveOn /\ NewAccounted
  <2>0. faults \in Nat /\ retries \in Nat
    BY <1>1 DEF TypeOK
  <2>s. CASE UNCHANGED jobs
    BY <2>s DEF OldMoveOn, NewAccounted
  <2>1. ASSUME NEW n \in Notifications, DispatchDirect(n) PROVE OldMoveOn /\ NewAccounted
    <3>1. n \in storing \ storing'
      BY <2>1 DEF DispatchDirect
    <3>2. PICK i \in Jobs \ DOMAIN jobs : jobs' = Put(jobs, i, NewJob(n, 0))
      BY <2>1 DEF DispatchDirect, NewJobs, FreeJobs
    <3> QED
      BY <3>1, <3>2, NewJobAccounted
  <2>2. ASSUME NEW j \in Jobs, WorkerCrash(j) \/ FailureBreaks(j) PROVE OldMoveOn /\ NewAccounted
    <3>1. faults' > faults /\ DOMAIN jobs' \subseteq DOMAIN jobs
      BY <2>0, <2>2 DEF WorkerCrash, FailureBreaks, GoTo, Drop
    <3> QED
      BY <3>1 DEF OldMoveOn, NewAccounted
  <2>3. ASSUME NEW j \in Jobs, RetryFailedJob(j) PROVE OldMoveOn /\ NewAccounted
    <3>1. retries' > retries
      BY <2>0, <2>3 DEF RetryFailedJob
    <3>2. PICK i \in Jobs \ DOMAIN jobs : jobs' = Put(jobs, i, NewJob(jobs[j].notif, jobs[j].waits))
      BY <2>3 DEF RetryFailedJob, NewJobs, FreeJobs
    <3> QED
      BY <3>1, <3>2, NewJobAccounted
  <2>4. ASSUME NEW n \in Notifications, NEW k \in {"link", "change"}, StoreDirect(n, k) \/ IngestCrash(n)
        PROVE  UNCHANGED jobs
    BY <2>4 DEF StoreDirect, IngestCrash
  <2>5. ASSUME NEW b \in Batches, TimerExpires(b) \/ BatchStep(b) \/ BatchTrouble(b) PROVE UNCHANGED jobs
    BY <2>5 DEF TimerExpires, BatchStep, LockBatch, BuildChain, RunChained, FailChained, BatchTrouble,
                StopChain, DispatchCrash, ChainCrash, RetryChained
  <2> QED
    BY <1>1, <2>s, <2>1, <2>2, <2>3, <2>4, <2>5, JobStepDown, TimeDown DEF Next
<1>2. TypeOK /\ [Next]_vars => [OldMoveOn /\ NewAccounted]_vars
  BY <1>1
<1>3. [][OldMoveOn /\ NewAccounted]_vars <=> JobsMoveOn
  BY PTL DEF JobsMoveOn, OldMoveOn, NewAccounted
<1> QED
  BY <1>2, <1>3, DirectTypesHold, PTL DEF Spec
=============================================================================
